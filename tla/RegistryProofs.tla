--------------------------- MODULE RegistryProofs ---------------------------
(***************************************************************************)
(* What the registry promises, for any urls, names, subscribers and any     *)
(* depth of calls from inside handlers, and what it leans on of link.ts.    *)
(* The invariant is stated of values (e the entries created, m the map of   *)
(* them, g the subscriptions, s the stack), so that a step can be taken     *)
(* apart into the functions it is made of.                                  *)
(***************************************************************************)
EXTENDS Registry, FiniteSetTheorems, TLAPS

\* The phases of a subscribe call, and of a report.
Replay == {"replay", "wake", "return"}

Phases == {"status", "reconnect", "judge", "link", "arm"} \cup Replay

EntryType ==
  [url : Urls, closed : BOOLEAN, status : Statuses, revive : BOOLEAN,
   subs : SUBSET Regs, count : [Names -> Int], wired : SUBSET Names, linger : BOOLEAN,
   loose : BOOLEAN, track : LinkTrack, link : Links, deadline : Int,
   strays : SUBSET Int, down : BOOLEAN]

RegType ==
  [at : {"new", "in", "out"}, entry : Nat, names : SUBSET Names,
   status : Statuses \cup {"none"}, link : Links, owed : BOOLEAN, stale : BOOLEAN]

TurnType ==
  [entry : Nat, phase : Phases, what : Statuses \cup Links, todo : SUBSET Regs,
   inside : BOOLEAN, after : {"none", "nudge", "revive", "open"}]

Turns(s) == {s[k] : k \in DOMAIN s}

Shapes(e, m, g, s) ==
  /\ e \in Seq(EntryType) /\ m \in [Urls -> DOMAIN e \cup {NoEntry}]
  /\ g \in [Regs -> RegType] /\ s \in Seq(TurnType)

-----------------------------------------------------------------------------
(* The inductive invariant *)

\* An entry's subscribers are the subscriptions that name it and are not over.
Subscribed(e, g) ==
  \A r \in Regs :
    /\ \A i \in DOMAIN e : r \in e[i].subs <=> g[r].at = "in" /\ g[r].entry = i
    /\ g[r].at # "new" => g[r].entry \in DOMAIN e
    /\ g[r].at = "out" =>
         g[r].status = "none" /\ g[r].link = "none" /\ ~g[r].owed /\ ~g[r].stale

Wanting(e, g, i, n) == {r \in e[i].subs : n \in g[r].names}

Counted(e, g) ==
  \A i \in DOMAIN e :
    /\ IsFiniteSet(e[i].subs)
    /\ \A n \in Names : e[i].count[n] = Cardinality(Wanting(e, g, i, n))
    /\ e[i].wired = {n \in Names : e[i].count[n] > 0}

Mapping(e, m) ==
  /\ \A u \in Urls : m[u] # NoEntry => e[m[u]].url = u
  /\ \A i \in DOMAIN e : m[e[i].url] = i <=> ~e[i].closed
  /\ \A i \in DOMAIN e : ~e[i].closed => e[i].subs # {} \/ e[i].linger

\* A report that its connection waits for, to revive or to open.
Goes(t) == t.after \in {"revive", "open"}

\* A report tells what is the case, and its verdict is the one of the track: the
\* calls of handlers in the middle of it have not made it stale.  A subscribe
\* call's subscriber is there until it returns.
TurnOK(e, t) ==
  /\ t.entry \in DOMAIN e
  /\ Goes(t) => ~e[t.entry].revive /\ e[t.entry].status = "retrying"
  /\ t.phase = "status" => t.what = e[t.entry].status
  /\ t.phase = "link" => /\ t.what = e[t.entry].link
                         /\ t.what = LinkAt(e[t.entry].track, Now)
  /\ t.phase \in {"judge", "arm"} => t.todo = {}
  /\ t.phase \in Replay => t.todo \subseteq e[t.entry].subs
  /\ t.phase = "replay" => t.what \in Links

\* Only the turn that began with the stack empty goes on to the connection.
Bottom(s) == \A k \in DOMAIN s : Goes(s[k]) => k = Len(s)

\* A nudge from inside a handler opens an entry in backoff, and no report of that
\* entry's status is under way.
BackingOff(e, s) ==
  \A i \in DOMAIN e :
    /\ e[i].track.status = e[i].status
    /\ e[i].revive => e[i].status = "retrying"
    /\ e[i].revive =>
         \A t \in Turns(s) : t.entry = i => t.phase \notin {"status", "reconnect"}

Turning(e, s) ==
  /\ \A t \in Turns(s) : TurnOK(e, t)
  /\ Bottom(s) /\ BackingOff(e, s)

\* Who has not been told is still to be told, by a turn under way.
ToTell(s, i, phase, r) == \E t \in Turns(s) : t.entry = i /\ t.phase = phase /\ r \in t.todo

ToReplay(s, i, r) ==
  \E t \in Turns(s) : t.entry = i /\ t.phase = "replay" /\ t.what # "none" /\ r \in t.todo

\* What subscriber r of entry i makes of the verdict.
KnowsLink(e, g, s, i, r) ==
  \/ e[i].link = "none" \/ g[r].link = e[i].link \/ g[r].stale
  \/ ToTell(s, i, "link", r) \/ ToReplay(s, i, r)

Knowing(e, g, s) ==
  \A i \in DOMAIN e : \A r \in e[i].subs :
    /\ g[r].status = e[i].status \/ ToTell(s, i, "status", r)
    /\ KnowsLink(e, g, s, i, r)

Reporting(s, i) == \E t \in Turns(s) : t.entry = i /\ t.phase = "status"

Owing(e, g, s) ==
  \A i \in DOMAIN e :
    /\ e[i].status = "live" /\ e[i].down => Reporting(s, i)
    /\ \A r \in e[i].subs : g[r].owed =>
         \/ e[i].down
         \/ e[i].status = "retrying" /\ Reporting(s, i)
         \/ ToTell(s, i, "reconnect", r)

Sound(e, m, g, s) ==
  /\ Shapes(e, m, g, s)
  /\ Subscribed(e, g) /\ Counted(e, g) /\ Mapping(e, m)
  /\ Turning(e, s) /\ Knowing(e, g, s) /\ Owing(e, g, s)

IInv == Sound(entry, entries, reg, stack)

-----------------------------------------------------------------------------
(* Stacks, as sets of turns *)

LEMMA Pushed ==
  ASSUME NEW s \in Seq(TurnType), NEW t \in TurnType
  PROVE  /\ <<t>> \o s \in Seq(TurnType)
         /\ Turns(<<t>> \o s) = {t} \cup Turns(s)
         /\ Len(<<t>> \o s) = Len(s) + 1
         /\ (<<t>> \o s)[1] = t
         /\ \A k \in DOMAIN s : (<<t>> \o s)[k + 1] = s[k]
<1> DEFINE p == <<t>> \o s
<1>1. /\ p \in Seq(TurnType) /\ Len(p) = Len(s) + 1 /\ p[1] = t
      /\ \A k \in 2..Len(s) + 1 : p[k] = s[k - 1]
  OBVIOUS
<1>2. DOMAIN p = 1..Len(s) + 1 /\ DOMAIN s = 1..Len(s) /\ Len(s) \in Nat
  BY <1>1
<1> HIDE DEF p
<1>3. \A k \in DOMAIN s : p[k + 1] = s[k]
  BY <1>1, <1>2
<1>4. Turns(p) = {t} \cup Turns(s)
  <2>1. ASSUME NEW x \in Turns(p) PROVE x \in {t} \cup Turns(s)
    <3>1. PICK k \in 1..Len(s) + 1 : x = p[k]
      BY <1>2, <2>1 DEF Turns
    <3>2. CASE k = 1
      BY <1>1, <3>1, <3>2
    <3>3. CASE k # 1
      BY <1>1, <1>2, <3>1, <3>3 DEF Turns
    <3>4. QED
      BY <3>2, <3>3
  <2>2. ASSUME NEW x \in Turns(s) PROVE x \in Turns(p)
    BY <1>2, <1>3, <2>2 DEF Turns
  <2>3. t \in Turns(p)
    BY <1>1, <1>2 DEF Turns
  <2>4. QED
    BY <2>1, <2>2, <2>3
<1>5. QED
  BY <1>1, <1>3, <1>4 DEF p

LEMMA Popped ==
  ASSUME NEW s \in Seq(TurnType), s # << >>
  PROVE  /\ Tail(s) \in Seq(TurnType) /\ Head(s) \in TurnType
         /\ Turns(s) = {Head(s)} \cup Turns(Tail(s))
         /\ Len(Tail(s)) = Len(s) - 1 /\ Len(s) \in Nat \ {0} /\ DOMAIN s = 1..Len(s)
         /\ Head(s) = s[1]
         /\ \A k \in DOMAIN Tail(s) : Tail(s)[k] = s[k + 1]
<1> DEFINE q == Tail(s)
<1>1. /\ q \in Seq(TurnType) /\ Head(s) = s[1] /\ Len(s) \in Nat \ {0} /\ DOMAIN s = 1..Len(s)
      /\ Len(q) = Len(s) - 1 /\ DOMAIN q = 1..Len(s) - 1 /\ s[1] \in TurnType
      /\ \A k \in 1..Len(s) - 1 : q[k] = s[k + 1]
  OBVIOUS
<1> HIDE DEF q
<1>2. Turns(s) = {s[1]} \cup Turns(q)
  <2>1. ASSUME NEW x \in Turns(s) PROVE x \in {s[1]} \cup Turns(q)
    <3>1. PICK k \in 1..Len(s) : x = s[k]
      BY <1>1, <2>1 DEF Turns
    <3>2. CASE k = 1
      BY <3>1, <3>2
    <3>3. CASE k # 1
      <4>1. k - 1 \in DOMAIN q /\ q[k - 1] = s[k]
        BY <1>1, <3>3
      <4>2. QED
        BY <3>1, <4>1 DEF Turns
    <3>4. QED
      BY <3>2, <3>3
  <2>2. ASSUME NEW x \in Turns(q) PROVE x \in Turns(s)
    BY <1>1, <2>2 DEF Turns
  <2>3. s[1] \in Turns(s)
    BY <1>1 DEF Turns
  <2>4. QED
    BY <2>1, <2>2, <2>3
<1>3. QED
  BY <1>1, <1>2 DEF q

LEMMA Updated ==
  ASSUME NEW e \in Seq(EntryType), NEW i \in DOMAIN e, NEW x \in EntryType,
         NEW n, n = [e EXCEPT ![i] = x]
  PROVE  /\ n \in Seq(EntryType) /\ DOMAIN n = DOMAIN e /\ n[i] = x
         /\ \A j \in DOMAIN e : j # i => n[j] = e[j]
  OBVIOUS

-----------------------------------------------------------------------------
(* What a step leaves alone *)

Same(e, n, fields) == /\ DOMAIN n = DOMAIN e
                      /\ \A i \in DOMAIN e : \A f \in fields : n[i][f] = e[i][f]

\* Subscriptions that are told something stay where they are.
OnlyTold(g, h) ==
  \A r \in Regs : /\ h[r].at = g[r].at /\ h[r].entry = g[r].entry /\ h[r].names = g[r].names
                  /\ g[r].at # "in" => h[r] = g[r]

LEMMA NobodyTold == \A g : OnlyTold(g, g)
  BY DEF OnlyTold

LEMMA Entries ==
  ASSUME NEW e \in Seq(EntryType), NEW i \in DOMAIN e
  PROVE  e[i] \in EntryType /\ e[i].subs \subseteq Regs
<1>1. e[i] \in EntryType
  OBVIOUS
<1>2. QED
  BY <1>1 DEF EntryType

LEMMA CountsStay ==
  ASSUME NEW e, NEW n, NEW g, NEW h, Same(e, n, {"subs", "count", "wired"}), OnlyTold(g, h),
         e \in Seq(EntryType), Subscribed(e, g), Counted(e, g)
  PROVE  Subscribed(n, h) /\ Counted(n, h)
<1>1. Subscribed(n, h)
  BY DEF Subscribed, Same, OnlyTold
<1>2. ASSUME NEW i \in DOMAIN n PROVE
        /\ IsFiniteSet(n[i].subs)
        /\ \A k \in Names : n[i].count[k] = Cardinality(Wanting(n, h, i, k))
        /\ n[i].wired = {k \in Names : n[i].count[k] > 0}
  <2>1. i \in DOMAIN e /\ n[i].subs = e[i].subs /\ n[i].count = e[i].count
        /\ n[i].wired = e[i].wired
    BY <1>2 DEF Same
  <2>2. \A k \in Names : Wanting(n, h, i, k) = Wanting(e, g, i, k)
    BY <2>1, Entries DEF Wanting, OnlyTold
  <2>3. QED
    BY <2>1, <2>2 DEF Counted
<1>3. QED
  BY <1>1, <1>2 DEF Counted

LEMMA MappingStays ==
  ASSUME NEW e, NEW n, NEW m \in [Urls -> DOMAIN e \cup {NoEntry}],
         Same(e, n, {"url", "closed", "subs", "linger"}), Mapping(e, m)
  PROVE  Mapping(n, m)
  BY DEF Mapping, Same

LEMMA NoTurns == << >> \in Seq(TurnType) /\ Turns(<< >>) = {} /\ Bottom(<< >>)
  BY DEF Turns, Bottom

\* A track that has heard one more report is a track, and tells the status.
LEMMA TrackTypes ==
  ASSUME NEW track \in LinkTrack, NEW status \in Statuses
  PROVE  /\ TrackStatus(track, status, Now) \in LinkTrack
         /\ TrackStatus(track, status, Now).status = status
         /\ LinkAt(track, Now) \in Links
         /\ DeadlineIn(track) \in Int
<1>1. TrackStatus(track, status, Now) \in LinkTrack
  BY DEF TrackStatus, LinkTrack, Now
<1>2. LinkAt(track, Now) \in Links
  BY DEF LinkAt, Links
<1>3. DeadlineIn(track) \in Int
  <2>1. NextDeadline(track, Now) \subseteq Int
    BY LinkAssumption DEF NextDeadline, LinkTrack
  <2>2. QED
    BY <2>1 DEF DeadlineIn, Off
<1>4. QED
  BY <1>1, <1>2, <1>3 DEF TrackStatus

\* What is not named here - the timers, the revival, whether it is closed - no
\* subscriber sees: a step that changes nothing else keeps the rest.
LEMMA QuietSound ==
  ASSUME NEW e, NEW n \in Seq(EntryType), NEW m, NEW p \in [Urls -> DOMAIN n \cup {NoEntry}],
         NEW g, NEW s, Sound(e, m, g, s),
         Same(e, n, {"status", "subs", "count", "wired", "link", "down"}),
         Mapping(n, p),
         \A i \in DOMAIN e :
           /\ n[i].track.status = e[i].track.status
           /\ (\E t \in Turns(s) : t.entry = i) => n[i].track = e[i].track
           /\ n[i].revive => \/ e[i].revive
                             \/ e[i].status = "retrying" /\ \A t \in Turns(s) : t.entry # i
  PROVE  Sound(n, p, g, s)
<1>1. /\ DOMAIN n = DOMAIN e
      /\ \A i \in DOMAIN e : /\ n[i].status = e[i].status /\ n[i].subs = e[i].subs
                             /\ n[i].link = e[i].link /\ n[i].down = e[i].down
  BY DEF Same
<1>2. Subscribed(n, g) /\ Counted(n, g)
  <2>1. Same(e, n, {"subs", "count", "wired"})
    BY DEF Same
  <2>2. e \in Seq(EntryType)
    BY DEF Sound, Shapes
  <2>3. QED
    BY <2>1, <2>2, CountsStay, NobodyTold DEF Sound
<1>3. Turning(n, s)
  <2>1. ASSUME NEW t \in Turns(s) PROVE TurnOK(n, t)
    BY <1>1, <2>1 DEF Sound, Turning, TurnOK
  <2>2. BackingOff(n, s)
    BY <1>1 DEF Sound, Turning, BackingOff
  <2>3. QED
    BY <2>1, <2>2 DEF Sound, Turning
<1>4. Knowing(n, g, s) /\ Owing(n, g, s)
  BY <1>1 DEF Sound, Knowing, KnowsLink, Owing
<1>5. QED
  BY <1>2, <1>3, <1>4 DEF Sound, Shapes

LEMMA BottomPushed ==
  ASSUME NEW s \in Seq(TurnType), Bottom(s), NEW t \in TurnType, Goes(t) => s = << >>
  PROVE  Bottom(<<t>> \o s)
<1> DEFINE p == <<t>> \o s
<1>1. /\ p \in Seq(TurnType) /\ Len(p) = Len(s) + 1 /\ p[1] = t
      /\ \A k \in DOMAIN s : p[k + 1] = s[k]
  BY Pushed
<1> HIDE DEF p
<1>2. DOMAIN p = 1..Len(s) + 1 /\ DOMAIN s = 1..Len(s) /\ Len(s) \in Nat
  BY <1>1
<1>3. ASSUME NEW k \in DOMAIN p, Goes(p[k]) PROVE k = Len(p)
  <2>1. CASE k = 1
    BY <1>1, <1>3, <2>1
  <2>2. CASE k # 1
    <3>1. k - 1 \in DOMAIN s /\ (k - 1) + 1 = k
      BY <1>2, <2>2
    <3>2. Goes(s[k - 1])
      BY <1>1, <1>3, <3>1
    <3>3. k - 1 = Len(s)
      BY <3>1, <3>2 DEF Bottom
    <3>4. QED
      BY <1>1, <1>2, <3>3
  <2>3. QED
    BY <2>1, <2>2
<1>4. QED
  BY <1>3 DEF Bottom, p

-----------------------------------------------------------------------------
(* A report *)

LEMMA ReportSound ==
  ASSUME NEW e, NEW m, NEW g, NEW s, Sound(e, m, g, s),
         NEW i \in DOMAIN e, NEW status \in Statuses, NEW after \in {"none", "revive", "open"},
         ~e[i].revive,
         after # "none" => s = << >> /\ status = "retrying",
         \A t \in Turns(s) : t.entry = i =>
           /\ ~Goes(t) /\ t.phase \notin {"status", "reconnect"}
           /\ e[i].status = "retrying" /\ status = "connecting"
  PROVE  LET n == Reported(e, i, status)
         IN  Sound(n, m, g, <<StatusTurn(n, i, after)>> \o s)
<1> DEFINE x == [e[i] EXCEPT !.status = status, !.track = TrackStatus(@, status, Now)]
           n == Reported(e, i, status)
           t == StatusTurn(n, i, after)
           p == <<t>> \o s
<1>1. e \in Seq(EntryType) /\ e[i] \in EntryType /\ s \in Seq(TurnType)
  BY DEF Sound, Shapes
<1>2. x \in EntryType /\ x.track.status = status
  BY <1>1, TrackTypes DEF EntryType
<1>3. n = [e EXCEPT ![i] = x]
  BY DEF Reported
<1>4. /\ n \in Seq(EntryType) /\ DOMAIN n = DOMAIN e /\ n[i] = x
      /\ \A j \in DOMAIN e : j # i => n[j] = e[j]
  BY <1>1, <1>2, <1>3, Updated
<1>5. /\ x.url = e[i].url /\ x.closed = e[i].closed /\ x.revive = e[i].revive
      /\ x.subs = e[i].subs /\ x.count = e[i].count /\ x.wired = e[i].wired
      /\ x.linger = e[i].linger /\ x.link = e[i].link /\ x.down = e[i].down
      /\ x.status = status /\ x.track = TrackStatus(e[i].track, status, Now)
  BY <1>1 DEF EntryType
<1> HIDE DEF x, n
<1>6. /\ t \in TurnType /\ t.entry = i /\ t.phase = "status" /\ t.what = status
      /\ t.todo = e[i].subs /\ t.after = after
  <2>1. i \in Nat /\ e[i].subs \subseteq Regs
    BY <1>1 DEF EntryType
  <2>2. QED
    BY <1>4, <1>5, <2>1 DEF StatusTurn, Turn, TurnType, Phases
<1> HIDE DEF t
<1>7. /\ p \in Seq(TurnType) /\ Turns(p) = {t} \cup Turns(s) /\ Len(p) = Len(s) + 1
      /\ p[1] = t /\ \A k \in DOMAIN s : p[k + 1] = s[k]
  BY <1>1, <1>6, Pushed
<1> HIDE DEF p
<1>8. Subscribed(n, g) /\ Counted(n, g) /\ Mapping(n, m)
  <2>1. /\ Same(e, n, {"subs", "count", "wired"})
        /\ Same(e, n, {"url", "closed", "subs", "linger"})
    BY <1>4, <1>5 DEF Same
  <2>2. QED
    <3>1. /\ Subscribed(e, g) /\ Counted(e, g) /\ OnlyTold(g, g) /\ Mapping(e, m)
          /\ m \in [Urls -> DOMAIN e \cup {NoEntry}]
      BY NobodyTold DEF Sound, Shapes
    <3>2. Subscribed(n, g) /\ Counted(n, g)
      BY <1>1, <2>1, <3>1, CountsStay
    <3>3. Mapping(n, m)
      BY <2>1, <3>1, MappingStays
    <3>4. QED
      BY <3>2, <3>3
<1>9. Turning(n, p)
  <2>1. TurnOK(n, t)
    BY <1>4, <1>5, <1>6 DEF TurnOK, Goes, Replay
  <2>2. ASSUME NEW u \in Turns(s) PROVE TurnOK(n, u)
    <3>1. TurnOK(e, u)
      BY <2>2 DEF Sound, Turning
    <3>2. CASE u.entry # i
      BY <1>4, <3>1, <3>2 DEF TurnOK
    <3>3. CASE u.entry = i
      <4>1. e[i].track \in LinkTrack /\ e[i].track.status = "retrying" /\ status = "connecting"
        BY <1>1, <2>2, <3>3 DEF EntryType, Sound, Turning, BackingOff
      <4>2. LinkAt(x.track, Now) = LinkAt(e[i].track, Now)
        BY <1>5, <4>1 DEF LinkAt, TrackStatus, LinkTrack
      <4>3. QED
        BY <1>4, <1>5, <2>2, <3>1, <3>3, <4>2 DEF TurnOK
    <3>4. QED
      BY <3>2, <3>3
  <2>3. Bottom(p)
    <3>1. Bottom(s) /\ (Goes(t) => s = << >>)
      BY <1>6 DEF Sound, Turning, Goes
    <3>2. QED
      BY <1>1, <1>6, <3>1, BottomPushed DEF p
  <2>4. BackingOff(n, p)
    <3>1. \A j \in DOMAIN n : n[j].track.status = n[j].status
      BY <1>2, <1>4, <1>5 DEF Sound, Turning, BackingOff
    <3>2. \A j \in DOMAIN n : n[j].revive => j # i /\ n[j] = e[j]
      BY <1>4, <1>5
    <3>3. QED
      BY <1>4, <1>6, <1>7, <3>1, <3>2 DEF Sound, Turning, BackingOff
  <2>5. QED
    BY <1>7, <2>1, <2>2, <2>3, <2>4 DEF Turning
<1>10. Knowing(n, g, p)
  <2>1. ASSUME NEW j \in DOMAIN n, NEW r \in n[j].subs
        PROVE  /\ g[r].status = n[j].status \/ ToTell(p, j, "status", r)
               /\ KnowsLink(n, g, p, j, r)
    <3>1. r \in e[j].subs /\ n[j].link = e[j].link
      BY <1>4, <1>5, <2>1
    <3>2. /\ \A phase : ToTell(s, j, phase, r) => ToTell(p, j, phase, r)
          /\ ToReplay(s, j, r) => ToReplay(p, j, r)
      BY <1>7 DEF ToTell, ToReplay
    <3>3. j = i => ToTell(p, j, "status", r)
      BY <1>6, <1>7, <3>1 DEF ToTell
    <3>4. QED
      BY <1>4, <3>1, <3>2, <3>3 DEF Sound, Knowing, KnowsLink
  <2>2. QED
    BY <2>1 DEF Knowing
<1>11. Owing(n, g, p)
  <2>1. ASSUME NEW j \in DOMAIN n PROVE n[j].status = "live" /\ n[j].down => Reporting(p, j)
    BY <1>4, <1>6, <1>7 DEF Sound, Owing, Reporting
  <2>2. ASSUME NEW j \in DOMAIN n, NEW r \in n[j].subs, g[r].owed
        PROVE  \/ n[j].down
               \/ n[j].status = "retrying" /\ Reporting(p, j)
               \/ ToTell(p, j, "reconnect", r)
    <3>1. r \in e[j].subs /\ n[j].down = e[j].down
      BY <1>4, <1>5, <2>2
    <3>2. \/ e[j].down
          \/ e[j].status = "retrying" /\ Reporting(s, j)
          \/ ToTell(s, j, "reconnect", r)
      BY <1>4, <2>2, <3>1 DEF Sound, Owing
    <3>3. ~(Reporting(s, i) \/ ToTell(s, i, "reconnect", r))
      BY DEF Reporting, ToTell
    <3>4. CASE j = i
      BY <3>1, <3>2, <3>3, <3>4
    <3>5. CASE j # i
      BY <1>4, <1>7, <3>1, <3>2, <3>5 DEF Reporting, ToTell
    <3>6. QED
      BY <3>4, <3>5
  <2>3. QED
    BY <2>1, <2>2 DEF Owing
<1>12. QED
  BY <1>1, <1>4, <1>7, <1>8, <1>9, <1>10, <1>11 DEF Sound, Shapes, n, p, t

-----------------------------------------------------------------------------
(* The turn on top *)

LEMMA Replaced ==
  ASSUME NEW s \in Seq(TurnType), s # << >>, Bottom(s),
         NEW t \in TurnType, t.after = Head(s).after
  PROVE  /\ <<t>> \o Tail(s) \in Seq(TurnType)
         /\ \A u : u \in Turns(<<t>> \o Tail(s)) <=> u = t \/ u \in Turns(Tail(s))
         /\ \A u : u \in Turns(s) <=> u = Head(s) \/ u \in Turns(Tail(s))
         /\ Bottom(<<t>> \o Tail(s))
<1> DEFINE q == Tail(s)
           p == <<t>> \o q
<1>1. /\ q \in Seq(TurnType) /\ Turns(s) = {Head(s)} \cup Turns(q) /\ Head(s) = s[1]
      /\ Len(q) = Len(s) - 1 /\ Len(s) \in Nat \ {0} /\ DOMAIN s = 1..Len(s)
      /\ \A k \in DOMAIN q : q[k] = s[k + 1]
  BY Popped
<1> HIDE DEF q
<1>2. /\ p \in Seq(TurnType) /\ Turns(p) = {t} \cup Turns(q) /\ Len(p) = Len(q) + 1
      /\ p[1] = t /\ \A k \in DOMAIN q : p[k + 1] = q[k]
  BY <1>1, Pushed
<1> HIDE DEF p
<1>3. DOMAIN p = 1..Len(p) /\ DOMAIN q = 1..Len(q) /\ Len(p) = Len(s)
  BY <1>1, <1>2
<1>4. ASSUME NEW k \in DOMAIN p, Goes(p[k]) PROVE k = Len(p)
  <2>1. CASE k = 1
    BY <1>1, <1>2, <1>3, <1>4, <2>1 DEF Bottom, Goes
  <2>2. CASE k # 1
    <3>1. k - 1 \in DOMAIN q /\ (k - 1) + 1 = k /\ k \in DOMAIN s
      BY <1>1, <1>3, <2>2
    <3>2. p[k] = s[k]
      BY <1>1, <1>2, <3>1
    <3>3. QED
      BY <1>3, <1>4, <3>1, <3>2 DEF Bottom
  <2>3. QED
    BY <2>1, <2>2
<1>5. QED
  BY <1>1, <1>2, <1>4 DEF Bottom, p, q

\* A turn that goes on to the connection is alone.
LEMMA Alone ==
  ASSUME NEW s \in Seq(TurnType), s # << >>, Bottom(s)
  PROVE  Bottom(Tail(s)) /\ (Goes(Head(s)) => Tail(s) = << >>)
<1> DEFINE q == Tail(s)
<1>1. /\ q \in Seq(TurnType) /\ Head(s) = s[1] /\ Len(q) = Len(s) - 1 /\ Len(s) \in Nat \ {0}
      /\ DOMAIN s = 1..Len(s) /\ \A k \in DOMAIN q : q[k] = s[k + 1]
  BY Popped
<1> HIDE DEF q
<1>2. DOMAIN q = 1..Len(q)
  BY <1>1
<1>3. ASSUME NEW k \in DOMAIN q, Goes(q[k]) PROVE k = Len(q)
  <2>1. k + 1 \in DOMAIN s /\ s[k + 1] = q[k] /\ k \in Int
    BY <1>1, <1>2
  <2>2. k + 1 = Len(s)
    BY <1>3, <2>1 DEF Bottom
  <2>3. QED
    BY <1>1, <2>1, <2>2
<1>4. ASSUME Goes(Head(s)) PROVE q = << >>
  <2>1. Len(q) = 0
    BY <1>1, <1>4 DEF Bottom
  <2>2. QED
    BY <1>1, <2>1
<1>5. QED
  BY <1>3, <1>4 DEF Bottom, q

LEMMA TopIsSound ==
  ASSUME NEW e, NEW m, NEW g, NEW s, Sound(e, m, g, s), s # << >>
  PROVE  /\ Bottom(s) /\ Head(s) \in TurnType /\ Head(s) \in Turns(s)
         /\ TurnOK(e, Head(s)) /\ Head(s).entry \in DOMAIN e
<1>1. s \in Seq(TurnType) /\ Bottom(s)
  BY DEF Sound, Shapes, Turning
<1>2. Head(s) \in Turns(s) /\ Head(s) \in TurnType
  BY <1>1, Popped
<1>3. TurnOK(e, Head(s))
  BY <1>2 DEF Sound, Turning
<1>4. QED
  BY <1>1, <1>2, <1>3 DEF TurnOK

LEMMA EdgeSound ==
  ASSUME NEW e, NEW m, NEW g, NEW s, Sound(e, m, g, s), s # << >>,
         NEW top, top = Head(s), NEW i, i = top.entry,
         top.phase = "status", top.todo \cap e[i].subs = {},
         NEW n \in Seq(EntryType),
         Same(e, n, {"url", "closed", "status", "revive", "subs", "count", "wired", "linger",
                     "track", "link"}),
         \A j \in DOMAIN e : j # i => n[j].down = e[j].down,
         n[i].down <=> top.what # "live" /\ (top.what = "retrying" \/ e[i].down),
         NEW t \in TurnType, t.entry = i, t.after = top.after,
         IF top.what = "live" /\ e[i].down
         THEN t.phase = "reconnect" /\ t.todo = e[i].subs
         ELSE t.phase = "judge" /\ t.todo = {}
  PROVE  Sound(n, m, g, <<t>> \o Tail(s))
<1> DEFINE p == <<t>> \o Tail(s)
<1>1. /\ e \in Seq(EntryType) /\ s \in Seq(TurnType) /\ Bottom(s) /\ top \in Turns(s)
      /\ TurnOK(e, top) /\ i \in DOMAIN e /\ m \in [Urls -> DOMAIN e \cup {NoEntry}]
  BY TopIsSound DEF Sound, Shapes
<1>2. /\ DOMAIN n = DOMAIN e
      /\ \A j \in DOMAIN e : /\ n[j].status = e[j].status /\ n[j].revive = e[j].revive
                             /\ n[j].subs = e[j].subs /\ n[j].track = e[j].track
                             /\ n[j].link = e[j].link
  BY DEF Same
<1>3. /\ p \in Seq(TurnType) /\ Bottom(p)
      /\ \A u : u \in Turns(p) <=> u = t \/ u \in Turns(Tail(s))
      /\ \A u : u \in Turns(s) <=> u = top \/ u \in Turns(Tail(s))
  BY <1>1, Replaced
<1> HIDE DEF p
<1>4. Subscribed(n, g) /\ Counted(n, g) /\ Mapping(n, m)
  <2>1. /\ Same(e, n, {"subs", "count", "wired"})
        /\ Same(e, n, {"url", "closed", "subs", "linger"})
    BY DEF Same
  <2>2. Subscribed(e, g) /\ Counted(e, g) /\ OnlyTold(g, g) /\ Mapping(e, m)
    BY NobodyTold DEF Sound
  <2>3. Subscribed(n, g) /\ Counted(n, g)
    BY <1>1, <2>1, <2>2, CountsStay
  <2>4. Mapping(n, m)
    BY <1>1, <2>1, <2>2, MappingStays
  <2>5. QED
    BY <2>3, <2>4
<1>5. Turning(n, p)
  <2>1. TurnOK(n, t)
    BY <1>1, <1>2 DEF TurnOK, Goes, Replay
  <2>2. ASSUME NEW u \in Turns(Tail(s)) PROVE TurnOK(n, u)
    <3>1. TurnOK(e, u)
      BY <1>3, <2>2 DEF Sound, Turning
    <3>2. QED
      BY <1>2, <3>1 DEF TurnOK
  <2>3. BackingOff(n, p)
    <3>1. BackingOff(e, s) /\ ~e[i].revive
      BY <1>1 DEF Sound, Turning, BackingOff
    <3>2. QED
      BY <1>2, <1>3, <3>1 DEF BackingOff, Goes
  <2>4. QED
    BY <1>3, <2>1, <2>2, <2>3 DEF Turning
<1>6. \A j \in DOMAIN e : \A r \in e[j].subs :
        /\ \A phase : ToTell(s, j, phase, r) => ToTell(p, j, phase, r)
        /\ ToReplay(s, j, r) => ToReplay(p, j, r)
  <2>1. ASSUME NEW j \in DOMAIN e, NEW r \in e[j].subs, j = i PROVE r \notin top.todo
    BY <2>1
  <2>2. QED
    BY <1>3, <2>1 DEF ToTell, ToReplay
<1>7. Knowing(n, g, p)
  BY <1>2, <1>6 DEF Sound, Knowing, KnowsLink
<1>8. Owing(n, g, p)
  <2>1. ASSUME NEW j \in DOMAIN e, j # i PROVE Reporting(s, j) => Reporting(p, j)
    BY <1>3, <2>1 DEF Reporting
  <2>2. top.what = e[i].status
    BY <1>1 DEF TurnOK
  <2>3. ASSUME NEW j \in DOMAIN n PROVE n[j].status = "live" /\ n[j].down => Reporting(p, j)
    <3>1. CASE j = i
      BY <1>2, <2>2, <3>1
    <3>2. CASE j # i
      BY <1>2, <2>1, <3>2 DEF Sound, Owing
    <3>3. QED
      BY <3>1, <3>2
  <2>4. ASSUME NEW j \in DOMAIN n, NEW r \in n[j].subs, g[r].owed
        PROVE  \/ n[j].down
               \/ n[j].status = "retrying" /\ Reporting(p, j)
               \/ ToTell(p, j, "reconnect", r)
    <3>1. j \in DOMAIN e /\ r \in e[j].subs /\ n[j].status = e[j].status
      BY <1>2, <2>4
    <3>2. \/ e[j].down
          \/ e[j].status = "retrying" /\ Reporting(s, j)
          \/ ToTell(p, j, "reconnect", r)
      BY <1>6, <2>4, <3>1 DEF Sound, Owing
    <3>3. CASE j # i
      BY <2>1, <3>1, <3>2, <3>3
    <3>4. CASE j = i
      <4>1. CASE top.what = "retrying"
        BY <1>2, <3>4, <4>1
      <4>2. CASE top.what = "live" /\ e[i].down
        BY <1>3, <3>1, <3>4, <4>2 DEF ToTell
      <4>3. CASE top.what # "retrying" /\ ~(top.what = "live" /\ e[i].down)
        BY <1>2, <2>2, <3>2, <3>4, <4>3
      <4>4. QED
        BY <4>1, <4>2, <4>3
    <3>5. QED
      BY <3>3, <3>4
  <2>5. QED
    BY <2>3, <2>4 DEF Owing
<1>9. QED
  BY <1>1, <1>2, <1>3, <1>4, <1>5, <1>7, <1>8 DEF Sound, Shapes, p

LEMMA JudgeSound ==
  ASSUME NEW e, NEW m, NEW g, NEW s, Sound(e, m, g, s), s # << >>,
         NEW top, top = Head(s), NEW i, i = top.entry, top.phase = "judge",
         NEW n \in Seq(EntryType),
         Same(e, n, {"url", "closed", "status", "revive", "subs", "count", "wired", "linger",
                     "track", "down"}),
         \A j \in DOMAIN e : j # i => n[j].link = e[j].link,
         n[i].link = LinkAt(e[i].track, Now),
         NEW t \in TurnType, t.entry = i, t.after = top.after,
         IF n[i].link # e[i].link /\ n[i].link # "none"
         THEN t.phase = "link" /\ t.what = n[i].link /\ t.todo = e[i].subs
         ELSE t.phase = "arm" /\ t.todo = {}
  PROVE  Sound(n, m, g, <<t>> \o Tail(s))
<1> DEFINE p == <<t>> \o Tail(s)
<1>1. /\ e \in Seq(EntryType) /\ s \in Seq(TurnType) /\ Bottom(s) /\ top \in Turns(s)
      /\ TurnOK(e, top) /\ i \in DOMAIN e /\ m \in [Urls -> DOMAIN e \cup {NoEntry}]
  BY TopIsSound DEF Sound, Shapes
<1>2. /\ DOMAIN n = DOMAIN e
      /\ \A j \in DOMAIN e : /\ n[j].status = e[j].status /\ n[j].revive = e[j].revive
                             /\ n[j].subs = e[j].subs /\ n[j].track = e[j].track
                             /\ n[j].down = e[j].down
  BY DEF Same
<1>3. /\ p \in Seq(TurnType) /\ Bottom(p)
      /\ \A u : u \in Turns(p) <=> u = t \/ u \in Turns(Tail(s))
      /\ \A u : u \in Turns(s) <=> u = top \/ u \in Turns(Tail(s))
  BY <1>1, Replaced
<1> HIDE DEF p
<1>4. Subscribed(n, g) /\ Counted(n, g) /\ Mapping(n, m)
  <2>1. /\ Same(e, n, {"subs", "count", "wired"})
        /\ Same(e, n, {"url", "closed", "subs", "linger"})
    BY DEF Same
  <2>2. Subscribed(e, g) /\ Counted(e, g) /\ OnlyTold(g, g) /\ Mapping(e, m)
    BY NobodyTold DEF Sound
  <2>3. Subscribed(n, g) /\ Counted(n, g)
    BY <1>1, <2>1, <2>2, CountsStay
  <2>4. Mapping(n, m)
    BY <1>1, <2>1, <2>2, MappingStays
  <2>5. QED
    BY <2>3, <2>4
<1>5. Turning(n, p)
  <2>1. TurnOK(n, t)
    BY <1>1, <1>2 DEF TurnOK, Goes, Replay
  <2>2. ASSUME NEW u \in Turns(Tail(s)) PROVE TurnOK(n, u)
    <3>1. TurnOK(e, u)
      BY <1>3, <2>2 DEF Sound, Turning
    <3>2. CASE u.entry = i
      BY <1>2, <3>1, <3>2 DEF TurnOK
    <3>3. CASE u.entry # i
      BY <1>2, <3>1, <3>3 DEF TurnOK
    <3>4. QED
      BY <3>2, <3>3
  <2>3. BackingOff(n, p)
    <3>1. BackingOff(e, s)
      BY <1>1 DEF Sound, Turning
    <3>2. QED
      BY <1>2, <1>3, <3>1 DEF BackingOff
  <2>4. QED
    BY <1>3, <2>1, <2>2, <2>3 DEF Turning
<1>6. \A j \in DOMAIN e : \A r \in e[j].subs :
        /\ \A phase : ToTell(s, j, phase, r) => ToTell(p, j, phase, r)
        /\ ToReplay(s, j, r) => ToReplay(p, j, r)
  BY <1>1, <1>3 DEF ToTell, ToReplay, TurnOK
<1>7. Knowing(n, g, p)
  <2>1. ASSUME NEW j \in DOMAIN n, NEW r \in n[j].subs
        PROVE  /\ g[r].status = n[j].status \/ ToTell(p, j, "status", r)
               /\ KnowsLink(n, g, p, j, r)
    <3>1. j \in DOMAIN e /\ r \in e[j].subs /\ n[j].status = e[j].status
      BY <1>2, <2>1
    <3>2. /\ g[r].status = e[j].status \/ ToTell(p, j, "status", r)
          /\ KnowsLink(e, g, p, j, r)
      BY <1>6, <3>1 DEF Sound, Knowing, KnowsLink
    <3>3. j = i /\ n[i].link # e[i].link /\ n[i].link # "none" => ToTell(p, j, "link", r)
      BY <1>3, <3>1 DEF ToTell
    <3>4. QED
      BY <3>1, <3>2, <3>3 DEF KnowsLink
  <2>2. QED
    BY <2>1 DEF Knowing
<1>8. Owing(n, g, p)
  <2>1. \A j \in DOMAIN e : Reporting(s, j) => Reporting(p, j)
    BY <1>3 DEF Reporting
  <2>2. QED
    BY <1>2, <1>6, <2>1 DEF Sound, Owing
<1>9. QED
  BY <1>1, <1>2, <1>3, <1>4, <1>5, <1>7, <1>8 DEF Sound, Shapes, p

\* The turn goes on, once it has told all that are left.
LEMMA PhaseSound ==
  ASSUME NEW e, NEW m, NEW g, NEW s, Sound(e, m, g, s), s # << >>,
         NEW top, top = Head(s), NEW i, i = top.entry,
         top.phase \in {"reconnect", "link"}, top.todo \cap e[i].subs = {},
         NEW t \in TurnType, t.entry = i, t.after = top.after,
         t.phase \in {"judge", "arm"}, t.todo = {}
  PROVE  Sound(e, m, g, <<t>> \o Tail(s))
<1> DEFINE p == <<t>> \o Tail(s)
<1>1. s \in Seq(TurnType) /\ Bottom(s) /\ TurnOK(e, top) /\ i \in DOMAIN e
  BY TopIsSound DEF Sound, Shapes
<1>2. /\ p \in Seq(TurnType) /\ Bottom(p)
      /\ \A u : u \in Turns(p) <=> u = t \/ u \in Turns(Tail(s))
      /\ \A u : u \in Turns(s) <=> u = top \/ u \in Turns(Tail(s))
  BY <1>1, Replaced
<1> HIDE DEF p
<1>3. Turning(e, p)
  <2>1. TurnOK(e, t)
    BY <1>1 DEF TurnOK, Goes, Replay
  <2>2. BackingOff(e, p)
    BY <1>2 DEF Sound, Turning, BackingOff
  <2>3. QED
    BY <1>2, <2>1, <2>2 DEF Sound, Turning
<1>4. \A j \in DOMAIN e : \A r \in e[j].subs :
        /\ \A phase : ToTell(s, j, phase, r) => ToTell(p, j, phase, r)
        /\ ToReplay(s, j, r) => ToReplay(p, j, r)
  <2>1. ASSUME NEW j \in DOMAIN e, NEW r \in e[j].subs, j = i PROVE r \notin top.todo
    BY <2>1
  <2>2. QED
    BY <1>2, <2>1 DEF ToTell, ToReplay
<1>5. Knowing(e, g, p)
  BY <1>4 DEF Sound, Knowing, KnowsLink
<1>6. Owing(e, g, p)
  <2>1. \A j \in DOMAIN e : Reporting(s, j) => Reporting(p, j)
    BY <1>2 DEF Reporting
  <2>2. QED
    BY <1>4, <2>1 DEF Sound, Owing
<1>7. QED
  BY <1>2, <1>3, <1>5, <1>6 DEF Sound, Shapes, p

\* The turn ends.
LEMMA PopSound ==
  ASSUME NEW e, NEW m, NEW g, NEW s, Sound(e, m, g, s), s # << >>,
         Head(s).phase \in {"arm", "wake", "return"}
  PROVE  Sound(e, m, g, Tail(s))
<1>1. s \in Seq(TurnType) /\ Bottom(Tail(s)) /\ TurnOK(e, Head(s))
  BY TopIsSound, Alone DEF Sound, Shapes
<1>2. Tail(s) \in Seq(TurnType)
  BY <1>1
<1>3. \A u : u \in Turns(s) <=> u = Head(s) \/ u \in Turns(Tail(s))
  <2>1. Turns(s) = {Head(s)} \cup Turns(Tail(s))
    BY <1>1, Popped
  <2>2. QED
    BY <2>1
<1>4. Turning(e, Tail(s))
  <2>1. BackingOff(e, Tail(s))
    BY <1>3 DEF Sound, Turning, BackingOff
  <2>2. QED
    BY <1>1, <1>3, <2>1 DEF Sound, Turning
<1>5. \A j, r : /\ \A phase \in {"status", "reconnect", "link"} :
                    ToTell(s, j, phase, r) => ToTell(Tail(s), j, phase, r)
                /\ ToReplay(s, j, r) => ToReplay(Tail(s), j, r)
  BY <1>3 DEF ToTell, ToReplay
<1>6. Knowing(e, g, Tail(s))
  BY <1>5 DEF Sound, Knowing, KnowsLink
<1>7. Owing(e, g, Tail(s))
  <2>1. \A j : Reporting(s, j) => Reporting(Tail(s), j)
    BY <1>3 DEF Reporting
  <2>2. QED
    BY <1>5, <2>1 DEF Sound, Owing
<1>8. QED
  BY <1>2, <1>4, <1>6, <1>7 DEF Sound, Shapes

\* A timer's judgement begins.
LEMMA TimerSound ==
  ASSUME NEW e, NEW m, NEW g, Sound(e, m, g, << >>),
         NEW t \in TurnType, t.entry \in DOMAIN e, t.after = "none", t.phase = "judge",
         t.todo = {}
  PROVE  Sound(e, m, g, <<t>>)
<1>1. <<t>> \in Seq(TurnType) /\ Turns(<<t>>) = {t} /\ Bottom(<<t>>)
  BY DEF Turns, Bottom, Goes
<1>2. Turning(e, <<t>>)
  <2>1. TurnOK(e, t)
    BY DEF TurnOK, Goes, Replay
  <2>2. BackingOff(e, <<t>>)
    BY <1>1 DEF Sound, Turning, BackingOff
  <2>3. QED
    BY <1>1, <2>1, <2>2 DEF Turning
<1>3. \A j, r : /\ \A phase : ~ToTell(<< >>, j, phase, r)
                /\ ~ToReplay(<< >>, j, r) /\ ~Reporting(<< >>, j)
  BY NoTurns DEF ToTell, ToReplay, Reporting
<1>4. Knowing(e, g, <<t>>) /\ Owing(e, g, <<t>>)
  BY <1>3 DEF Sound, Knowing, KnowsLink, Owing
<1>5. QED
  BY <1>1, <1>2, <1>4 DEF Sound, Shapes

\* A subscriber is told.
OwedAfter(turn, sub) ==
  /\ turn.phase # "reconnect"
  /\ sub.owed \/ (turn.phase = "status" /\ turn.what = "retrying")

LEMMA CallSound ==
  ASSUME NEW e, NEW m, NEW g, NEW s, Sound(e, m, g, s), s # << >>,
         NEW top, top = Head(s), NEW i, i = top.entry, Tells(top.phase), NEW r \in top.todo \cap e[i].subs,
         NEW t \in TurnType, t.entry = i, t.after = top.after, t.phase = top.phase,
         t.what = top.what, t.todo = top.todo \ {r},
         NEW h \in [Regs -> RegType], \A q \in Regs : q # r => h[q] = g[q],
         h[r].at = g[r].at, h[r].entry = g[r].entry, h[r].names = g[r].names,
         h[r].status = IF top.phase = "status" THEN top.what ELSE g[r].status,
         h[r].link = IF top.phase = "link" THEN top.what ELSE g[r].link,
         top.phase # "link" => (h[r].stale <=> g[r].stale),
         h[r].owed <=> OwedAfter(top, g[r])
  PROVE  Sound(e, m, h, <<t>> \o Tail(s))
<1> DEFINE p == <<t>> \o Tail(s)
<1>1. /\ e \in Seq(EntryType) /\ s \in Seq(TurnType) /\ Bottom(s) /\ top \in Turns(s)
      /\ TurnOK(e, top) /\ i \in DOMAIN e /\ r \in Regs /\ g[r].at = "in" /\ g[r].entry = i
  <2>1. /\ e \in Seq(EntryType) /\ s \in Seq(TurnType) /\ Bottom(s) /\ top \in Turns(s)
        /\ TurnOK(e, top) /\ i \in DOMAIN e
    BY TopIsSound DEF Sound, Shapes
  <2>2. r \in Regs
    BY <2>1, Entries
  <2>3. QED
    BY <2>1, <2>2 DEF Sound, Subscribed
<1>2. /\ p \in Seq(TurnType) /\ Bottom(p)
      /\ \A u : u \in Turns(p) <=> u = t \/ u \in Turns(Tail(s))
      /\ \A u : u \in Turns(s) <=> u = top \/ u \in Turns(Tail(s))
  BY <1>1, Replaced
<1> HIDE DEF p
<1>3. Subscribed(e, h) /\ Counted(e, h)
  <2>1. OnlyTold(g, h)
    BY <1>1 DEF OnlyTold
  <2>2. Same(e, e, {"subs", "count", "wired"})
    BY DEF Same
  <2>3. Subscribed(e, g) /\ Counted(e, g)
    BY DEF Sound
  <2>4. QED
    BY <1>1, <2>1, <2>2, <2>3, CountsStay
<1>4. Turning(e, p)
  <2>1. TurnOK(e, t)
    BY <1>1 DEF TurnOK, Goes, Tells, Replay
  <2>2. BackingOff(e, p)
    BY <1>1, <1>2 DEF Sound, Turning, BackingOff
  <2>3. QED
    BY <1>2, <2>1, <2>2 DEF Sound, Turning
<1>5. /\ \A j, q, phase : q # r \/ phase # top.phase =>
           (ToTell(s, j, phase, q) => ToTell(p, j, phase, q))
      /\ \A j, q : ToReplay(s, j, q) => ToReplay(p, j, q)
      /\ \A j : Reporting(s, j) <=> Reporting(p, j)
  BY <1>2 DEF ToTell, ToReplay, Reporting, Tells
<1>6. \A j \in DOMAIN e : r \in e[j].subs => j = i
  BY <1>1 DEF Sound, Subscribed
<1>7. Knowing(e, h, p)
  <2>1. ASSUME NEW j \in DOMAIN e, NEW q \in e[j].subs
        PROVE  /\ h[q].status = e[j].status \/ ToTell(p, j, "status", q)
               /\ KnowsLink(e, h, p, j, q)
    <3>1. q \in Regs
      BY <1>1, <2>1, Entries
    <3>2. /\ g[q].status = e[j].status \/ ToTell(s, j, "status", q)
          /\ KnowsLink(e, g, s, j, q)
      BY <2>1 DEF Sound, Knowing
    <3>3. CASE q # r
      BY <1>5, <3>1, <3>2, <3>3 DEF KnowsLink
    <3>4. CASE q = r
      <4>1. j = i
        BY <1>6, <2>1, <3>4
      <4>2. /\ top.phase = "status" => top.what = e[i].status
            /\ top.phase = "link" => top.what = e[i].link
        BY <1>1 DEF TurnOK
      <4>3. QED
        BY <1>5, <3>2, <3>4, <4>1, <4>2 DEF KnowsLink
    <3>5. QED
      BY <3>3, <3>4
  <2>2. QED
    BY <2>1 DEF Knowing
<1>8. Owing(e, h, p)
  <2>1. ASSUME NEW j \in DOMAIN e PROVE e[j].status = "live" /\ e[j].down => Reporting(p, j)
    BY <1>5 DEF Sound, Owing
  <2>2. ASSUME NEW j \in DOMAIN e, NEW q \in e[j].subs, h[q].owed
        PROVE  \/ e[j].down
               \/ e[j].status = "retrying" /\ Reporting(p, j)
               \/ ToTell(p, j, "reconnect", q)
    <3>1. q \in Regs
      BY <1>1, <2>2, Entries
    <3>2. g[q].owed => \/ e[j].down
                       \/ e[j].status = "retrying" /\ Reporting(p, j)
                       \/ ToTell(s, j, "reconnect", q)
      BY <1>5, <2>2 DEF Sound, Owing
    <3>3. CASE q # r
      BY <1>5, <2>2, <3>1, <3>2, <3>3
    <3>4. CASE q = r
      <4>1. j = i /\ top.phase # "reconnect"
        BY <1>6, <2>2, <3>4 DEF OwedAfter
      <4>2. top.phase = "status" => top.what = e[i].status /\ Reporting(p, i)
        BY <1>1, <1>2 DEF TurnOK, Reporting
      <4>3. QED
        BY <1>5, <2>2, <3>2, <3>4, <4>1, <4>2 DEF OwedAfter
    <3>5. QED
      BY <3>3, <3>4
  <2>3. QED
    BY <2>1, <2>2 DEF Owing
<1>9. QED
  BY <1>2, <1>3, <1>4, <1>7, <1>8 DEF Sound, Shapes, p

\* A subscribe call goes on: its subscriber is told the verdict that was read, or
\* the call is about to return.
Hears(h, g, e, i) ==
  /\ h.at = g.at /\ h.entry = g.entry /\ h.names = g.names /\ h.status = g.status
  /\ h.owed <=> g.owed
  /\ h.link = e[i].link \/ h.stale

LEMMA ReplayedSound ==
  ASSUME NEW e, NEW m, NEW g, NEW s, Sound(e, m, g, s), s # << >>,
         NEW top, top = Head(s), NEW i, i = top.entry, top.phase \in {"replay", "wake"},
         NEW t \in TurnType, t.entry = i, t.after = top.after,
         t.phase \in {"wake", "return"}, t.todo = top.todo,
         NEW h \in [Regs -> RegType],
         \A q \in Regs : h[q] = g[q] \/ (q \in top.todo /\ Hears(h[q], g[q], e, i)),
         top.phase = "replay" /\ top.what # "none" =>
           \A q \in top.todo : Hears(h[q], g[q], e, i)
  PROVE  Sound(e, m, h, <<t>> \o Tail(s))
<1> DEFINE p == <<t>> \o Tail(s)
<1>1. /\ e \in Seq(EntryType) /\ s \in Seq(TurnType) /\ Bottom(s) /\ top \in Turns(s)
      /\ TurnOK(e, top) /\ i \in DOMAIN e /\ top.todo \subseteq e[i].subs
      /\ e[i].subs \subseteq Regs
  <2>1. /\ e \in Seq(EntryType) /\ s \in Seq(TurnType) /\ Bottom(s) /\ top \in Turns(s)
        /\ TurnOK(e, top) /\ i \in DOMAIN e
    BY TopIsSound DEF Sound, Shapes
  <2>2. QED
    BY <2>1, Entries DEF TurnOK, Replay
<1>2. /\ p \in Seq(TurnType) /\ Bottom(p)
      /\ \A u : u \in Turns(p) <=> u = t \/ u \in Turns(Tail(s))
      /\ \A u : u \in Turns(s) <=> u = top \/ u \in Turns(Tail(s))
  BY <1>1, Replaced
<1> HIDE DEF p
<1>3. \A q \in top.todo : /\ g[q].at = "in"
                          /\ \A j \in DOMAIN e : q \in e[j].subs => j = i
  BY <1>1 DEF Sound, Subscribed
<1>4. Subscribed(e, h) /\ Counted(e, h)
  <2>1. OnlyTold(g, h)
    BY <1>3 DEF OnlyTold, Hears
  <2>2. Same(e, e, {"subs", "count", "wired"})
    BY DEF Same
  <2>3. Subscribed(e, g) /\ Counted(e, g)
    BY DEF Sound
  <2>4. QED
    BY <1>1, <2>1, <2>2, <2>3, CountsStay
<1>5. Turning(e, p)
  <2>1. TurnOK(e, t)
    BY <1>1 DEF TurnOK, Goes, Replay
  <2>2. BackingOff(e, p)
    BY <1>1, <1>2 DEF Sound, Turning, BackingOff
  <2>3. QED
    BY <1>2, <2>1, <2>2 DEF Sound, Turning
<1>6. /\ \A j, q : \A phase \in {"status", "reconnect", "link"} :
           ToTell(s, j, phase, q) => ToTell(p, j, phase, q)
      /\ \A j, q : ToReplay(s, j, q) =>
           \/ ToReplay(p, j, q)
           \/ q \in top.todo /\ top.phase = "replay" /\ top.what # "none"
      /\ \A j : Reporting(s, j) => Reporting(p, j)
  BY <1>2 DEF ToTell, ToReplay, Reporting
<1>7. ASSUME NEW j \in DOMAIN e, NEW q \in e[j].subs
      PROVE  /\ q \in Regs /\ h[q].status = g[q].status /\ (h[q].owed <=> g[q].owed)
             /\ h[q] = g[q] \/ (j = i /\ (h[q].link = e[i].link \/ h[q].stale))
             /\ q \in top.todo /\ top.phase = "replay" /\ top.what # "none" =>
                  j = i /\ (h[q].link = e[i].link \/ h[q].stale)
  <2>1. q \in Regs
    BY <1>1, <1>7, Entries
  <2>2. QED
    BY <1>3, <1>7, <2>1 DEF Hears
<1>8. Knowing(e, h, p)
  <2>1. ASSUME NEW j \in DOMAIN e, NEW q \in e[j].subs
        PROVE  /\ h[q].status = e[j].status \/ ToTell(p, j, "status", q)
               /\ KnowsLink(e, h, p, j, q)
    <3>1. /\ g[q].status = e[j].status \/ ToTell(s, j, "status", q)
          /\ KnowsLink(e, g, s, j, q)
      BY <2>1 DEF Sound, Knowing
    <3>2. QED
      BY <1>6, <1>7, <2>1, <3>1 DEF KnowsLink
  <2>2. QED
    BY <2>1 DEF Knowing
<1>9. Owing(e, h, p)
  BY <1>6, <1>7 DEF Sound, Owing
<1>10. QED
  BY <1>2, <1>4, <1>5, <1>8, <1>9 DEF Sound, Shapes, p

-----------------------------------------------------------------------------
(* Subscribers come and go *)

\* What one subscriber wants is counted one more or one less.
LEMMA WantedBy ==
  ASSUME NEW e, NEW g, NEW i, IsFiniteSet(e[i].subs), NEW r, NEW n
  PROVE  /\ IsFiniteSet(Wanting(e, g, i, n)) /\ Cardinality(Wanting(e, g, i, n)) \in Nat
         /\ r \in Wanting(e, g, i, n) <=> r \in e[i].subs /\ n \in g[r].names
<1>1. IsFiniteSet(Wanting(e, g, i, n))
  BY FS_Subset DEF Wanting
<1>2. QED
  BY <1>1, FS_CardinalityType DEF Wanting

Leaves(x, c, names, r) ==
  /\ x.subs = c.subs \ {r} /\ (x.linger <=> c.linger \/ c.subs = {r})
  /\ \A k \in Names : x.count[k] = IF k \in names THEN c.count[k] - 1 ELSE c.count[k]
  /\ x.wired = {k \in c.wired : x.count[k] > 0}

LEMMA ReleasedSound ==
  ASSUME NEW e, NEW m, NEW g, NEW s, Sound(e, m, g, s),
         NEW r \in Regs, NEW i \in DOMAIN e, g[r].at # "new", g[r].entry = i,
         \A t \in Turns(s) : t.phase \in Replay => r \notin t.todo,
         NEW n \in Seq(EntryType),
         Same(e, n, {"url", "closed", "status", "revive", "track", "link", "down"}),
         \A j \in DOMAIN e : j # i => n[j] = e[j],
         r \notin e[i].subs => n[i] = e[i],
         r \in e[i].subs => Leaves(n[i], e[i], g[r].names, r),
         NEW h \in [Regs -> RegType], \A q \in Regs : q # r => h[q] = g[q],
         h[r].at = "out", h[r].entry = i, h[r].names = g[r].names, h[r].status = "none",
         h[r].link = "none", ~h[r].owed, ~h[r].stale
  PROVE  Sound(n, m, h, s)
<1>1. /\ e \in Seq(EntryType) /\ g \in [Regs -> RegType]
      /\ m \in [Urls -> DOMAIN e \cup {NoEntry}] /\ s \in Seq(TurnType)
  BY DEF Sound, Shapes
<1>2. /\ DOMAIN n = DOMAIN e
      /\ \A j \in DOMAIN e : /\ n[j].status = e[j].status /\ n[j].revive = e[j].revive
                             /\ n[j].track = e[j].track /\ n[j].link = e[j].link
                             /\ n[j].down = e[j].down /\ n[j].url = e[j].url
                             /\ n[j].closed = e[j].closed
  BY DEF Same
<1>3. \A j \in DOMAIN e : r \in e[j].subs => j = i
  BY DEF Sound, Subscribed
<1>4. /\ \A j \in DOMAIN e : n[j].subs = e[j].subs \ {r}
      /\ e[i].subs # {} \/ e[i].linger => n[i].subs # {} \/ n[i].linger
  BY <1>3 DEF Leaves
<1>5. Subscribed(n, h)
  BY <1>2, <1>3, <1>4 DEF Sound, Subscribed
<1>6. Counted(n, h)
  <2>1. ASSUME NEW j \in DOMAIN e
        PROVE  /\ IsFiniteSet(n[j].subs)
               /\ \A k \in Names : n[j].count[k] = Cardinality(Wanting(n, h, j, k))
               /\ n[j].wired = {k \in Names : n[j].count[k] > 0}
    <3>1. /\ IsFiniteSet(e[j].subs)
          /\ \A k \in Names : e[j].count[k] = Cardinality(Wanting(e, g, j, k))
          /\ e[j].wired = {k \in Names : e[j].count[k] > 0} /\ e[j].subs \subseteq Regs
      BY <1>1, <2>1, Entries DEF Sound, Counted
    <3>2. \A k : Wanting(n, h, j, k) = Wanting(e, g, j, k) \ {r}
      BY <1>4, <3>1 DEF Wanting
    <3>3. CASE r \notin e[j].subs
      <4>1. n[j] = e[j]
        BY <3>3
      <4>2. \A k : Wanting(n, h, j, k) = Wanting(e, g, j, k)
        BY <3>2, <3>3 DEF Wanting
      <4>3. QED
        BY <3>1, <4>1, <4>2
    <3>4. CASE r \in e[j].subs
      <4>1. j = i
        BY <1>3, <3>4
      <4>2. IsFiniteSet(n[j].subs)
        BY <1>4, <3>1, FS_Subset
      <4>3. \A k \in Names : n[j].count[k] = IF k \in g[r].names THEN e[j].count[k] - 1
                                          ELSE e[j].count[k]
        BY <3>4, <4>1 DEF Leaves
      <4>4. ASSUME NEW k \in Names PROVE n[j].count[k] = Cardinality(Wanting(n, h, j, k))
        <5>1. /\ IsFiniteSet(Wanting(e, g, j, k)) /\ Cardinality(Wanting(e, g, j, k)) \in Nat
              /\ r \in Wanting(e, g, j, k) <=> k \in g[r].names
          BY <3>1, <3>4, WantedBy
        <5>2. CASE k \in g[r].names
          <6>1. Cardinality(Wanting(e, g, j, k) \ {r}) = Cardinality(Wanting(e, g, j, k)) - 1
            BY <5>1, <5>2, FS_RemoveElement
          <6>2. QED
            BY <3>1, <3>2, <4>3, <5>2, <6>1
        <5>3. CASE k \notin g[r].names
          <6>1. Wanting(n, h, j, k) = Wanting(e, g, j, k)
            <7>1. \A q : q \in Wanting(n, h, j, k) <=> q \in Wanting(e, g, j, k)
              BY <3>2, <5>1, <5>3
            <7>2. QED
              BY <7>1 DEF Wanting
          <6>2. QED
            BY <3>1, <4>3, <5>3, <6>1
        <5>4. QED
          BY <5>2, <5>3
      <4>5. \A k \in Names : n[j].count[k] \in Int /\ e[j].count[k] \in Int
        <5>1. n[j] \in EntryType /\ e[j] \in EntryType
          BY <1>1, <1>2, <2>1, Entries
        <5>2. QED
          BY <5>1 DEF EntryType
      <4>6. n[j].wired = {k \in Names : n[j].count[k] > 0}
        BY <3>1, <3>4, <4>1, <4>3, <4>5 DEF Leaves
      <4>7. QED
        BY <4>2, <4>4, <4>6
    <3>5. QED
      BY <3>3, <3>4
  <2>2. QED
    BY <1>2, <2>1 DEF Counted
<1>7. Mapping(n, m)
  <2>1. \A j \in DOMAIN e : e[j].subs # {} \/ e[j].linger => n[j].subs # {} \/ n[j].linger
    BY <1>4
  <2>2. Mapping(e, m)
    BY DEF Sound
  <2>3. \A u \in Urls : m[u] # NoEntry => m[u] \in DOMAIN e
    BY <1>1
  <2>4. QED
    BY <1>2, <2>1, <2>2, <2>3 DEF Mapping
<1>8. Turning(n, s)
  <2>1. ASSUME NEW t \in Turns(s) PROVE TurnOK(n, t)
    <3>1. TurnOK(e, t)
      BY <2>1 DEF Sound, Turning
    <3>2. t.phase \in Replay => t.todo \subseteq n[t.entry].subs
      BY <1>4, <2>1, <3>1 DEF TurnOK
    <3>3. QED
      BY <1>2, <3>1, <3>2 DEF TurnOK
  <2>2. BackingOff(n, s)
    BY <1>2 DEF Sound, Turning, BackingOff
  <2>3. QED
    BY <2>1, <2>2 DEF Sound, Turning
<1>9. \A j \in DOMAIN n : \A q \in n[j].subs : q \in e[j].subs /\ h[q] = g[q]
  BY <1>1, <1>2, <1>4, Entries
<1>10. Knowing(n, h, s) /\ Owing(n, h, s)
  BY <1>2, <1>9 DEF Sound, Knowing, KnowsLink, Owing
<1>11. QED
  BY <1>1, <1>2, <1>5, <1>6, <1>7, <1>8, <1>10 DEF Sound, Shapes

Joins(x, c, names, r) ==
  /\ x.subs = c.subs \cup {r}
  /\ \A k \in Names : x.count[k] = IF k \in names THEN c.count[k] + 1 ELSE c.count[k]
  /\ x.wired = c.wired \cup names

OnlyJoins(h, g, r, i, names, c) ==
  /\ \A q \in Regs : q # r => h[q] = g[q]
  /\ h[r].at = "in" /\ h[r].entry = i /\ h[r].names = names /\ h[r].status = c.status
  /\ ~h[r].owed /\ ~h[r].stale

OnlyEntry(n, e, i) == DOMAIN n = DOMAIN e /\ \A j \in DOMAIN e : j # i => n[j] = e[j]

TurnsWith(p, s, i, r) ==
  /\ p \in Seq(TurnType) /\ DOMAIN p = DOMAIN s /\ Len(p) = Len(s)
  /\ \A k \in DOMAIN s :
       /\ p[k].entry = s[k].entry /\ p[k].phase = s[k].phase /\ p[k].what = s[k].what
       /\ p[k].after = s[k].after
       /\ p[k].todo = IF s[k].entry = i /\ Tells(s[k].phase) THEN s[k].todo \cup {r}
                      ELSE s[k].todo

\* The turn of a subscribe call.
JoinTurn(t, c, i, r) ==
  /\ t.entry = i /\ t.phase = "replay" /\ t.what = c.link /\ t.todo = {r} /\ ~Goes(t)

LEMMA JoinedSound ==
  ASSUME NEW e, NEW m, NEW g, NEW s, Sound(e, m, g, s),
         NEW r \in Regs, NEW i \in DOMAIN e, g[r].at = "new", NEW names \in SUBSET Names,
         NEW n \in Seq(EntryType),
         Same(e, n, {"url", "closed", "status", "revive", "track", "link", "down"}),
         OnlyEntry(n, e, i),
         Joins(n[i], e[i], names, r),
         NEW h \in [Regs -> RegType], OnlyJoins(h, g, r, i, names, e[i]),
         NEW p, TurnsWith(p, s, i, r), NEW t \in TurnType, JoinTurn(t, e[i], i, r)
  PROVE  Sound(n, m, h, <<t>> \o p)
<1> USE DEF OnlyEntry, OnlyJoins
<1> DEFINE joined == <<t>> \o p
<1>1. /\ e \in Seq(EntryType) /\ g \in [Regs -> RegType]
      /\ m \in [Urls -> DOMAIN e \cup {NoEntry}]
  BY DEF Sound, Shapes
<1>2. /\ DOMAIN n = DOMAIN e
      /\ \A j \in DOMAIN e : /\ n[j].status = e[j].status /\ n[j].revive = e[j].revive
                             /\ n[j].track = e[j].track /\ n[j].link = e[j].link
                             /\ n[j].down = e[j].down /\ n[j].url = e[j].url
                             /\ n[j].closed = e[j].closed
  BY DEF Same
<1>3. \A j \in DOMAIN e : r \notin e[j].subs
  BY DEF Sound, Subscribed
<1>4. \A j \in DOMAIN e : e[j].subs \subseteq n[j].subs /\ n[j].subs \subseteq e[j].subs \cup {r}
  BY DEF Joins
<1>5. Subscribed(n, h)
  <2>1. ASSUME NEW q \in Regs
        PROVE  /\ \A j \in DOMAIN n : q \in n[j].subs <=> h[q].at = "in" /\ h[q].entry = j
               /\ h[q].at # "new" => h[q].entry \in DOMAIN n
               /\ h[q].at = "out" =>
                    h[q].status = "none" /\ h[q].link = "none" /\ ~h[q].owed /\ ~h[q].stale
    <3>1. CASE q = r
      BY <1>2, <1>3, <3>1 DEF Joins
    <3>2. CASE q # r
      BY <1>2, <1>4, <3>2 DEF Sound, Subscribed
    <3>3. QED
      BY <3>1, <3>2
  <2>2. QED
    BY <2>1 DEF Subscribed
<1>6. Counted(n, h)
  <2>1. ASSUME NEW j \in DOMAIN e
        PROVE  /\ IsFiniteSet(n[j].subs)
               /\ \A k \in Names : n[j].count[k] = Cardinality(Wanting(n, h, j, k))
               /\ n[j].wired = {k \in Names : n[j].count[k] > 0}
    <3>1. /\ IsFiniteSet(e[j].subs)
          /\ \A k \in Names : e[j].count[k] = Cardinality(Wanting(e, g, j, k))
          /\ e[j].wired = {k \in Names : e[j].count[k] > 0} /\ e[j].subs \subseteq Regs
      BY <1>1, <2>1, Entries DEF Sound, Counted
    <3>2. CASE j # i
      <4>1. n[j] = e[j]
        BY <3>2
      <4>2. \A k : Wanting(n, h, j, k) = Wanting(e, g, j, k)
        BY <1>3, <3>1, <4>1 DEF Wanting
      <4>3. QED
        BY <3>1, <4>1, <4>2
    <3>3. CASE j = i
      <4>1. IsFiniteSet(n[j].subs)
        <5>1. IsFiniteSet(e[j].subs \cup {r})
          BY <3>1, FS_AddElement
        <5>2. QED
          BY <3>3, <5>1 DEF Joins
      <4>2. \A k \in Names : n[j].count[k] = IF k \in names THEN e[j].count[k] + 1
                                            ELSE e[j].count[k]
        BY <3>3 DEF Joins
      <4>3. \A k, q : q \in Wanting(n, h, j, k) <=>
                         q \in Wanting(e, g, j, k) \/ (q = r /\ k \in names)
        BY <1>3, <3>1, <3>3 DEF Wanting, Joins
      <4>4. \A k \in Names : /\ IsFiniteSet(Wanting(e, g, j, k))
                            /\ Cardinality(Wanting(e, g, j, k)) \in Nat
                            /\ r \notin Wanting(e, g, j, k)
        BY <1>3, <3>1, WantedBy
      <4>5. ASSUME NEW k \in Names PROVE n[j].count[k] = Cardinality(Wanting(n, h, j, k))
        <5>1. CASE k \in names
          <6>1. Cardinality(Wanting(e, g, j, k) \cup {r}) = Cardinality(Wanting(e, g, j, k)) + 1
            BY <4>4, FS_AddElement
          <6>2. Wanting(n, h, j, k) = Wanting(e, g, j, k) \cup {r}
            BY <4>3, <5>1
          <6>3. QED
            BY <3>1, <4>2, <5>1, <6>1, <6>2
        <5>2. CASE k \notin names
          <6>1. Wanting(n, h, j, k) = Wanting(e, g, j, k)
            <7>1. \A q : q \in Wanting(n, h, j, k) <=> q \in Wanting(e, g, j, k)
              BY <4>3, <5>2
            <7>2. QED
              BY <7>1 DEF Wanting
          <6>2. QED
            BY <3>1, <4>2, <5>2, <6>1
        <5>3. QED
          BY <5>1, <5>2
      <4>6. \A k \in Names : e[j].count[k] \in Nat
        BY <3>1, <4>4
      <4>7. n[j].wired = {k \in Names : n[j].count[k] > 0}
        <5>1. \A k \in Names : n[j].count[k] > 0 <=> k \in names \/ e[j].count[k] > 0
          BY <4>2, <4>6
        <5>2. n[j].wired = e[j].wired \cup names
          BY <3>3 DEF Joins
        <5>3. QED
          BY <3>1, <5>1, <5>2
      <4>8. QED
        BY <4>1, <4>5, <4>7
    <3>4. QED
      BY <3>2, <3>3
  <2>2. QED
    BY <1>2, <2>1 DEF Counted
<1>7. Mapping(n, m)
  <2>1. \A j \in DOMAIN e : e[j].subs # {} \/ e[j].linger => n[j].subs # {} \/ n[j].linger
    BY <1>4 DEF Joins
  <2>2. Mapping(e, m)
    BY DEF Sound
  <2>3. \A u \in Urls : m[u] # NoEntry => m[u] \in DOMAIN e
    BY <1>1
  <2>4. QED
    BY <1>2, <2>1, <2>2, <2>3 DEF Mapping
<1>8. /\ joined \in Seq(TurnType) /\ Turns(joined) = {t} \cup Turns(p)
      /\ Bottom(joined)
  <2>1. Bottom(p) /\ p \in Seq(TurnType)
    BY DEF Sound, Turning, Bottom, TurnsWith, Goes
  <2>2. QED
    BY <2>1, Pushed, BottomPushed DEF JoinTurn
<1> HIDE DEF joined
<1>9. Turning(n, joined)
  <2>1. ASSUME NEW k \in DOMAIN p PROVE TurnOK(n, p[k])
    <3>1. TurnOK(e, s[k])
      BY <2>1 DEF Sound, Turning, Turns, TurnsWith
    <3>2. /\ p[k].entry = s[k].entry /\ p[k].phase = s[k].phase /\ p[k].what = s[k].what
          /\ p[k].after = s[k].after /\ (~Tells(s[k].phase) => p[k].todo = s[k].todo)
      BY <2>1 DEF TurnsWith
    <3>3. p[k].phase \in Replay => p[k].todo \subseteq n[p[k].entry].subs
      BY <1>4, <3>1, <3>2 DEF TurnOK, Tells, Replay
    <3>4. QED
      BY <1>2, <3>1, <3>2, <3>3 DEF TurnOK, Tells, Goes
  <2>2. TurnOK(n, t)
    <3>1. e[i].link \in Links
      BY <1>1, Entries DEF EntryType
    <3>2. r \in n[i].subs
      BY DEF Joins
    <3>3. QED
      BY <1>2, <3>1, <3>2 DEF TurnOK, JoinTurn
  <2>3. BackingOff(n, joined)
    <3>1. BackingOff(e, s)
      BY DEF Sound, Turning
    <3>2. ASSUME NEW j \in DOMAIN n, n[j].revive, NEW k \in DOMAIN p, p[k].entry = j
          PROVE  p[k].phase \notin {"status", "reconnect"}
      <4>1. e[j].revive /\ s[k] \in Turns(s) /\ s[k].entry = j /\ p[k].phase = s[k].phase
        BY <1>2, <3>2 DEF Turns, TurnsWith
      <4>2. QED
        BY <1>2, <3>1, <4>1 DEF BackingOff
    <3>3. ASSUME NEW j \in DOMAIN n, n[j].revive, NEW u \in Turns(joined), u.entry = j
          PROVE  u.phase \notin {"status", "reconnect"}
      BY <1>8, <3>2, <3>3 DEF Turns, JoinTurn
    <3>4. QED
      BY <1>2, <3>1, <3>3 DEF BackingOff
  <2>4. QED
    BY <1>8, <2>1, <2>2, <2>3 DEF Turning, Turns
<1>10. /\ \A j, phase, q : ToTell(s, j, phase, q) => ToTell(joined, j, phase, q)
       /\ \A j, q : ToReplay(s, j, q) => ToReplay(joined, j, q)
       /\ \A j : Reporting(s, j) => Reporting(joined, j)
  <2>1. ASSUME NEW x \in Turns(s)
        PROVE  \E u \in Turns(joined) : /\ u.entry = x.entry /\ u.phase = x.phase
                                        /\ u.what = x.what
                                        /\ \A q \in x.todo : q \in u.todo
    <3>1. PICK k \in DOMAIN s : x = s[k]
      BY <2>1 DEF Turns
    <3>2. p[k] \in Turns(joined)
      BY <1>8, <3>1 DEF Turns, TurnsWith
    <3>3. \A q \in s[k].todo : q \in p[k].todo
      BY <3>1 DEF TurnsWith
    <3>4. QED
      BY <3>1, <3>2, <3>3 DEF TurnsWith
  <2>2. ASSUME NEW j, NEW phase, NEW q, ToTell(s, j, phase, q) PROVE ToTell(joined, j, phase, q)
    BY <2>1, <2>2 DEF ToTell
  <2>3. ASSUME NEW j, NEW q, ToReplay(s, j, q) PROVE ToReplay(joined, j, q)
    BY <2>1, <2>3 DEF ToReplay
  <2>4. ASSUME NEW j, Reporting(s, j) PROVE Reporting(joined, j)
    BY <2>1, <2>4 DEF Reporting
  <2>5. QED
    BY <2>2, <2>3, <2>4
<1>11. ASSUME NEW j \in DOMAIN n, NEW q \in n[j].subs
       PROVE  \/ q \in e[j].subs /\ h[q] = g[q]
              \/ q = r /\ j = i
  <2>1. CASE q = r
    BY <1>2, <1>3, <1>11, <2>1
  <2>2. CASE q # r
    BY <1>1, <1>2, <1>4, <1>11, <2>2, Entries
  <2>3. QED
    BY <2>1, <2>2
<1>12. Knowing(n, h, joined)
  <2>1. e[i].link = "none" \/ ToReplay(joined, i, r)
    BY <1>8 DEF ToReplay, JoinTurn
  <2>2. ASSUME NEW j \in DOMAIN n, NEW q \in n[j].subs
        PROVE  /\ h[q].status = n[j].status \/ ToTell(joined, j, "status", q)
               /\ KnowsLink(n, h, joined, j, q)
    <3>1. CASE q \in e[j].subs /\ h[q] = g[q]
      BY <1>2, <1>10, <2>2, <3>1 DEF Sound, Knowing, KnowsLink
    <3>2. CASE q = r /\ j = i
      BY <1>2, <2>1, <3>2 DEF KnowsLink
    <3>3. QED
      BY <1>11, <2>2, <3>1, <3>2
  <2>3. QED
    BY <2>2 DEF Knowing
<1>13. Owing(n, h, joined)
  BY <1>2, <1>10, <1>11 DEF Sound, Owing
<1>14. QED
  BY <1>1, <1>2, <1>5, <1>6, <1>7, <1>8, <1>9, <1>12, <1>13 DEF Sound, Shapes, joined

\* An entry is created: without subscribers it would be on its way out.
Fresh(c, url) ==
  /\ c \in EntryType /\ c.url = url /\ ~c.closed /\ c.subs = {}
  /\ \A k \in Names : c.count[k] = 0
  /\ c.status # "live" /\ c.track.status = c.status /\ (c.revive => c.status = "retrying")

LEMMA FreshSound ==
  ASSUME NEW e, NEW m, NEW g, NEW s, Sound(e, m, g, s),
         NEW url \in Urls, m[url] = NoEntry, NEW c, Fresh(c, url), c.linger, c.wired = {}
  PROVE  Sound(Append(e, c), [m EXCEPT ![url] = Len(e) + 1], g, s)
<1> DEFINE a == Append(e, c)
           i == Len(e) + 1
           p == [m EXCEPT ![url] = i]
<1> USE DEF Fresh
<1>1. /\ e \in Seq(EntryType) /\ g \in [Regs -> RegType] /\ s \in Seq(TurnType)
      /\ m \in [Urls -> DOMAIN e \cup {NoEntry}]
  BY DEF Sound, Shapes
<1>2. /\ Len(e) \in Nat /\ DOMAIN e = 1..Len(e) /\ a \in Seq(EntryType) /\ a[i] = c
      /\ DOMAIN a = 1..Len(e) + 1 /\ \A j \in 1..Len(e) : a[j] = e[j]
  BY <1>1
<1>3. /\ DOMAIN a = DOMAIN e \cup {i} /\ i \notin DOMAIN e /\ i # NoEntry
      /\ \A j \in DOMAIN e : a[j] = e[j]
  BY <1>2 DEF NoEntry
<1>4. p \in [Urls -> DOMAIN a \cup {NoEntry}]
  BY <1>1, <1>3
<1>5. /\ p[url] = i /\ \A u \in Urls : u # url => p[u] = m[u]
      /\ \A u \in Urls : m[u] # NoEntry => m[u] \in DOMAIN e
  BY <1>1
<1> HIDE DEF a, i, p
<1>6. Subscribed(a, g)
  <2>1. Subscribed(e, g)
    BY DEF Sound
  <2>2. ASSUME NEW r \in Regs, NEW j \in DOMAIN a
        PROVE  r \in a[j].subs <=> g[r].at = "in" /\ g[r].entry = j
    <3>1. CASE j = i
      BY <1>2, <1>3, <2>1, <3>1 DEF Subscribed
    <3>2. CASE j # i
      BY <1>3, <2>1, <3>2 DEF Subscribed
    <3>3. QED
      BY <3>1, <3>2
  <2>3. QED
    BY <1>3, <2>1, <2>2 DEF Subscribed
<1>7. Counted(a, g)
  <2>1. ASSUME NEW j \in DOMAIN e
        PROVE  /\ IsFiniteSet(a[j].subs)
               /\ \A k \in Names : a[j].count[k] = Cardinality(Wanting(a, g, j, k))
               /\ a[j].wired = {k \in Names : a[j].count[k] > 0}
    <3>1. a[j] = e[j]
      BY <1>3
    <3>2. \A k : Wanting(a, g, j, k) = Wanting(e, g, j, k)
      BY <3>1 DEF Wanting
    <3>3. QED
      BY <3>1, <3>2 DEF Sound, Counted
  <2>2. /\ IsFiniteSet(c.subs) /\ \A k : Cardinality(Wanting(a, g, i, k)) = 0
    <3>1. \A k : Wanting(a, g, i, k) = {}
      BY <1>2 DEF Wanting
    <3>2. QED
      BY <3>1, FS_EmptySet
  <2>3. c.wired = {k \in Names : c.count[k] > 0}
    OBVIOUS
  <2>4. ASSUME NEW j \in DOMAIN a
        PROVE  /\ IsFiniteSet(a[j].subs)
               /\ \A k \in Names : a[j].count[k] = Cardinality(Wanting(a, g, j, k))
               /\ a[j].wired = {k \in Names : a[j].count[k] > 0}
    <3>1. CASE j = i
      BY <1>2, <2>2, <2>3, <3>1
    <3>2. CASE j # i
      BY <1>3, <2>1, <3>2
    <3>3. QED
      BY <3>1, <3>2
  <2>5. QED
    BY <2>4 DEF Counted
<1>8. Mapping(a, p)
  <2>1. Mapping(e, m)
    BY DEF Sound
  <2>2. \A j \in DOMAIN e : e[j].url \in Urls
    <3>1. ASSUME NEW j \in DOMAIN e PROVE e[j] \in EntryType
      BY <1>1, Entries
    <3>2. QED
      BY <3>1 DEF EntryType
  <2>3. ASSUME NEW u \in Urls, p[u] # NoEntry PROVE a[p[u]].url = u
    BY <1>2, <1>3, <1>5, <2>1, <2>3 DEF Mapping
  <2>4. ASSUME NEW j \in DOMAIN a PROVE p[a[j].url] = j <=> ~a[j].closed
    <3>1. CASE j = i
      BY <1>2, <1>5, <3>1
    <3>2. CASE j \in DOMAIN e /\ e[j].url = url
      <4>1. p[a[j].url] # j /\ a[j] = e[j] /\ m[e[j].url] # j
        BY <1>2, <1>3, <1>5, <3>2 DEF NoEntry
      <4>2. QED
        BY <2>1, <3>2, <4>1 DEF Mapping
    <3>3. CASE j \in DOMAIN e /\ e[j].url # url
      <4>1. p[a[j].url] = m[e[j].url] /\ a[j] = e[j]
        BY <1>3, <1>5, <2>2, <3>3
      <4>2. QED
        BY <2>1, <3>3, <4>1 DEF Mapping
    <3>4. QED
      BY <1>3, <3>1, <3>2, <3>3
  <2>5. ASSUME NEW j \in DOMAIN a, ~a[j].closed PROVE a[j].subs # {} \/ a[j].linger
    BY <1>2, <1>3, <2>1, <2>5 DEF Mapping
  <2>6. QED
    BY <2>3, <2>4, <2>5 DEF Mapping
<1>9. Turning(a, s)
  <2>1. ASSUME NEW t \in Turns(s) PROVE TurnOK(a, t) /\ t.entry \in DOMAIN e
    <3>1. TurnOK(e, t)
      BY <2>1 DEF Sound, Turning
    <3>2. t.entry \in DOMAIN e /\ a[t.entry] = e[t.entry]
      BY <1>3, <3>1 DEF TurnOK
    <3>3. QED
      BY <1>3, <3>1, <3>2 DEF TurnOK
  <2>2. BackingOff(a, s)
    <3>1. BackingOff(e, s)
      BY DEF Sound, Turning
    <3>2. QED
      BY <1>2, <1>3, <2>1, <3>1 DEF BackingOff
  <2>3. QED
    BY <2>1, <2>2 DEF Sound, Turning
<1>10. Knowing(a, g, s)
  BY <1>2, <1>3 DEF Sound, Knowing, KnowsLink
<1>11. Owing(a, g, s)
  BY <1>2, <1>3 DEF Sound, Owing
<1>12. QED
  BY <1>1, <1>2, <1>3, <1>4, <1>6, <1>7, <1>8, <1>9, <1>10, <1>11 DEF Sound, Shapes, a, p, i

\* A nudge opens the connection, or does nothing.
NudgedTo(e, i, ok) ==
  IF e[i].revive /\ ~e[i].closed /\ ok
  THEN Reported([e EXCEPT ![i].revive = FALSE], i, "connecting") ELSE e

NudgedBy(e, i, turns, ok) ==
  IF e[i].revive /\ ~e[i].closed /\ ok
  THEN <<StatusTurn(NudgedTo(e, i, ok), i, "none")>> \o turns ELSE turns

LEMMA ReviveSound ==
  ASSUME NEW e, NEW m, NEW g, NEW s, Sound(e, m, g, s), NEW i \in DOMAIN e, e[i].revive
  PROVE  LET n == Reported([e EXCEPT ![i].revive = FALSE], i, "connecting")
         IN  Sound(n, m, g, <<StatusTurn(n, i, "none")>> \o s)
<1> DEFINE x == [e[i] EXCEPT !.revive = FALSE]
           o == [e EXCEPT ![i].revive = FALSE]
<1>1. /\ e \in Seq(EntryType) /\ e[i] \in EntryType
      /\ m \in [Urls -> DOMAIN e \cup {NoEntry}]
  BY Entries DEF Sound, Shapes
<1>2. x \in EntryType
  BY <1>1 DEF EntryType
<1>3. /\ x.url = e[i].url /\ x.closed = e[i].closed /\ x.status = e[i].status
      /\ x.subs = e[i].subs /\ x.count = e[i].count /\ x.wired = e[i].wired
      /\ x.linger = e[i].linger /\ x.link = e[i].link /\ x.down = e[i].down
      /\ x.track = e[i].track /\ ~x.revive
  BY <1>1 DEF EntryType
<1>4. o = [e EXCEPT ![i] = x]
  OBVIOUS
<1> HIDE DEF x, o
<1>5. /\ o \in Seq(EntryType) /\ DOMAIN o = DOMAIN e /\ o[i] = x
      /\ \A j \in DOMAIN e : j # i => o[j] = e[j]
  BY <1>1, <1>2, <1>4, Updated
<1>6. /\ Same(e, o, {"status", "subs", "count", "wired", "link", "down"})
      /\ Same(e, o, {"url", "closed", "subs", "linger"})
  BY <1>3, <1>5 DEF Same
<1>7. Mapping(o, m)
  BY <1>1, <1>6, MappingStays DEF Sound
<1>8. Sound(o, m, g, s)
  <2>1. \A j \in DOMAIN e : o[j].track = e[j].track /\ (o[j].revive => e[j].revive)
    BY <1>3, <1>5
  <2>2. QED
    BY <1>1, <1>5, <1>6, <1>7, <2>1, QuietSound
<1>9. \A t \in Turns(s) : t.entry = i =>
        /\ ~Goes(t) /\ t.phase \notin {"status", "reconnect"}
        /\ o[i].status = "retrying"
  BY <1>3, <1>5 DEF Sound, Turning, TurnOK, BackingOff
<1>10. Sound(Reported(o, i, "connecting"), m, g,
             <<StatusTurn(Reported(o, i, "connecting"), i, "none")>> \o s)
  BY <1>3, <1>5, <1>8, <1>9, ReportSound DEF Statuses
<1>11. QED
  BY <1>10 DEF o

LEMMA NudgeSound ==
  ASSUME NEW e, NEW m, NEW g, NEW s, Sound(e, m, g, s), NEW i \in DOMAIN e, NEW ok
  PROVE  Sound(NudgedTo(e, i, ok), m, g, NudgedBy(e, i, s, ok))
<1>1. CASE e[i].revive /\ ~e[i].closed /\ ok
  BY <1>1, ReviveSound DEF NudgedTo, NudgedBy
<1>2. CASE ~(e[i].revive /\ ~e[i].closed /\ ok)
  BY <1>2 DEF NudgedTo, NudgedBy
<1>3. QED
  BY <1>1, <1>2

-----------------------------------------------------------------------------
(* The steps of the registry *)

LEMMA InitSound == Init => IInv
<1> SUFFICES ASSUME Init PROVE IInv
  OBVIOUS
<1>1. Shapes(entry, entries, reg, stack)
  <2>1. entry \in Seq(EntryType) /\ stack \in Seq(TurnType)
    BY DEF Init
  <2>2. entries \in [Urls -> DOMAIN entry \cup {NoEntry}]
    BY DEF Init
  <2>3. NewReg \in RegType
    BY DEF NewReg, RegType, NoEntry, Links
  <2>4. reg \in [Regs -> RegType]
    BY <2>3 DEF Init
  <2>5. QED
    BY <2>1, <2>2, <2>4 DEF Shapes
<1>2. DOMAIN entry = {} /\ Turns(stack) = {} /\ Bottom(stack)
  BY NoTurns DEF Init
<1>3. Subscribed(entry, reg)
  BY <1>2 DEF Init, NewReg, Subscribed
<1>4. Counted(entry, reg) /\ Knowing(entry, reg, stack) /\ Owing(entry, reg, stack)
  BY <1>2 DEF Counted, Knowing, Owing
<1>5. Mapping(entry, entries)
  BY <1>2 DEF Mapping, Init
<1>6. Turning(entry, stack)
  BY <1>2 DEF Turning, BackingOff
<1>7. QED
  BY <1>1, <1>3, <1>4, <1>5, <1>6 DEF IInv, Sound

LEMMA TopFacts ==
  ASSUME IInv, stack # << >>, NEW i, i = Top.entry
  PROVE  /\ entry \in Seq(EntryType) /\ i \in DOMAIN entry /\ entry[i] \in EntryType
         /\ Top \in TurnType /\ TurnOK(entry, Top) /\ i \in Nat
         /\ entry[i].subs \subseteq Regs
<1>1. Top \in TurnType /\ TurnOK(entry, Top) /\ i \in DOMAIN entry
  BY TopIsSound DEF IInv, Top
<1>2. entry \in Seq(EntryType) /\ entry[i] \in EntryType /\ entry[i].subs \subseteq Regs
  BY <1>1, Entries DEF IInv, Sound, Shapes
<1>3. QED
  BY <1>1, <1>2 DEF TurnType

LEMMA CallKeeps ==
  ASSUME IInv, NEW r \in Regs, Call(r)
  PROVE  IInv'
<1>1. PICK i : i = Top.entry
  OBVIOUS
<1>2. PICK t : t = [Top EXCEPT !.todo = @ \ {r}, !.inside = TRUE]
  OBVIOUS
<1>3. stack # << >> /\ r \in Top.todo \cap entry[i].subs /\ Tells(Top.phase)
  BY <1>1 DEF Call, Waiting
<1>4. /\ Top \in TurnType /\ TurnOK(entry, Top)
  BY <1>1, <1>3, TopFacts
<1>5. /\ t \in TurnType /\ t.entry = i /\ t.after = Top.after /\ t.phase = Top.phase
      /\ t.what = Top.what /\ t.todo = Top.todo \ {r}
  BY <1>1, <1>2, <1>4 DEF TurnType
<1>6. /\ stack' = <<t>> \o Tail(stack) /\ entry' = entry /\ entries' = entries
      /\ reg' = [reg EXCEPT ![r] = Told(reg[r])]
  BY <1>2 DEF Call
<1>7. Top.phase \in {"status", "reconnect", "link"}
  BY <1>3 DEF Tells
<1>8. reg \in [Regs -> RegType] /\ reg[r] \in RegType
  BY DEF IInv, Sound, Shapes
<1>9. /\ Told(reg[r]) \in RegType
      /\ Told(reg[r]).at = reg[r].at /\ Told(reg[r]).entry = reg[r].entry
      /\ Told(reg[r]).names = reg[r].names
      /\ Told(reg[r]).status = IF Top.phase = "status" THEN Top.what ELSE reg[r].status
      /\ Told(reg[r]).link = IF Top.phase = "link" THEN Top.what ELSE reg[r].link
      /\ Told(reg[r]).owed = OwedAfter(Top, reg[r])
      /\ Top.phase # "link" => Told(reg[r]).stale = reg[r].stale
  <2>1. CASE Top.phase = "status"
    <3>1. Top.what \in Statuses
      <4>1. i \in DOMAIN entry /\ entry[i] \in EntryType
        BY <1>1, <1>3, TopFacts
      <4>2. QED
        BY <1>1, <1>4, <2>1, <4>1 DEF TurnOK, EntryType
    <3>2. Told(reg[r]) = [reg[r] EXCEPT !.status = Top.what,
                                        !.owed = Top.what = "retrying" \/ reg[r].owed]
      BY <2>1 DEF Told
    <3>3. (Top.what = "retrying" \/ reg[r].owed) \in BOOLEAN
      OBVIOUS
    <3>4. QED
      BY <1>8, <2>1, <3>1, <3>2, <3>3 DEF RegType, OwedAfter
  <2>2. CASE Top.phase = "reconnect"
    <3>1. Told(reg[r]) = [reg[r] EXCEPT !.owed = FALSE]
      BY <2>2 DEF Told
    <3>2. QED
      BY <1>8, <2>2, <3>1 DEF RegType, OwedAfter
  <2>3. CASE Top.phase = "link"
    <3>1. Top.what \in Links
      <4>1. i \in DOMAIN entry /\ entry[i] \in EntryType
        BY <1>1, <1>3, TopFacts
      <4>2. QED
        BY <1>1, <1>4, <2>3, <4>1 DEF TurnOK, EntryType
    <3>2. Told(reg[r]) = [reg[r] EXCEPT !.link = Top.what, !.stale = FALSE]
      BY <2>3 DEF Told
    <3>3. QED
      BY <1>8, <2>3, <3>1, <3>2 DEF RegType, OwedAfter
  <2>4. QED
    BY <1>7, <2>1, <2>2, <2>3
<1>10. /\ reg' \in [Regs -> RegType] /\ reg'[r] = Told(reg[r])
       /\ \A q \in Regs : q # r => reg'[q] = reg[q]
  BY <1>6, <1>8, <1>9
<1>11. PICK top : top = Head(stack)
  OBVIOUS
<1>12. Sound(entry, entries, reg', <<t>> \o Tail(stack))
  <2>1. Sound(entry, entries, reg, stack)
    BY DEF IInv
  <2>2. /\ top = Head(stack) /\ i = top.entry /\ r \in top.todo \cap entry[i].subs
        /\ t.after = top.after /\ t.phase = top.phase /\ t.what = top.what
        /\ t.todo = top.todo \ {r} /\ Tells(top.phase)
    BY <1>1, <1>3, <1>5, <1>11 DEF Top
  <2>3. /\ reg'[r].at = reg[r].at /\ reg'[r].entry = reg[r].entry
        /\ reg'[r].names = reg[r].names
        /\ reg'[r].status = IF top.phase = "status" THEN top.what ELSE reg[r].status
        /\ reg'[r].link = IF top.phase = "link" THEN top.what ELSE reg[r].link
        /\ reg'[r].owed = OwedAfter(top, reg[r])
        /\ top.phase # "link" => reg'[r].stale = reg[r].stale
    BY <1>9, <1>10, <1>11 DEF Top
  <2>4. QED
    BY <1>3, <1>5, <1>10, <2>1, <2>2, <2>3, CallSound
<1>13. QED
  BY <1>6, <1>12 DEF IInv

\* What a turn goes on with.
LEMMA PhaseTurn ==
  ASSUME NEW i \in Nat, NEW phase \in Phases, NEW what \in Statuses \cup Links,
         NEW todo \in SUBSET Regs, NEW after \in {"none", "nudge", "revive", "open"}
  PROVE  /\ Turn(i, phase, what, todo, after) \in TurnType
         /\ Turn(i, phase, what, todo, after).entry = i
         /\ Turn(i, phase, what, todo, after).phase = phase
         /\ Turn(i, phase, what, todo, after).what = what
         /\ Turn(i, phase, what, todo, after).todo = todo
         /\ Turn(i, phase, what, todo, after).after = after
  BY DEF Turn, TurnType

LEMMA EdgeKeeps ==
  ASSUME IInv, Edge
  PROVE  IInv'
<1>1. PICK i : i = Top.entry
  OBVIOUS
<1>2. PICK top : top = Head(stack)
  OBVIOUS
<1>3. stack # << >> /\ top.phase = "status" /\ top.todo \cap entry[i].subs = {} /\ i = top.entry
  BY <1>1, <1>2 DEF Edge, ToldAll, Waiting, Tells, Top
<1>4. /\ entry \in Seq(EntryType) /\ i \in DOMAIN entry /\ entry[i] \in EntryType
      /\ top \in TurnType /\ i \in Nat /\ entry[i].subs \subseteq Regs
  BY <1>1, <1>2, <1>3, TopFacts DEF Top
<1>5. PICK d \in BOOLEAN : d = IF top.what = "live" THEN FALSE
                              ELSE top.what = "retrying" \/ entry[i].down
  BY <1>4 DEF EntryType
<1>6. PICK x : x = [entry[i] EXCEPT !.down = d]
  OBVIOUS
<1>7. /\ x \in EntryType /\ x.down = d
      /\ \A f \in {"url", "closed", "status", "revive", "subs", "count", "wired", "linger",
                   "track", "link"} : x[f] = entry[i][f]
  BY <1>4, <1>6 DEF EntryType
<1>8. entry' = [entry EXCEPT ![i] = x]
  BY <1>1, <1>2, <1>5, <1>6 DEF Edge, Top
<1>9. /\ entry' \in Seq(EntryType) /\ DOMAIN entry' = DOMAIN entry /\ entry'[i] = x
      /\ \A j \in DOMAIN entry : j # i => entry'[j] = entry[j]
  BY <1>4, <1>7, <1>8, Updated
<1>10. PICK t : t = IF top.what = "live" /\ entry[i].down
                    THEN Turn(i, "reconnect", "live", entry[i].subs, top.after)
                    ELSE Turn(i, "judge", "none", {}, top.after)
  OBVIOUS
<1>11. /\ t \in TurnType /\ t.entry = i /\ t.after = top.after
       /\ IF top.what = "live" /\ entry[i].down
          THEN t.phase = "reconnect" /\ t.todo = entry[i].subs
          ELSE t.phase = "judge" /\ t.todo = {}
  <2>1. top.after \in {"none", "nudge", "revive", "open"}
    BY <1>4 DEF TurnType
  <2>2. CASE top.what = "live" /\ entry[i].down
    <3>1. t = Turn(i, "reconnect", "live", entry[i].subs, top.after)
      BY <1>10, <2>2
    <3>2. "live" \in Statuses /\ "reconnect" \in Phases
      BY DEF Statuses, Phases
    <3>3. QED
      BY <1>4, <2>1, <2>2, <3>1, <3>2, PhaseTurn
  <2>3. CASE ~(top.what = "live" /\ entry[i].down)
    <3>1. t = Turn(i, "judge", "none", {}, top.after)
      BY <1>10, <2>3
    <3>2. "none" \in Links /\ "judge" \in Phases /\ {} \in SUBSET Regs
      BY DEF Links, Phases
    <3>3. QED
      BY <1>4, <2>1, <2>3, <3>1, <3>2, PhaseTurn
  <2>4. QED
    BY <2>2, <2>3
<1>12. /\ stack' = <<t>> \o Tail(stack) /\ entries' = entries /\ reg' = reg
  <2>1. entry'[i].subs = entry[i].subs
    BY <1>7, <1>9
  <2>2. QED
    BY <1>1, <1>2, <1>3, <1>10, <2>1 DEF Edge, Phase, Tells, Top
<1>13. Sound(entry', entries, reg, <<t>> \o Tail(stack))
  <2>1. Sound(entry, entries, reg, stack)
    BY DEF IInv
  <2>2. Same(entry, entry', {"url", "closed", "status", "revive", "subs", "count", "wired",
                             "linger", "track", "link"})
    BY <1>7, <1>9 DEF Same
  <2>3. \A j \in DOMAIN entry : j # i => entry'[j].down = entry[j].down
    BY <1>9
  <2>4. entry'[i].down <=> top.what # "live" /\ (top.what = "retrying" \/ entry[i].down)
    BY <1>5, <1>7, <1>9
  <2>5. QED
    BY <1>2, <1>3, <1>9, <1>11, <2>1, <2>2, <2>3, <2>4, EdgeSound
<1>14. QED
  BY <1>12, <1>13 DEF IInv

\* Reconnected and Judged.
LEMMA GoesOn ==
  ASSUME IInv, NEW phase \in {"reconnect", "link"}, ToldAll(phase),
         NEW next \in {"judge", "arm"}, UNCHANGED <<entry, entries, listening, reg>>,
         Phase(next, "none")
  PROVE  IInv'
<1>1. PICK i : i = Top.entry
  OBVIOUS
<1>2. PICK top : top = Head(stack)
  OBVIOUS
<1>3. stack # << >> /\ top.phase = phase /\ top.todo \cap entry[i].subs = {} /\ i = top.entry
  BY <1>1, <1>2 DEF ToldAll, Waiting, Tells, Top
<1>4. top \in TurnType /\ i \in Nat
  BY <1>1, <1>2, <1>3, TopFacts DEF Top
<1>5. PICK t : t = Turn(i, next, "none", {}, top.after)
  OBVIOUS
<1>6. /\ t \in TurnType /\ t.entry = i /\ t.phase = next /\ t.todo = {} /\ t.after = top.after
  <2>1. top.after \in {"none", "nudge", "revive", "open"}
    BY <1>4 DEF TurnType
  <2>2. QED
    BY <1>4, <1>5, <2>1, PhaseTurn DEF Phases, Links
<1>7. stack' = <<t>> \o Tail(stack)
  BY <1>1, <1>2, <1>5 DEF Phase, Tells, Top
<1>8. Sound(entry, entries, reg, stack)
  BY DEF IInv
<1>9. Sound(entry, entries, reg, <<t>> \o Tail(stack))
  BY <1>2, <1>3, <1>6, <1>8, PhaseSound
<1>10. QED
  BY <1>7, <1>9 DEF IInv

LEMMA JudgeKeeps ==
  ASSUME IInv, Judge
  PROVE  IInv'
<1>1. PICK i : i = Top.entry
  OBVIOUS
<1>2. PICK top : top = Head(stack)
  OBVIOUS
<1>3. stack # << >> /\ top.phase = "judge" /\ i = top.entry
  BY <1>1, <1>2 DEF Judge, ToldAll, Top
<1>4. /\ entry \in Seq(EntryType) /\ i \in DOMAIN entry /\ entry[i] \in EntryType
      /\ top \in TurnType /\ i \in Nat /\ entry[i].subs \subseteq Regs
  BY <1>1, <1>2, <1>3, TopFacts DEF Top
<1>5. PICK link : link = LinkAt(entry[i].track, Now)
  OBVIOUS
<1>6. link \in Links
  <2>1. entry[i].track \in LinkTrack /\ entry[i].track.status \in Statuses
    BY <1>4 DEF EntryType, LinkTrack
  <2>2. QED
    BY <1>5, <2>1, TrackTypes
<1>7. PICK x : x = [entry[i] EXCEPT !.deadline = Off, !.link = link]
  OBVIOUS
<1>8. /\ x \in EntryType /\ x.link = link
      /\ \A f \in {"url", "closed", "status", "revive", "subs", "count", "wired", "linger",
                   "track", "down"} : x[f] = entry[i][f]
  <2>1. Off \in Int
    BY DEF Off
  <2>2. QED
    BY <1>4, <1>6, <1>7, <2>1 DEF EntryType
<1>9. entry' = [entry EXCEPT ![i] = x]
  BY <1>1, <1>4, <1>5, <1>7 DEF Judge
<1>10. /\ entry' \in Seq(EntryType) /\ DOMAIN entry' = DOMAIN entry /\ entry'[i] = x
       /\ \A j \in DOMAIN entry : j # i => entry'[j] = entry[j]
  BY <1>4, <1>8, <1>9, Updated
<1>11. PICK t : t = IF link # entry[i].link /\ link # "none"
                    THEN Turn(i, "link", link, entry[i].subs, top.after)
                    ELSE Turn(i, "arm", "none", {}, top.after)
  OBVIOUS
<1>12. /\ t \in TurnType /\ t.entry = i /\ t.after = top.after
       /\ IF link # entry[i].link /\ link # "none"
          THEN t.phase = "link" /\ t.what = link /\ t.todo = entry[i].subs
          ELSE t.phase = "arm" /\ t.todo = {}
  <2>1. top.after \in {"none", "nudge", "revive", "open"}
    BY <1>4 DEF TurnType
  <2>2. CASE link # entry[i].link /\ link # "none"
    <3>1. t = Turn(i, "link", link, entry[i].subs, top.after)
      BY <1>11, <2>2
    <3>2. "link" \in Phases
      BY DEF Phases
    <3>3. QED
      BY <1>4, <1>6, <2>1, <2>2, <3>1, <3>2, PhaseTurn
  <2>3. CASE ~(link # entry[i].link /\ link # "none")
    <3>1. t = Turn(i, "arm", "none", {}, top.after)
      BY <1>11, <2>3
    <3>2. "none" \in Links /\ "arm" \in Phases /\ {} \in SUBSET Regs
      BY DEF Links, Phases
    <3>3. QED
      BY <1>4, <2>1, <2>3, <3>1, <3>2, PhaseTurn
  <2>4. QED
    BY <2>2, <2>3
<1>13. /\ stack' = <<t>> \o Tail(stack) /\ entries' = entries /\ reg' = reg
  <2>1. entry'[i].subs = entry[i].subs
    BY <1>8, <1>10
  <2>2. QED
    BY <1>1, <1>2, <1>3, <1>5, <1>11, <2>1 DEF Judge, Phase, Tells, Top
<1>14. Sound(entry', entries, reg, <<t>> \o Tail(stack))
  <2>1. Sound(entry, entries, reg, stack)
    BY DEF IInv
  <2>2. Same(entry, entry', {"url", "closed", "status", "revive", "subs", "count", "wired",
                             "linger", "track", "down"})
    BY <1>8, <1>10 DEF Same
  <2>3. \A j \in DOMAIN entry : j # i => entry'[j].link = entry[j].link
    BY <1>10
  <2>4. entry'[i].link = link
    BY <1>8, <1>10
  <2>5. QED
    BY <1>2, <1>3, <1>5, <1>10, <1>12, <2>1, <2>2, <2>3, <2>4, JudgeSound
<1>15. QED
  BY <1>13, <1>14 DEF IInv

\* One entry changed in what no subscriber sees.
Unseen(x, c) ==
  \A f \in {"url", "closed", "status", "subs", "count", "wired", "linger", "track", "link",
            "down"} : x[f] = c[f]

BacksOff(x, c, s, i) ==
  x.revive => c.revive \/ (c.status = "retrying" /\ \A t \in Turns(s) : t.entry # i)

LEMMA QuietEntry ==
  ASSUME NEW e, NEW m, NEW g, NEW s, Sound(e, m, g, s), NEW i \in DOMAIN e,
         NEW x \in EntryType, Unseen(x, e[i]), BacksOff(x, e[i], s, i),
         NEW n, n = [e EXCEPT ![i] = x]
  PROVE  Sound(n, m, g, s) /\ i \in DOMAIN n /\ n[i] = x
<1>1. e \in Seq(EntryType) /\ m \in [Urls -> DOMAIN e \cup {NoEntry}]
  BY DEF Sound, Shapes
<1>2. /\ n \in Seq(EntryType) /\ DOMAIN n = DOMAIN e /\ n[i] = x
      /\ \A j \in DOMAIN e : j # i => n[j] = e[j]
  BY <1>1, Updated
<1>3. /\ Same(e, n, {"status", "subs", "count", "wired", "link", "down"})
      /\ Same(e, n, {"url", "closed", "subs", "linger"})
  BY <1>2 DEF Same, Unseen
<1>4. Mapping(n, m)
  BY <1>1, <1>3, MappingStays DEF Sound
<1>5. \A j \in DOMAIN e :
        /\ n[j].track = e[j].track
        /\ n[j].revive => \/ e[j].revive
                          \/ e[j].status = "retrying" /\ \A t \in Turns(s) : t.entry # j
  BY <1>2 DEF Unseen, BacksOff
<1>6. QED
  BY <1>1, <1>2, <1>3, <1>4, <1>5, QuietSound

LEMMA ArmKeeps ==
  ASSUME IInv, Arm
  PROVE  IInv'
<1>1. PICK i : i = Top.entry
  OBVIOUS
<1>2. PICK top : top = Head(stack)
  OBVIOUS
<1>3. stack # << >> /\ top.phase = "arm" /\ i = top.entry
  BY <1>1, <1>2 DEF Arm, ToldAll, Top
<1>4. /\ entry \in Seq(EntryType) /\ i \in DOMAIN entry /\ entry[i] \in EntryType
      /\ top \in TurnType /\ TurnOK(entry, top)
  BY <1>1, <1>2, <1>3, TopFacts DEF Top
<1>5. PICK tail : tail = Tail(stack)
  OBVIOUS
<1>6. Sound(entry, entries, reg, tail)
  BY <1>2, <1>3, <1>5, PopSound DEF IInv
<1>7. Goes(top) => tail = << >>
  <2>1. stack \in Seq(TurnType) /\ Bottom(stack)
    BY DEF IInv, Sound, Shapes, Turning
  <2>2. QED
    BY <1>2, <1>3, <1>5, <2>1, Alone
<1>8. PICK strays : strays = IF entry[i].deadline = Off THEN entry[i].strays
                             ELSE entry[i].strays \cup {entry[i].deadline}
  OBVIOUS
<1>9. PICK deadline : deadline = DeadlineIn(entry[i].track)
  OBVIOUS
<1>10. strays \in SUBSET Int /\ deadline \in Int
  <2>1. /\ entry[i].strays \in SUBSET Int /\ entry[i].deadline \in Int
        /\ entry[i].track \in LinkTrack /\ entry[i].track.status \in Statuses
    BY <1>4 DEF EntryType, LinkTrack
  <2>2. QED
    BY <1>8, <1>9, <2>1, TrackTypes
<1>11. PICK x : x = [entry[i] EXCEPT !.deadline = deadline, !.strays = strays]
  OBVIOUS
<1>12. /\ x \in EntryType /\ x.revive = entry[i].revive /\ x.status = entry[i].status
       /\ Unseen(x, entry[i]) /\ BacksOff(x, entry[i], tail, i)
  BY <1>4, <1>10, <1>11 DEF EntryType, Unseen, BacksOff
<1>13. PICK armed : armed = [entry EXCEPT ![i] = x]
  OBVIOUS
<1>14. Sound(armed, entries, reg, tail) /\ i \in DOMAIN armed /\ armed[i] = x
  BY <1>4, <1>6, <1>12, <1>13, QuietEntry
<1>15. armed = [entry EXCEPT ![i].deadline = deadline, ![i].strays = strays]
  BY <1>4, <1>11, <1>13
<1>16. CASE top.after = "open"
  <2>1. PICK y : y = [x EXCEPT !.loose = entry[i].closed]
    OBVIOUS
  <2>2. PICK n : n = [armed EXCEPT ![i] = y]
    OBVIOUS
  <2>3. y \in EntryType /\ y.revive = x.revive /\ Unseen(y, x) /\ BacksOff(y, x, tail, i)
    <3>1. entry[i].closed \in BOOLEAN
      BY <1>4 DEF EntryType
    <3>2. QED
      BY <1>12, <2>1, <3>1 DEF EntryType, Unseen, BacksOff
  <2>4. Sound(n, entries, reg, tail) /\ i \in DOMAIN n /\ n[i] = y
    BY <1>14, <2>2, <2>3, QuietEntry
  <2>5. ~y.revive
    BY <1>3, <1>12, <1>16, <2>3, <1>4 DEF TurnOK, Goes
  <2>6. tail = << >> /\ Turns(tail) = {}
    BY <1>7, <1>16, NoTurns DEF Goes
  <2>7. Sound(Reported(n, i, "connecting"), entries, reg,
              <<StatusTurn(Reported(n, i, "connecting"), i, "none")>> \o tail)
    BY <2>4, <2>5, <2>6, ReportSound DEF Statuses
  <2>8. n = [armed EXCEPT ![i].loose = entry[i].closed]
    BY <1>14, <2>1, <2>2
  <2>9. /\ entry' = Reported(n, i, "connecting") /\ entries' = entries /\ reg' = reg
        /\ stack' = <<StatusTurn(entry', i, "none")>> \o tail
    BY <1>1, <1>2, <1>5, <1>8, <1>9, <1>15, <1>16, <2>8 DEF Arm, Top
  <2>10. QED
    BY <2>7, <2>9 DEF IInv
<1>17. CASE top.after # "open"
  <2>1. PICK revive \in BOOLEAN :
          revive = ((top.after = "revive" /\ ~entry[i].closed) \/ x.revive)
    BY <1>12 DEF EntryType
  <2>2. PICK y : y = [x EXCEPT !.revive = revive]
    OBVIOUS
  <2>3. PICK n : n = [armed EXCEPT ![i] = y]
    OBVIOUS
  <2>4. y \in EntryType /\ y.revive = revive /\ Unseen(y, x)
    BY <1>12, <2>2 DEF EntryType, Unseen
  <2>5. BacksOff(y, x, tail, i)
    <3>1. top.after = "revive" => x.status = "retrying" /\ Turns(tail) = {}
      BY <1>3, <1>4, <1>7, <1>12, NoTurns DEF TurnOK, Goes
    <3>2. QED
      BY <2>1, <2>4, <3>1 DEF BacksOff
  <2>6. Sound(n, entries, reg, tail)
    BY <1>14, <2>3, <2>4, <2>5, QuietEntry
  <2>7. n = [armed EXCEPT ![i].revive = (top.after = "revive" /\ ~entry[i].closed) \/ armed[i].revive]
    BY <1>14, <2>1, <2>2, <2>3
  <2>8. /\ entry' = n /\ entries' = entries /\ reg' = reg /\ stack' = tail
    BY <1>1, <1>2, <1>5, <1>8, <1>9, <1>15, <1>17, <2>7 DEF Arm, Top
  <2>9. QED
    BY <2>6, <2>8 DEF IInv
<1>18. QED
  BY <1>16, <1>17

LEMMA UnsubscribeKeeps ==
  ASSUME IInv, NEW r \in Regs, Unsubscribe(r)
  PROVE  IInv'
<1>1. PICK i : i = reg[r].entry
  OBVIOUS
<1>2. reg[r].at # "new"
  BY DEF Unsubscribe
<1>3. /\ entry \in Seq(EntryType) /\ i \in DOMAIN entry /\ reg \in [Regs -> RegType]
      /\ reg[r] \in RegType
  BY <1>1, <1>2 DEF IInv, Sound, Shapes, Subscribed
<1>4. entry[i] \in EntryType /\ entry[i].subs \subseteq Regs
  BY <1>3, Entries
<1>5. PICK x : x = IF r \in entry[i].subs THEN Released(entry[i], r) ELSE entry[i]
  OBVIOUS
<1>6. PICK count : count = [n \in Names |-> IF n \in reg[r].names THEN entry[i].count[n] - 1
                                            ELSE entry[i].count[n]]
  OBVIOUS
<1>7. count \in [Names -> Int]
  <2>1. entry[i].count \in [Names -> Int]
    BY <1>4 DEF EntryType
  <2>2. QED
    BY <1>6, <2>1
<1>8. ASSUME r \in entry[i].subs
      PROVE  /\ x \in EntryType
             /\ \A f \in {"url", "closed", "status", "revive", "track", "link", "down"} :
                  x[f] = entry[i][f]
             /\ x.subs = entry[i].subs \ {r} /\ x.count = count
             /\ x.wired = {n \in entry[i].wired : count[n] > 0}
             /\ x.linger <=> entry[i].linger \/ entry[i].subs = {r}
  <2>1. PICK linger \in BOOLEAN : linger = (entry[i].linger \/ entry[i].subs = {r})
    BY <1>4 DEF EntryType
  <2>2. PICK wired : wired = {n \in entry[i].wired : count[n] > 0}
    OBVIOUS
  <2>3. wired \in SUBSET Names
    BY <1>4, <2>2 DEF EntryType
  <2>4. PICK subs : subs = entry[i].subs \ {r}
    OBVIOUS
  <2>5. subs \in SUBSET Regs
    BY <1>4, <2>4
  <2>6. x = [entry[i] EXCEPT !.subs = subs, !.count = count, !.wired = wired, !.linger = linger]
    BY <1>5, <1>6, <1>8, <2>1, <2>2, <2>4 DEF Released
  <2>7. /\ x \in EntryType
        /\ \A f \in {"url", "closed", "status", "revive", "track", "link", "down"} :
             x[f] = entry[i][f]
        /\ x.subs = subs /\ x.count = count /\ x.wired = wired /\ x.linger = linger
    BY <1>4, <1>7, <2>1, <2>3, <2>5, <2>6 DEF EntryType
  <2>8. QED
    BY <2>1, <2>2, <2>4, <2>7
<1>9. r \notin entry[i].subs => x = entry[i]
  BY <1>5
<1>10. x \in EntryType
  BY <1>4, <1>8, <1>9
<1>11. /\ entry' = [entry EXCEPT ![i] = x] /\ entries' = entries /\ stack' = stack
       /\ reg' = [reg EXCEPT ![r] = Gone(reg[r])]
  BY <1>1, <1>5 DEF Unsubscribe
<1>12. /\ entry' \in Seq(EntryType) /\ DOMAIN entry' = DOMAIN entry /\ entry'[i] = x
       /\ \A j \in DOMAIN entry : j # i => entry'[j] = entry[j]
  BY <1>3, <1>10, <1>11, Updated
<1>13. /\ Gone(reg[r]) \in RegType /\ Gone(reg[r]).at = "out" /\ Gone(reg[r]).entry = i
       /\ Gone(reg[r]).names = reg[r].names /\ Gone(reg[r]).status = "none"
       /\ Gone(reg[r]).link = "none" /\ ~Gone(reg[r]).owed /\ ~Gone(reg[r]).stale
  BY <1>1, <1>3 DEF Gone, RegType, Links
<1>14. /\ reg' \in [Regs -> RegType] /\ reg'[r] = Gone(reg[r])
       /\ \A q \in Regs : q # r => reg'[q] = reg[q]
  BY <1>3, <1>11, <1>13
<1>15. Sound(entry', entries, reg', stack)
  <2>1. Sound(entry, entries, reg, stack)
    BY DEF IInv
  <2>2. Same(entry, entry', {"url", "closed", "status", "revive", "track", "link", "down"})
    BY <1>8, <1>9, <1>12 DEF Same
  <2>3. r \notin entry[i].subs => entry'[i] = entry[i]
    BY <1>9, <1>12
  <2>4. r \in entry[i].subs => Leaves(entry'[i], entry[i], reg[r].names, r)
    BY <1>6, <1>8, <1>12 DEF Leaves
  <2>5. /\ reg'[r].at = "out" /\ reg'[r].entry = i /\ reg'[r].names = reg[r].names
        /\ reg'[r].status = "none" /\ reg'[r].link = "none" /\ ~reg'[r].owed
        /\ ~reg'[r].stale
    BY <1>13, <1>14
  <2>6. \A t \in Turns(stack) : t.phase \in Replay => r \notin t.todo
    BY DEF Unsubscribe, Joining, Turns, Replay
  <2>7. QED
    BY <1>1, <1>2, <1>3, <1>12, <1>14, <2>1, <2>2, <2>3, <2>4, <2>5, <2>6, ReleasedSound
<1>16. QED
  BY <1>11, <1>15 DEF IInv

LEMMA NudgedMeans ==
  ASSUME NEW e, NEW i, NEW turns, NEW ok, Nudged(e, i, turns, ok)
  PROVE  entry' = NudgedTo(e, i, ok) /\ stack' = NudgedBy(e, i, turns, ok)
  BY DEF Nudged, NudgedTo, NudgedBy

LEMMA NudgeKeeps ==
  ASSUME IInv, NEW u \in Urls, NEW ok, Nudge(u, ok)
  PROVE  IInv'
<1>1. PICK i : i = entries[u]
  OBVIOUS
<1>2. i \in DOMAIN entry
  BY <1>1 DEF IInv, Sound, Shapes, Nudge
<1>3. Nudged(entry, i, stack, ok) /\ entries' = entries /\ reg' = reg
  BY <1>1 DEF Nudge
<1>4. entry' = NudgedTo(entry, i, ok) /\ stack' = NudgedBy(entry, i, stack, ok)
  BY <1>3, NudgedMeans
<1>5. Sound(NudgedTo(entry, i, ok), entries, reg, NudgedBy(entry, i, stack, ok))
  BY <1>2, NudgeSound DEF IInv
<1>6. QED
  BY <1>3, <1>4, <1>5 DEF IInv

LEMMA JoinedTurns ==
  ASSUME stack \in Seq(TurnType), NEW r \in Regs, NEW i
  PROVE  TurnsWith(Joined(i, r), stack, i, r)
<1> DEFINE p == Joined(i, r)
<1>1. Len(stack) \in Nat /\ DOMAIN stack = 1..Len(stack)
  OBVIOUS
<1>2. ASSUME NEW k \in DOMAIN stack
      PROVE  /\ p[k] \in TurnType
             /\ p[k].entry = stack[k].entry /\ p[k].phase = stack[k].phase
             /\ p[k].what = stack[k].what /\ p[k].after = stack[k].after
             /\ p[k].todo = IF stack[k].entry = i /\ Tells(stack[k].phase)
                            THEN stack[k].todo \cup {r} ELSE stack[k].todo
  <2>1. stack[k] \in TurnType
    BY <1>2
  <2>2. p[k] = IF stack[k].entry = i /\ Tells(stack[k].phase)
               THEN [stack[k] EXCEPT !.todo = @ \cup {r}] ELSE stack[k]
    BY <1>2 DEF Joined
  <2> HIDE DEF p
  <2>3. CASE stack[k].entry = i /\ Tells(stack[k].phase)
    <3>1. p[k] = [stack[k] EXCEPT !.todo = stack[k].todo \cup {r}]
      BY <2>2, <2>3
    <3>2. stack[k].todo \cup {r} \in SUBSET Regs
      BY <2>1 DEF TurnType
    <3>3. QED
      BY <2>1, <2>3, <3>1, <3>2 DEF TurnType
  <2>4. CASE ~(stack[k].entry = i /\ Tells(stack[k].phase))
    BY <2>1, <2>2, <2>4
  <2>5. QED
    BY <2>3, <2>4
<1>3. /\ DOMAIN p = 1..Len(stack) /\ p = [k \in 1..Len(stack) |-> p[k]]
  BY <1>1 DEF Joined
<1> HIDE DEF p
<1>4. p \in Seq(TurnType)
  <2>1. p \in [1..Len(stack) -> TurnType]
    BY <1>1, <1>2, <1>3
  <2>2. QED
    BY <1>1, <2>1
<1>5. Len(p) = Len(stack)
  BY <1>1, <1>3, <1>4
<1>6. QED
  BY <1>1, <1>2, <1>3, <1>4, <1>5 DEF TurnsWith, p

\* The entries as they are, and as they would be without the new subscriber.
ButForWired(all, e, i, names) ==
  /\ OnlyEntry(all, e, i)
  /\ \A f \in {"url", "closed", "status", "revive", "track", "link", "down", "subs", "count"} :
       all[i][f] = e[i][f]
  /\ all[i].wired \cup names = e[i].wired \cup names

LEMMA JoinStep ==
  ASSUME NEW e, NEW m, Sound(e, m, reg, stack), NEW r \in Regs, reg[r].at = "new",
         NEW i \in DOMAIN e, NEW names \in SUBSET Names,
         NEW all \in Seq(EntryType), ButForWired(all, e, i, names),
         NEW t \in TurnType, JoinTurn(t, all[i], i, r)
  PROVE  LET n == [all EXCEPT ![i] = Retained(all[i], r, names)]
             h == [reg EXCEPT ![r] = Joiner(i, all[i], names)]
         IN  Sound(n, m, h, <<t>> \o Joined(i, r))
<1> USE DEF ButForWired, OnlyEntry
<1> DEFINE n == [all EXCEPT ![i] = Retained(all[i], r, names)]
           h == [reg EXCEPT ![r] = Joiner(i, all[i], names)]
<1>1. /\ reg \in [Regs -> RegType] /\ stack \in Seq(TurnType) /\ e \in Seq(EntryType)
  BY DEF Sound, Shapes
<1>2. PICK c : c = all[i]
  OBVIOUS
<1>3. /\ c \in EntryType /\ c.subs \subseteq Regs
  BY <1>2, Entries
<1>4. PICK count : count = [k \in Names |-> IF k \in names THEN c.count[k] + 1 ELSE c.count[k]]
  OBVIOUS
<1>5. count \in [Names -> Int]
  <2>1. c.count \in [Names -> Int]
    BY <1>3 DEF EntryType
  <2>2. QED
    BY <1>4, <2>1
<1>6. PICK wired : wired = c.wired \cup names
  OBVIOUS
<1>7. PICK subs : subs = c.subs \cup {r}
  OBVIOUS
<1>8. wired \in SUBSET Names /\ subs \in SUBSET Regs
  BY <1>3, <1>6, <1>7 DEF EntryType
<1>9. PICK x : x = Retained(c, r, names)
  OBVIOUS
<1>10. x = [c EXCEPT !.linger = FALSE, !.subs = subs, !.count = count, !.wired = wired]
  BY <1>4, <1>6, <1>7, <1>9 DEF Retained
<1>11. /\ x \in EntryType /\ x.subs = subs /\ x.count = count /\ x.wired = wired
       /\ \A f \in {"url", "closed", "status", "revive", "track", "link", "down"} : x[f] = c[f]
  BY <1>3, <1>5, <1>8, <1>10 DEF EntryType
<1>12. n = [all EXCEPT ![i] = x]
  BY <1>2, <1>9
<1>13. /\ n \in Seq(EntryType) /\ DOMAIN n = DOMAIN e /\ n[i] = x
       /\ \A j \in DOMAIN e : j # i => n[j] = e[j]
  BY <1>11, <1>12, Updated
<1>14. Same(e, n, {"url", "closed", "status", "revive", "track", "link", "down"})
  BY <1>2, <1>11, <1>13 DEF Same
<1>15. Joins(n[i], e[i], names, r)
  <2>1. c.subs = e[i].subs /\ c.count = e[i].count
    BY <1>2
  <2>2. x.wired = e[i].wired \cup names
    BY <1>2, <1>6, <1>11
  <2>3. QED
    BY <1>4, <1>7, <1>11, <1>13, <2>1, <2>2 DEF Joins
<1>16. PICK joiner : joiner = Joiner(i, all[i], names)
  OBVIOUS
<1>17. /\ joiner \in RegType /\ joiner.at = "in" /\ joiner.entry = i /\ joiner.names = names
       /\ joiner.status = e[i].status /\ ~joiner.owed /\ ~joiner.stale
  <2>1. c.status \in Statuses /\ c.status = e[i].status /\ i \in Nat
    BY <1>1, <1>2, <1>3 DEF EntryType
  <2>2. joiner = [at |-> "in", entry |-> i, names |-> names, status |-> c.status,
                  link |-> "none", owed |-> FALSE, stale |-> FALSE]
    BY <1>2, <1>16 DEF Joiner, NewReg
  <2>3. QED
    BY <2>1, <2>2 DEF RegType, Links
<1>18. /\ h \in [Regs -> RegType] /\ h[r] = joiner /\ \A q \in Regs : q # r => h[q] = reg[q]
  BY <1>1, <1>16, <1>17
<1>19. TurnsWith(Joined(i, r), stack, i, r)
  BY <1>1, JoinedTurns
<1>20. /\ h[r].at = "in" /\ h[r].entry = i /\ h[r].names = names
       /\ h[r].status = e[i].status /\ ~h[r].owed /\ ~h[r].stale
  BY <1>17, <1>18
<1>21. Sound(n, m, h, <<t>> \o Joined(i, r))
  <2> HIDE DEF n, h
  <2>1. PICK p : p = Joined(i, r)
    OBVIOUS
  <2>2. TurnsWith(p, stack, i, r)
    BY <1>19, <2>1
  <2>3. Sound(n, m, h, <<t>> \o p)
    <3>1. OnlyEntry(n, e, i) /\ OnlyJoins(h, reg, r, i, names, e[i])
      BY <1>13, <1>18, <1>20 DEF OnlyEntry, OnlyJoins
    <3>2. JoinTurn(t, e[i], i, r)
      BY DEF JoinTurn
    <3>3. QED
      BY <1>13, <1>14, <1>15, <1>18, <2>2, <3>1, <3>2, JoinedSound
  <2>4. QED
    BY <2>1, <2>3
<1>22. QED
  BY <1>21

\* What create() leaves, and the same entry as it would be without subscribers.
LEMMA CreatedFacts ==
  ASSUME NEW url \in Urls, NEW names \in SUBSET Names, NEW ok \in BOOLEAN,
         NEW c, c = Created(url, names, ok)
  PROVE  Fresh(c, url) /\ c.wired = names
<1>1. PICK status : status = IF ok THEN "connecting" ELSE "retrying"
  OBVIOUS
<1>2. PICK track : track = FirstTrack(status, Now)
  OBVIOUS
<1>3. status \in Statuses /\ status # "live" /\ (~ok => status = "retrying")
  BY <1>1 DEF Statuses
<1>4. track \in LinkTrack /\ track.status = status
  BY <1>2, <1>3 DEF FirstTrack, LinkTrack, Now
<1>5. PICK link : link = LinkAt(track, Now)
  OBVIOUS
<1>6. PICK deadline : deadline = DeadlineIn(track)
  OBVIOUS
<1>7. link \in Links /\ deadline \in Int
  BY <1>3, <1>4, <1>5, <1>6, TrackTypes
<1>8. PICK closed \in BOOLEAN : closed = ~ok
  OBVIOUS
<1>9. PICK count : count = [n \in Names |-> 0]
  OBVIOUS
<1>10. count \in [Names -> Int]
  BY <1>9
<1>11. c = [url |-> url, closed |-> FALSE, status |-> status, revive |-> closed,
            subs |-> {}, count |-> count, wired |-> names, linger |-> FALSE, loose |-> FALSE,
            track |-> track, link |-> link, deadline |-> deadline, strays |-> {},
            down |-> closed]
  BY <1>1, <1>2, <1>5, <1>6, <1>8, <1>9 DEF Created
<1>12. c \in EntryType
  BY <1>3, <1>4, <1>7, <1>8, <1>10, <1>11 DEF EntryType
<1>13. /\ c.url = url /\ ~c.closed /\ c.subs = {} /\ c.wired = names /\ c.count = count
       /\ c.status = status /\ c.track = track /\ c.revive = closed
  BY <1>11
<1>14. \A n \in Names : c.count[n] = 0
  BY <1>9, <1>13
<1>15. QED
  BY <1>3, <1>4, <1>8, <1>12, <1>13, <1>14 DEF Fresh

LEMMA SubscribeKeeps ==
  ASSUME IInv, NEW r \in Regs, NEW url \in Urls, NEW names \in SUBSET Names,
         NEW ok \in BOOLEAN, Subscribe(r, url, names, ok)
  PROVE  IInv'
<1>1. PICK known \in BOOLEAN : known = (entries[url] # NoEntry)
  OBVIOUS
<1>2. PICK all : all = IF known THEN entry ELSE Append(entry, Created(url, names, ok))
  OBVIOUS
<1>3. PICK i : i = IF known THEN entries[url] ELSE Len(all)
  OBVIOUS
<1>4. /\ reg[r].at = "new" /\ entries' = [entries EXCEPT ![url] = i]
      /\ reg' = [reg EXCEPT ![r] = Joiner(i, all[i], names)]
      /\ entry' = [all EXCEPT ![i] = Retained(all[i], r, names)]
  BY <1>1, <1>2, <1>3 DEF Subscribe
<1>5. /\ Sound(entry, entries, reg, stack) /\ entry \in Seq(EntryType)
      /\ entries \in [Urls -> DOMAIN entry \cup {NoEntry}]
  BY DEF IInv, Sound, Shapes
<1>6. PICK t : /\ JoinTurn(t, all[i], i, r) /\ stack' = <<t>> \o Joined(i, r)
               /\ i \in Nat /\ all[i].link \in Links => t \in TurnType
  <2>1. PICK after \in {"none", "nudge"} :
          after = IF all[i].status = "retrying" THEN "nudge" ELSE "none"
    OBVIOUS
  <2>2. PICK t : t = [Turn(i, "replay", all[i].link, {r}, after) EXCEPT !.inside = TRUE]
    OBVIOUS
  <2>3. t = [entry |-> i, phase |-> "replay", what |-> all[i].link, todo |-> {r},
             inside |-> TRUE, after |-> after]
    BY <2>2 DEF Turn
  <2>4. JoinTurn(t, all[i], i, r)
    BY <2>1, <2>3 DEF JoinTurn, Goes
  <2>5. i \in Nat /\ all[i].link \in Links => t \in TurnType
    BY <2>1, <2>3 DEF TurnType, Phases, Replay
  <2>6. stack' = <<t>> \o Joined(i, r)
    BY <1>1, <1>2, <1>3, <2>1, <2>2 DEF Subscribe
  <2>7. QED
    BY <2>4, <2>5, <2>6
<1>7. Sound(entry', entries', reg', <<t>> \o Joined(i, r))
  <2>1. CASE known
    <3>1. all = entry /\ i = entries[url] /\ i \in DOMAIN entry
      BY <1>1, <1>2, <1>3, <1>5, <2>1
    <3>2. entries' = entries
      BY <1>4, <1>5, <3>1
    <3>3. Sound(entry', entries, reg', <<t>> \o Joined(i, r))
      <4>1. entry' = [entry EXCEPT ![i] = Retained(entry[i], r, names)]
        BY <1>4, <3>1
      <4>2. reg' = [reg EXCEPT ![r] = Joiner(i, entry[i], names)]
        BY <1>4, <3>1
      <4>3. ButForWired(entry, entry, i, names)
        BY DEF ButForWired, OnlyEntry
      <4>4. t \in TurnType /\ JoinTurn(t, entry[i], i, r)
        <5>1. entry[i] \in EntryType /\ i \in Nat
          BY <1>5, <3>1, Entries
        <5>2. entry[i].link \in Links
          BY <5>1 DEF EntryType
        <5>3. QED
          BY <1>6, <3>1, <5>1, <5>2
      <4>5. Sound([entry EXCEPT ![i] = Retained(entry[i], r, names)], entries,
                  [reg EXCEPT ![r] = Joiner(i, entry[i], names)], <<t>> \o Joined(i, r))
        BY <1>4, <1>5, <3>1, <4>3, <4>4, JoinStep
      <4>6. QED
        BY <4>1, <4>2, <4>5
    <3>4. QED
      BY <3>2, <3>3
  <2>2. CASE ~known
    <3>1. PICK c : c = Created(url, names, ok)
      OBVIOUS
    <3>2. Fresh(c, url) /\ c \in EntryType /\ c.wired = names
      <4>1. Fresh(c, url) /\ c.wired = names
        BY <3>1, CreatedFacts
      <4>2. QED
        BY <4>1 DEF Fresh
    <3>3. /\ all = Append(entry, c) /\ i = Len(entry) + 1 /\ all \in Seq(EntryType)
          /\ all[i] = c /\ DOMAIN all = DOMAIN entry \cup {i} /\ i \notin DOMAIN entry
          /\ \A j \in DOMAIN entry : all[j] = entry[j]
      <4>1. all = Append(entry, c) /\ i = Len(all)
        BY <1>2, <1>3, <2>2, <3>1
      <4>2. QED
        BY <1>5, <3>2, <4>1
    <3>4. PICK b : b = [c EXCEPT !.wired = {}, !.linger = TRUE]
      OBVIOUS
    <3>5. /\ b \in EntryType /\ b.wired = {} /\ b.linger
          /\ \A f \in {"url", "closed", "status", "revive", "track", "link", "down", "subs",
                      "count"} : b[f] = c[f]
      BY <3>2, <3>4 DEF EntryType
    <3>6. Fresh(b, url)
      BY <3>2, <3>5 DEF Fresh
    <3>7. PICK e : e = Append(entry, b)
      OBVIOUS
    <3>8. entries[url] = NoEntry
      BY <1>1, <2>2
    <3>9. PICK m : m = [entries EXCEPT ![url] = i]
      OBVIOUS
    <3>10. /\ Sound(e, m, reg, stack) /\ i \in DOMAIN e /\ e[i] = b
           /\ DOMAIN e = DOMAIN entry \cup {i}
           /\ \A j \in DOMAIN entry : e[j] = entry[j]
      <4>1. Sound(Append(entry, b), [entries EXCEPT ![url] = Len(entry) + 1], reg, stack)
        BY <1>5, <3>5, <3>6, <3>8, FreshSound
      <4>2. Sound(e, m, reg, stack)
        BY <3>3, <3>7, <3>9, <4>1
      <4>3. /\ i \in DOMAIN e /\ e[i] = b /\ DOMAIN e = DOMAIN entry \cup {i}
            /\ \A j \in DOMAIN entry : e[j] = entry[j]
        BY <1>5, <3>3, <3>5, <3>7
      <4>4. QED
        BY <4>2, <4>3
    <3>11. OnlyEntry(all, e, i)
      BY <3>3, <3>10 DEF OnlyEntry
    <3>12. \A f \in {"url", "closed", "status", "revive", "track", "link", "down", "subs",
                    "count"} : all[i][f] = e[i][f]
      BY <3>3, <3>5, <3>10
    <3>13. ButForWired(all, e, i, names)
      BY <3>2, <3>3, <3>5, <3>10, <3>11, <3>12 DEF ButForWired
    <3>14. t \in TurnType
      BY <1>5, <1>6, <3>2, <3>3 DEF EntryType
    <3>15. Sound([all EXCEPT ![i] = Retained(all[i], r, names)], m,
                 [reg EXCEPT ![r] = Joiner(i, all[i], names)], <<t>> \o Joined(i, r))
      BY <1>4, <1>6, <3>3, <3>10, <3>13, <3>14, JoinStep
    <3>16. QED
      BY <1>4, <3>9, <3>15
  <2>3. QED
    BY <2>1, <2>2
<1>8. QED
  BY <1>6, <1>7 DEF IInv

\* The turn that stack' has on top, in a subscribe call that goes on.
LEMMA ReplayGoesOn ==
  ASSUME IInv, stack # << >>, Top.phase \in {"replay", "wake"},
         NEW phase \in {"wake", "return"}, NEW inside \in BOOLEAN,
         NEW t, t = [Top EXCEPT !.phase = phase, !.inside = inside]
  PROVE  /\ t \in TurnType /\ t.entry = Top.entry /\ t.after = Top.after
         /\ t.todo = Top.todo /\ t.phase = phase
<1>1. Top \in TurnType
  BY TopFacts
<1>2. phase \in Phases
  BY DEF Phases, Replay
<1>3. QED
  BY <1>1, <1>2 DEF TurnType

LEMMA ReplayLinkKeeps ==
  ASSUME IInv, ReplayLink
  PROVE  IInv'
<1>1. PICK i : i = Top.entry
  OBVIOUS
<1>2. PICK top : top = Head(stack)
  OBVIOUS
<1>3. stack # << >> /\ top.phase = "replay" /\ i = top.entry
  BY <1>1, <1>2 DEF ReplayLink, Replaying, Top
<1>4. /\ i \in DOMAIN entry /\ TurnOK(entry, top) /\ top \in TurnType
  BY <1>1, <1>2, <1>3, TopFacts DEF Top
<1>5. PICK t : t = [Top EXCEPT !.phase = "wake", !.inside = top.inside]
  OBVIOUS
<1>6. t = [Top EXCEPT !.phase = "wake"]
  BY <1>2, <1>4, <1>5 DEF Top, TurnType
<1>7. /\ t \in TurnType /\ t.entry = i /\ t.after = top.after /\ t.todo = top.todo
      /\ t.phase = "wake"
  <2>1. top.inside \in BOOLEAN
    BY <1>4 DEF TurnType
  <2>2. QED
    BY <1>1, <1>2, <1>3, <1>5, <2>1, ReplayGoesOn DEF Top
<1>8. /\ stack' = <<t>> \o Tail(stack) /\ entry' = entry /\ entries' = entries
  BY <1>6 DEF ReplayLink
<1>9. reg \in [Regs -> RegType] /\ top.what \in Links
  BY <1>3, <1>4 DEF IInv, Sound, Shapes, TurnOK
<1>10. reg' = [q \in Regs |->
                 IF q \in top.todo /\ top.what # "none"
                 THEN [reg[q] EXCEPT !.link = top.what,
                                     !.stale = top.what # entry[i].link]
                 ELSE reg[q]]
  BY <1>1, <1>2 DEF ReplayLink, Top
<1>11. ASSUME NEW q \in Regs
       PROVE  /\ reg'[q] \in RegType
              /\ q \in top.todo /\ top.what # "none" => Hears(reg'[q], reg[q], entry, i)
              /\ ~(q \in top.todo /\ top.what # "none") => reg'[q] = reg[q]
  <2>1. reg[q] \in RegType
    BY <1>9
  <2>2. PICK stale \in BOOLEAN : stale = (top.what # entry[i].link)
    OBVIOUS
  <2>3. CASE q \in top.todo /\ top.what # "none"
    <3>1. PICK x : x = [reg[q] EXCEPT !.link = top.what, !.stale = stale]
      OBVIOUS
    <3>2. reg'[q] = x
      BY <1>10, <2>2, <2>3, <3>1
    <3>3. /\ x \in RegType /\ x.link = top.what /\ x.stale = stale /\ x.at = reg[q].at
          /\ x.entry = reg[q].entry /\ x.names = reg[q].names
          /\ x.status = reg[q].status /\ x.owed = reg[q].owed
      BY <1>9, <2>1, <3>1 DEF RegType
    <3>4. QED
      BY <2>2, <2>3, <3>2, <3>3 DEF Hears
  <2>4. CASE ~(q \in top.todo /\ top.what # "none")
    BY <1>10, <2>1, <2>4
  <2>5. QED
    BY <2>3, <2>4
<1>12. reg' \in [Regs -> RegType]
  BY <1>10, <1>11
<1>13. top.todo \subseteq Regs
  BY <1>4 DEF TurnType
<1>14. PICK h : h = reg'
  OBVIOUS
<1>15. Sound(entry, entries, h, <<t>> \o Tail(stack))
  <2>1. Sound(entry, entries, reg, stack)
    BY DEF IInv
  <2>2. h \in [Regs -> RegType]
    BY <1>12, <1>14
  <2>3. \A q \in Regs : h[q] = reg[q] \/ (q \in top.todo /\ Hears(h[q], reg[q], entry, i))
    BY <1>11, <1>14
  <2>4. top.what # "none" => \A q \in top.todo : Hears(h[q], reg[q], entry, i)
    BY <1>11, <1>13, <1>14
  <2>5. QED
    BY <1>2, <1>3, <1>7, <2>1, <2>2, <2>3, <2>4, ReplayedSound
<1>16. QED
  BY <1>8, <1>14, <1>15 DEF IInv

LEMMA WakeKeeps ==
  ASSUME IInv, NEW ok, Wake(ok)
  PROVE  IInv'
<1>1. PICK i : i = Top.entry
  OBVIOUS
<1>2. PICK top : top = Head(stack)
  OBVIOUS
<1>3. /\ stack # << >> /\ top.phase = "wake" /\ i = top.entry
      /\ entries' = entries /\ reg' = reg
  BY <1>1, <1>2 DEF Wake, Replaying, Top
<1>4. Sound(entry, entries, reg, stack) /\ i \in DOMAIN entry
  BY <1>1, <1>3, TopFacts DEF IInv
<1>5. CASE Top.after = "nudge"
  <2>1. PICK t : t = [Top EXCEPT !.phase = "return", !.inside = FALSE]
    OBVIOUS
  <2>2. PICK turns : turns = <<t>> \o Tail(stack)
    OBVIOUS
  <2>3. /\ t \in TurnType /\ t.entry = i /\ t.after = top.after /\ t.todo = top.todo
        /\ t.phase = "return"
    BY <1>1, <1>2, <1>3, <2>1, ReplayGoesOn DEF Top
  <2>4. Sound(entry, entries, reg, turns)
    <3>1. reg \in [Regs -> RegType]
      BY <1>4 DEF Sound, Shapes
    <3>2. Sound(entry, entries, reg, <<t>> \o Tail(stack))
      BY <1>2, <1>3, <1>4, <2>3, <3>1, ReplayedSound
    <3>3. QED
      BY <2>2, <3>2
  <2>5. Nudged(entry, i, turns, ok)
    BY <1>1, <1>5, <2>1, <2>2 DEF Wake
  <2>6. entry' = NudgedTo(entry, i, ok) /\ stack' = NudgedBy(entry, i, turns, ok)
    BY <2>5, NudgedMeans
  <2>7. Sound(NudgedTo(entry, i, ok), entries, reg, NudgedBy(entry, i, turns, ok))
    BY <1>4, <2>4, NudgeSound
  <2>8. QED
    BY <1>3, <2>6, <2>7 DEF IInv
<1>6. CASE Top.after # "nudge"
  <2>1. entry' = entry /\ stack' = Tail(stack)
    BY <1>6 DEF Wake
  <2>2. Sound(entry, entries, reg, Tail(stack))
    BY <1>2, <1>3, <1>4, PopSound
  <2>3. QED
    BY <1>3, <2>1, <2>2 DEF IInv
<1>7. QED
  BY <1>5, <1>6

LEMMA ReturnKeeps ==
  ASSUME IInv, Return
  PROVE  IInv'
<1>1. /\ stack # << >> /\ Head(stack).phase = "return"
      /\ entry' = entry /\ entries' = entries /\ reg' = reg /\ stack' = Tail(stack)
  BY DEF Return, Replaying, Top
<1>2. Sound(entry, entries, reg, Tail(stack))
  BY <1>1, PopSound DEF IInv
<1>3. QED
  BY <1>1, <1>2 DEF IInv


LEMMA DisposeKeeps ==
  ASSUME IInv, Dispose
  PROVE  IInv'
<1>1. /\ Sound(entry, entries, reg, stack) /\ entry \in Seq(EntryType)
      /\ entries \in [Urls -> DOMAIN entry \cup {NoEntry}] /\ Mapping(entry, entries)
  BY DEF IInv, Sound, Shapes
<1>2. /\ entry' = [i \in Ids |-> IF Mapped(i) THEN [Shut(entry[i]) EXCEPT !.linger = FALSE]
                                ELSE entry[i]]
      /\ entries' = [u \in Urls |-> NoEntry] /\ reg' = reg /\ stack' = stack
  BY DEF Dispose
<1>3. ASSUME NEW i \in DOMAIN entry
      PROVE  /\ entry'[i] \in EntryType
             /\ \A f \in {"url", "status", "subs", "count", "wired", "track", "link", "down"} :
                  entry'[i][f] = entry[i][f]
             /\ entry'[i].closed /\ (entry'[i].revive => entry[i].revive)
  <2>1. entry[i] \in EntryType
    BY <1>1, <1>3, Entries
  <2>2. CASE Mapped(i)
    <3>1. entry'[i] = [Shut(entry[i]) EXCEPT !.linger = FALSE]
      BY <1>2, <1>3, <2>2 DEF Ids
    <3>2. PICK y : y = Shut(entry[i])
      OBVIOUS
    <3>3. Off \in Int
      BY DEF Off
    <3>4. /\ y \in EntryType /\ y.closed /\ ~y.revive
          /\ \A f \in {"url", "status", "subs", "count", "wired", "track", "link", "down"} :
               y[f] = entry[i][f]
      BY <2>1, <3>2, <3>3 DEF EntryType, Shut
    <3>5. entry'[i] = [y EXCEPT !.linger = FALSE]
      BY <3>1, <3>2
    <3>6. /\ entry'[i] \in EntryType /\ entry'[i].closed = y.closed
          /\ entry'[i].revive = y.revive
          /\ \A f \in {"url", "status", "subs", "count", "wired", "track", "link", "down"} :
               entry'[i][f] = y[f]
      <4>1. PICK x : x = entry'[i]
        OBVIOUS
      <4>2. x = [y EXCEPT !.linger = FALSE]
        BY <3>5, <4>1
      <4>3. /\ x \in EntryType /\ x.closed = y.closed /\ x.revive = y.revive
            /\ \A f \in {"url", "status", "subs", "count", "wired", "track", "link", "down"} :
                 x[f] = y[f]
        BY <3>4, <4>2 DEF EntryType
      <4>4. QED
        BY <4>1, <4>3
    <3>7. QED
      BY <3>4, <3>6
  <2>3. CASE ~Mapped(i)
    <3>1. entry'[i] = entry[i]
      BY <1>2, <1>3, <2>3 DEF Ids
    <3>2. entry[i].closed
      BY <1>1, <2>3 DEF Mapping, Mapped
    <3>3. QED
      BY <2>1, <3>1, <3>2
  <2>4. QED
    BY <2>2, <2>3
<1>4. entry' \in Seq(EntryType) /\ DOMAIN entry' = DOMAIN entry
  <2>1. Len(entry) \in Nat /\ DOMAIN entry = 1..Len(entry) /\ DOMAIN entry' = DOMAIN entry
        /\ entry' = [i \in 1..Len(entry) |-> entry'[i]]
    BY <1>1, <1>2 DEF Ids
  <2>2. entry' \in [1..Len(entry) -> EntryType]
    BY <1>3, <2>1
  <2>3. QED
    BY <2>1, <2>2
<1>5. Same(entry, entry', {"status", "subs", "count", "wired", "link", "down"})
  BY <1>3, <1>4 DEF Same
<1>6. entries' \in [Urls -> DOMAIN entry' \cup {NoEntry}]
  BY <1>2
<1>7. Mapping(entry', entries')
  <2>1. \A i \in DOMAIN entry' : entry'[i].closed /\ entry'[i].url \in Urls /\ i # NoEntry
    <3>1. \A i \in DOMAIN entry : entry'[i].url \in Urls
      BY <1>3 DEF EntryType
    <3>2. \A i \in DOMAIN entry : i # NoEntry
      BY <1>1 DEF NoEntry
    <3>3. QED
      BY <1>3, <1>4, <3>1, <3>2
  <2>2. \A u \in Urls : entries'[u] = NoEntry
    BY <1>2
  <2>3. QED
    BY <2>1, <2>2 DEF Mapping
<1>8. \A i \in DOMAIN entry : entry'[i].track = entry[i].track /\ (entry'[i].revive => entry[i].revive)
  BY <1>3
<1>9. Sound(entry', entries', reg, stack)
  BY <1>1, <1>4, <1>5, <1>6, <1>7, <1>8, QuietSound
<1>10. QED
  BY <1>2, <1>9 DEF IInv

LEMMA LingerKeeps ==
  ASSUME IInv, NEW i \in Ids, LingerFires(i)
  PROVE  IInv'
<1>1. /\ Sound(entry, entries, reg, stack) /\ entry \in Seq(EntryType) /\ i \in DOMAIN entry
      /\ entries \in [Urls -> DOMAIN entry \cup {NoEntry}] /\ Mapping(entry, entries)
  BY DEF IInv, Sound, Shapes, Ids
<1>2. entry[i] \in EntryType
  BY <1>1, Entries
<1>3. PICK y : y = [entry[i] EXCEPT !.linger = FALSE]
  OBVIOUS
<1>4. /\ y \in EntryType /\ ~y.linger
      /\ \A f \in {"url", "closed", "status", "revive", "subs", "count", "wired", "track", "link",
                   "down"} : y[f] = entry[i][f]
  BY <1>2, <1>3 DEF EntryType
<1>5. PICK x : x = IF y.subs = {} /\ Mapped(i) THEN Shut(y) ELSE y
  OBVIOUS
<1>6. /\ x \in EntryType /\ (x.revive => entry[i].revive)
      /\ \A f \in {"url", "status", "subs", "count", "wired", "track", "link", "down"} :
           x[f] = entry[i][f]
      /\ x.closed <=> entry[i].closed \/ (y.subs = {} /\ Mapped(i))
  <2>1. CASE y.subs = {} /\ Mapped(i)
    <3>1. Off \in Int
      BY DEF Off
    <3>2. x = Shut(y)
      BY <1>5, <2>1
    <3>3. /\ x \in EntryType /\ ~x.revive /\ x.closed
          /\ \A f \in {"url", "status", "subs", "count", "wired", "track", "link", "down"} :
               x[f] = y[f]
      BY <1>4, <3>1, <3>2 DEF EntryType, Shut
    <3>4. QED
      BY <1>4, <2>1, <3>3
  <2>2. CASE ~(y.subs = {} /\ Mapped(i))
    BY <1>4, <1>5, <2>2
  <2>3. QED
    BY <2>1, <2>2
<1>7. /\ entry' = [entry EXCEPT ![i] = x] /\ reg' = reg /\ stack' = stack
      /\ entries' = IF y.subs = {} /\ Mapped(i) THEN [entries EXCEPT ![y.url] = NoEntry]
                    ELSE entries
  BY <1>3, <1>5 DEF LingerFires
<1>8. /\ entry' \in Seq(EntryType) /\ DOMAIN entry' = DOMAIN entry /\ entry'[i] = x
      /\ \A j \in DOMAIN entry : j # i => entry'[j] = entry[j]
  BY <1>1, <1>6, <1>7, Updated
<1>9. entries' \in [Urls -> DOMAIN entry' \cup {NoEntry}]
  BY <1>1, <1>7, <1>8
<1>10. Same(entry, entry', {"status", "subs", "count", "wired", "link", "down"})
  BY <1>6, <1>8 DEF Same
<1>11. Mapping(entry', entries')
  <2>1. \A j \in DOMAIN entry : entry'[j].url = entry[j].url /\ entry[j].url \in Urls
    <3>1. ASSUME NEW j \in DOMAIN entry PROVE entry[j].url \in Urls
      <4>1. entry[j] \in EntryType
        BY <1>1, Entries
      <4>2. QED
        BY <4>1 DEF EntryType
    <3>2. QED
      BY <1>6, <1>8, <3>1
  <2>2. \A j \in DOMAIN entry : j # NoEntry
    BY <1>1 DEF NoEntry
  <2>3. \A u \in Urls : entries[u] # NoEntry => entries[u] \in DOMAIN entry
    BY <1>1
  <2>4. CASE y.subs = {} /\ Mapped(i)
    <3>1. /\ \A u \in Urls : u # entry[i].url => entries'[u] = entries[u]
          /\ entries'[entry[i].url] = NoEntry /\ entries[entry[i].url] = i
      BY <1>1, <1>4, <1>7, <2>1, <2>4 DEF Mapped
    <3>2. x.closed
      BY <1>6, <2>4
    <3>3. ASSUME NEW u \in Urls, entries'[u] # NoEntry PROVE entry'[entries'[u]].url = u
      BY <1>1, <2>1, <2>3, <3>1, <3>3 DEF Mapping
    <3>4. ASSUME NEW j \in DOMAIN entry'
          PROVE  /\ entries'[entry'[j].url] = j <=> ~entry'[j].closed
                 /\ ~entry'[j].closed => entry'[j].subs # {} \/ entry'[j].linger
      <4>1. CASE j = i
        BY <1>8, <2>1, <2>2, <3>1, <3>2, <4>1
      <4>2. CASE j # i /\ entry[j].url = entry[i].url
        BY <1>1, <1>8, <2>1, <2>2, <3>1, <4>2 DEF Mapping
      <4>3. CASE j # i /\ entry[j].url # entry[i].url
        BY <1>1, <1>8, <2>1, <3>1, <4>3 DEF Mapping
      <4>4. QED
        BY <4>1, <4>2, <4>3
    <3>5. QED
      BY <3>3, <3>4 DEF Mapping
  <2>5. CASE ~(y.subs = {} /\ Mapped(i))
    <3>1. entries' = entries /\ \A j \in DOMAIN entry : entry'[j].closed <=> entry[j].closed
      BY <1>6, <1>7, <1>8, <2>5
    <3>2. ASSUME NEW j \in DOMAIN entry', ~entry'[j].closed
          PROVE  entry'[j].subs # {} \/ entry'[j].linger
      <4>1. CASE j = i
        <5>1. Mapped(i)
          BY <1>1, <3>1, <3>2, <4>1 DEF Mapping, Mapped
        <5>2. QED
          BY <1>4, <1>6, <1>8, <2>5, <4>1, <5>1
      <4>2. CASE j # i
        BY <1>1, <1>8, <3>1, <3>2, <4>2 DEF Mapping
      <4>3. QED
        BY <4>1, <4>2
    <3>3. QED
      BY <1>1, <1>8, <2>1, <2>3, <3>1, <3>2 DEF Mapping
  <2>6. QED
    BY <2>4, <2>5
<1>12. \A j \in DOMAIN entry : entry'[j].track = entry[j].track /\ (entry'[j].revive => entry[j].revive)
  BY <1>6, <1>8
<1>13. Sound(entry', entries', reg, stack)
  BY <1>1, <1>8, <1>9, <1>10, <1>11, <1>12, QuietSound
<1>14. QED
  BY <1>7, <1>13 DEF IInv

LEMMA DeadlineKeeps ==
  ASSUME IInv, NEW i \in Ids, DeadlineFires(i)
  PROVE  IInv'
<1>1. /\ Sound(entry, entries, reg, stack) /\ entry \in Seq(EntryType) /\ i \in DOMAIN entry
      /\ stack = << >>
  BY DEF IInv, Sound, Shapes, Ids, DeadlineFires
<1>2. entry[i] \in EntryType
  BY <1>1, Entries
<1>3. PICK t : t = Turn(i, "judge", "none", {}, "none")
  OBVIOUS
<1>4. PICK x : /\ x \in EntryType /\ Unseen(x, entry[i]) /\ BacksOff(x, entry[i], << >>, i)
               /\ entry' = [entry EXCEPT ![i] = x]
  <2>1. CASE entry' = [entry EXCEPT ![i].deadline = Off]
    <3>1. PICK x : x = [entry[i] EXCEPT !.deadline = Off]
      OBVIOUS
    <3>2. Off \in Int
      BY DEF Off
    <3>3. x \in EntryType /\ Unseen(x, entry[i]) /\ BacksOff(x, entry[i], << >>, i)
      BY <1>2, <3>1, <3>2 DEF EntryType, Unseen, BacksOff
    <3>4. entry' = [entry EXCEPT ![i] = x]
      BY <2>1, <3>1
    <3>5. QED
      BY <3>3, <3>4
  <2>2. CASE entry' = [entry EXCEPT ![i].strays = entry[i].strays \ {0}]
    <3>1. PICK strays : strays = entry[i].strays \ {0}
      OBVIOUS
    <3>2. strays \in SUBSET Int
      BY <1>2, <3>1 DEF EntryType
    <3>3. PICK x : x = [entry[i] EXCEPT !.strays = strays]
      OBVIOUS
    <3>4. x \in EntryType /\ Unseen(x, entry[i]) /\ BacksOff(x, entry[i], << >>, i)
      BY <1>2, <3>2, <3>3 DEF EntryType, Unseen, BacksOff
    <3>5. entry' = [entry EXCEPT ![i] = x]
      BY <2>2, <3>1, <3>3
    <3>6. QED
      BY <3>4, <3>5
  <2>3. QED
    BY <2>1, <2>2 DEF DeadlineFires
<1>5. Sound(entry', entries, reg, << >>) /\ i \in DOMAIN entry'
  BY <1>1, <1>4, QuietEntry
<1>6. /\ t \in TurnType /\ t.entry = i /\ t.after = "none" /\ t.phase = "judge" /\ t.todo = {}
  <2>1. i \in Nat /\ {} \in SUBSET Regs /\ "judge" \in Phases /\ "none" \in Statuses \cup Links
    BY <1>1 DEF Phases, Links
  <2>2. QED
    BY <1>3, <2>1, PhaseTurn
<1>7. Sound(entry', entries, reg, <<t>>)
  BY <1>5, <1>6, TimerSound
<1>8. entries' = entries /\ reg' = reg /\ stack' = <<t>>
  BY <1>3 DEF DeadlineFires
<1>9. QED
  BY <1>7, <1>8 DEF IInv

LEMMA TickKeeps ==
  ASSUME IInv, Tick
  PROVE  IInv'
<1>1. /\ Sound(entry, entries, reg, stack) /\ entry \in Seq(EntryType)
      /\ entries \in [Urls -> DOMAIN entry \cup {NoEntry}] /\ stack = << >>
  BY DEF IInv, Sound, Shapes, Tick
<1> DEFINE Ticked(c) == [c EXCEPT !.track.since = IF @ = -OfflineMs THEN @ ELSE @ - 1,
                                  !.deadline = Less(@), !.strays = {Less(t) : t \in @}]
<1>0. entry' = [i \in DOMAIN entry |-> Ticked(entry[i])]
  BY DEF Tick, Ids
<1>2. ASSUME NEW i \in DOMAIN entry
      PROVE  /\ entry'[i] \in EntryType
             /\ \A f \in {"url", "closed", "status", "revive", "subs", "count", "wired", "linger",
                          "link", "down"} : entry'[i][f] = entry[i][f]
             /\ entry'[i].track.status = entry[i].track.status
  <2>1. PICK c : c = entry[i]
    OBVIOUS
  <2>2. c \in EntryType /\ c.track \in LinkTrack /\ c.deadline \in Int /\ c.strays \subseteq Int
    <3>1. c \in EntryType
      BY <1>1, <1>2, <2>1, Entries
    <3>2. QED
      BY <3>1 DEF EntryType
  <2>3. \A time \in Int : Less(time) \in Int
    BY DEF Less, Off
  <2>4. PICK track : track = [c.track EXCEPT !.since = IF @ = -OfflineMs THEN @ ELSE @ - 1]
    OBVIOUS
  <2>5. track \in LinkTrack /\ track.status = c.track.status
    BY <2>2, <2>4 DEF LinkTrack
  <2>6. PICK deadline : deadline = Less(c.deadline)
    OBVIOUS
  <2>7. PICK strays : strays = {Less(time) : time \in c.strays}
    OBVIOUS
  <2>8. deadline \in Int /\ strays \in SUBSET Int
    BY <2>2, <2>3, <2>6, <2>7
  <2>9. PICK x : x = [c EXCEPT !.track = track, !.deadline = deadline, !.strays = strays]
    OBVIOUS
  <2>10. entry'[i] = x
    BY <1>0, <1>2, <2>1, <2>4, <2>6, <2>7, <2>9
  <2>11. /\ x \in EntryType /\ x.track = track
         /\ \A f \in {"url", "closed", "status", "revive", "subs", "count", "wired", "linger",
                      "link", "down"} : x[f] = c[f]
    BY <2>2, <2>5, <2>8, <2>9 DEF EntryType
  <2>12. QED
    BY <2>1, <2>5, <2>10, <2>11
<1>3. entry' \in Seq(EntryType) /\ DOMAIN entry' = DOMAIN entry
  <2>1. Len(entry) \in Nat /\ DOMAIN entry = 1..Len(entry) /\ DOMAIN entry' = DOMAIN entry
        /\ entry' = [i \in 1..Len(entry) |-> entry'[i]]
    <3> HIDE DEF Ticked
    <3>1. QED
      BY <1>0, <1>1
  <2>2. entry' \in [1..Len(entry) -> EntryType]
    BY <1>2, <2>1
  <2>3. QED
    BY <2>1, <2>2
<1>4. /\ Same(entry, entry', {"status", "subs", "count", "wired", "link", "down"})
      /\ Same(entry, entry', {"url", "closed", "subs", "linger"})
  BY <1>2, <1>3 DEF Same
<1>5. entries' = entries /\ reg' = reg /\ stack' = stack
  BY DEF Tick
<1>6. Mapping(entry', entries)
  BY <1>1, <1>4, MappingStays DEF Sound
<1>7. \A i \in DOMAIN entry :
        /\ entry'[i].track.status = entry[i].track.status
        /\ (\E t \in Turns(stack) : t.entry = i) => entry'[i].track = entry[i].track
        /\ entry'[i].revive => \/ entry[i].revive
                               \/ entry[i].status = "retrying" /\ \A t \in Turns(stack) : t.entry # i
  BY <1>1, <1>2, NoTurns
<1>8. Sound(entry', entries, reg, stack)
  BY <1>1, <1>3, <1>4, <1>6, <1>7, QuietSound
<1>9. QED
  BY <1>5, <1>8 DEF IInv

LEMMA ReportKeeps ==
  ASSUME IInv, NEW i \in Ids, NEW status \in Statuses,
         NEW after \in {"none", "revive", "open"}, Report(i, status, after),
         stack = << >>, ~entry[i].revive, after # "none" => status = "retrying"
  PROVE  IInv'
<1>1. Sound(entry, entries, reg, stack) /\ i \in DOMAIN entry /\ Turns(stack) = {}
  BY NoTurns DEF IInv, Ids
<1>2. LET n == Reported(entry, i, status)
      IN  Sound(n, entries, reg, <<StatusTurn(n, i, after)>> \o stack)
  BY <1>1, ReportSound
<1>3. QED
  BY <1>2 DEF Report, IInv

LEMMA OpensKeeps ==
  ASSUME IInv, NEW i \in Ids, Opens(i)
  PROVE  IInv'
<1>1. Report(i, "live", "none") /\ stack = << >> /\ ~entry[i].revive
  BY DEF Opens, Reports, Runs
<1>2. "live" \in Statuses
  BY DEF Statuses
<1>3. QED
  BY <1>1, <1>2, ReportKeeps

LEMMA FailsKeeps ==
  ASSUME IInv, NEW i \in Ids, NEW after \in {"none", "revive", "open"}, Fails(i, after)
  PROVE  IInv'
<1>1. stack = << >> /\ ~entry[i].revive
  BY DEF Fails, Reports, Runs
<1>2. CASE entry[i].status # "retrying"
  <2>1. Report(i, "retrying", after) /\ "retrying" \in Statuses
    BY <1>2 DEF Fails, Statuses
  <2>2. QED
    BY <1>1, <2>1, ReportKeeps
<1>3. CASE entry[i].status = "retrying"
  <2>1. /\ Sound(entry, entries, reg, stack) /\ entry \in Seq(EntryType) /\ i \in DOMAIN entry
        /\ Turns(stack) = {}
    BY <1>1, NoTurns DEF IInv, Sound, Shapes, Ids
  <2>2. entry[i] \in EntryType
    BY <2>1, Entries
  <2>3. PICK x : x = [entry[i] EXCEPT !.revive = TRUE]
    OBVIOUS
  <2>4. x \in EntryType /\ Unseen(x, entry[i]) /\ BacksOff(x, entry[i], stack, i)
    BY <1>3, <2>1, <2>2, <2>3 DEF EntryType, Unseen, BacksOff
  <2>5. /\ entry' = [entry EXCEPT ![i] = x] /\ entries' = entries /\ reg' = reg
        /\ stack' = stack
    BY <1>3, <2>3 DEF Fails
  <2>6. Sound(entry', entries, reg, stack)
    BY <2>1, <2>4, <2>5, QuietEntry
  <2>7. QED
    BY <2>5, <2>6 DEF IInv
<1>4. QED
  BY <1>2, <1>3

LEMMA RevivesKeeps ==
  ASSUME IInv, NEW i \in Ids, Revives(i)
  PROVE  IInv'
<1>1. Sound(entry, entries, reg, stack) /\ i \in DOMAIN entry /\ entry[i].revive /\ stack = << >>
  BY DEF IInv, Ids, Revives, Runs
<1>2. LET n == Reported([entry EXCEPT ![i].revive = FALSE], i, "connecting")
      IN  Sound(n, entries, reg, <<StatusTurn(n, i, "none")>> \o stack)
  BY <1>1, ReviveSound
<1>3. PICK n : n = Reported([entry EXCEPT ![i].revive = FALSE], i, "connecting")
  OBVIOUS
<1>4. /\ entry' = n /\ entries' = entries /\ reg' = reg
      /\ stack' = <<StatusTurn(n, i, "none")>>
  BY <1>3 DEF Revives
<1>5. <<StatusTurn(n, i, "none")>> \o stack = <<StatusTurn(n, i, "none")>>
  BY <1>1
<1>6. Sound(n, entries, reg, <<StatusTurn(n, i, "none")>>)
  BY <1>2, <1>3, <1>5
<1>7. QED
  BY <1>4, <1>6 DEF IInv

LEMMA NextSound == IInv /\ [Next]_vars => IInv'
<1> SUFFICES ASSUME IInv, [Next]_vars PROVE IInv'
  OBVIOUS
<1>1. CASE \E r \in Regs : Call(r) \/ Unsubscribe(r)
  BY <1>1, CallKeeps, UnsubscribeKeeps
<1>2. CASE \E r \in Regs, u \in Urls, names \in Wanted, ok \in Constructs :
             Subscribe(r, u, names, ok)
  <2>1. PICK r \in Regs, u \in Urls, names \in Wanted, ok \in Constructs :
          Subscribe(r, u, names, ok)
    BY <1>2
  <2>2. names \in SUBSET Names /\ ok \in BOOLEAN
    BY NamesAssumption DEF Constructs
  <2>3. QED
    BY <2>1, <2>2, SubscribeKeeps
<1>3. CASE \E u \in Urls, ok \in Constructs : Nudge(u, ok)
  BY <1>3, NudgeKeeps
<1>4. CASE Dispose
  BY <1>4, DisposeKeeps
<1>5. CASE Proceeds
  <2>1. CASE Edge
    BY <2>1, EdgeKeeps
  <2>2. CASE Reconnected
    BY <2>2, GoesOn DEF Reconnected
  <2>3. CASE Judge
    BY <2>3, JudgeKeeps
  <2>4. CASE Judged
    BY <2>4, GoesOn DEF Judged
  <2>5. CASE Arm
    BY <2>5, ArmKeeps
  <2>6. CASE ReplayLink
    BY <2>6, ReplayLinkKeeps
  <2>7. CASE Return
    BY <2>7, ReturnKeeps
  <2>8. QED
    BY <1>5, <2>1, <2>2, <2>3, <2>4, <2>5, <2>6, <2>7 DEF Proceeds
<1>6. CASE Tick
  BY <1>6, TickKeeps
<1>7. CASE \E i \in Ids : \/ LingerFires(i) \/ DeadlineFires(i) \/ Opens(i) \/ Revives(i)
                          \/ \E after \in {"none", "revive", "open"} : Fails(i, after)
  BY <1>7, LingerKeeps, DeadlineKeeps, OpensKeeps, RevivesKeeps, FailsKeeps
<1>8. CASE \E ok \in Constructs : Wake(ok)
  BY <1>8, WakeKeeps
<1>9. CASE UNCHANGED vars
  BY <1>9 DEF vars, IInv
<1>10. QED
  BY <1>1, <1>2, <1>3, <1>4, <1>5, <1>6, <1>7, <1>8, <1>9 DEF Next

-----------------------------------------------------------------------------
(* What the registry promises *)

\* Whatever handlers call in the middle of a fan-out, the entries, the map of
\* them, the subscriptions and the fan-outs under way fit together.
THEOREM RegistryInvariant == Spec => []IInv
  BY InitSound, NextSound, PTL DEF Spec

\* A name is wired on the shared connection exactly while a subscriber wants it
\* (registry.ts:52), however subscribers come, go and unsubscribe twice.
THEOREM NamesAreWired == Spec => []NamesAreCounted
<1>1. ASSUME IInv PROVE NamesAreCounted
  <2>1. ASSUME NEW i \in Ids
        PROVE  entry[i].wired = UNION {reg[r].names : r \in entry[i].subs}
    <3>1. /\ i \in DOMAIN entry /\ entry \in Seq(EntryType) /\ reg \in [Regs -> RegType]
      BY <1>1 DEF Ids, IInv, Sound, Shapes
    <3>2. /\ IsFiniteSet(entry[i].subs)
          /\ \A n \in Names : entry[i].count[n] = Cardinality(Wanting(entry, reg, i, n))
          /\ entry[i].wired = {n \in Names : entry[i].count[n] > 0}
      BY <1>1, <3>1 DEF IInv, Sound, Counted
    <3>3. ASSUME NEW n \in Names
          PROVE  entry[i].count[n] > 0 <=> \E r \in entry[i].subs : n \in reg[r].names
      <4>1. IsFiniteSet(Wanting(entry, reg, i, n)) /\ Cardinality(Wanting(entry, reg, i, n)) \in Nat
        BY <3>2, WantedBy
      <4>2. Cardinality(Wanting(entry, reg, i, n)) = 0 <=> Wanting(entry, reg, i, n) = {}
        BY <4>1, FS_EmptySet
      <4>3. entry[i].count[n] > 0 <=> Wanting(entry, reg, i, n) # {}
        BY <3>2, <4>1, <4>2
      <4>4. Wanting(entry, reg, i, n) # {} <=> \E r \in entry[i].subs : n \in reg[r].names
        BY DEF Wanting
      <4>5. QED
        BY <4>3, <4>4
    <3>4. \A r \in entry[i].subs : reg[r].names \subseteq Names
      <4>1. entry[i].subs \subseteq Regs
        BY <3>1, Entries
      <4>2. QED
        BY <3>1, <4>1 DEF RegType
    <3>5. QED
      BY <3>2, <3>3, <3>4
  <2>2. QED
    BY <2>1 DEF NamesAreCounted
<1>2. QED
  BY <1>1, RegistryInvariant, PTL

\* An entry is in the registry exactly until its connection is closed, and one
\* that nobody subscribes to is on its way out: a linger that fires late evicts
\* nobody's successor (registry.ts:285-292, 309-317).  A source that a closed
\* connection opens afterwards is in no registry.
THEOREM OpenEntriesAreMapped == Spec => []OpenIsMapped
<1>1. IInv => OpenIsMapped
  BY DEF IInv, Sound, Mapping, OpenIsMapped, Mapped, Ids
<1>2. QED
  BY <1>1, RegistryInvariant, PTL

LEMMA AllKnow == IInv => SubscribersKnow
<1> SUFFICES ASSUME IInv, stack = << >>, NEW i \in Ids, NEW r \in entry[i].subs
             PROVE  /\ reg[r].status = entry[i].status
                    /\ entry[i].link # "none" /\ ~reg[r].stale => reg[r].link = entry[i].link
  BY DEF SubscribersKnow
<1>1. ~ToReplay(stack, i, r) /\ \A phase : ~ToTell(stack, i, phase, r)
  BY NoTurns DEF ToTell, ToReplay
<1>2. QED
  BY <1>1 DEF IInv, Sound, Knowing, KnowsLink, Ids

\* Between turns every subscriber has been told the status of its stream and the
\* verdict: who joins in the middle of a fan-out by the replay, everybody else by
\* the fan-out, whatever handlers call meanwhile, the joiner's own included.  The
\* exception is a joiner whose replay told it a verdict that was no longer the
\* one in force (registry.ts:271-273), until the next verdict reaches it.
THEOREM EverybodyKnows == Spec => []SubscribersKnow
  BY AllKnow, RegistryInvariant, PTL

\* No retrying -> live edge is lost between two subscribers (registry.ts:38): one
\* that was told of the drop and is live again has had its onReconnect.
THEOREM NoEdgeIsLost == Spec => []EdgeIsTold
<1>1. ASSUME IInv PROVE EdgeIsTold
  <2> SUFFICES ASSUME stack = << >>, NEW r \in Regs, reg[r].at = "in",
                      reg[r].status = "live"
               PROVE  ~reg[r].owed
    BY DEF EdgeIsTold
  <2>1. PICK i : i = reg[r].entry
    OBVIOUS
  <2>2. Subscribed(entry, reg) /\ Knowing(entry, reg, stack) /\ Owing(entry, reg, stack)
    BY <1>1 DEF IInv, Sound
  <2>3. i \in DOMAIN entry
    BY <2>1, <2>2 DEF Subscribed
  <2>4. r \in entry[i].subs
    BY <2>1, <2>2, <2>3 DEF Subscribed
  <2>5. \A phase : ~ToTell(stack, i, phase, r)
    BY NoTurns DEF ToTell
  <2>6. entry[i].status = "live"
    BY <2>2, <2>3, <2>4, <2>5 DEF Knowing
  <2>7. ~Reporting(stack, i)
    BY NoTurns DEF Reporting
  <2>8. QED
    BY <2>2, <2>3, <2>4, <2>5, <2>6, <2>7 DEF Owing
<1>2. QED
  BY <1>1, RegistryInvariant, PTL

\* Who has left is called no more, by the fan-out it left from or by a later one,
\* and its second unsubscribe does nothing (registry.ts:277-281).
THEOREM LeavingIsFinal == Spec => LeftIsSilent
<1>1. ASSUME IInv, [Next]_vars, NEW r \in Regs, reg[r].at = "out" PROVE reg'[r] = reg[r]
  <2>1. reg \in [Regs -> RegType] /\ reg[r] \in RegType
    BY <1>1 DEF IInv, Sound, Shapes
  <2>2. reg[r].status = "none" /\ reg[r].link = "none" /\ ~reg[r].owed /\ ~reg[r].stale
    BY <1>1 DEF IInv, Sound, Subscribed
  <2>3. ASSUME NEW q \in Regs, Call(q) PROVE reg'[r] = reg[r]
    <3>1. q \in entry[Top.entry].subs /\ stack # << >>
      BY <2>3 DEF Call, Waiting
    <3>2. PICK i : i = Top.entry
      OBVIOUS
    <3>3. i \in DOMAIN entry
      BY <1>1, <3>1, <3>2, TopFacts
    <3>4. reg[q].at = "in"
      BY <1>1, <3>1, <3>2, <3>3 DEF IInv, Sound, Subscribed
    <3>5. q # r
      BY <1>1, <3>4
    <3>6. QED
      BY <2>1, <2>3, <3>5 DEF Call
  <2>4. ASSUME NEW q \in Regs, Unsubscribe(q) PROVE reg'[r] = reg[r]
    <3>1. CASE q # r
      BY <2>1, <2>4, <3>1 DEF Unsubscribe
    <3>2. CASE q = r
      <4>1. Gone(reg[r]) = reg[r]
        BY <1>1, <2>1, <2>2 DEF Gone, RegType
      <4>2. QED
        BY <2>1, <2>4, <3>2, <4>1 DEF Unsubscribe
    <3>3. QED
      BY <3>1, <3>2
  <2>5. ASSUME NEW q \in Regs, NEW u, NEW names, NEW ok, Subscribe(q, u, names, ok)
        PROVE  reg'[r] = reg[r]
    <3>1. q # r
      BY <1>1, <2>5 DEF Subscribe
    <3>2. PICK x : reg' = [reg EXCEPT ![q] = x]
      BY <2>5 DEF Subscribe
    <3>3. QED
      BY <2>1, <3>1, <3>2
  <2>6. CASE \E u \in Urls, ok \in Constructs : Nudge(u, ok)
    BY <2>6 DEF Nudge
  <2>7. CASE Dispose \/ Tick \/ Edge \/ Reconnected \/ Judge \/ Judged \/ Arm \/ Return
    BY <2>7 DEF Dispose, Tick, Edge, Reconnected, Judge, Judged, Arm, Return
  <2>8. CASE \E i \in Ids : \/ LingerFires(i) \/ DeadlineFires(i) \/ Opens(i) \/ Revives(i)
                            \/ \E after \in {"none", "revive", "open"} : Fails(i, after)
    BY <2>8 DEF LingerFires, DeadlineFires, Opens, Revives, Fails, Report
  <2>9. CASE \E ok \in Constructs : Wake(ok)
    BY <2>9 DEF Wake
  <2>10. CASE ReplayLink
    <3>1. PICK i : i = Top.entry
      OBVIOUS
    <3>2. stack # << >> /\ Top.phase = "replay"
      BY <2>10 DEF ReplayLink, Replaying
    <3>3. i \in DOMAIN entry /\ Top.todo \subseteq entry[i].subs
      BY <1>1, <3>1, <3>2, TopFacts DEF TurnOK, Replay
    <3>4. r \notin Top.todo
      BY <1>1, <3>3 DEF IInv, Sound, Subscribed
    <3>5. QED
      BY <2>10, <3>4 DEF ReplayLink
  <2>11. CASE UNCHANGED vars
    BY <2>11 DEF vars
  <2>12. QED
    BY <1>1, <2>3, <2>4, <2>5, <2>6, <2>7, <2>8, <2>9, <2>10, <2>11 DEF Next, Proceeds
<1>2. IInv /\ [Next]_vars => [\A r \in Regs : reg[r].at = "out" => reg'[r] = reg[r]]_vars
  BY <1>1
<1>3. QED
  BY <1>2, RegistryInvariant, PTL DEF Spec, LeftIsSilent

-----------------------------------------------------------------------------
(* The verdict, and the deadline that will change it *)

\* Deadlines lie ahead: a timer for one fires later, so a judgement that arms
\* the next deadline cannot run in a circle.
THEOREM DeadlineIsAhead ==
  ASSUME NEW track \in LinkTrack, NEW now \in Int
  PROVE  NextDeadline(track, now) \in SUBSET {at \in Int : at > now}
BY LinkAssumption DEF NextDeadline, LinkTrack

\* What the registry needs of nextDeadline (link.ts:62-63): before the deadline
\* it names, or at any time when it names none, the verdict is what it was.
\* One timer for the deadline, re-armed by every status report, is enough.
THEOREM VerdictHoldsUntilDeadline ==
  ASSUME GraceMs <= OfflineMs,
         NEW track \in LinkTrack, NEW now \in Int, NEW later \in Int, now <= later,
         \A at \in NextDeadline(track, now) : later < at
  PROVE  LinkAt(track, later) = LinkAt(track, now)
<1> DEFINE grace   == track.since + GraceMs
           offline == track.since + OfflineMs
<1>1. track.since \in Int /\ grace \in Int /\ offline \in Int /\ grace <= offline
  BY LinkAssumption DEF LinkTrack
<1>2. CASE track.status = "live"
  BY <1>2 DEF LinkAt
<1>3. CASE track.status # "live" /\ grace > now
  <2>1. NextDeadline(track, now) = {grace}
    BY <1>3 DEF NextDeadline
  <2>2. later < grace /\ now < grace /\ later < offline /\ now < offline
    BY <2>1, <1>1, <1>3
  <2> QED
    BY <1>1, <1>3, <2>2, LinkAssumption DEF LinkAt
<1>4. CASE track.status # "live" /\ grace <= now /\ offline > now
  <2>1. NextDeadline(track, now) = {offline}
    BY <1>1, <1>4 DEF NextDeadline
  <2>2. later < offline
    BY <2>1
  <2> QED
    BY <1>1, <1>4, <2>2, LinkAssumption DEF LinkAt
<1>5. CASE track.status # "live" /\ offline <= now
  BY <1>1, <1>5, LinkAssumption DEF LinkAt
<1> QED
  BY <1>1, <1>2, <1>3, <1>4, <1>5

\* A non-live stream is offline once it has been so for the offline window,
\* whatever the transport reported in between: a repeated non-live status
\* keeps "since" (link.ts:37-39).
THEOREM RetriesDoNotPutOfflineOff ==
  ASSUME NEW track \in LinkTrack, track.status # "live",
         NEW status \in Statuses \ {"live"}, NEW now \in Int, NEW later \in Int,
         later >= track.since + OfflineMs
  PROVE  LinkAt(TrackStatus(track, status, now), later) = "offline"
<1>1. /\ TrackStatus(track, status, now).since = track.since
      /\ TrackStatus(track, status, now).status = status
  BY DEF TrackStatus
<1>2. track.since \in Int /\ status # "live"
  BY DEF LinkTrack
<1> QED
  BY <1>1, <1>2, LinkAssumption DEF LinkAt

Decides(t, i) == t.entry = i /\ t.phase \in {"status", "reconnect", "judge"}

Deciding(s, i) == \E t \in Turns(s) : Decides(t, i)

\* A report is under way; a subscribe call has no part in the verdict.
Judges(t, i) == t.entry = i /\ t.phase \notin Replay

Busy(s, i) == \E t \in Turns(s) : Judges(t, i)

\* A mapped entry's verdict is about to be given, or is the one of its track and
\* will be till the deadline that is armed or to be armed, or is due.
Verdict(c, s, i) ==
  \/ Deciding(s, i)
  \/ c.link = LinkAt(c.track, Now) /\ (Busy(s, i) \/ c.deadline = DeadlineIn(c.track))
  \/ ~Busy(s, i) /\ c.deadline = 0

Verdicts(e, m, s) == \A i \in DOMAIN e : m[e[i].url] = i => Verdict(e[i], s, i)

\* What a step does to the turns of an entry, as far as its verdict goes.
AsBusy(s, p, i) == (Deciding(s, i) => Deciding(p, i)) /\ (Busy(s, i) <=> Busy(p, i))

AsTold(x, c) == x.url = c.url /\ x.link = c.link /\ x.track = c.track /\ x.deadline = c.deadline

LEMMA VerdictStays ==
  ASSUME NEW c, NEW x, NEW s, NEW p, NEW i, AsTold(x, c), AsBusy(s, p, i), Verdict(c, s, i)
  PROVE  Verdict(x, p, i)
  BY DEF AsTold, AsBusy, Verdict

LEMMA OthersStay ==
  ASSUME NEW e, NEW m, NEW s, Verdicts(e, m, s), NEW n, NEW p, NEW i,
         OnlyEntry(n, e, i), \A j \in DOMAIN e : j # i => AsBusy(s, p, j),
         i \in DOMAIN e /\ m[n[i].url] = i => Verdict(n[i], p, i)
  PROVE  Verdicts(n, m, p)
<1>1. ASSUME NEW j \in DOMAIN e, j # i, m[e[j].url] = j PROVE Verdict(e[j], p, j)
  BY <1>1, VerdictStays DEF Verdicts, AsTold
<1>2. QED
  BY <1>1 DEF Verdicts, OnlyEntry

LEMMA TurnOnTop ==
  ASSUME NEW q \in Seq(TurnType), NEW t, <<t>> \o q \in Seq(TurnType), NEW i
  PROVE  /\ Deciding(<<t>> \o q, i) <=> Decides(t, i) \/ Deciding(q, i)
         /\ Busy(<<t>> \o q, i) <=> Judges(t, i) \/ Busy(q, i)
<1>1. (<<t>> \o q)[1] = t /\ 1 \in DOMAIN (<<t>> \o q)
  OBVIOUS
<1>2. t \in TurnType
  BY <1>1
<1>3. Turns(<<t>> \o q) = {t} \cup Turns(q)
  BY <1>2, Pushed
<1>4. QED
  BY <1>3 DEF Deciding, Busy

LEMMA TurnsBelow ==
  ASSUME IInv, stack # << >>, NEW i
  PROVE  /\ Tail(stack) \in Seq(TurnType)
         /\ Deciding(stack, i) <=> Decides(Top, i) \/ Deciding(Tail(stack), i)
         /\ Busy(stack, i) <=> Judges(Top, i) \/ Busy(Tail(stack), i)
<1>1. stack \in Seq(TurnType)
  BY DEF IInv, Sound, Shapes
<1>2. Tail(stack) \in Seq(TurnType) /\ Turns(stack) = {Head(stack)} \cup Turns(Tail(stack))
  BY <1>1, Popped
<1>3. QED
  BY <1>2 DEF Top, Deciding, Busy

LEMMA EmptyStack == stack = << >> => \A i : ~Deciding(stack, i) /\ ~Busy(stack, i)
  BY NoTurns DEF Deciding, Busy

\* A report is followed by a judgement.
LEMMA ReportDecides ==
  ASSUME NEW e, NEW m, NEW s \in Seq(TurnType), Verdicts(e, m, s), NEW i,
         NEW n, OnlyEntry(n, e, i), NEW t, t.entry = i, t.phase \in {"status", "reconnect", "judge"},
         <<t>> \o s \in Seq(TurnType)
  PROVE  Verdicts(n, m, <<t>> \o s)
<1>1. PICK p : p = <<t>> \o s
  OBVIOUS
<1>2. \A j : /\ Deciding(p, j) <=> Decides(t, j) \/ Deciding(s, j)
             /\ Busy(p, j) <=> Judges(t, j) \/ Busy(s, j)
  BY <1>1, TurnOnTop
<1>3. Decides(t, i)
  BY DEF Decides
<1>4. Verdict(n[i], p, i)
  BY <1>2, <1>3 DEF Verdict
<1>5. \A j \in DOMAIN e : j # i => AsBusy(s, p, j)
  BY <1>2 DEF AsBusy, Judges
<1>6. QED
  BY <1>1, <1>4, <1>5, OthersStay

\* A turn goes on to its next phase.
LEMMA NextPhase ==
  ASSUME IInv, Verdicts(entry, entries, stack), stack # << >>, NEW n, OnlyEntry(n, entry, Top.entry),
         NEW t, t.entry = Top.entry, <<t>> \o Tail(stack) \in Seq(TurnType),
         t.phase \notin Replay, Top.phase \notin Replay,
         \/ t.phase \in {"status", "reconnect", "judge"}
         \/ n[Top.entry].link = LinkAt(n[Top.entry].track, Now)
         \/ AsTold(n[Top.entry], entry[Top.entry]) /\ Top.phase \notin {"status", "reconnect", "judge"}
  PROVE  Verdicts(n, entries, <<t>> \o Tail(stack))
<1>1. PICK p : p = <<t>> \o Tail(stack)
  OBVIOUS
<1>2. PICK i : i = Top.entry
  OBVIOUS
<1>3. \A j : /\ Deciding(stack, j) <=> Decides(Top, j) \/ Deciding(Tail(stack), j)
             /\ Busy(stack, j) <=> Judges(Top, j) \/ Busy(Tail(stack), j)
             /\ Deciding(p, j) <=> Decides(t, j) \/ Deciding(Tail(stack), j)
             /\ Busy(p, j) <=> Judges(t, j) \/ Busy(Tail(stack), j)
  BY <1>1, TurnOnTop, TurnsBelow
<1>4. \A j \in DOMAIN entry : j # i => AsBusy(stack, p, j)
  BY <1>2, <1>3 DEF AsBusy, Decides, Judges
<1>5. ASSUME i \in DOMAIN entry, entries[n[i].url] = i PROVE Verdict(n[i], p, i)
  <2>1. Busy(p, i) /\ Busy(stack, i)
    BY <1>2, <1>3 DEF Judges
  <2>2. CASE t.phase \in {"status", "reconnect", "judge"}
    BY <1>2, <1>3, <2>2 DEF Verdict, Decides
  <2>3. CASE n[i].link = LinkAt(n[i].track, Now)
    BY <2>1, <2>3 DEF Verdict
  <2>4. CASE AsTold(n[i], entry[i]) /\ Top.phase \notin {"status", "reconnect", "judge"}
    <3>1. Verdict(entry[i], stack, i)
      BY <1>5, <2>4 DEF Verdicts, AsTold
    <3>2. Deciding(stack, i) => Deciding(p, i)
      BY <1>3, <2>4 DEF Decides
    <3>3. QED
      BY <2>1, <2>4, <3>1, <3>2 DEF Verdict, AsTold
  <2>5. QED
    BY <1>2, <2>2, <2>3, <2>4
<1>6. QED
  BY <1>1, <1>2, <1>4, <1>5, OthersStay

VInv == Verdicts(entry, entries, stack)

LEMMA CallVerdicts ==
  ASSUME IInv, IInv', VInv, NEW r \in Regs, Call(r)
  PROVE  VInv'
<1>1. PICK t : t = [Top EXCEPT !.todo = @ \ {r}, !.inside = TRUE]
  OBVIOUS
<1>2. stack # << >> /\ stack' = <<t>> \o Tail(stack) /\ entry' = entry /\ entries' = entries
  BY <1>1 DEF Call
<1>3. stack' \in Seq(TurnType) /\ Top \in TurnType
  BY <1>2, TopFacts DEF IInv, Sound, Shapes
<1>4. t.entry = Top.entry /\ t.phase = Top.phase
  BY <1>1, <1>3 DEF TurnType
<1>5. \A j : AsBusy(stack, stack', j)
  <2>1. ASSUME NEW j PROVE AsBusy(stack, stack', j)
    <3>1. /\ Deciding(stack, j) <=> Decides(Top, j) \/ Deciding(Tail(stack), j)
          /\ Busy(stack, j) <=> Judges(Top, j) \/ Busy(Tail(stack), j)
          /\ Tail(stack) \in Seq(TurnType)
      BY <1>2, TurnsBelow
    <3>2. PICK p : p = <<t>> \o Tail(stack)
      OBVIOUS
    <3>3. /\ Deciding(p, j) <=> Decides(t, j) \/ Deciding(Tail(stack), j)
          /\ Busy(p, j) <=> Judges(t, j) \/ Busy(Tail(stack), j)
      BY <1>2, <1>3, <3>1, <3>2, TurnOnTop
    <3>4. stack' = p
      BY <1>2, <3>2
    <3>5. QED
      BY <1>4, <3>1, <3>3, <3>4 DEF AsBusy, Decides, Judges
  <2>2. QED
    BY <2>1
<1>6. PICK p : p = stack'
  OBVIOUS
<1>7. ASSUME NEW j \in DOMAIN entry, entries[entry[j].url] = j PROVE Verdict(entry[j], p, j)
  <2>1. AsTold(entry[j], entry[j])
    BY DEF AsTold
  <2>2. Verdict(entry[j], stack, j) /\ AsBusy(stack, p, j)
    BY <1>5, <1>6, <1>7 DEF VInv, Verdicts
  <2>3. QED
    BY <2>1, <2>2, VerdictStays
<1>8. Verdicts(entry, entries, p)
  BY <1>7 DEF Verdicts
<1>9. QED
  BY <1>2, <1>6, <1>8 DEF VInv

\* A turn that goes on to its next phase, whatever it does to the entry.
LEMMA PhaseVerdicts ==
  ASSUME IInv, IInv', VInv, stack # << >>, OnlyEntry(entry', entry, Top.entry),
         NEW t, t.entry = Top.entry, stack' = <<t>> \o Tail(stack), entries' = entries,
         t.phase \notin Replay, Top.phase \notin Replay,
         \/ t.phase \in {"status", "reconnect", "judge"}
         \/ entry'[Top.entry].link = LinkAt(entry'[Top.entry].track, Now)
         \/ AsTold(entry'[Top.entry], entry[Top.entry])
            /\ Top.phase \notin {"status", "reconnect", "judge"}
  PROVE  VInv'
<1>1. PICK n : n = entry'
  OBVIOUS
<1>2. <<t>> \o Tail(stack) \in Seq(TurnType)
  BY DEF IInv, Sound, Shapes
<1>3. Verdicts(n, entries, <<t>> \o Tail(stack))
  BY <1>1, <1>2, NextPhase DEF VInv
<1>4. QED
  BY <1>1, <1>3 DEF VInv

LEMMA PhaseMeans ==
  ASSUME NEW phase, NEW what, Phase(phase, what)
  PROVE  \E t : t.entry = Top.entry /\ t.phase = phase /\ stack' = <<t>> \o Tail(stack)
<1>1. PICK todo : todo = IF Tells(phase) THEN entry'[Top.entry].subs ELSE {}
  OBVIOUS
<1>2. PICK t : t = Turn(Top.entry, phase, what, todo, Top.after)
  OBVIOUS
<1>3. t.entry = Top.entry /\ t.phase = phase
  BY <1>2 DEF Turn
<1>4. stack' = <<t>> \o Tail(stack)
  BY <1>1, <1>2 DEF Phase
<1>5. QED
  BY <1>3, <1>4

LEMMA EdgeVerdicts ==
  ASSUME IInv, IInv', VInv, Edge
  PROVE  VInv'
<1>1. PICK t : /\ t.entry = Top.entry /\ t.phase \in {"status", "reconnect", "judge"}
               /\ stack' = <<t>> \o Tail(stack)
  <2>1. Phase("reconnect", "live") \/ Phase("judge", "none")
    BY DEF Edge
  <2>2. QED
    BY <2>1, PhaseMeans
<1>2. /\ OnlyEntry(entry', entry, Top.entry) /\ stack # << >> /\ entries' = entries
      /\ Top.phase = "status"
  BY DEF Edge, ToldAll, OnlyEntry
<1>3. t.phase \notin Replay /\ Top.phase \notin Replay
  BY <1>1, <1>2 DEF Replay
<1>4. QED
  BY <1>1, <1>2, <1>3, PhaseVerdicts

LEMMA GoesOnVerdicts ==
  ASSUME IInv, IInv', VInv, Reconnected \/ Judged
  PROVE  VInv'
<1>1. stack # << >> /\ entry' = entry /\ entries' = entries /\ OnlyEntry(entry', entry, Top.entry)
  BY DEF Reconnected, Judged, ToldAll, OnlyEntry
<1>2. PICK t : /\ t.entry = Top.entry /\ stack' = <<t>> \o Tail(stack)
               /\ \/ Top.phase = "reconnect" /\ t.phase = "judge"
                  \/ Top.phase = "link" /\ t.phase = "arm"
  <2>1. CASE Reconnected
    <3>1. Top.phase = "reconnect" /\ Phase("judge", "none")
      BY <2>1 DEF Reconnected, ToldAll
    <3>2. QED
      BY <3>1, PhaseMeans
  <2>2. CASE Judged
    <3>1. Top.phase = "link" /\ Phase("arm", "none")
      BY <2>2 DEF Judged, ToldAll
    <3>2. QED
      BY <3>1, PhaseMeans
  <2>3. QED
    BY <2>1, <2>2
<1>3. AsTold(entry'[Top.entry], entry[Top.entry])
  BY <1>1 DEF AsTold
<1>4. t.phase \notin Replay /\ Top.phase \notin Replay
  BY <1>2 DEF Replay
<1>5. QED
  BY <1>1, <1>2, <1>3, <1>4, PhaseVerdicts

LEMMA JudgeVerdicts ==
  ASSUME IInv, IInv', VInv, Judge
  PROVE  VInv'
<1>1. PICK i : i = Top.entry
  OBVIOUS
<1>2. stack # << >> /\ entries' = entries /\ Top.phase = "judge"
  BY DEF Judge, ToldAll
<1>3. i \in DOMAIN entry /\ entry[i] \in EntryType
  BY <1>1, <1>2, TopFacts
<1>4. PICK link : link = LinkAt(entry[i].track, Now)
  OBVIOUS
<1>5. entry' = [entry EXCEPT ![i] = [entry[i] EXCEPT !.deadline = Off, !.link = link]]
  BY <1>1, <1>3, <1>4 DEF Judge
<1>6. OnlyEntry(entry', entry, i)
  BY <1>5 DEF OnlyEntry
<1>7. entry'[i].link = LinkAt(entry'[i].track, Now)
  <2>1. PICK x : x = [entry[i] EXCEPT !.deadline = Off, !.link = link]
    OBVIOUS
  <2>2. x.link = link /\ x.track = entry[i].track
    BY <1>3, <2>1 DEF EntryType
  <2>3. entry'[i] = x
    BY <1>3, <1>5, <2>1
  <2>4. QED
    BY <1>4, <2>2, <2>3
<1>8. PICK t : /\ t.entry = i /\ t.phase \in {"link", "arm"}
               /\ stack' = <<t>> \o Tail(stack)
  <2>1. Phase("link", link) \/ Phase("arm", "none")
    BY <1>1, <1>4 DEF Judge
  <2>2. QED
    BY <1>1, <2>1, PhaseMeans
<1>9. t.phase \notin Replay /\ Top.phase \notin Replay
  BY <1>2, <1>8 DEF Replay
<1>10. QED
  BY <1>1, <1>2, <1>6, <1>7, <1>8, <1>9, PhaseVerdicts

LEMMA ArmVerdicts ==
  ASSUME IInv, IInv', VInv, Arm
  PROVE  VInv'
<1>1. PICK i : i = Top.entry
  OBVIOUS
<1>2. stack # << >> /\ Top.phase = "arm" /\ entries' = entries
  BY DEF Arm, ToldAll
<1>3. i \in DOMAIN entry /\ entry[i] \in EntryType
  BY <1>1, <1>2, TopFacts
<1>4. PICK strays : strays = IF entry[i].deadline = Off THEN entry[i].strays
                             ELSE entry[i].strays \cup {entry[i].deadline}
  OBVIOUS
<1>5. PICK armed : armed = [entry EXCEPT ![i] = [entry[i] EXCEPT
                              !.deadline = DeadlineIn(entry[i].track), !.strays = strays]]
  OBVIOUS
<1>6. armed = [entry EXCEPT ![i].deadline = DeadlineIn(entry[i].track), ![i].strays = strays]
  BY <1>3, <1>5
<1>7. CASE Top.after = "open"
  <2>1. /\ entry' = Reported([armed EXCEPT ![i].loose = entry[i].closed], i, "connecting")
        /\ stack' = <<StatusTurn(entry', i, "none")>> \o Tail(stack)
    BY <1>1, <1>4, <1>6, <1>7 DEF Arm
  <2>2. OnlyEntry(entry', entry, i)
    BY <1>5, <2>1 DEF OnlyEntry, Reported
  <2>3. PICK t : t = StatusTurn(entry', i, "none")
    OBVIOUS
  <2>4. t.entry = i /\ t.phase = "status"
    BY <2>3 DEF StatusTurn, Turn
  <2>5. t.phase \notin Replay /\ Top.phase \notin Replay
    BY <1>2, <2>4 DEF Replay
  <2>6. QED
    BY <1>1, <1>2, <2>1, <2>2, <2>3, <2>4, <2>5, PhaseVerdicts
<1>8. CASE Top.after # "open"
  <2>1. PICK revive : entry' = [armed EXCEPT ![i].revive = revive] /\ stack' = Tail(stack)
    BY <1>1, <1>4, <1>6, <1>8 DEF Arm
  <2>2. PICK n : n = entry'
    OBVIOUS
  <2>3. OnlyEntry(n, entry, i)
    BY <1>5, <2>1, <2>2 DEF OnlyEntry
  <2>4. /\ n[i].url = entry[i].url /\ n[i].link = entry[i].link /\ n[i].track = entry[i].track
        /\ n[i].deadline = DeadlineIn(entry[i].track)
    <3>1. PICK x : x = [entry[i] EXCEPT !.deadline = DeadlineIn(entry[i].track), !.strays = strays]
      OBVIOUS
    <3>2. /\ x.url = entry[i].url /\ x.link = entry[i].link /\ x.track = entry[i].track
          /\ x.deadline = DeadlineIn(entry[i].track) /\ DOMAIN x = DOMAIN entry[i]
      BY <1>3, <3>1 DEF EntryType
    <3>3. n[i] = [x EXCEPT !.revive = revive]
      BY <1>3, <1>5, <2>1, <2>2, <3>1
    <3>4. "url" \in DOMAIN x /\ "link" \in DOMAIN x /\ "track" \in DOMAIN x /\ "deadline" \in DOMAIN x
      BY <1>3, <3>2 DEF EntryType
    <3>5. QED
      BY <3>2, <3>3, <3>4
  <2>5. PICK p : p = Tail(stack)
    OBVIOUS
  <2>6. \A j : /\ Deciding(stack, j) <=> Decides(Top, j) \/ Deciding(p, j)
               /\ Busy(stack, j) <=> Judges(Top, j) \/ Busy(p, j)
    BY <1>2, <2>5, TurnsBelow
  <2>7. \A j \in DOMAIN entry : j # i => AsBusy(stack, p, j)
    BY <1>1, <2>6 DEF AsBusy, Decides, Judges
  <2>8. ASSUME entries[n[i].url] = i PROVE Verdict(n[i], p, i)
    <3>1. Verdict(entry[i], stack, i)
      BY <1>3, <2>4, <2>8 DEF VInv, Verdicts
    <3>2. Busy(stack, i) /\ (Deciding(stack, i) => Deciding(p, i))
      BY <1>1, <1>2, <2>6 DEF Decides, Judges, Replay
    <3>3. QED
      BY <2>4, <3>1, <3>2 DEF Verdict
  <2>9. Verdicts(n, entries, p)
    BY <2>3, <2>7, <2>8, OthersStay DEF VInv
  <2>10. QED
    BY <1>2, <2>1, <2>2, <2>5, <2>9 DEF VInv
<1>9. QED
  BY <1>7, <1>8

LEMMA AllStay ==
  ASSUME NEW e, NEW m, NEW s, Verdicts(e, m, s), NEW n, NEW p, DOMAIN n = DOMAIN e,
         \A j \in DOMAIN e : AsTold(n[j], e[j]) /\ AsBusy(s, p, j)
  PROVE  Verdicts(n, m, p)
<1>1. ASSUME NEW j \in DOMAIN n, m[n[j].url] = j PROVE Verdict(n[j], p, j)
  <2>1. AsTold(n[j], e[j]) /\ AsBusy(s, p, j) /\ j \in DOMAIN e
    OBVIOUS
  <2>2. Verdict(e[j], s, j)
    BY <1>1, <2>1 DEF Verdicts, AsTold
  <2>3. QED
    BY <2>1, <2>2, VerdictStays
<1>2. QED
  BY <1>1 DEF Verdicts

\* No turn changes, nor anything that a verdict depends on.
LEMMA QuietVerdicts ==
  ASSUME VInv, stack' = stack, entries' = entries, DOMAIN entry' = DOMAIN entry,
         \A j \in DOMAIN entry : AsTold(entry'[j], entry[j])
  PROVE  VInv'
<1>1. PICK n : n = entry'
  OBVIOUS
<1>2. \A j : AsBusy(stack, stack, j)
  BY DEF AsBusy
<1>3. Verdicts(n, entries, stack)
  BY <1>1, <1>2, AllStay DEF VInv
<1>4. QED
  BY <1>1, <1>3 DEF VInv

LEMMA UnsubscribeVerdicts ==
  ASSUME IInv, VInv, NEW r \in Regs, Unsubscribe(r)
  PROVE  VInv'
<1>1. PICK i : i = reg[r].entry
  OBVIOUS
<1>2. i \in DOMAIN entry /\ entry \in Seq(EntryType)
  BY <1>1 DEF IInv, Sound, Shapes, Subscribed, Unsubscribe
<1>3. entry[i] \in EntryType
  BY <1>2, Entries
<1>4. PICK x : x = IF r \in entry[i].subs THEN Released(entry[i], r) ELSE entry[i]
  OBVIOUS
<1>5. AsTold(x, entry[i])
  BY <1>3, <1>4 DEF AsTold, Released, EntryType
<1>6. entry' = [entry EXCEPT ![i] = x] /\ stack' = stack /\ entries' = entries
  BY <1>1, <1>4 DEF Unsubscribe
<1>7. \A j \in DOMAIN entry : AsTold(entry'[j], entry[j])
  BY <1>5, <1>6 DEF AsTold
<1>8. QED
  BY <1>6, <1>7, QuietVerdicts

LEMMA NudgedVerdicts ==
  ASSUME NEW e, NEW m, NEW s \in Seq(TurnType), Verdicts(e, m, s), NEW i, NEW ok,
         NudgedBy(e, i, s, ok) \in Seq(TurnType)
  PROVE  Verdicts(NudgedTo(e, i, ok), m, NudgedBy(e, i, s, ok))
<1>1. CASE e[i].revive /\ ~e[i].closed /\ ok
  <2>1. PICK n : n = NudgedTo(e, i, ok)
    OBVIOUS
  <2>2. OnlyEntry(n, e, i)
    BY <1>1, <2>1 DEF NudgedTo, OnlyEntry, Reported
  <2>3. PICK t : t = StatusTurn(n, i, "none")
    OBVIOUS
  <2>4. t.entry = i /\ t.phase = "status"
    BY <2>3 DEF StatusTurn, Turn
  <2>5. NudgedBy(e, i, s, ok) = <<t>> \o s
    BY <1>1, <2>1, <2>3 DEF NudgedBy
  <2>6. Verdicts(n, m, <<t>> \o s)
    BY <2>2, <2>4, <2>5, ReportDecides
  <2>7. QED
    BY <2>1, <2>5, <2>6
<1>2. CASE ~(e[i].revive /\ ~e[i].closed /\ ok)
  BY <1>2 DEF NudgedTo, NudgedBy
<1>3. QED
  BY <1>1, <1>2

LEMMA NudgeVerdicts ==
  ASSUME IInv, IInv', VInv, NEW u \in Urls, NEW ok, Nudge(u, ok)
  PROVE  VInv'
<1>1. PICK i : i = entries[u]
  OBVIOUS
<1>2. Nudged(entry, i, stack, ok) /\ entries' = entries
  BY <1>1 DEF Nudge
<1>3. entry' = NudgedTo(entry, i, ok) /\ stack' = NudgedBy(entry, i, stack, ok)
  BY <1>2, NudgedMeans
<1>4. stack \in Seq(TurnType) /\ NudgedBy(entry, i, stack, ok) \in Seq(TurnType)
  BY <1>3 DEF IInv, Sound, Shapes
<1>5. Verdicts(NudgedTo(entry, i, ok), entries, NudgedBy(entry, i, stack, ok))
  BY <1>4, NudgedVerdicts DEF VInv
<1>6. QED
  BY <1>2, <1>3, <1>5 DEF VInv

LEMMA JoinedBusy ==
  ASSUME NEW q, NEW s, NEW i, NEW r, TurnsWith(q, s, i, r), NEW j
  PROVE  AsBusy(s, q, j)
<1>1. /\ DOMAIN q = DOMAIN s
      /\ \A k \in DOMAIN s : q[k].entry = s[k].entry /\ q[k].phase = s[k].phase
  BY DEF TurnsWith
<1>2. ASSUME NEW t \in Turns(s), t.entry = j
      PROVE  (Judges(t, j) => Busy(q, j)) /\ (Decides(t, j) => Deciding(q, j))
  <2>1. PICK k \in DOMAIN s : t = s[k]
    BY DEF Turns
  <2>2. q[k] \in Turns(q) /\ q[k].entry = t.entry /\ q[k].phase = t.phase
    BY <1>1, <2>1 DEF Turns
  <2>3. QED
    BY <1>2, <2>2 DEF Busy, Deciding, Decides, Judges
<1>3. ASSUME NEW t \in Turns(q), Judges(t, j) PROVE Busy(s, j)
  <2>1. PICK k \in DOMAIN s : t = q[k]
    BY <1>1 DEF Turns
  <2>2. s[k] \in Turns(s) /\ s[k].entry = t.entry /\ s[k].phase = t.phase
    BY <1>1, <2>1 DEF Turns
  <2>3. QED
    BY <1>3, <2>2 DEF Busy, Judges
<1>4. QED
  BY <1>2, <1>3 DEF AsBusy, Busy, Deciding, Decides, Judges

\* A subscribe call begins, goes on and returns.
LEMMA ReplayBusy ==
  ASSUME NEW q \in Seq(TurnType), NEW t, t.phase \in Replay, <<t>> \o q \in Seq(TurnType),
         NEW j
  PROVE  AsBusy(q, <<t>> \o q, j) /\ AsBusy(<<t>> \o q, q, j)
<1>1. PICK p : p = <<t>> \o q
  OBVIOUS
<1>2. /\ Deciding(p, j) <=> Decides(t, j) \/ Deciding(q, j)
      /\ Busy(p, j) <=> Judges(t, j) \/ Busy(q, j)
  BY <1>1, TurnOnTop
<1>3. ~Decides(t, j) /\ ~Judges(t, j)
  BY DEF Decides, Judges, Replay
<1>4. QED
  BY <1>1, <1>2, <1>3 DEF AsBusy

LEMMA BelowReplay ==
  ASSUME IInv, stack # << >>, Top.phase \in Replay
  PROVE  \A j : AsBusy(stack, Tail(stack), j)
<1>1. ASSUME NEW j PROVE AsBusy(stack, Tail(stack), j)
  <2>1. /\ Deciding(stack, j) <=> Decides(Top, j) \/ Deciding(Tail(stack), j)
        /\ Busy(stack, j) <=> Judges(Top, j) \/ Busy(Tail(stack), j)
    BY TurnsBelow
  <2>2. ~Decides(Top, j) /\ ~Judges(Top, j)
    BY DEF Decides, Judges, Replay
  <2>3. QED
    BY <2>1, <2>2 DEF AsBusy
<1>2. QED
  BY <1>1

\* The turn on top of it goes on in the same subscribe call.
LEMMA ReplayOn ==
  ASSUME IInv, VInv, stack # << >>, Top.phase \in Replay,
         NEW t, t.phase \in Replay, <<t>> \o Tail(stack) \in Seq(TurnType)
  PROVE  Verdicts(entry, entries, <<t>> \o Tail(stack))
<1>1. PICK p : p = <<t>> \o Tail(stack)
  OBVIOUS
<1>2. \A j : AsBusy(stack, Tail(stack), j)
  BY BelowReplay
<1>3. \A j : AsBusy(Tail(stack), p, j)
  BY <1>1, TurnsBelow, ReplayBusy
<1>4. \A j \in DOMAIN entry : AsTold(entry[j], entry[j]) /\ AsBusy(stack, p, j)
  BY <1>2, <1>3 DEF AsBusy, AsTold
<1>5. QED
  BY <1>1, <1>4, AllStay DEF VInv

LEMMA ReplayEnds ==
  ASSUME IInv, VInv, stack # << >>, Top.phase \in Replay
  PROVE  Verdicts(entry, entries, Tail(stack))
<1>1. PICK p : p = Tail(stack)
  OBVIOUS
<1>2. \A j : AsBusy(stack, p, j)
  BY <1>1, BelowReplay
<1>3. \A j \in DOMAIN entry : AsTold(entry[j], entry[j]) /\ AsBusy(stack, p, j)
  BY <1>2 DEF AsTold
<1>4. QED
  BY <1>1, <1>3, AllStay DEF VInv

LEMMA ReplayVerdicts ==
  ASSUME IInv, IInv', VInv, ReplayLink \/ Return
  PROVE  VInv'
<1>1. /\ stack # << >> /\ Top.phase \in Replay /\ entry' = entry /\ entries' = entries
      /\ stack' \in Seq(TurnType)
  BY DEF ReplayLink, Return, Replaying, Replay, IInv, Sound, Shapes
<1>2. CASE ReplayLink
  <2>1. PICK t : t = [Top EXCEPT !.phase = "wake"]
    OBVIOUS
  <2>2. t.phase \in Replay
    <3>1. Top \in TurnType
      BY <1>1, TopFacts
    <3>2. QED
      BY <2>1, <3>1 DEF TurnType, Replay
  <2>3. stack' = <<t>> \o Tail(stack)
    BY <1>2, <2>1 DEF ReplayLink
  <2>4. Verdicts(entry, entries, <<t>> \o Tail(stack))
    BY <1>1, <2>2, <2>3, ReplayOn
  <2>5. QED
    BY <1>1, <2>3, <2>4 DEF VInv
<1>3. CASE Return
  <2>1. stack' = Tail(stack)
    BY <1>3 DEF Return
  <2>2. Verdicts(entry, entries, Tail(stack))
    BY <1>1, ReplayEnds
  <2>3. QED
    BY <1>1, <2>1, <2>2 DEF VInv
<1>4. QED
  BY <1>2, <1>3

LEMMA WakeVerdicts ==
  ASSUME IInv, IInv', VInv, NEW ok, Wake(ok)
  PROVE  VInv'
<1>1. /\ stack # << >> /\ Top.phase = "wake" /\ entries' = entries
      /\ stack' \in Seq(TurnType) /\ Top \in TurnType /\ Tail(stack) \in Seq(TurnType)
  <2>1. stack # << >> /\ Top.phase = "wake" /\ entries' = entries
    BY DEF Wake, Replaying
  <2>2. stack' \in Seq(TurnType)
    BY DEF IInv, Sound, Shapes
  <2>3. QED
    BY <2>1, <2>2, TopFacts, TurnsBelow
<1>2. CASE Top.after = "nudge"
  <2>1. PICK t : t = [Top EXCEPT !.phase = "return", !.inside = FALSE]
    OBVIOUS
  <2>2. t \in TurnType /\ t.phase \in Replay
    <3>1. t \in TurnType /\ t.phase = "return"
      BY <1>1, <2>1, ReplayGoesOn
    <3>2. QED
      BY <3>1 DEF Replay
  <2>3. PICK turns : turns = <<t>> \o Tail(stack)
    OBVIOUS
  <2>4. turns \in Seq(TurnType)
    BY <1>1, <2>2, <2>3
  <2>5. Nudged(entry, Top.entry, turns, ok)
    BY <1>2, <2>1, <2>3 DEF Wake
  <2>6. PICK i : i = Top.entry
    OBVIOUS
  <2>7. entry' = NudgedTo(entry, i, ok) /\ stack' = NudgedBy(entry, i, turns, ok)
    BY <2>5, <2>6, NudgedMeans
  <2>8. Verdicts(entry, entries, turns)
    <3>1. Top.phase \in Replay
      BY <1>1 DEF Replay
    <3>2. QED
      BY <1>1, <2>2, <2>3, <2>4, <3>1, ReplayOn
  <2>9. NudgedBy(entry, i, turns, ok) \in Seq(TurnType)
    BY <1>1, <2>7
  <2>10. Verdicts(NudgedTo(entry, i, ok), entries, NudgedBy(entry, i, turns, ok))
    BY <2>4, <2>8, <2>9, NudgedVerdicts
  <2>11. QED
    BY <1>1, <2>7, <2>10 DEF VInv
<1>3. CASE Top.after # "nudge"
  <2>1. entry' = entry /\ stack' = Tail(stack)
    BY <1>3 DEF Wake
  <2>2. Top.phase \in Replay
    BY <1>1 DEF Replay
  <2>3. Verdicts(entry, entries, Tail(stack))
    BY <1>1, <2>2, ReplayEnds
  <2>4. QED
    BY <1>1, <2>1, <2>3 DEF VInv
<1>4. QED
  BY <1>2, <1>3

LEMMA SubscribeVerdicts ==
  ASSUME IInv, IInv', VInv, NEW r \in Regs, NEW url \in Urls,
         NEW names \in SUBSET Names, NEW ok \in BOOLEAN, Subscribe(r, url, names, ok)
  PROVE  VInv'
<1>1. PICK known \in BOOLEAN : known = (entries[url] # NoEntry)
  OBVIOUS
<1>2. PICK all : all = IF known THEN entry ELSE Append(entry, Created(url, names, ok))
  OBVIOUS
<1>3. PICK i : i = IF known THEN entries[url] ELSE Len(all)
  OBVIOUS
<1>4. PICK n : n = [all EXCEPT ![i] = Retained(all[i], r, names)]
  OBVIOUS
<1>5. PICK p : p = Joined(i, r)
  OBVIOUS
<1>6. PICK m : m = [entries EXCEPT ![url] = i]
  OBVIOUS
<1>7. /\ entries' = m
      /\ entry' = n
  BY <1>1, <1>2, <1>3, <1>4, <1>5, <1>6 DEF Subscribe
<1>8. /\ entry \in Seq(EntryType) /\ stack \in Seq(TurnType)
      /\ entries \in [Urls -> DOMAIN entry \cup {NoEntry}] /\ stack' \in Seq(TurnType)
  BY DEF IInv, Sound, Shapes
<1>9. Verdicts(all, m, stack) /\ i \in DOMAIN all
  <2>1. CASE known
    <3>1. all = entry /\ i = entries[url]
      BY <1>2, <1>3, <2>1
    <3>2. m = entries /\ i \in DOMAIN entry
      BY <1>1, <1>6, <1>8, <2>1, <3>1
    <3>3. QED
      BY <3>1, <3>2 DEF VInv
  <2>2. CASE ~known
    <3>1. PICK c : c = Created(url, names, ok)
      OBVIOUS
    <3>2. c.link = LinkAt(c.track, Now) /\ c.deadline = DeadlineIn(c.track)
      BY <3>1 DEF Created
    <3>3. all = Append(entry, c) /\ i = Len(all)
      BY <1>2, <1>3, <2>2, <3>1
    <3>4. /\ i = Len(entry) + 1 /\ i \in DOMAIN all /\ all[i] = c /\ i \notin DOMAIN entry
          /\ \A j \in DOMAIN all : j = i \/ (j \in DOMAIN entry /\ all[j] = entry[j])
      BY <1>8, <3>3
    <3>5. ASSUME NEW j \in DOMAIN all, m[all[j].url] = j PROVE Verdict(all[j], stack, j)
      <4>1. CASE j = i
        <5>1. all[j].link = LinkAt(all[j].track, Now) /\ all[j].deadline = DeadlineIn(all[j].track)
          BY <3>2, <3>4, <4>1
        <5>2. QED
          BY <5>1 DEF Verdict
      <4>2. CASE j # i
        <5>1. j \in DOMAIN entry /\ all[j] = entry[j]
          BY <3>4, <4>2
        <5>2. entry[j] \in EntryType
          BY <1>8, <5>1, Entries
        <5>3. entry[j].url \in Urls
          BY <5>2 DEF EntryType
        <5>4. entries[entry[j].url] = j
          BY <1>6, <1>8, <3>5, <4>2, <5>1, <5>3
        <5>5. QED
          BY <5>1, <5>4 DEF VInv, Verdicts
      <4>3. QED
        BY <4>1, <4>2
    <3>6. QED
      BY <3>4, <3>5 DEF Verdicts
  <2>3. QED
    BY <2>1, <2>2
<1>10. all[i] \in EntryType
  <2>1. CASE known
    BY <1>2, <1>8, <1>9, <2>1, Entries
  <2>2. CASE ~known
    <3>1. PICK c : c = Created(url, names, ok)
      OBVIOUS
    <3>2. c \in EntryType
      BY <3>1, CreatedFacts DEF Fresh
    <3>3. all = Append(entry, c) /\ i = Len(all)
      BY <1>2, <1>3, <2>2, <3>1
    <3>4. QED
      BY <1>8, <3>2, <3>3
  <2>3. QED
    BY <2>1, <2>2
<1>11. PICK t : t.phase \in Replay /\ stack' = <<t>> \o p
  <2>1. PICK after : after = IF all[i].status = "retrying" THEN "nudge" ELSE "none"
    OBVIOUS
  <2>2. PICK t : t = [Turn(i, "replay", all[i].link, {r}, after) EXCEPT !.inside = TRUE]
    OBVIOUS
  <2>3. t.phase \in Replay
    BY <2>2 DEF Turn, Replay
  <2>4. stack' = <<t>> \o p
    BY <1>1, <1>2, <1>3, <1>5, <2>1, <2>2 DEF Subscribe
  <2>5. QED
    BY <2>3, <2>4
<1>12. PICK q : q = <<t>> \o p
  OBVIOUS
<1>13. \A j \in DOMAIN all : AsTold(n[j], all[j]) /\ AsBusy(stack, q, j)
  <2>1. ASSUME NEW j PROVE AsBusy(stack, q, j)
    <3>1. TurnsWith(p, stack, i, r)
      BY <1>5, <1>8, JoinedTurns
    <3>2. p \in Seq(TurnType)
      BY <3>1 DEF TurnsWith
    <3>3. AsBusy(stack, p, j)
      BY <3>1, JoinedBusy
    <3>4. q \in Seq(TurnType)
      BY <1>8, <1>11, <1>12
    <3>5. AsBusy(p, q, j)
      BY <1>11, <1>12, <3>2, <3>4, ReplayBusy
    <3>6. QED
      BY <3>3, <3>5 DEF AsBusy
  <2>2. PICK x : x = Retained(all[i], r, names)
    OBVIOUS
  <2>3. AsTold(x, all[i])
    BY <1>10, <2>2 DEF Retained, AsTold, EntryType
  <2>4. n = [all EXCEPT ![i] = x]
    BY <1>4, <2>2
  <2>5. \A j \in DOMAIN all : AsTold(n[j], all[j])
    BY <1>9, <2>3, <2>4 DEF AsTold
  <2>6. QED
    BY <2>1, <2>5
<1>14. Verdicts(n, m, q)
  BY <1>4, <1>9, <1>13, AllStay
<1>15. QED
  BY <1>7, <1>11, <1>12, <1>14 DEF VInv

LEMMA DisposeVerdicts ==
  ASSUME IInv, IInv', VInv, Dispose
  PROVE  VInv'
<1>1. PICK n : n = entry'
  OBVIOUS
<1>2. PICK m : m = entries'
  OBVIOUS
<1>3. m = [u \in Urls |-> NoEntry] /\ n \in Seq(EntryType)
  BY <1>1, <1>2 DEF Dispose, IInv, Sound, Shapes
<1>4. ASSUME NEW j \in DOMAIN n PROVE m[n[j].url] # j
  <2>1. n[j] \in EntryType
    BY <1>3, Entries
  <2>2. n[j].url \in Urls
    BY <2>1 DEF EntryType
  <2>3. j # NoEntry
    BY <1>3 DEF NoEntry
  <2>4. QED
    BY <1>3, <2>2, <2>3
<1>5. \A s : Verdicts(n, m, s)
  BY <1>4 DEF Verdicts
<1>6. QED
  BY <1>1, <1>2, <1>5 DEF VInv

LEMMA LingerVerdicts ==
  ASSUME IInv, VInv, NEW i \in Ids, LingerFires(i)
  PROVE  VInv'
<1>1. /\ entry \in Seq(EntryType) /\ i \in DOMAIN entry /\ stack' = stack
      /\ entries \in [Urls -> DOMAIN entry \cup {NoEntry}]
  BY DEF IInv, Sound, Shapes, Ids, LingerFires
<1>2. entry[i] \in EntryType
  BY <1>1, Entries
<1>3. PICK y : y = [entry[i] EXCEPT !.linger = FALSE]
  OBVIOUS
<1>4. AsTold(y, entry[i]) /\ y.subs = entry[i].subs
  BY <1>2, <1>3 DEF AsTold, EntryType
<1>5. CASE y.subs = {} /\ Mapped(i)
  <2>1. PICK n : n = entry'
    OBVIOUS
  <2>2. PICK m : m = entries'
    OBVIOUS
  <2>3. /\ n = [entry EXCEPT ![i] = Shut(y)] /\ m = [entries EXCEPT ![y.url] = NoEntry]
    BY <1>3, <1>5, <2>1, <2>2 DEF LingerFires
  <2>4. OnlyEntry(n, entry, i)
    BY <2>3 DEF OnlyEntry
  <2>5. \A j \in DOMAIN entry : entry[j].url \in Urls /\ j # NoEntry
    <3>1. ASSUME NEW j \in DOMAIN entry PROVE entry[j].url \in Urls /\ j # NoEntry
      <4>1. entry[j] \in EntryType
        BY <1>1, Entries
      <4>2. QED
        BY <1>1, <4>1 DEF EntryType, NoEntry
    <3>2. QED
      BY <3>1
  <2>6. Verdicts(entry, m, stack)
    <3>1. ASSUME NEW j \in DOMAIN entry, m[entry[j].url] = j PROVE entries[entry[j].url] = j
      BY <1>1, <2>3, <2>5, <3>1
    <3>2. QED
      BY <3>1 DEF VInv, Verdicts
  <2>7. m[n[i].url] # i
    <3>1. n[i].url = entry[i].url /\ y.url = entry[i].url
      <4>1. PICK x : x = Shut(y)
        OBVIOUS
      <4>2. x.url = entry[i].url
        BY <1>2, <1>3, <4>1 DEF Shut, EntryType
      <4>3. n[i] = x
        BY <1>1, <2>3, <4>1
      <4>4. QED
        BY <1>4, <4>2, <4>3 DEF AsTold
    <3>2. QED
      BY <1>1, <2>3, <2>5, <3>1
  <2>8. \A j \in DOMAIN entry : AsBusy(stack, stack, j)
    BY DEF AsBusy
  <2>9. Verdicts(n, m, stack)
    BY <2>4, <2>6, <2>7, <2>8, OthersStay
  <2>10. QED
    BY <1>1, <2>1, <2>2, <2>9 DEF VInv
<1>6. CASE ~(y.subs = {} /\ Mapped(i))
  <2>1. entry' = [entry EXCEPT ![i] = y] /\ entries' = entries
    BY <1>3, <1>6 DEF LingerFires
  <2>2. \A j \in DOMAIN entry : AsTold(entry'[j], entry[j])
    BY <1>1, <1>4, <2>1 DEF AsTold
  <2>3. QED
    BY <1>1, <2>1, <2>2, QuietVerdicts
<1>7. QED
  BY <1>5, <1>6

\* A status turn or a judgement begins, from between turns.
LEMMA BeginVerdicts ==
  ASSUME IInv, IInv', VInv, NEW i, OnlyEntry(entry', entry, i), entries' = entries,
         NEW t, t.entry = i, t.phase \in {"status", "reconnect", "judge"},
         stack' = <<t>> \o stack
  PROVE  VInv'
<1>1. PICK n : n = entry'
  OBVIOUS
<1>2. stack \in Seq(TurnType) /\ <<t>> \o stack \in Seq(TurnType)
  BY DEF IInv, Sound, Shapes
<1>3. Verdicts(n, entries, <<t>> \o stack)
  BY <1>1, <1>2, ReportDecides DEF VInv
<1>4. QED
  BY <1>1, <1>3 DEF VInv

LEMMA DeadlineVerdicts ==
  ASSUME IInv, IInv', VInv, NEW i \in Ids, DeadlineFires(i)
  PROVE  VInv'
<1>1. PICK t : t = Turn(i, "judge", "none", {}, "none")
  OBVIOUS
<1>2. t.entry = i /\ t.phase = "judge"
  BY <1>1 DEF Turn
<1>3. stack' = <<t>> /\ stack = << >> /\ entries' = entries
  BY <1>1 DEF DeadlineFires
<1>4. stack' = <<t>> \o stack
  BY <1>3
<1>5. OnlyEntry(entry', entry, i)
  BY DEF DeadlineFires, OnlyEntry
<1>6. QED
  BY <1>2, <1>3, <1>4, <1>5, BeginVerdicts

LEMMA ReportVerdicts ==
  ASSUME IInv, IInv', VInv, NEW i \in Ids, NEW status, NEW after, Report(i, status, after)
  PROVE  VInv'
<1>1. PICK t : t = StatusTurn(entry', i, after)
  OBVIOUS
<1>2. t.entry = i /\ t.phase = "status"
  BY <1>1 DEF StatusTurn, Turn
<1>3. stack' = <<t>> \o stack /\ entries' = entries /\ OnlyEntry(entry', entry, i)
  BY <1>1 DEF Report, Reported, OnlyEntry
<1>4. QED
  BY <1>2, <1>3, BeginVerdicts

LEMMA FailsVerdicts ==
  ASSUME IInv, IInv', VInv, NEW i \in Ids, NEW after, Fails(i, after)
  PROVE  VInv'
<1>1. CASE entry[i].status # "retrying"
  BY <1>1, ReportVerdicts DEF Fails
<1>2. CASE entry[i].status = "retrying"
  <2>1. entry' = [entry EXCEPT ![i].revive = TRUE] /\ entries' = entries /\ stack' = stack
    BY <1>2 DEF Fails
  <2>2. entry[i] \in EntryType
    BY Entries DEF IInv, Sound, Shapes, Ids
  <2>3. \A j \in DOMAIN entry : AsTold(entry'[j], entry[j])
    BY <2>1, <2>2 DEF AsTold, EntryType, Ids
  <2>4. QED
    BY <2>1, <2>3, QuietVerdicts
<1>3. QED
  BY <1>1, <1>2

LEMMA RevivesVerdicts ==
  ASSUME IInv, IInv', VInv, NEW i \in Ids, Revives(i)
  PROVE  VInv'
<1>1. PICK t : t = StatusTurn(entry', i, "none")
  OBVIOUS
<1>2. t.entry = i /\ t.phase = "status"
  BY <1>1 DEF StatusTurn, Turn
<1>3. stack' = <<t>> /\ stack = << >> /\ entries' = entries /\ OnlyEntry(entry', entry, i)
  BY <1>1 DEF Revives, Runs, Reported, OnlyEntry
<1>4. stack' = <<t>> \o stack
  BY <1>3
<1>5. QED
  BY <1>2, <1>3, <1>4, BeginVerdicts

\* An instant later, the track's clock running on to the end of the offline
\* window: the deadline that was armed is nearer, or due.
LEMMA TickedVerdict ==
  ASSUME GraceMs <= OfflineMs, NEW track \in LinkTrack,
         NEW link, link = LinkAt(track, Now), NEW deadline, deadline = DeadlineIn(track),
         NEW later, later = [track EXCEPT !.since = IF @ = -OfflineMs THEN @ ELSE @ - 1]
  PROVE  \/ link = LinkAt(later, Now) /\ Less(deadline) = DeadlineIn(later)
         \/ Less(deadline) = 0
<1>1. /\ track.since \in Int /\ later.status = track.status /\ later.everLive = track.everLive
      /\ later.since = IF track.since = -OfflineMs THEN track.since ELSE track.since - 1
  BY DEF LinkTrack
<1>2. GraceMs \in Nat /\ OfflineMs \in Nat
  BY LinkAssumption
<1>3. CASE track.status = "live"
  <2>1. NextDeadline(track, Now) = {} /\ NextDeadline(later, Now) = {}
    BY <1>1, <1>3 DEF NextDeadline
  <2>2. link = "live" /\ LinkAt(later, Now) = "live"
    BY <1>1, <1>3 DEF LinkAt
  <2>3. QED
    BY <2>1, <2>2 DEF DeadlineIn, Less
<1>4. CASE track.status # "live" /\ track.since = -OfflineMs
  <2>1. later.since = track.since
    BY <1>1, <1>4
  <2>2. /\ track.since + GraceMs <= 0 /\ track.since + OfflineMs = 0
        /\ 0 - track.since >= OfflineMs
    BY <1>2, <1>4
  <2>3. NextDeadline(track, Now) = {} /\ NextDeadline(later, Now) = {}
    BY <1>1, <1>2, <1>4, <2>1, <2>2 DEF NextDeadline, Now
  <2>4. link = "offline" /\ LinkAt(later, Now) = "offline"
    BY <1>1, <1>4, <2>1, <2>2 DEF LinkAt, Now
  <2>5. QED
    BY <2>3, <2>4 DEF DeadlineIn, Less
<1>5. CASE track.status # "live" /\ track.since # -OfflineMs
  <2>1. later.since = track.since - 1
    BY <1>1, <1>5
  <2>2. CASE track.since + GraceMs > 0
    <3>1. NextDeadline(track, Now) = {track.since + GraceMs}
      BY <1>5, <2>2 DEF NextDeadline, Now
    <3>2. deadline = track.since + GraceMs
      BY <3>1 DEF DeadlineIn
    <3>3. CASE deadline = 1
      BY <3>3 DEF Less, Off
    <3>4. CASE deadline # 1
      <4>1. later.since + GraceMs > 0 /\ later.since + GraceMs = deadline - 1
        BY <1>1, <1>2, <2>1, <2>2, <3>2, <3>4
      <4>2. NextDeadline(later, Now) = {deadline - 1}
        BY <1>1, <1>5, <4>1 DEF NextDeadline, Now
      <4>3. DeadlineIn(later) = deadline - 1 /\ Less(deadline) = deadline - 1
        <5>1. DeadlineIn(later) = deadline - 1
          BY <4>2 DEF DeadlineIn
        <5>2. deadline # -1 /\ deadline # 0
          BY <1>1, <1>2, <2>2, <3>2
        <5>3. QED
          BY <5>1, <5>2 DEF Less, Off
      <4>4. LinkAt(later, Now) = link
        BY <1>1, <1>2, <1>5, <2>1, <2>2, <3>2, <4>1 DEF LinkAt, Now
      <4>5. QED
        BY <4>3, <4>4
    <3>5. QED
      BY <3>3, <3>4
  <2>3. CASE track.since + GraceMs <= 0 /\ track.since + OfflineMs > 0
    <3>1. NextDeadline(track, Now) = {track.since + OfflineMs}
      BY <1>1, <1>2, <1>5, <2>3 DEF NextDeadline, Now
    <3>2. deadline = track.since + OfflineMs
      BY <3>1 DEF DeadlineIn
    <3>3. CASE deadline = 1
      BY <3>3 DEF Less, Off
    <3>4. CASE deadline # 1
      <4>1. /\ later.since + OfflineMs > 0 /\ later.since + OfflineMs = deadline - 1
            /\ ~(later.since + GraceMs > 0)
        BY <1>1, <1>2, <2>1, <2>3, <3>2, <3>4
      <4>2. NextDeadline(later, Now) = {deadline - 1}
        BY <1>1, <1>5, <4>1 DEF NextDeadline, Now
      <4>3. DeadlineIn(later) = deadline - 1 /\ Less(deadline) = deadline - 1
        <5>1. DeadlineIn(later) = deadline - 1
          BY <4>2 DEF DeadlineIn
        <5>2. deadline # -1 /\ deadline # 0
          BY <1>1, <1>2, <2>3, <3>2
        <5>3. QED
          BY <5>1, <5>2 DEF Less, Off
      <4>4. LinkAt(later, Now) = link
        BY <1>1, <1>2, <1>5, <2>1, <2>3, <3>2, <4>1 DEF LinkAt, Now
      <4>5. QED
        BY <4>3, <4>4
    <3>5. QED
      BY <3>3, <3>4
  <2>4. CASE track.since + OfflineMs <= 0
    <3>1. track.since + GraceMs <= 0 /\ later.since + GraceMs <= 0 /\ later.since + OfflineMs <= 0
      BY <1>1, <1>2, <2>1, <2>4
    <3>2. NextDeadline(track, Now) = {} /\ NextDeadline(later, Now) = {}
      BY <1>1, <1>2, <1>5, <2>1, <2>4, <3>1 DEF NextDeadline, Now
    <3>3. link = "offline" /\ LinkAt(later, Now) = "offline"
      BY <1>1, <1>2, <1>5, <2>1, <2>4, <3>1 DEF LinkAt, Now
    <3>4. QED
      BY <3>2, <3>3 DEF DeadlineIn, Less
  <2>5. QED
    BY <1>1, <1>2, <2>2, <2>3, <2>4
<1>6. QED
  BY <1>3, <1>4, <1>5

LEMMA TickVerdicts ==
  ASSUME GraceMs <= OfflineMs, IInv, VInv, Tick
  PROVE  VInv'
<1>1. PICK n : n = entry'
  OBVIOUS
<1>2. stack = << >> /\ stack' = << >> /\ entries' = entries /\ entry \in Seq(EntryType)
  BY DEF Tick, IInv, Sound, Shapes
<1>3. DOMAIN n = DOMAIN entry
  BY <1>1 DEF Tick, Ids
<1>4. ASSUME NEW j \in DOMAIN entry, entries[n[j].url] = j PROVE Verdict(n[j], << >>, j)
  <2>1. PICK c : c = entry[j]
    OBVIOUS
  <2>2. c \in EntryType /\ c.track \in LinkTrack
    <3>1. c \in EntryType
      BY <1>2, <2>1, Entries
    <3>2. QED
      BY <3>1 DEF EntryType
  <2>3. PICK later : later = [c.track EXCEPT !.since = IF @ = -OfflineMs THEN @ ELSE @ - 1]
    OBVIOUS
  <2>4. PICK strays : strays = {Less(t) : t \in c.strays}
    OBVIOUS
  <2>5. PICK x : x = [c EXCEPT !.track = later, !.deadline = Less(c.deadline), !.strays = strays]
    OBVIOUS
  <2>6. n[j] = x
    BY <1>1, <1>4, <2>1, <2>3, <2>4, <2>5 DEF Tick, Ids
  <2>7. x.url = c.url /\ x.link = c.link /\ x.track = later /\ x.deadline = Less(c.deadline)
    BY <2>2, <2>5 DEF EntryType
  <2>8. Verdict(c, << >>, j)
    BY <1>2, <1>4, <2>1, <2>6, <2>7 DEF VInv, Verdicts
  <2>9. ~Deciding(<< >>, j) /\ ~Busy(<< >>, j)
    BY <1>2, EmptyStack
  <2>10. CASE c.deadline = 0
    <3>1. x.deadline = 0
      BY <2>7, <2>10 DEF Less
    <3>2. QED
      BY <2>6, <2>9, <3>1 DEF Verdict
  <2>11. CASE c.link = LinkAt(c.track, Now) /\ c.deadline = DeadlineIn(c.track)
    <3>1. \/ c.link = LinkAt(later, Now) /\ Less(c.deadline) = DeadlineIn(later)
          \/ Less(c.deadline) = 0
      BY <2>2, <2>3, <2>11, TickedVerdict
    <3>2. QED
      BY <2>6, <2>7, <2>9, <3>1 DEF Verdict
  <2>12. QED
    BY <2>8, <2>9, <2>10, <2>11 DEF Verdict
<1>5. Verdicts(n, entries, << >>)
  BY <1>3, <1>4 DEF Verdicts
<1>6. QED
  BY <1>1, <1>2, <1>5 DEF VInv

LEMMA NextVerdicts ==
  ASSUME GraceMs <= OfflineMs, IInv, IInv', VInv, [Next]_vars
  PROVE  VInv'
<1>1. CASE \E r \in Regs : Call(r) \/ Unsubscribe(r)
  BY <1>1, CallVerdicts, UnsubscribeVerdicts
<1>2. CASE \E r \in Regs, u \in Urls, names \in Wanted, ok \in Constructs :
             Subscribe(r, u, names, ok)
  <2>1. PICK r \in Regs, u \in Urls, names \in Wanted, ok \in Constructs :
          Subscribe(r, u, names, ok)
    BY <1>2
  <2>2. names \in SUBSET Names /\ ok \in BOOLEAN
    BY NamesAssumption DEF Constructs
  <2>3. QED
    BY <2>1, <2>2, SubscribeVerdicts
<1>3. CASE \E u \in Urls, ok \in Constructs : Nudge(u, ok)
  BY <1>3, NudgeVerdicts
<1>4. CASE Dispose
  BY <1>4, DisposeVerdicts
<1>5. CASE Proceeds
  BY <1>5, EdgeVerdicts, GoesOnVerdicts, JudgeVerdicts, ArmVerdicts, ReplayVerdicts
     DEF Proceeds
<1>6. CASE Tick
  BY <1>6, TickVerdicts
<1>7. CASE \E i \in Ids : \/ LingerFires(i) \/ DeadlineFires(i) \/ Opens(i) \/ Revives(i)
                          \/ \E after \in {"none", "revive", "open"} : Fails(i, after)
  BY <1>7, LingerVerdicts, DeadlineVerdicts, ReportVerdicts, RevivesVerdicts, FailsVerdicts
     DEF Opens
<1>8. CASE \E ok \in Constructs : Wake(ok)
  BY <1>8, WakeVerdicts
<1>9. CASE UNCHANGED vars
  BY <1>9 DEF vars, VInv
<1>10. QED
  BY <1>1, <1>2, <1>3, <1>4, <1>5, <1>6, <1>7, <1>8, <1>9 DEF Next

\* Between turns the verdict in force is the one that the track gives now, or the
\* timer that will say so is due: for any two windows, the grace no longer than
\* the offline window (the code accepts any two), and however judgements from
\* inside handlers overwrite each other's deadlines (registry.ts:186-200).
THEOREM NoVerdictIsStale == GraceMs <= OfflineMs => (Spec => []VerdictIsCurrent)
<1> SUFFICES ASSUME GraceMs <= OfflineMs PROVE Spec => []VerdictIsCurrent
  OBVIOUS
<1>1. Init => VInv
  <2>1. Init => DOMAIN entry = {}
    BY DEF Init
  <2>2. QED
    BY <2>1 DEF VInv, Verdicts
<1>2. IInv /\ IInv' /\ VInv /\ [Next]_vars => VInv'
  BY NextVerdicts
<1>3. ASSUME VInv PROVE VerdictIsCurrent
  BY <1>3, EmptyStack DEF VInv, Verdicts, Verdict, VerdictIsCurrent, Ids, Mapped
<1>4. QED
  BY <1>1, <1>2, <1>3, RegistryInvariant, PTL DEF Spec
=============================================================================
