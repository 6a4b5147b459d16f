----------------------------- MODULE LinkKeeper -----------------------------
(***************************************************************************)
(* The Link badge of one port on the switch port dashboard: the records    *)
(* pushed over ws/switches/ and the keeper that holds them against the     *)
(* page's own refresh (management/static/management/switch-events.js, the  *)
(* script of templates/management/switches.html).                          *)
(*                                                                         *)
(* The gateway's switch poller and the dashboard reader are not in the     *)
(* repository: the poller looks at the port now and then and publishes     *)
(* what changed since, or that the link bounced; a reading carries the     *)
(* time it STARTED, its ports are read later, and a switch that does not   *)
(* answer keeps its last ports and carries no time.                        *)
(***************************************************************************)
EXTENDS Integers, FiniteSets

CONSTANTS
    None,         \* no record, no reading under way
    MaxTime,      \* bound: the last moment
    MaxChanges,   \* bound: changes of the link or of the port's configuration
    MaxFlight,    \* bound: dashboard answers on their way to the page
    MaxWire       \* bound: records on their way to the page

ASSUME KeeperAssumption ==
    /\ MaxTime \in Nat /\ MaxChanges \in Nat /\ MaxFlight \in Nat /\ MaxWire \in Nat

Links == {"up", "down"}
Badges == Links \cup {"off"}
Moments == 0 .. MaxTime
NoTime == -1   \* read_from_ms of a switch that does not answer: -Infinity

Records == [link : Links \cup {"bounced"}, at : Moments]
Readings == [badge : Badges, from : Moments \cup {NoTime}, begun : Moments, ended : Moments]

VARIABLES
    now,      \* the gateway's clock
    port,     \* the port at the switch: [link, enabled, changes]
    poller,   \* the switch poller: [link: as it saw it last, flapped: it changed since]
    open,     \* whether the page's socket is open
    wire,     \* the records on their way to the page
    begun,    \* when the dashboard reading under way started, None when there is none
    cache,    \* the dashboard's last reading
    flight,   \* the dashboard answers on their way to the page
    reading,  \* the reading the table was last built from
    kept,     \* the keeper's record of the port, None where it has none
    drawn,    \* the badge as drawn
    applied,  \* history: the newest record drawn or kept so far, None before
    since     \* history: a record was drawn since the table was last built

vars == <<now, port, poller, open, wire, begun, cache, flight, reading, kept, drawn, applied, since>>
pageVars == <<reading, kept, drawn, applied, since>>

BadgeOf(p) == IF p.enabled THEN p.link ELSE "off"

Init ==
    /\ now = 0
    /\ port \in [link : Links, enabled : {TRUE}, changes : {0}]
    /\ poller = [link |-> port.link, flapped |-> FALSE]
    /\ open = FALSE
    /\ wire = {}
    /\ begun = None
    /\ cache = [badge |-> BadgeOf(port), from |-> 0, begun |-> 0, ended |-> 0]
    /\ flight = {}
    /\ reading = cache
    /\ kept = None
    /\ drawn = cache.badge
    /\ applied = None
    /\ since = FALSE

----------------------------------------------------------------------------
(* The switch, its poller and the dashboard reader *)

(* A disabled port has no link; an enabled one may have either. *)
Change ==
    /\ port.changes < MaxChanges
    /\ \E link \in Links, enabled \in BOOLEAN :
          /\ enabled \/ link = "down"
          /\ <<link, enabled>> # <<port.link, port.enabled>>
          /\ port' = [link |-> link, enabled |-> enabled, changes |-> port.changes + 1]
          /\ poller' = [poller EXCEPT !.flapped = @ \/ link # port.link]
    /\ UNCHANGED <<now, open, wire, begun, cache, flight, pageVars>>

(* The record goes to the open socket, or to nobody. *)
Poll ==
    /\ poller.flapped
    /\ Cardinality(wire) < MaxWire
    /\ poller' = [link |-> port.link, flapped |-> FALSE]
    /\ LET record == [link |-> IF port.link = poller.link THEN "bounced" ELSE port.link, at |-> now]
       IN  wire' = IF open THEN wire \cup {record} ELSE wire
    /\ UNCHANGED <<now, port, open, begun, cache, flight, pageVars>>

ReadBegins ==
    /\ begun = None
    /\ begun' = now
    /\ UNCHANGED <<now, port, poller, open, wire, cache, flight, pageVars>>

ReadEnds ==
    /\ begun # None
    /\ begun' = None
    /\ cache' = [badge |-> BadgeOf(port), from |-> begun, begun |-> begun, ended |-> now]
    /\ UNCHANGED <<now, port, poller, open, wire, flight, pageVars>>

ReadFails ==
    /\ begun # None
    /\ begun' = None
    /\ cache' = [cache EXCEPT !.from = NoTime]
    /\ UNCHANGED <<now, port, poller, open, wire, flight, pageVars>>

DashboardAnswers ==
    /\ Cardinality(flight) < MaxFlight
    /\ flight' = flight \cup {cache}
    /\ UNCHANGED <<now, port, poller, open, wire, begun, cache, pageVars>>

(* listen: what is on its way when the socket drops is lost; it connects again by itself. *)
SocketDrops ==
    /\ open
    /\ open' = FALSE
    /\ wire' = {}
    /\ UNCHANGED <<now, port, poller, begun, cache, flight, pageVars>>

SocketOpens ==
    /\ ~open
    /\ open' = TRUE
    /\ UNCHANGED <<now, port, poller, wire, begun, cache, flight, pageVars>>

Tick ==
    /\ now < MaxTime
    /\ now' = now + 1
    /\ UNCHANGED <<port, poller, open, wire, begun, cache, flight, pageVars>>

----------------------------------------------------------------------------
(* The page *)

(* applyRecord on a badge: a disabled port's stays, whatever a record says. *)
Over(badge, link) == IF badge = "off" THEN "off" ELSE link

(* Mutant: a record that bounced is applied too. *)
Applies_Bounced(record) == kept = None \/ record.at >= kept.at

(* apply: one that bounced is not drawn and not kept; one older than the record kept is ignored. *)
Applies(record) == record.link \in Links /\ (kept = None \/ record.at >= kept.at)

Pushed ==
    \E record \in wire :
        /\ wire' = wire \ {record}
        /\ IF Applies(record)
           THEN /\ drawn' = Over(drawn, record.link)
                /\ kept' = record
                /\ applied' = IF applied = None \/ record.at >= applied.at THEN record ELSE applied
                /\ since' = TRUE
           ELSE UNCHANGED <<drawn, kept, applied, since>>
        /\ UNCHANGED <<now, port, poller, open, begun, cache, flight, reading>>

(* Mutant: the time the reading ended counts (good_at, round 5b). *)
CaughtUp_GoodAt(record, r) == r.from # NoTime /\ r.ended >= record.at

(* Mutant: a reading begun in the moment of the change counts as older. *)
CaughtUp_Strictly(record, r) == r.from > record.at

(* Mutant: a record is kept until a reading agrees with it. *)
CaughtUp_Agrees(record, r) == r.badge = record.link

(* !(seen < at): a reading begun at or after the change. *)
CaughtUp(record, r) == r.from >= record.at

(* tick's fetch is answered: update rebuilds the row, then reapply draws the kept record again *)
(* or forgets it.                                                                             *)
Refreshed ==
    \E r \in flight :
        /\ flight' = flight \ {r}
        /\ reading' = r
        /\ IF kept # None /\ ~CaughtUp(kept, r)
           THEN /\ drawn' = Over(r.badge, kept.link)
                /\ kept' = kept
           ELSE /\ drawn' = r.badge
                /\ kept' = None
        /\ since' = FALSE
        /\ UNCHANGED <<now, port, poller, open, wire, begun, cache, applied>>

Next ==
    \/ Change \/ Poll \/ ReadBegins \/ ReadEnds \/ ReadFails \/ DashboardAnswers
    \/ SocketDrops \/ SocketOpens \/ Tick
    \/ Pushed \/ Refreshed

(* Time passes; the page's interval goes on fetching and its fetches are answered (setInterval);  *)
(* the reader goes on reading; a record that is on its way arrives or is lost with its socket.    *)
(* Nothing makes the socket open, the poller poll or the switch answer.                           *)
Fairness ==
    /\ WF_vars(Tick)
    /\ WF_vars(DashboardAnswers) /\ WF_vars(Refreshed)
    /\ WF_vars(ReadBegins) /\ WF_vars(ReadEnds)
    /\ WF_vars(Pushed)

Spec == Init /\ [][Next]_vars /\ Fairness

----------------------------------------------------------------------------
(* Properties *)

(* Type correctness, and: the keeper keeps only a record it could draw. *)
TypeOK ==
    /\ now \in Moments
    /\ port \in [link : Links, enabled : BOOLEAN, changes : 0 .. MaxChanges]
    /\ poller \in [link : Links, flapped : BOOLEAN]
    /\ open \in BOOLEAN /\ since \in BOOLEAN
    /\ wire \subseteq Records
    /\ begun \in Moments \cup {None}
    /\ cache \in Readings /\ reading \in Readings /\ flight \subseteq Readings
    /\ kept \in [link : Links, at : Moments] \cup {None}
    /\ applied \in [link : Links, at : Moments] \cup {None}
    /\ drawn \in Badges

(* A refresh never undoes a pushed change with ports read from before it: while the table's   *)
(* reading began before the newest record applied, the badge shows that record (or off, for  *)
(* a port disabled in the reading).  The keeper's comment says it of every refresh:           *)
(* "Remembers the records it applied, so the refresh cannot undo them with a reading older    *)
(* than the change."                                                                          *)
NotUndone ==
    (applied # None /\ reading.begun < applied.at) => drawn \in {applied.link, "off"}

(* A reading begun at or after every record applied is believed, until another record comes   *)
(* (reapply).                                                                                 *)
ReadingBelieved ==
    (~since /\ (applied = None \/ reading.from >= applied.at)) => drawn = reading.badge

(* Whatever was lost or late before, a port that stays as it is, at a switch that answers, is *)
(* in the end drawn as it is.                                                                  *)
EndsUpDrawn ==
    (<>[][FALSE]_port /\ <>[](cache.from # NoTime)) => <>[](drawn = BadgeOf(port))
=============================================================================
