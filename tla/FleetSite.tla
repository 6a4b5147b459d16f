----------------------------- MODULE FleetSite -----------------------------
(***************************************************************************)
(* The fleet registry at work: the Pis that move between ports, restart    *)
(* and die, the MQTT broker with its stored copies and its wills, and the  *)
(* consumer process (fleet/consumer.py, fleet/management/commands/         *)
(* fleet_consumer.py) that applies one message after the other to          *)
(* FleetRegistry's tables, stops, and is started again by systemd.         *)
(*                                                                         *)
(* The Pi's agent and the broker are not in the repository.  They are      *)
(* modelled from what the consumer says of them: registration, status and  *)
(* will are stored (retained), events are not; a subscriber is handed the  *)
(* stored copies, marked; what comes while nobody subscribes is gone; the  *)
(* will of a Pi that lost its power comes when the broker notices.         *)
(***************************************************************************)
EXTENDS FleetRegistry

CONSTANTS
    MaxBoots,     \* bound: boots of each Pi
    MaxChecks,    \* bound: FPGA checks of each Pi
    MaxRestarts,  \* bound: times the consumer stops
    MaxQueue      \* bound: live messages on their way

Will == [online |-> FALSE, boot_id |-> Absent, uptime |-> Absent]

ASSUME SiteAssumption ==
    /\ IsFiniteSet(Serials)
    /\ MaxBoots \in Nat
    /\ NoBoot = 0
    /\ Boots = 1 .. MaxBoots
    /\ [serial : Serials, hostname : Hosts, content : {"a"}] \subseteq Docs
    /\ [online : {TRUE}, boot_id : Boots, uptime : 0 .. MaxTime] \cup {Will} \subseteq Statuses
    /\ [boot : Boots, stage : {"fpga-verifying"}, result : {Absent}] \subseteq Checks
    /\ [boot : Boots, stage : {"fpga-verified"}, result : Results] \subseteq Checks

VARIABLES
    pis,       \* each Pi: [on, host, boot, began, announced, check, checks]
    stored,    \* the broker's stored copies: [doc, status], Absent where there is none
    wills,     \* the Pis whose broken connection the broker has not noticed yet
    queue,     \* the messages on their way to the consumer, in order
    up,        \* whether the consumer is connected and subscribed
    restarts,  \* times it stopped
    passed     \* history: the <<serial, boot>> whose check passed

siteVars == <<pis, stored, wills, queue, up, restarts, passed>>
allVars == <<vars, siteVars>>

SiteInit ==
    /\ Init
    /\ pis = [s \in Serials |-> [on |-> FALSE, host |-> NoHost, boot |-> NoBoot, began |-> 0,
                                 announced |-> FALSE, check |-> "", checks |-> 0]]
    /\ stored = [s \in Serials |-> [doc |-> Absent, status |-> Absent]]
    /\ wills = {}
    /\ queue = << >>
    /\ up = TRUE
    /\ restarts = 0
    /\ passed = {}

----------------------------------------------------------------------------
(* The Pis and the broker *)

Message(kind, s, body, retained) == [kind |-> kind, serial |-> s, body |-> body, retained |-> retained]

(* The broker forwards a live message to the consumer, or to nobody. *)
Forward(kind, s, body) ==
    /\ Len(queue) < MaxQueue
    /\ queue' = IF up THEN Append(queue, Message(kind, s, body, FALSE)) ELSE queue

PowerOn(s, h) ==
    /\ ~pis[s].on /\ pis[s].boot < MaxBoots
    /\ \A t \in Serials : pis[t].on => pis[t].host # h
    /\ pis' = [pis EXCEPT ![s] = [pis[s] EXCEPT !.on = TRUE, !.host = h, !.boot = @ + 1,
                                                !.began = now, !.announced = FALSE, !.check = ""]]
    /\ UNCHANGED <<vars, stored, wills, queue, up, restarts, passed>>

DocOf(s) == [serial |-> s, hostname |-> pis[s].host, content |-> "a"]

Announce(s) ==
    /\ pis[s].on /\ ~pis[s].announced
    /\ pis' = [pis EXCEPT ![s].announced = TRUE]
    /\ stored' = [stored EXCEPT ![s].doc = DocOf(s)]
    /\ Forward("registration", s, DocOf(s))
    /\ UNCHANGED <<vars, wills, up, restarts, passed>>

BeatOf(s) == [online |-> TRUE, boot_id |-> pis[s].boot, uptime |-> now - pis[s].began]

Beat(s) ==
    /\ pis[s].on /\ pis[s].announced
    /\ stored' = [stored EXCEPT ![s].status = BeatOf(s)]
    /\ Forward("status", s, BeatOf(s))
    /\ UNCHANGED <<vars, pis, wills, up, restarts, passed>>

Event(stage, s, result) == [boot |-> pis[s].boot, stage |-> stage, result |-> result]

CheckStarts(s) ==
    /\ pis[s].on /\ pis[s].check # "verifying" /\ pis[s].checks < MaxChecks
    /\ pis' = [pis EXCEPT ![s] = [pis[s] EXCEPT !.check = "verifying", !.checks = @ + 1]]
    /\ Forward("event", s, Event("fpga-verifying", s, Absent))
    /\ UNCHANGED <<vars, stored, wills, up, restarts, passed>>

CheckEnds(s, result) ==
    /\ pis[s].on /\ pis[s].check = "verifying"
    /\ pis' = [pis EXCEPT ![s].check = result]
    /\ passed' = IF result = "pass" THEN passed \cup {<<s, pis[s].boot>>} ELSE passed
    /\ Forward("event", s, Event("fpga-verified", s, result))
    /\ UNCHANGED <<vars, stored, wills, up, restarts>>

PowerLost(s) ==
    /\ pis[s].on
    /\ pis' = [pis EXCEPT ![s].on = FALSE]
    /\ wills' = wills \cup {s}
    /\ UNCHANGED <<vars, stored, queue, up, restarts, passed>>

WillComes(s) ==
    /\ s \in wills
    /\ wills' = wills \ {s}
    /\ stored' = [stored EXCEPT ![s].status = Will]
    /\ Forward("status", s, Will)
    /\ UNCHANGED <<vars, pis, up, restarts, passed>>

----------------------------------------------------------------------------
(* The consumer *)

(* Mutant: an event is stored for a machine nobody registered, too. *)
Dispatched_AnyEvent(m) ==
    \/ m.kind = "registration" /\ RegisterDocument(m.body, m.retained)
    \/ m.kind = "status" /\ Status(m.serial, m.body, m.retained)
    \/ /\ m.kind = "event"
       /\ events' = Append(events, [serial |-> m.serial, boot |-> m.body.boot, stage |-> m.body.stage,
                                    result |-> m.body.result])
       /\ UNCHANGED <<now, machines, snapshots, heard>>
    \/ m.kind = "status" /\ m.serial \notin Registered /\ UNCHANGED vars

(* dispatch: the handler of one message; one of a machine nobody registered is dropped. *)
Dispatched(m) ==
    \/ m.kind = "registration" /\ RegisterDocument(m.body, m.retained)
    \/ m.kind = "status" /\ Status(m.serial, m.body, m.retained)
    \/ m.kind = "event" /\ BootEvent(m.serial, m.body)
    \/ m.kind # "registration" /\ m.serial \notin Registered /\ UNCHANGED vars

Consume ==
    /\ up /\ queue # << >>
    /\ Dispatched(Head(queue))
    /\ queue' = Tail(queue)
    /\ UNCHANGED <<pis, stored, wills, up, restarts, passed>>

ConsumerStops ==
    /\ up /\ restarts < MaxRestarts
    /\ up' = FALSE
    /\ queue' = << >>
    /\ restarts' = restarts + 1
    /\ UNCHANGED <<vars, pis, stored, wills, passed>>

Copies ==
    {Message("registration", s, stored[s].doc, TRUE) : s \in {t \in Serials : stored[t].doc # Absent}}
      \cup
    {Message("status", s, stored[s].status, TRUE) : s \in {t \in Serials : stored[t].status # Absent}}

Orders(S) == {q \in [1 .. Cardinality(S) -> S] : \A i, j \in DOMAIN q : q[i] = q[j] => i = j}

(* on_connect: it subscribes, and is handed every stored copy, in some order. *)
ConsumerStarts ==
    /\ ~up
    /\ up' = TRUE
    /\ queue' \in Orders(Copies)
    /\ UNCHANGED <<vars, pis, stored, wills, restarts, passed>>

SiteNext ==
    \/ \E s \in Serials, h \in Hosts : PowerOn(s, h)
    \/ \E s \in Serials : Announce(s)
    \/ \E s \in Serials : Beat(s)
    \/ \E s \in Serials : CheckStarts(s)
    \/ \E s \in Serials, result \in Results : CheckEnds(s, result)
    \/ \E s \in Serials : PowerLost(s)
    \/ \E s \in Serials : WillComes(s)
    \/ Consume
    \/ ConsumerStops
    \/ ConsumerStarts
    \/ Tick /\ UNCHANGED siteVars

(* A Pi that is on announces itself and goes on beating; the broker notices a broken         *)
(* connection; the consumer goes on applying messages, and systemd starts it again           *)
(* (Restart=always, fleet_consumer.py).  Nothing has to fail, move or be checked.            *)
SiteFairness ==
    /\ \A s \in Serials : WF_allVars(Announce(s)) /\ WF_allVars(Beat(s)) /\ WF_allVars(WillComes(s))
    /\ WF_allVars(Consume)
    /\ WF_allVars(ConsumerStarts)

SiteSpec == SiteInit /\ [][SiteNext]_allVars /\ SiteFairness

----------------------------------------------------------------------------
(* Properties *)

(* The site at work only ever does to the tables what FleetRegistry allows: every message the *)
(* consumer applies, live or replayed, in whatever state it finds the tables, is one step of  *)
(* an ingest service or is dropped whole (dispatch).                                          *)
ImplementsRegistry == Spec

Quiet == up /\ queue = << >>

(* Whatever the consumer missed while it was down, once it has caught up the registry holds  *)
(* what each Pi said last: the port it is on, and the boot and the state of its last status  *)
(* (dispatch, the retained copies; on_connect subscribes anew after each start).  A machine  *)
(* whose stored status was replayed before its first registration keeps no boot until the    *)
(* next beat.                                                                                *)
CaughtUpWhenQuiet ==
    Quiet =>
        \A s \in Serials : stored[s].doc # Absent =>
            /\ s \in Registered
            /\ machines[s].hostname = stored[s].doc.hostname
            /\ (stored[s].status # Absent /\ machines[s].boot_id # NoBoot) =>
                  /\ machines[s].online = stored[s].status.online
                  /\ stored[s].status.boot_id \in {Absent, machines[s].boot_id}

(* No lost, late or replayed message offers a board that did not pass its check in the boot  *)
(* the registry has its Pi in (fpga_states: "an earlier boot's result says nothing").        *)
OfferedPassedItsBoot == \A s \in Offered : <<s, machines[s].boot_id>> \in passed

(* A Pi that stays on is, in the end and for good, in the registry on its port, online, in   *)
(* its boot: no missed message and no late will of an earlier boot leaves it out.            *)
EndsUpRegistered ==
    \A s \in Serials :
        <>[](pis[s].on) =>
            <>[](/\ s \in Registered
                 /\ machines[s].hostname = pis[s].host
                 /\ machines[s].boot_id = pis[s].boot
                 /\ machines[s].online)
=============================================================================
