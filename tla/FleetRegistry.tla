--------------------------- MODULE FleetRegistry ---------------------------
(***************************************************************************)
(* The fleet registry: the tables the site keeps about its Pis (fleet/     *)
(* models.py), the three ingest services that write them when an MQTT      *)
(* message arrives, and the queries the pages ask (fleet/services.py,      *)
(* management/fpga.py).                                                    *)
(*                                                                         *)
(* A message is applied whole, one at a time: the consumer is one process  *)
(* with one MQTT client.  Which messages come, in which order, with which  *)
(* retain flag, is open: the broker takes anything on the site's LAN.      *)
(* FleetSite composes this module with the Pis and the broker.             *)
(***************************************************************************)
EXTENDS Integers, Sequences, FiniteSets

CONSTANTS
    Serials,          \* the machines' serial numbers; naturals, for their order
    Hosts,            \* short hostnames that name a port
    SetupHosts,       \* those of them that name the setup port
    NoHost,           \* the empty hostname
    Docs,             \* registration documents: [serial, hostname, content]
    Boots,            \* boot ids
    NoBoot,           \* the empty boot id
    Results,          \* what a finished check can report ("pass", "fail", "unknown", ...)
    Statuses,         \* status payloads: [online, boot_id, uptime]
    Checks,           \* boot event payloads of an FPGA_STAGES stage: [boot, stage, result]
    Absent,           \* a key the payload does not carry, a field that is null
    CheckedInWithin,  \* CHECKED_IN_WITHIN
    MissingAfter,     \* MISSING_AFTER
    MaxTime,          \* bound: the last moment of a behaviour
    MaxEvents         \* bound: boot events stored

ASSUME RegistryAssumption ==
    /\ Serials \subseteq Nat
    /\ SetupHosts \subseteq Hosts
    /\ NoHost \notin Hosts
    /\ NoBoot \notin Boots
    /\ Absent \notin Boots \cup {NoBoot}
    /\ Docs \subseteq [serial : Serials, hostname : Hosts \cup {NoHost}, content : {"a", "b"}]
    /\ Statuses \subseteq [online : BOOLEAN,
                           boot_id : Boots \cup {NoBoot, Absent},
                           uptime : Nat \cup {Absent}]
    /\ Checks \subseteq [boot : Boots \cup {NoBoot},
                         stage : {"fpga-verifying", "fpga-verified"},
                         result : Results \cup {Absent}]
    /\ CheckedInWithin \in Nat
    /\ MissingAfter \in Nat
    /\ CheckedInWithin <= MissingAfter
    /\ MaxTime \in Nat

VARIABLES
    now,        \* timezone.now()
    machines,   \* table Machine: serial -> row, for the registered serials
    snapshots,  \* table HardwareSnapshot: document -> last_confirmed
    events,     \* table BootEvent, FPGA_STAGES only, in order of id
    heard       \* history: when a live message of each serial last arrived

vars == <<now, machines, snapshots, events, heard>>

Never == -(CheckedInWithin + 1)   \* a moment before every window that ends at 0

Moments == Never .. MaxTime

Rows == [hostname  : Hosts \cup {NoHost},
         last_seen : Moments,
         online    : BOOLEAN,
         boot_id   : Boots \cup {NoBoot},
         booted_at : Int \cup {Absent},
         latest    : Docs]

Registered == DOMAIN machines

----------------------------------------------------------------------------
(* Ingest *)

Init ==
    /\ now = 0
    /\ machines = << >>
    /\ snapshots = << >>
    /\ events = << >>
    /\ heard = [s \in Serials |-> Never]

(* The table `t` with the row of `key` inserted or replaced. *)
Saved(t, key, row) == [k \in DOMAIN t \cup {key} |-> IF k = key THEN row ELSE t[k]]

Hears(s, retained) == heard' = IF retained THEN heard ELSE [heard EXCEPT ![s] = now]

(* Mutant: the broker's stored copy stamps last_seen as a live message does (site #119). *)
LastSeen_ReplayCounts(s, retained) == now

(* A retained copy says nothing about when the machine last spoke. *)
LastSeen(s, retained) == IF retained THEN machines[s].last_seen ELSE now

(* Mutant: a stored copy is taken for a machine new to the site only. *)
RegisteredRow_NewOnly(doc, retained) ==
    IF doc.serial \in Registered
    THEN IF retained THEN machines[doc.serial]
         ELSE [machines[doc.serial] EXCEPT !.hostname = doc.hostname, !.last_seen = now, !.latest = doc]
    ELSE [hostname |-> doc.hostname, last_seen |-> now, online |-> FALSE,
          boot_id |-> NoBoot, booted_at |-> Absent, latest |-> doc]

(* update_or_create's row; a retained copy moves last_seen only of a machine new to the site. *)
RegisteredRow(doc, retained) ==
    IF doc.serial \in Registered
    THEN [machines[doc.serial] EXCEPT !.hostname = doc.hostname,
                                      !.last_seen = LastSeen(doc.serial, retained),
                                      !.latest = doc]
    ELSE [hostname |-> doc.hostname, last_seen |-> now, online |-> FALSE,
          boot_id |-> NoBoot, booted_at |-> Absent, latest |-> doc]

(* Mutant: a document seen before is found again but not confirmed. *)
Confirmed_CreatedOnly(doc) == IF doc \in DOMAIN snapshots THEN snapshots ELSE Saved(snapshots, doc, now)

(* get_or_create, and last_confirmed moved on one found again. *)
Confirmed(doc) == Saved(snapshots, doc, now)

RegisterDocument(doc, retained) ==
    /\ machines' = Saved(machines, doc.serial, RegisteredRow(doc, retained))
    /\ snapshots' = Confirmed(doc)
    /\ Hears(doc.serial, retained)
    /\ UNCHANGED <<now, events>>

(* Mutant: a payload without a boot id writes the missing value. *)
StatusRow_NullBoot(s, p, retained) ==
    [machines[s] EXCEPT
        !.online = p.online,
        !.last_seen = LastSeen(s, retained),
        !.boot_id = p.boot_id,
        !.booted_at = IF p.uptime = Absent \/ retained THEN @ ELSE now - p.uptime]

(* Mutant: a stored status says nothing at all. *)
StatusRow_LiveOnly(s, p, retained) ==
    IF retained THEN machines[s]
    ELSE [machines[s] EXCEPT !.online = p.online,
                             !.last_seen = now,
                             !.boot_id = IF p.boot_id = Absent THEN @ ELSE p.boot_id,
                             !.booted_at = IF p.uptime = Absent THEN @ ELSE now - p.uptime]

(* The row after a status payload: an absent key leaves its field; only a live *)
(* beat with an uptime says when the boot began.                               *)
StatusRow(s, p, retained) ==
    [machines[s] EXCEPT
        !.online = p.online,
        !.last_seen = LastSeen(s, retained),
        !.boot_id = IF p.boot_id = Absent THEN @ ELSE p.boot_id,
        !.booted_at = IF p.uptime = Absent \/ retained THEN @ ELSE now - p.uptime]

(* A status or an event of a machine nobody registered is dropped: no step. *)
Status(s, p, retained) ==
    /\ s \in Registered
    /\ machines' = Saved(machines, s, StatusRow(s, p, retained))
    /\ Hears(s, retained)
    /\ UNCHANGED <<now, snapshots, events>>

BootEvent(s, e) ==
    /\ s \in Registered
    /\ Len(events) < MaxEvents
    /\ events' = Append(events, [serial |-> s, boot |-> e.boot, stage |-> e.stage, result |-> e.result])
    /\ Hears(s, FALSE)
    /\ UNCHANGED <<now, machines, snapshots>>

Tick ==
    /\ now < MaxTime
    /\ now' = now + 1
    /\ UNCHANGED <<machines, snapshots, events, heard>>

Next ==
    \/ \E doc \in Docs, retained \in BOOLEAN : RegisterDocument(doc, retained)
    \/ \E s \in Serials, p \in Statuses, retained \in BOOLEAN : Status(s, p, retained)
    \/ \E s \in Serials, e \in Checks : BootEvent(s, e)
    \/ Tick

Spec == Init /\ [][Next]_vars

----------------------------------------------------------------------------
(* What the pages ask *)

(* Mutant: the checks of every boot count. *)
ChecksOf_AnyBoot(s) == {i \in DOMAIN events : events[i].serial = s /\ events[i].boot # NoBoot}

(* The FPGA check events of the boot machine s is running: an earlier boot's say nothing. *)
ChecksOf(s) == {i \in DOMAIN events : /\ events[i].serial = s
                                      /\ events[i].boot = machines[s].boot_id
                                      /\ events[i].boot # NoBoot}

Newest(ids) == CHOOSE i \in ids : \A j \in ids : j <= i

StateOf(e) == IF e.stage = "fpga-verifying" THEN "verifying" ELSE e.result

on_setup_port(hostname) == hostname \in SetupHosts

setup_port_state(state, hostname) == IF on_setup_port(hostname) THEN "fail" ELSE state

(* fpga_states: the newest event by arrival, "" where the check has not started. *)
fpga_state(s) ==
    IF ChecksOf(s) = {} THEN ""
    ELSE setup_port_state(StateOf(events[Newest(ChecksOf(s))]), machines[s].hostname)

(* Mutant: fpga_reports forgets that an earlier boot's events say nothing. *)
ReportsOf_AnyBoot(s) == {i \in DOMAIN events : events[i].serial = s /\ events[i].boot # NoBoot}

(* The events fpga_reports reads of machine s: its own query, and its own loop over them. *)
ReportsOf(s) == {i \in DOMAIN events : /\ events[i].serial = s
                                       /\ events[i].boot = machines[s].boot_id
                                       /\ events[i].boot # NoBoot}

fpga_report(s) ==
    LET last == events[Newest(ReportsOf(s))]
        state == IF last.stage = "fpga-verifying" THEN "verifying" ELSE last.result
    IN  IF ReportsOf(s) = {} THEN "" ELSE setup_port_state(state, machines[s].hostname)

checked_in == {s \in Registered : machines[s].online /\ machines[s].last_seen >= now - CheckedInWithin}

On(host) == {s \in Registered : machines[s].hostname = host}

(* s speaks for its hostname before t: seen later, or in the same moment with the lower serial *)
(* (the rows come in Meta.ordering's order and only a later one replaces the first).           *)
SpeaksBefore(s, t) == \/ machines[s].last_seen > machines[t].last_seen
                      \/ machines[s].last_seen = machines[t].last_seen /\ s < t

machine_hosts == [h \in {machines[s].hostname : s \in Registered} \ {NoHost} |->
                    CHOOSE s \in On(h) : \A t \in On(h) \ {s} : SpeaksBefore(s, t)]

is_offered(state, has_checked_in) == has_checked_in /\ state = "pass"

offered_hosts == {h \in DOMAIN machine_hosts :
                    is_offered(fpga_state(machine_hosts[h]), machine_hosts[h] \in checked_in)}

Offered == {machine_hosts[h] : h \in offered_hosts}

(* reporting_machines: the machines it calls offered. *)
ReportingOffered ==
    {s \in {machine_hosts[h] : h \in DOMAIN machine_hosts} :
        is_offered(setup_port_state(fpga_report(s), machines[s].hostname), s \in checked_in)}

condition(state, has_checked_in, last_seen) ==
    IF is_offered(state, has_checked_in) THEN "operational"
    ELSE IF ~has_checked_in /\ now - last_seen > MissingAfter THEN "missing"
    ELSE IF has_checked_in /\ state \in {"", "verifying"} THEN "unknown"
    ELSE "attention"

(* The events management/fpga.py's hosts reads of machine s: a third query and loop. *)
HostChecks(s) == {i \in DOMAIN events : /\ events[i].serial = s
                                        /\ events[i].boot = machines[s].boot_id
                                        /\ events[i].boot # NoBoot}

HostState(s) ==
    LET last == events[Newest(HostChecks(s))]
        state == IF last.stage = "fpga-verifying" THEN "verifying" ELSE last.result
    IN  setup_port_state(IF HostChecks(s) = {} THEN "" ELSE state, machines[s].hostname)

(* hosts: every registered machine's row. *)
HostCondition(s) == condition(HostState(s), s \in checked_in, machines[s].last_seen)
----------------------------------------------------------------------------
(* Properties *)

(* Type correctness: the tables hold rows of the models' shapes, and a snapshot belongs to a *)
(* registered machine.                                                                      *)
TypeOK ==
    /\ now \in 0 .. MaxTime
    /\ Registered \subseteq Serials
    /\ machines \in [Registered -> Rows]
    /\ DOMAIN snapshots \subseteq Docs
    /\ snapshots \in [DOMAIN snapshots -> 0 .. MaxTime]
    /\ events \in Seq([serial : Serials, boot : Boots \cup {NoBoot},
                       stage : {"fpga-verifying", "fpga-verified"}, result : Results \cup {Absent}])
    /\ heard \in [Serials -> Moments]

(* A board is offered to visitors only if its Pi itself was heard within CHECKED_IN_WITHIN: *)
(* no order of replayed registrations and statuses and of the Pi's own old events revives   *)
(* a Pi that went silent (register_document, status, checked_in; site #119).                *)
OfferedWasHeard == \A s \in Offered : heard[s] >= now - CheckedInWithin

(* The /fpgas/ pages, tinytapeout's pages and the management pages each read the events and *)
(* decide for themselves, each with a loop of its own (fpga_states, fpga_reports, hosts); at *)
(* any one state of the tables they call the same machines good                             *)
(* (is_offered: "the one rule for every page that offers a board").                         *)
PagesAgree ==
    /\ ReportingOffered = Offered
    /\ \A h \in DOMAIN machine_hosts :
          h \in offered_hosts <=> HostCondition(machine_hosts[h]) = "operational"

(* A machine's latest_snapshot is a stored snapshot of that machine, and none of its others  *)
(* was confirmed later: a flap back to an older document moves the latest back with it       *)
(* (register_document).                                                                      *)
LatestIsLastConfirmed ==
    \A s \in Registered :
        /\ machines[s].latest \in DOMAIN snapshots
        /\ machines[s].latest.serial = s
        /\ \A doc \in DOMAIN snapshots :
              doc.serial = s => snapshots[doc] <= snapshots[machines[s].latest]

(* A machine the management pages call missing stops being missing only when it is heard    *)
(* live: a consumer that restarts and is handed every stored copy again leaves it missing   *)
(* (condition, status, register_document; site #119).                                       *)
MissingUntilHeard ==
    [][\A s \in Registered :
          (HostCondition(s) = "missing" /\ HostCondition(s)' # "missing") => heard'[s] = now']_vars

(* Of two machines registered on one hostname, the port passes from one to the other only   *)
(* when the other is heard live on it: a replay of both registrations, in any order, leaves *)
(* the port with the Pi that holds it (machine_hosts, register_document).                   *)
PortPassesToTheHeard ==
    [][\A h \in DOMAIN machine_hosts \cap DOMAIN machine_hosts' :
          LET holder == machine_hosts[h]
              next == machine_hosts'[h]
          IN  (holder # next /\ next \in On(h) /\ holder \in On(h)') => heard'[next] = now']_vars
=============================================================================
