---------------------------- MODULE PortRecords ----------------------------
(***************************************************************************)
(* Which port each Pi is on: the table of the gateway's records            *)
(* (fleet/models.py GatewayRecord), the service that stores one and prunes *)
(* the old ones (fleet/services.py gateway_record), and the reading every  *)
(* page takes of it (management/fpga.py seen_ports).                       *)
(*                                                                         *)
(* The gateway stamps a record with the moment it was published (at); the  *)
(* consumer numbers it as it arrives (id).  A record can arrive late,      *)
(* after others published later, and twice (QoS 1).  A record that does    *)
(* not parse is dropped whole and is no step here.                         *)
(***************************************************************************)
EXTENDS Integers, FiniteSets

CONSTANTS
    Ports,        \* the board ports, of every switch
    Devices,      \* what can be plugged in: each has its own MAC
    NoMachine,    \* the machine of a record no registration matches
    NoMac,        \* the mac of a record that carries none
    KeepFor,      \* settings.GATEWAY_RECORD_DAYS
    PruneEvery,   \* PRUNE_EVERY_SECONDS
    MaxDelay,     \* bound: how long a record can be on its way
    MaxTime,      \* bound: the last moment of a behaviour
    MaxRecords    \* bound: records ever stored

ASSUME RecordsAssumption ==
    /\ NoMachine \notin Devices
    /\ NoMac \notin Devices
    /\ KeepFor \in Nat
    /\ PruneEvery \in Nat
    /\ MaxDelay \in Nat
    /\ MaxTime \in Nat
    /\ MaxRecords \in Nat

VARIABLES
    now,         \* timezone.now(), and the gateway's clock
    registered,  \* the devices in the fleet registry: their macs are in _machine_macs()
    records,     \* table GatewayRecord
    last_id,     \* the id last given
    last_prune,  \* _last_prune of the consumer process; -1 for None
    ledger,      \* history: every ACK ever stored, pruned or not
    last_stored  \* history: the id of the newest record stored of each kind and port, 0 for none

vars == <<now, registered, records, last_id, last_prune, ledger, last_stored>>

Kinds == {"port", "lease"}
Machines == Devices \cup {NoMachine}
Ids == 1 .. MaxRecords

Records == [id : Ids, kind : Kinds, at : 0 .. MaxTime, port : Ports,
            machine : Machines, acked : BOOLEAN]

----------------------------------------------------------------------------
(* The reading *)

(* Mutant: of two ACKs the one that arrived later is the later one. *)
Later_ByArrival(r, q) == r.id > q.id

(* Newest is by (at, id), here and for every page. *)
Later(r, q) == r.at > q.at \/ (r.at = q.at /\ r.id > q.id)

(* Mutant: a lease that ends counts as one that begins. *)
Acks_AnyLease == {r \in records : r.kind = "lease"}

(* Only a DHCPACK counts. *)
Acks == {r \in records : r.kind = "lease" /\ r.acked}

AcksOf(m) == {r \in Acks : r.machine = m}

(* r is its machine's newest ACK. *)
Newest(r) == \A q \in AcksOf(r.machine) \ {r} : Later(r, q)

(* Mutant: two ACKs of the same second take the port from neither. *)
Taken_LaterSecond(r) == \E q \in Acks : q.port = r.port /\ q.at > r.at /\ q.machine # r.machine

(* Another device, registered or not, was ACKed on the port since. *)
Taken(r) == \E q \in Acks : q.port = r.port /\ Later(q, r) /\ q.machine # r.machine

(* The records that place their machines. *)
Held == {r \in Acks : r.machine \in registered /\ Newest(r) /\ ~Taken(r)}

seen_ports == [m \in {r.machine : r \in Held} |-> (CHOOSE r \in Held : r.machine = m).port]

----------------------------------------------------------------------------
(* The service *)

Init ==
    /\ now = 0
    /\ registered = {}
    /\ records = {}
    /\ last_id = 0
    /\ last_prune = -1
    /\ ledger = {}
    /\ last_stored = [g \in Kinds \X Ports |-> 0]

Register(d) ==
    /\ registered' = registered \cup {d}
    /\ UNCHANGED <<now, records, last_id, last_prune, ledger, last_stored>>

(* The machines a record can be matched to: by MAC; by hostname only when it carries no MAC, *)
(* to whichever machine the registry then has on that hostname (FleetRegistry).              *)
match_machine(mac) ==
    IF mac = NoMac THEN registered \cup {NoMachine}
    ELSE IF mac \in registered THEN {mac} ELSE {NoMachine}

(* Mutant: the newest record of a kind and port is kept by its time. *)
Kept_ByTime(r, rs) == \A q \in rs : (q.kind = r.kind /\ q.port = r.port) => q.at <= r.at

(* r is the newest, last stored, of its kind and port. *)
Kept(r, rs) == \A q \in rs : (q.kind = r.kind /\ q.port = r.port) => q.id <= r.id

prune_gateway_records(rs) == {r \in rs : r.at >= now - KeepFor \/ Kept(r, rs)}

PruneDue == last_prune = -1 \/ now - last_prune >= PruneEvery

(* The prune is the handler's last part; one that fails is logged and the record stays.  *)
PruneAfter(stored, fails) ==
    /\ last_prune' = IF PruneDue THEN now ELSE last_prune
    /\ records' = IF PruneDue /\ ~fails THEN prune_gateway_records(stored) ELSE stored

(* Mutant: ids are given again once rows are pruned. *)
NewId_RowCount == Cardinality(records) + 1

(* The table's key counts up and is never given twice. *)
NewId == last_id + 1

(* History: the device an ACK is truly of, if it was registered when the ACK was stored. *)
Credited(mac) == IF mac \in registered THEN mac ELSE NoMachine

gateway_record(kind, mac, at, p, acked) ==
    /\ last_id < MaxRecords
    /\ last_id' = NewId
    /\ \E m \in match_machine(mac), fails \in BOOLEAN :
          PruneAfter(records \cup {[id |-> NewId, kind |-> kind, at |-> at, port |-> p,
                                   machine |-> m, acked |-> acked]}, fails)
    /\ ledger' = IF acked THEN ledger \cup {[at |-> at, port |-> p, machine |-> Credited(mac)]}
                 ELSE ledger
    /\ last_stored' = [last_stored EXCEPT ![<<kind, p>>] = NewId]
    /\ UNCHANGED <<now, registered>>

(* A consumer that restarts has pruned nothing yet. *)
Restart ==
    /\ last_prune' = -1
    /\ UNCHANGED <<now, registered, records, last_id, ledger, last_stored>>

Tick ==
    /\ now < MaxTime
    /\ now' = now + 1
    /\ UNCHANGED <<registered, records, last_id, last_prune, ledger, last_stored>>

Published == {t \in 0 .. MaxTime : t <= now /\ now - t <= MaxDelay}

Next ==
    \/ \E d \in Devices : Register(d)
    \/ \E p \in Ports, at \in Published :
          \/ \E d \in Devices, acked \in BOOLEAN : gateway_record("lease", d, at, p, acked)
          \/ gateway_record("lease", NoMac, at, p, FALSE)
          \/ gateway_record("port", NoMac, at, p, FALSE)
    \/ Restart
    \/ Tick

Spec == Init /\ [][Next]_vars
----------------------------------------------------------------------------
(* Properties *)

(* Type correctness: every row is a record's, with an id already given and no other row's. *)
TypeOK ==
    /\ now \in 0 .. MaxTime
    /\ registered \subseteq Devices
    /\ records \subseteq Records
    /\ last_id \in 0 .. MaxRecords
    /\ last_prune \in -1 .. MaxTime
    /\ ledger \subseteq [at : 0 .. MaxTime, port : Ports, machine : Machines]
    /\ last_stored \in [Kinds \X Ports -> 0 .. MaxRecords]
    /\ \A r \in records : r.id <= last_id
    /\ \A r, q \in records : r.id = q.id => r = q

(* One device a port: whatever records were stored, late, twice, in the same second, pruned *)
(* or not, no two machines are read on one port (seen_ports: Tim, "a strict one device per  *)
(* port, only the latest should").                                                          *)
OneDeviceAPort == \A m, n \in DOMAIN seen_ports : seen_ports[m] = seen_ports[n] => m = n

LedgerOf(m) == {a \in ledger : a.machine = m}
LastAck(m) == CHOOSE a \in LedgerOf(m) : \A b \in LedgerOf(m) : b.at <= a.at
Holds(m) == \A b \in ledger : (b.port = LastAck(m).port /\ b.at > LastAck(m).at) => b.machine = m
OwnMoments == \A a, b \in ledger : a.at = b.at => a = b

(* A machine ACKed within GATEWAY_RECORD_DAYS is read on the port of its last ACK exactly    *)
(* when no other device was ACKed there after it, by the gateway's clock, in whatever order  *)
(* the records arrived and whatever was pruned (seen_ports, prune_gateway_records), while no *)
(* two ACKs share a moment: of those the order of arrival decides.                           *)
ReadWhereAcked ==
    OwnMoments =>
        \A m \in registered :
            (LedgerOf(m) # {} /\ LastAck(m).at >= now - KeepFor) =>
                /\ m \in DOMAIN seen_ports <=> Holds(m)
                /\ Holds(m) => seen_ports[m] = LastAck(m).port

(* The newest record of each kind and port outlives every prune, however old it is: a link  *)
(* change never lets a port's last lease go, nor a late record the one before it            *)
(* (prune_gateway_records).                                                                 *)
LastStoredKept ==
    \A k \in Kinds, p \in Ports :
        last_stored[<<k, p>>] # 0 => \E r \in records : r.id = last_stored[<<k, p>>]

StoredAcks == {r \in records' : last_id' # last_id /\ r.id = last_id' /\ r.acked}
PortChanges(m) ==
    \/ (m \in DOMAIN seen_ports) # (m \in DOMAIN seen_ports')
    \/ m \in DOMAIN seen_ports /\ seen_ports'[m] # seen_ports[m]

(* While nothing is pruned, only an ACK moves anything, and only the device it is of and    *)
(* the one it displaces: a lease that ends after a swap cannot hand the port back, nor can a *)
(* late ACK (seen_ports).                                                                   *)
OnlyAnAckMoves ==
    [][records \subseteq records' =>
          \A m \in registered : PortChanges(m) =>
              \E r \in StoredAcks :
                  r.machine = m \/ (m \in DOMAIN seen_ports /\ r.port = seen_ports[m])]_vars

(* What seen_ports' docstring says of every step: "a machine moved out is on no port until  *)
(* it is ACKed somewhere again".                                                            *)
MovedOutStaysOut ==
    [][\A m \in registered :
          (LedgerOf(m) # {} /\ m \notin DOMAIN seen_ports /\ m \in DOMAIN seen_ports') =>
              \E r \in StoredAcks : r.machine = m]_vars
=============================================================================
