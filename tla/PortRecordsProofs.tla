-------------------------- MODULE PortRecordsProofs --------------------------
(***************************************************************************)
(* Proofs about PortRecords, for every set of ports and devices, every     *)
(* retention and every delay of a record.                                  *)
(***************************************************************************)
EXTENDS PortRecords, TLAPS

(* The first row of the table is written to an empty one: the tables are of their types at  *)
(* the start.                                                                               *)
LEMMA InitType == Init => TypeOK
BY RecordsAssumption DEF Init, TypeOK, Records, Kinds, Ids, Machines

(* What a prune leaves is part of what it was given. *)
LEMMA PruneSubset ==
    ASSUME NEW rs, NEW fails, PruneAfter(rs, fails)
    PROVE  records' \subseteq rs
BY DEF PruneAfter, prune_gateway_records

(* Storing one record, matched to some machine, keeps every row's type and its own id. *)
LEMMA StoreType ==
    ASSUME TypeOK, NEW kind \in Kinds, NEW mac \in Devices \cup {NoMac}, NEW at \in Published,
           NEW p \in Ports, NEW acked \in BOOLEAN, gateway_record(kind, mac, at, p, acked)
    PROVE  TypeOK'
<1>1. PICK m \in match_machine(mac), fails \in BOOLEAN :
          PruneAfter(records \cup {[id |-> NewId, kind |-> kind, at |-> at, port |-> p,
                                    machine |-> m, acked |-> acked]}, fails)
  BY DEF gateway_record
<1> DEFINE new == [id |-> NewId, kind |-> kind, at |-> at, port |-> p,
                   machine |-> m, acked |-> acked]
<1>2. m \in Machines
  BY DEF match_machine, Machines, TypeOK
<1>3. /\ last_id \in Nat /\ last_id < MaxRecords /\ NewId = last_id + 1 /\ last_id' = NewId
      /\ at \in 0 .. MaxTime /\ now \in 0 .. MaxTime
      /\ now' = now /\ registered' = registered
  BY RecordsAssumption DEF gateway_record, TypeOK, NewId, Published
<1>4. new \in Records /\ new.id = NewId
  BY <1>2, <1>3, RecordsAssumption DEF Records, Ids
<1>5. records' \subseteq records \cup {new}
  BY <1>1, PruneSubset
<1>6. records' \subseteq Records
  BY <1>4, <1>5 DEF TypeOK
<1>7. \A r \in records' : r.id <= last_id'
  BY <1>3, <1>4, <1>5, <1>6 DEF TypeOK, Records, Ids
<1>8. \A r, q \in records' : r.id = q.id => r = q
  <2> SUFFICES ASSUME NEW r \in records', NEW q \in records', r.id = q.id PROVE r = q
    OBVIOUS
  <2>1. \A x \in records : x.id \in Nat /\ x.id < NewId
    BY <1>3 DEF TypeOK, Records, Ids
  <2>2. CASE r \in records /\ q \in records
    BY <2>2 DEF TypeOK
  <2>3. CASE r = new \/ q = new
    BY <2>1, <2>3, <1>3, <1>4, <1>5
  <2> QED BY <2>2, <2>3, <1>5
<1>9. last_prune' \in -1 .. MaxTime
  BY <1>1, <1>3 DEF PruneAfter, TypeOK
<1>10. ledger' \subseteq [at : 0 .. MaxTime, port : Ports, machine : Machines]
  BY <1>3 DEF gateway_record, TypeOK, Credited, Machines
<1>11. last_stored' \in [Kinds \X Ports -> 0 .. MaxRecords]
  BY <1>3, RecordsAssumption DEF gateway_record, TypeOK
<1> QED
  BY <1>3, <1>6, <1>7, <1>8, <1>9, <1>10, <1>11, RecordsAssumption DEF TypeOK

(* Every step keeps the type invariant. *)
LEMMA NextType == TypeOK /\ [Next]_vars => TypeOK'
<1> SUFFICES ASSUME TypeOK, [Next]_vars PROVE TypeOK'
  OBVIOUS
<1>1. CASE \E d \in Devices : Register(d)
  BY <1>1 DEF Register, TypeOK
<1>2. ASSUME NEW p \in Ports, NEW at \in Published,
             \/ \E d \in Devices, acked \in BOOLEAN : gateway_record("lease", d, at, p, acked)
             \/ gateway_record("lease", NoMac, at, p, FALSE)
             \/ gateway_record("port", NoMac, at, p, FALSE)
      PROVE  TypeOK'
  BY <1>2, StoreType DEF Kinds
<1>3. CASE Restart
  BY <1>3, RecordsAssumption DEF Restart, TypeOK
<1>4. CASE Tick
  BY <1>4, RecordsAssumption DEF Tick, TypeOK
<1>5. CASE UNCHANGED vars
  BY <1>5 DEF vars, TypeOK
<1> QED
  BY <1>1, <1>2, <1>3, <1>4, <1>5 DEF Next

(* The tables stay of their types, and an id is never given to two rows. *)
THEOREM TypeCorrect == Spec => []TypeOK
<1> QED
  BY InitType, NextType, PTL DEF Spec

(* Of two records with different ids one is the later. *)
LEMMA LaterTotal ==
    ASSUME NEW r \in Records, NEW q \in Records, r.id # q.id
    PROVE  Later(r, q) \/ Later(q, r)
BY DEF Later, Records, Ids

(* Rows with different ids are enough: no two machines are read on one port. *)
LEMMA TypeGivesOneDevice == TypeOK => OneDeviceAPort
<1> SUFFICES ASSUME TypeOK, NEW m \in DOMAIN seen_ports, NEW n \in DOMAIN seen_ports,
                    seen_ports[m] = seen_ports[n], m # n
             PROVE  FALSE
  BY DEF OneDeviceAPort
<1>1. /\ \E r \in Held : r.machine = m
      /\ \E r \in Held : r.machine = n
  BY DEF seen_ports
<1> DEFINE r == CHOOSE x \in Held : x.machine = m
           q == CHOOSE x \in Held : x.machine = n
<1>2. r \in Held /\ r.machine = m /\ q \in Held /\ q.machine = n
  BY <1>1
<1>3. r.port = q.port
  BY DEF seen_ports
<1>4. r \in Acks /\ q \in Acks /\ ~Taken(r) /\ ~Taken(q)
  BY <1>2 DEF Held
<1>5. r \in Records /\ q \in Records /\ r.id # q.id
  BY <1>2, <1>4 DEF Acks, TypeOK
<1>6. Later(r, q) \/ Later(q, r)
  BY <1>5, LaterTotal
<1> QED
  BY <1>2, <1>3, <1>4, <1>6 DEF Taken

(* One device a port, in every state the site's table can reach. *)
THEOREM AlwaysOneDeviceAPort == Spec => []OneDeviceAPort
<1> QED
  BY TypeCorrect, TypeGivesOneDevice, PTL

----------------------------------------------------------------------------
(* The inductive form of LastStoredKept: the newest record of a kind and port is there, and *)
(* no row of that kind and port has a higher id, so the prune finds it newest (Kept).       *)
LastInv ==
    /\ \A r \in records : r.id <= last_stored[<<r.kind, r.port>>]
    /\ \A k \in Kinds, p \in Ports :
          last_stored[<<k, p>>] # 0 =>
              \E r \in records : r.id = last_stored[<<k, p>>] /\ r.kind = k /\ r.port = p

(* A prune lets no row go that is the newest of its kind and port. *)
LEMMA PruneKeeps ==
    ASSUME NEW rs, NEW fails, PruneAfter(rs, fails), NEW r \in rs, Kept(r, rs)
    PROVE  r \in records'
BY DEF PruneAfter, prune_gateway_records

(* Storing one record, and the prune after it, keep the newest of every kind and port. *)
LEMMA StoreKeepsLast ==
    ASSUME TypeOK, LastInv, NEW kind \in Kinds, NEW mac, NEW at,
           NEW p \in Ports, NEW acked, gateway_record(kind, mac, at, p, acked)
    PROVE  LastInv'
<1>1. PICK m \in match_machine(mac), fails \in BOOLEAN :
          PruneAfter(records \cup {[id |-> NewId, kind |-> kind, at |-> at, port |-> p,
                                    machine |-> m, acked |-> acked]}, fails)
  BY DEF gateway_record
<1> DEFINE new == [id |-> NewId, kind |-> kind, at |-> at, port |-> p,
                   machine |-> m, acked |-> acked]
           stored == records \cup {new}
<1>2. /\ last_stored' = [last_stored EXCEPT ![<<kind, p>>] = NewId]
      /\ NewId = last_id + 1 /\ last_id \in Nat
      /\ last_stored \in [Kinds \X Ports -> Int]
  BY RecordsAssumption DEF gateway_record, NewId, TypeOK
<1>3. \A r \in records : r.id \in Nat /\ r.id < NewId /\ r.kind \in Kinds /\ r.port \in Ports
  BY <1>2 DEF TypeOK, Records, Ids
<1>4. \A k \in Kinds, q \in Ports :
          last_stored'[<<k, q>>] = IF k = kind /\ q = p THEN NewId ELSE last_stored[<<k, q>>]
  BY <1>2
<1>5. \A r \in stored : r.id <= last_stored'[<<r.kind, r.port>>]
  <2> SUFFICES ASSUME NEW r \in stored PROVE r.id <= last_stored'[<<r.kind, r.port>>]
    OBVIOUS
  <2>1. CASE r = new
    <3>1. r.id = NewId /\ r.kind = kind /\ r.port = p
      BY <2>1
    <3>2. last_stored'[<<kind, p>>] = NewId /\ NewId \in Int
      BY <1>2, <1>4
    <3> QED BY <3>1, <3>2
  <2>2. CASE r \in records
    <3>1. /\ r.id \in Nat /\ r.id < NewId /\ r.kind \in Kinds /\ r.port \in Ports
          /\ r.id <= last_stored[<<r.kind, r.port>>]
      BY <2>2, <1>3 DEF LastInv
    <3>2. last_stored'[<<r.kind, r.port>>] \in {NewId, last_stored[<<r.kind, r.port>>]}
      BY <3>1, <1>4
    <3> QED BY <3>1, <3>2, <1>2
  <2> QED BY <2>1, <2>2
<1>6. \A r \in records' : r.id <= last_stored'[<<r.kind, r.port>>]
  BY <1>1, <1>5, PruneSubset
<1>7. ASSUME NEW k \in Kinds, NEW q \in Ports, last_stored'[<<k, q>>] # 0
      PROVE  \E r \in records' : r.id = last_stored'[<<k, q>>] /\ r.kind = k /\ r.port = q
  <2>1. PICK r \in stored : r.id = last_stored'[<<k, q>>] /\ r.kind = k /\ r.port = q
    <3>1. CASE k = kind /\ q = p
      <4>1. last_stored'[<<k, q>>] = NewId
        BY <3>1, <1>4
      <4>2. new \in stored /\ new.id = NewId /\ new.kind = k /\ new.port = q
        BY <3>1
      <4> QED BY <4>1, <4>2
    <3>2. CASE ~(k = kind /\ q = p)
      <4>1. last_stored'[<<k, q>>] = last_stored[<<k, q>>]
        BY <3>2, <1>4
      <4> QED BY <4>1, <1>7 DEF LastInv
    <3> QED BY <3>1, <3>2
  <2>2. Kept(r, stored)
    BY <1>5, <2>1 DEF Kept
  <2>3. r \in records'
    BY <1>1, <2>2, PruneKeeps
  <2> QED BY <2>1, <2>3
<1> QED BY <1>6, <1>7 DEF LastInv

(* The newest record of every kind and port outlives every prune. *)
THEOREM LastRecordSurvives == Spec => []LastStoredKept
<1>1. Init => LastInv
  BY DEF Init, LastInv
<1>2. TypeOK /\ LastInv /\ [Next]_vars => LastInv'
  <2> SUFFICES ASSUME TypeOK, LastInv, [Next]_vars PROVE LastInv'
    OBVIOUS
  <2>1. CASE UNCHANGED <<records, last_stored>>
    BY <2>1 DEF LastInv
  <2>2. ASSUME NEW p \in Ports, NEW at \in Published,
               \/ \E d \in Devices, acked \in BOOLEAN : gateway_record("lease", d, at, p, acked)
               \/ gateway_record("lease", NoMac, at, p, FALSE)
               \/ gateway_record("port", NoMac, at, p, FALSE)
        PROVE  LastInv'
    BY <2>2, StoreKeepsLast DEF Kinds
  <2> QED
    BY <2>1, <2>2 DEF Next, Register, Restart, Tick, vars
<1>3. LastInv => LastStoredKept
  BY DEF LastInv, LastStoredKept
<1> QED
  BY <1>1, <1>2, <1>3, TypeCorrect, PTL DEF Spec

----------------------------------------------------------------------------
(* The reading of the records (seen_ports): only an ACK moves a machine, and a machine is read *)
(* where it was last ACKed, whatever was late, repeated or pruned.                            *)

(* Later is a strict order of the records, total where ids are not shared. *)
LEMMA LaterOrder ==
  /\ \A r, q \in Records : ~(Later(r, q) /\ Later(q, r))
  /\ \A r, q, x \in Records : Later(r, q) /\ Later(q, x) => Later(r, x)
<1>1. \A r \in Records : r.id \in Int /\ r.at \in Int
  BY DEF Records, Ids
<1> QED
  BY <1>1 DEF Later

(* A record that places a machine is the only one, so it gives the machine's port. *)
Places ==
    \A r \in Held : r.machine \in DOMAIN seen_ports /\ seen_ports[r.machine] = r.port

LEMMA TypeGivesPlaces == TypeOK => Places
<1> SUFFICES ASSUME TypeOK, NEW r \in Held
             PROVE  r.machine \in DOMAIN seen_ports /\ seen_ports[r.machine] = r.port
  BY DEF Places
<1>1. \A q \in Held : q.machine = r.machine => q = r
  <2> SUFFICES ASSUME NEW q \in Held, q.machine = r.machine, q # r
               PROVE  FALSE
    OBVIOUS
  <2>1. q \in AcksOf(r.machine) /\ r \in AcksOf(q.machine) /\ q \in Records /\ r \in Records
    BY DEF Held, AcksOf, Acks, TypeOK
  <2>2. Later(q, r) /\ Later(r, q)
    BY <2>1 DEF Held, Newest
  <2> QED
    BY <2>1, <2>2, LaterOrder
<1>2. (CHOOSE x \in Held : x.machine = r.machine) = r
  BY <1>1
<1> QED
  BY <1>2 DEF seen_ports

----------------------------------------------------------------------------
(* Only an ACK moves a machine *)

(* A step stores one record at most, with an id of its own; it registers or stores, not both. *)
LEMMA StepRecords ==
  ASSUME TypeOK, [Next]_vars
  PROVE  /\ registered \subseteq registered'
         /\ \/ records' = records
            \/ last_id' # last_id /\ \E new : new.id = last_id' /\ records' \subseteq records \cup {new}
<1>1. ASSUME NEW kind, NEW mac, NEW at, NEW p, NEW acked, gateway_record(kind, mac, at, p, acked)
      PROVE  /\ registered' = registered
             /\ last_id' # last_id /\ \E new : new.id = last_id' /\ records' \subseteq records \cup {new}
  <2>1. PICK m \in match_machine(mac), fails \in BOOLEAN :
            PruneAfter(records \cup {[id |-> NewId, kind |-> kind, at |-> at, port |-> p,
                                      machine |-> m, acked |-> acked]}, fails)
    BY <1>1 DEF gateway_record
  <2>2. last_id' = NewId /\ NewId # last_id /\ registered' = registered
    BY <1>1, RecordsAssumption DEF gateway_record, NewId, TypeOK
  <2> DEFINE new == [id |-> NewId, kind |-> kind, at |-> at, port |-> p, machine |-> m, acked |-> acked]
  <2>3. records' \subseteq records \cup {new} /\ new.id = last_id'
    BY <2>1, <2>2, PruneSubset
  <2> QED
    BY <2>2, <2>3
<1>2. CASE \/ \E d \in Devices : Register(d)
           \/ Restart \/ Tick \/ UNCHANGED vars
  BY <1>2 DEF Register, Restart, Tick, vars
<1> QED
  BY <1>1, <1>2 DEF Next

LEMMA MoveStep ==
  ASSUME TypeOK, Places, Places', [Next]_vars, records \subseteq records', NEW m \in registered,
         \A r \in StoredAcks :
            r.machine # m /\ ~(m \in DOMAIN seen_ports /\ r.port = seen_ports[m])
  PROVE  ~PortChanges(m)
<1>1. \A r \in Acks' : r \in Acks \/ r \in StoredAcks
  <2> SUFFICES ASSUME NEW r \in Acks', r \notin Acks
               PROVE  r \in StoredAcks
    OBVIOUS
  <2>1. r \in records' /\ r \notin records /\ r.acked
    BY DEF Acks
  <2> QED
    BY <2>1, StepRecords DEF StoredAcks
<1>2. Acks \subseteq Acks'
  BY DEF Acks
<1>3. AcksOf(m)' = AcksOf(m)
  BY <1>1, <1>2 DEF AcksOf
<1>4. \A r : r \in Held /\ r.machine = m => r \in Held'
  <2> SUFFICES ASSUME NEW r \in Held, r.machine = m
               PROVE  r \in Held'
    OBVIOUS
  <2>1. r \in Acks' /\ r.machine \in registered' /\ ~Taken(r)
    BY <1>2, StepRecords DEF Held
  <2>2. Newest(r)'
    BY <1>3 DEF Held, Newest
  <2>3. m \in DOMAIN seen_ports /\ seen_ports[m] = r.port
    BY DEF Places
  <2>4. ~Taken(r)'
    BY <1>1, <2>1, <2>3 DEF Taken
  <2> QED
    BY <2>1, <2>2, <2>4 DEF Held
<1>5. \A r : r \in Held' /\ r.machine = m => r \in Held
  <2> SUFFICES ASSUME NEW r \in Held', r.machine = m
               PROVE  r \in Held
    OBVIOUS
  <2>1. r \in Acks
    BY <1>3 DEF Held, AcksOf
  <2>2. Newest(r)
    BY <1>3 DEF Held, Newest
  <2>3. ~Taken(r)
    BY <1>2 DEF Held, Taken
  <2> QED
    BY <2>1, <2>2, <2>3 DEF Held
<1>6. m \in DOMAIN seen_ports <=> m \in DOMAIN seen_ports'
  <2>1. m \in DOMAIN seen_ports <=> \E r \in Held : r.machine = m
    BY DEF seen_ports
  <2>2. m \in DOMAIN seen_ports' <=> \E r \in Held' : r.machine = m
    BY DEF seen_ports
  <2> QED
    BY <1>4, <1>5, <2>1, <2>2
<1>7. m \in DOMAIN seen_ports => seen_ports'[m] = seen_ports[m]
  <2> SUFFICES ASSUME NEW r \in Held, r.machine = m
               PROVE  seen_ports'[m] = seen_ports[m]
    BY DEF seen_ports
  <2>1. seen_ports[m] = r.port
    BY DEF Places
  <2>2. seen_ports'[m] = r.port
    BY <1>4 DEF Places
  <2> QED
    BY <2>1, <2>2
<1> QED
  BY <1>6, <1>7 DEF PortChanges

(* For every set of ports and devices: while nothing is pruned, a registered machine changes  *)
(* its port only with an ACK of its own or of the device that takes its port (seen_ports).    *)
THEOREM OnlyAcksMove == Spec => OnlyAnAckMoves
<1>1. TypeOK /\ Places /\ Places' /\ [Next]_vars =>
        [records \subseteq records' =>
            \A m \in registered : PortChanges(m) =>
                \E r \in StoredAcks :
                    r.machine = m \/ (m \in DOMAIN seen_ports /\ r.port = seen_ports[m])]_vars
  BY MoveStep
<1> QED
  BY <1>1, TypeCorrect, TypeGivesPlaces, PTL DEF Spec, OnlyAnAckMoves

----------------------------------------------------------------------------
(* A machine is read where it was last ACKed *)

Entry(r) == [at |-> r.at, port |-> r.port, machine |-> r.machine]

(* The table holds ACKs that were stored, and all of the recent ones; of any of them one is   *)
(* the latest (ids are bounded, but a step adds one record only).                             *)
LedgerInv ==
    /\ \A r \in Acks : Entry(r) \in ledger
    /\ \A a \in ledger : a.at >= now - KeepFor => \E r \in Acks : Entry(r) = a
    /\ \A S \in SUBSET ledger : S # {} => \E a \in S : \A b \in S : b.at <= a.at
    /\ \A S \in SUBSET Acks : S # {} => \E r \in S : \A q \in S \ {r} : Later(r, q)

(* A prune keeps every recent record. *)
LEMMA PruneKeepsRecent ==
  ASSUME NEW rs, NEW fails, PruneAfter(rs, fails), NEW r \in rs, r.at >= now - KeepFor
  PROVE  r \in records'
  BY DEF PruneAfter, prune_gateway_records

(* An ACK is matched to its device, or to none when that is not registered. *)
LEMMA AckMatched ==
  ASSUME NEW d \in Devices, NEW m \in match_machine(d)
  PROVE  m = Credited(d)
  BY RecordsAssumption DEF match_machine, Credited

LEMMA StoreLedger ==
  ASSUME TypeOK, TypeOK', LedgerInv, NEW kind \in Kinds, NEW mac \in Devices \cup {NoMac},
         NEW at \in Published, NEW p \in Ports, NEW acked \in BOOLEAN,
         acked => kind = "lease" /\ mac \in Devices,
         gateway_record(kind, mac, at, p, acked)
  PROVE  LedgerInv'
<1>1. PICK m \in match_machine(mac), fails \in BOOLEAN :
          PruneAfter(records \cup {[id |-> NewId, kind |-> kind, at |-> at, port |-> p,
                                    machine |-> m, acked |-> acked]}, fails)
  BY DEF gateway_record
<1> DEFINE new == [id |-> NewId, kind |-> kind, at |-> at, port |-> p,
                   machine |-> m, acked |-> acked]
           a == [at |-> at, port |-> p, machine |-> Credited(mac)]
<1>2. records' \subseteq records \cup {new}
  BY <1>1, PruneSubset
<1>3. ledger' = IF acked THEN ledger \cup {a} ELSE ledger
  BY DEF gateway_record
<1>4. now' = now
  BY DEF gateway_record
<1>5. acked => Entry(new) = a
  BY <1>1, AckMatched DEF Entry
<1>6. Acks' \subseteq Acks \cup {new} /\ (~acked => Acks' \subseteq Acks)
  BY <1>2 DEF Acks
<1>7. \A r \in Acks' : Entry(r) \in ledger'
  BY <1>3, <1>5, <1>6 DEF LedgerInv
<1>8. ASSUME NEW b \in ledger', b.at >= now' - KeepFor
      PROVE  \E r \in Acks' : Entry(r) = b
  <2>1. CASE b \in ledger
    <3>1. PICK r \in Acks : Entry(r) = b
      BY <1>4, <1>8, <2>1 DEF LedgerInv
    <3>2. r.at >= now - KeepFor
      BY <1>4, <1>8, <3>1 DEF Entry
    <3>3. r \in records'
      BY <1>1, <3>2, PruneKeepsRecent DEF Acks
    <3> QED
      BY <3>1, <3>3 DEF Acks
  <2>2. CASE b \notin ledger
    <3>1. acked /\ b = a
      BY <1>3, <2>2
    <3>2. new \in records'
      BY <1>1, <1>4, <1>8, <3>1, PruneKeepsRecent
    <3>3. new \in Acks'
      BY <3>1, <3>2 DEF Acks
    <3> QED
      BY <1>5, <3>1, <3>3
  <2> QED
    BY <2>1, <2>2
<1>9. ASSUME NEW S \in SUBSET ledger', S # {}
      PROVE  \E x \in S : \A y \in S : y.at <= x.at
  <2>1. \A x \in S : x.at \in Int
    BY DEF TypeOK
  <2>2. S \ {a} \subseteq ledger
    BY <1>3
  <2>3. CASE S \ {a} = {}
    BY <2>1, <2>3, <1>9
  <2>4. CASE S \ {a} # {}
    <3>1. PICK x \in S \ {a} : \A y \in S \ {a} : y.at <= x.at
      BY <2>2, <2>4 DEF LedgerInv
    <3>2. CASE a \notin S
      BY <3>1, <3>2
    <3>3. CASE a \in S
      <4>1. x.at \in Int /\ a.at \in Int
        BY <2>1, <3>3
      <4>2. CASE a.at <= x.at
        BY <3>1, <3>3, <4>2
      <4>3. CASE x.at < a.at
        <5>1. \A y \in S : y.at <= a.at
          BY <2>1, <3>1, <4>1, <4>3
        <5> QED
          BY <3>3, <5>1
      <4> QED
        BY <4>1, <4>2, <4>3
    <3> QED
      BY <3>2, <3>3
  <2> QED
    BY <2>3, <2>4
<1>10. ASSUME NEW S \in SUBSET Acks', S # {}
       PROVE  \E r \in S : \A q \in S \ {r} : Later(r, q)
  <2>1. /\ \A r \in S : r \in Records
        /\ \A r, q \in S : r # q => r.id # q.id
    BY DEF TypeOK, Acks
  <2>2. S \ {new} \subseteq Acks
    BY <1>6
  <2>3. CASE S \ {new} = {}
    BY <1>10, <2>3
  <2>4. CASE S \ {new} # {}
    <3>1. PICK r \in S \ {new} : \A q \in (S \ {new}) \ {r} : Later(r, q)
      BY <2>2, <2>4 DEF LedgerInv
    <3>2. CASE new \notin S \/ Later(r, new)
      BY <3>1, <3>2
    <3>3. CASE new \in S /\ ~Later(r, new)
      <4>1. Later(new, r)
        BY <2>1, <3>1, <3>3, LaterTotal
      <4>2. \A q \in S \ {new} : Later(new, q)
        BY <2>1, <3>1, <3>3, <4>1, LaterOrder
      <4> QED
        BY <3>3, <4>2
    <3> QED
      BY <3>2, <3>3
  <2> QED
    BY <2>3, <2>4
<1> QED
  BY <1>7, <1>8, <1>9, <1>10 DEF LedgerInv, Later

LEMMA NextLedger ==
  ASSUME TypeOK, TypeOK', LedgerInv, [Next]_vars
  PROVE  LedgerInv'
<1>1. ASSUME NEW p \in Ports, NEW at \in Published,
             \/ \E d \in Devices, acked \in BOOLEAN : gateway_record("lease", d, at, p, acked)
             \/ gateway_record("lease", NoMac, at, p, FALSE)
             \/ gateway_record("port", NoMac, at, p, FALSE)
      PROVE  LedgerInv'
  BY <1>1, StoreLedger DEF Kinds
<1>2. CASE Tick
  <2>1. now' = now + 1 /\ records' = records /\ ledger' = ledger
    BY <1>2 DEF Tick
  <2>2. \A a \in ledger : a.at >= now' - KeepFor => a.at >= now - KeepFor
    BY <2>1, RecordsAssumption DEF TypeOK
  <2> QED
    BY <2>1, <2>2 DEF LedgerInv, Acks, Later
<1>3. CASE (\E d \in Devices : Register(d)) \/ Restart \/ UNCHANGED vars
  <2>1. now' = now /\ records' = records /\ ledger' = ledger
    BY <1>3 DEF Register, Restart, vars
  <2> QED
    BY <2>1 DEF LedgerInv, Acks, Later
<1> QED
  BY <1>1, <1>2, <1>3 DEF Next

(* The last ACK of a machine's ledger is a newest record of the table. *)
LEMMA LedgerGivesReading == TypeOK /\ Places /\ LedgerInv => ReadWhereAcked
<1> SUFFICES ASSUME TypeOK, Places, LedgerInv, OwnMoments, NEW m \in registered,
                    LedgerOf(m) # {}, LastAck(m).at >= now - KeepFor
             PROVE  /\ m \in DOMAIN seen_ports <=> Holds(m)
                    /\ Holds(m) => seen_ports[m] = LastAck(m).port
  BY DEF ReadWhereAcked
<1> DEFINE a == LastAck(m)
<1>1. a \in ledger /\ a.machine = m /\ \A b \in ledger : b.machine = m => b.at <= a.at
  <2>1. LedgerOf(m) \in SUBSET ledger
    BY DEF LedgerOf
  <2>2. \E x \in LedgerOf(m) : \A b \in LedgerOf(m) : b.at <= x.at
    BY <2>1 DEF LedgerInv
  <2> QED
    BY <2>2 DEF LastAck, LedgerOf
<1> DEFINE S == {r \in Acks : Entry(r) = a}
<1>2. S \in SUBSET Acks /\ S # {}
  BY <1>1 DEF LedgerInv
<1>3. PICK r \in S : \A q \in S \ {r} : Later(r, q)
  BY <1>2 DEF LedgerInv
<1>4. r \in Acks /\ r.at = a.at /\ r.port = a.port /\ r.machine = m
  BY <1>1, <1>3 DEF Entry
<1>5. \A q \in Acks : q \in Records /\ q.at \in Int /\ Entry(q) \in ledger
                      /\ Entry(q).at = q.at /\ Entry(q).port = q.port /\ Entry(q).machine = q.machine
  <2> SUFFICES ASSUME NEW q \in Acks
               PROVE  /\ q \in Records /\ q.at \in Int /\ Entry(q) \in ledger
                      /\ Entry(q).at = q.at /\ Entry(q).port = q.port /\ Entry(q).machine = q.machine
    OBVIOUS
  <2>1. q \in Records /\ q.at \in Int
    BY DEF TypeOK, Acks, Records
  <2>2. Entry(q) \in ledger
    BY DEF LedgerInv
  <2> QED
    BY <2>1, <2>2 DEF Entry
<1>6. \A q \in Acks : q.at = a.at => q \in S
  BY <1>1, <1>5 DEF OwnMoments
<1>7. Newest(r)
  <2> SUFFICES ASSUME NEW q \in Acks, q.machine = m, q # r
               PROVE  Later(r, q)
    BY <1>4 DEF Newest, AcksOf
  <2>1. q.at <= a.at
    BY <1>1, <1>5
  <2>2. CASE q.at = a.at
    BY <1>3, <1>6, <2>2
  <2>3. CASE q.at # a.at
    BY <1>4, <1>5, <2>1, <2>3 DEF Later
  <2> QED
    BY <2>2, <2>3
<1>8. ASSUME Holds(m)
      PROVE  m \in DOMAIN seen_ports /\ seen_ports[m] = a.port
  <2>1. ~Taken(r)
    <3> SUFFICES ASSUME NEW q \in Acks, q.port = r.port, Later(q, r), q.machine # r.machine
                 PROVE  FALSE
      BY DEF Taken
    <3>1. q.at # a.at
      BY <1>4, <1>6 DEF Entry
    <3>2. q.at > a.at
      BY <1>4, <1>5, <3>1 DEF Later
    <3> QED
      BY <1>4, <1>5, <1>8, <3>2 DEF Holds
  <2>2. r \in Held
    BY <1>4, <1>7, <2>1 DEF Held
  <2> QED
    BY <1>4, <2>2 DEF Places
<1>9. ASSUME m \in DOMAIN seen_ports, ~Holds(m)
      PROVE  FALSE
  <2>1. PICK b \in ledger : b.port = a.port /\ b.at > a.at /\ b.machine # m
    BY <1>9 DEF Holds
  <2>2. b.at >= now - KeepFor
    BY <1>1, <2>1, RecordsAssumption DEF TypeOK
  <2>3. PICK q \in Acks : Entry(q) = b
    BY <2>2 DEF LedgerInv
  <2>4. Taken(r)
    BY <1>4, <1>5, <2>1, <2>3 DEF Taken, Later
  <2>5. PICK x \in Held : x.machine = m
    BY <1>9 DEF seen_ports
  <2>6. x = r
    BY <1>4, <1>5, <1>7, <2>5, LaterOrder DEF Held, Newest, AcksOf
  <2> QED
    BY <2>4, <2>5, <2>6 DEF Held
<1> QED
  BY <1>8, <1>9

(* For every retention and every delay: a machine ACKed within GATEWAY_RECORD_DAYS is read on *)
(* the port of its last ACK exactly when nobody was ACKed there after it, in whatever order   *)
(* the records arrived and whatever was pruned (seen_ports, prune_gateway_records).           *)
THEOREM ReadWhereLastAcked == Spec => []ReadWhereAcked
<1>1. Init => LedgerInv
  BY DEF Init, LedgerInv, Acks
<1>2. TypeOK /\ TypeOK' /\ LedgerInv /\ [Next]_vars => LedgerInv'
  BY NextLedger
<1> QED
  BY <1>1, <1>2, TypeCorrect, TypeGivesPlaces, LedgerGivesReading, PTL DEF Spec
=============================================================================
