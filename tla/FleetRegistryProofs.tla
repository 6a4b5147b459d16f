------------------------- MODULE FleetRegistryProofs -------------------------
(***************************************************************************)
(* Proofs about FleetRegistry, for every set of machines, documents, boots *)
(* and payloads, every window and every length of a behaviour.             *)
(***************************************************************************)
EXTENDS FleetRegistry, TLAPS

EventRow == [serial : Serials, boot : Boots \cup {NoBoot},
          stage : {"fpga-verifying", "fpga-verified"}, result : Results \cup {Absent}]

(* The registry is empty at the start. *)
LEMMA InitType == Init => TypeOK
<1> SUFFICES ASSUME Init PROVE TypeOK
  OBVIOUS
<1>1. DOMAIN machines = {} /\ DOMAIN snapshots = {}
  BY DEF Init
<1>2. machines \in [Registered -> Rows] /\ snapshots \in [DOMAIN snapshots -> 0 .. MaxTime]
  BY <1>1 DEF Init, Registered
<1>3. heard \in [Serials -> Moments]
  BY RegistryAssumption DEF Init, Moments, Never
<1>4. events \in Seq(EventRow)
  BY DEF Init
<1> QED
  BY <1>1, <1>2, <1>3, <1>4, RegistryAssumption DEF TypeOK, Init, Registered, EventRow

(* A registration writes one row and one snapshot. *)
LEMMA RegisterType ==
    ASSUME TypeOK, NEW doc \in Docs, NEW retained \in BOOLEAN, RegisterDocument(doc, retained)
    PROVE  TypeOK'
<1> DEFINE row == RegisteredRow(doc, retained)
<1>1. /\ doc.serial \in Serials
      /\ doc.hostname \in Hosts \cup {NoHost}
      /\ now \in Moments /\ now \in 0 .. MaxTime
  BY RegistryAssumption DEF TypeOK, Moments, Never
<1>2. row \in Rows
  <2>1. CASE doc.serial \in Registered
    <3>1. machines[doc.serial] \in Rows
      BY <2>1 DEF TypeOK
    <3>2. LastSeen(doc.serial, retained) \in Moments
      BY <1>1, <3>1 DEF LastSeen, Rows
    <3> QED BY <1>1, <2>1, <3>1, <3>2 DEF RegisteredRow, Rows
  <2>2. CASE doc.serial \notin Registered
    BY <1>1, <2>2 DEF RegisteredRow, Rows
  <2> QED BY <2>1, <2>2
<1>3. /\ Registered' = Registered \cup {doc.serial}
      /\ machines' = [s \in Registered' |-> IF s = doc.serial THEN row ELSE machines[s]]
  BY DEF RegisterDocument, Saved, Registered
<1>4. machines' \in [Registered' -> Rows]
  BY <1>2, <1>3 DEF TypeOK
<1>5. /\ DOMAIN snapshots' = DOMAIN snapshots \cup {doc}
      /\ snapshots' = [d \in DOMAIN snapshots' |-> IF d = doc THEN now ELSE snapshots[d]]
  BY DEF RegisterDocument, Confirmed, Saved
<1>6. snapshots' \in [DOMAIN snapshots' -> 0 .. MaxTime]
  BY <1>1, <1>5 DEF TypeOK
<1>7. heard' \in [Serials -> Moments]
  BY <1>1 DEF RegisterDocument, Hears, TypeOK
<1> QED
  BY <1>1, <1>3, <1>4, <1>5, <1>6, <1>7 DEF RegisterDocument, TypeOK

(* A status rewrites the row of a registered machine. *)
LEMMA StatusType ==
    ASSUME TypeOK, NEW s \in Serials, NEW p \in Statuses, NEW retained \in BOOLEAN,
           Status(s, p, retained)
    PROVE  TypeOK'
<1> DEFINE row == StatusRow(s, p, retained)
<1>1. /\ p.online \in BOOLEAN
      /\ p.boot_id \in Boots \cup {NoBoot, Absent}
      /\ p.uptime \in Nat \cup {Absent}
      /\ now \in Moments /\ now \in 0 .. MaxTime
  BY RegistryAssumption DEF TypeOK, Moments, Never
<1>2. s \in Registered /\ machines[s] \in Rows
  BY DEF Status, TypeOK
<1>3. LastSeen(s, retained) \in Moments
  BY <1>1, <1>2 DEF LastSeen, Rows
<1>4. (IF p.boot_id = Absent THEN machines[s].boot_id ELSE p.boot_id) \in Boots \cup {NoBoot}
  BY <1>1, <1>2 DEF Rows
<1>5. (IF p.uptime = Absent \/ retained THEN machines[s].booted_at ELSE now - p.uptime)
         \in Int \cup {Absent}
  BY <1>1, <1>2 DEF Rows
<1>6. row \in Rows
  BY <1>1, <1>2, <1>3, <1>4, <1>5 DEF StatusRow, Rows
<1>7. /\ Registered' = Registered
      /\ machines' = [m \in Registered |-> IF m = s THEN row ELSE machines[m]]
  BY <1>2 DEF Status, Saved, Registered
<1>8. machines' \in [Registered' -> Rows]
  BY <1>6, <1>7 DEF TypeOK
<1>9. heard' \in [Serials -> Moments]
  BY <1>1 DEF Status, Hears, TypeOK
<1> QED
  BY <1>7, <1>8, <1>9 DEF Status, TypeOK

(* An event adds a row to the timeline. *)
LEMMA EventType ==
    ASSUME TypeOK, NEW s \in Serials, NEW e \in Checks, BootEvent(s, e)
    PROVE  TypeOK'
<1>1. [serial |-> s, boot |-> e.boot, stage |-> e.stage, result |-> e.result] \in EventRow
  BY RegistryAssumption DEF EventRow
<1>2. events' \in Seq(EventRow)
  BY <1>1 DEF BootEvent, TypeOK, EventRow
<1>3. heard' \in [Serials -> Moments]
  BY RegistryAssumption DEF BootEvent, Hears, TypeOK, Moments, Never
<1> QED
  BY <1>2, <1>3 DEF BootEvent, TypeOK, EventRow, Registered

(* Every step keeps the type invariant. *)
LEMMA NextType == TypeOK /\ [Next]_vars => TypeOK'
<1> SUFFICES ASSUME TypeOK, [Next]_vars PROVE TypeOK'
  OBVIOUS
<1>1. CASE \E doc \in Docs, retained \in BOOLEAN : RegisterDocument(doc, retained)
  BY <1>1, RegisterType
<1>2. CASE \E s \in Serials, p \in Statuses, retained \in BOOLEAN : Status(s, p, retained)
  BY <1>2, StatusType
<1>3. CASE \E s \in Serials, e \in Checks : BootEvent(s, e)
  BY <1>3, EventType
<1>4. CASE Tick
  BY <1>4, RegistryAssumption DEF Tick, TypeOK, Registered
<1>5. CASE UNCHANGED vars
  BY <1>5 DEF vars, TypeOK, Registered
<1> QED
  BY <1>1, <1>2, <1>3, <1>4, <1>5 DEF Next

(* The tables stay of their types. *)
THEOREM TypeCorrect == Spec => []TypeOK
<1> QED
  BY InitType, NextType, PTL DEF Spec

----------------------------------------------------------------------------
(* The inductive form of OfferedWasHeard.  A machine new to the site can be stamped as seen  *)
(* by a stored copy, so last_seen <= heard is not an invariant; but an offered machine has   *)
(* an event, only registered machines have events, and an event is the machine's own word.   *)
HeardInv ==
    /\ \A s \in Registered : machines[s].last_seen <= now
    /\ \A i \in DOMAIN events : events[i].serial \in Registered
    /\ \A i \in DOMAIN events : machines[events[i].serial].last_seen <= heard[events[i].serial]

(* A registration: a machine with events is a known one, seen now only if it spoke now. *)
LEMMA RegisterHeard ==
    ASSUME TypeOK, HeardInv, NEW doc \in Docs, NEW retained \in BOOLEAN,
           RegisterDocument(doc, retained)
    PROVE  HeardInv'
<1> DEFINE d == doc.serial
           row == RegisteredRow(doc, retained)
<1>1. /\ Registered' = Registered \cup {d}
      /\ machines'[d] = row
      /\ \A s \in Registered : s # d => machines'[s] = machines[s]
      /\ now' = now /\ events' = events /\ d \in Serials
  BY RegistryAssumption DEF RegisterDocument, Saved, Registered
<1>2. now \in Int /\ now <= now
  BY RegistryAssumption DEF TypeOK
<1>3. row.last_seen = IF d \in Registered THEN LastSeen(d, retained) ELSE now
  <2>1. CASE d \in Registered
    <3>1. machines[d] \in Rows
      BY <2>1 DEF TypeOK
    <3> QED BY <2>1, <3>1 DEF RegisteredRow, Rows
  <2>2. CASE d \notin Registered
    BY <2>2 DEF RegisteredRow
  <2> QED BY <2>1, <2>2
<1>4. row.last_seen <= now
  BY <1>2, <1>3 DEF LastSeen, HeardInv
<1>5. heard' = IF retained THEN heard ELSE [heard EXCEPT ![d] = now]
  BY DEF RegisterDocument, Hears
<1>6. \A s \in Registered' : machines'[s].last_seen <= now'
  BY <1>1, <1>4 DEF HeardInv
<1>7. ASSUME NEW i \in DOMAIN events
      PROVE  machines'[events[i].serial].last_seen <= heard'[events[i].serial]
  <2> DEFINE s == events[i].serial
  <2>1. s \in Registered /\ machines[s].last_seen <= heard[s] /\ s \in Serials
    BY DEF HeardInv, TypeOK
  <2>2. CASE s # d
    BY <1>1, <1>5, <2>1, <2>2 DEF TypeOK
  <2>3. CASE s = d /\ retained
    <3>1. row.last_seen = machines[d].last_seen
      BY <1>3, <2>1, <2>3 DEF LastSeen
    <3> QED BY <1>1, <1>5, <2>1, <2>3, <3>1
  <2>4. CASE s = d /\ ~retained
    <3>1. heard'[d] = now
      BY <1>1, <1>5, <2>4 DEF TypeOK
    <3> QED BY <1>1, <1>4, <2>4, <3>1
  <2> QED BY <2>2, <2>3, <2>4
<1> QED BY <1>1, <1>6, <1>7 DEF HeardInv

(* A status: last_seen moves only with the word that moves heard. *)
LEMMA StatusHeard ==
    ASSUME TypeOK, HeardInv, NEW m \in Serials, NEW p \in Statuses, NEW retained \in BOOLEAN,
           Status(m, p, retained)
    PROVE  HeardInv'
<1> DEFINE row == StatusRow(m, p, retained)
<1>1. /\ m \in Registered
      /\ Registered' = Registered
      /\ machines'[m] = row
      /\ \A s \in Registered : s # m => machines'[s] = machines[s]
      /\ now' = now /\ events' = events
  BY DEF Status, Saved, Registered
<1>2. now \in Int /\ now <= now
  BY RegistryAssumption DEF TypeOK
<1>3. row.last_seen = LastSeen(m, retained)
  <2>1. machines[m] \in Rows
    BY <1>1 DEF TypeOK
  <2> QED BY <2>1 DEF StatusRow, Rows
<1>4. row.last_seen <= now
  BY <1>1, <1>2, <1>3 DEF LastSeen, HeardInv
<1>5. heard' = IF retained THEN heard ELSE [heard EXCEPT ![m] = now]
  BY DEF Status, Hears
<1>6. ASSUME NEW i \in DOMAIN events
      PROVE  machines'[events[i].serial].last_seen <= heard'[events[i].serial]
  <2> DEFINE s == events[i].serial
  <2>1. s \in Registered /\ machines[s].last_seen <= heard[s] /\ s \in Serials
    BY DEF HeardInv, TypeOK
  <2>2. CASE s # m
    BY <1>1, <1>5, <2>1, <2>2 DEF TypeOK
  <2>3. CASE s = m /\ retained
    BY <1>1, <1>3, <1>5, <2>1, <2>3 DEF LastSeen
  <2>4. CASE s = m /\ ~retained
    <3>1. heard'[m] = now
      BY <1>5, <2>4 DEF TypeOK
    <3> QED BY <1>1, <1>4, <2>4, <3>1
  <2> QED BY <2>2, <2>3, <2>4
<1> QED BY <1>1, <1>4, <1>6 DEF HeardInv

(* An event: the machine it is of is heard now. *)
LEMMA EventHeard ==
    ASSUME TypeOK, HeardInv, NEW m \in Serials, NEW e \in Checks, BootEvent(m, e)
    PROVE  HeardInv'
<1> DEFINE new == [serial |-> m, boot |-> e.boot, stage |-> e.stage, result |-> e.result]
<1>1. /\ m \in Registered
      /\ events' = Append(events, new)
      /\ heard' = [heard EXCEPT ![m] = now]
      /\ now' = now /\ machines' = machines
      /\ now \in Int
  BY RegistryAssumption DEF BootEvent, Hears, TypeOK
<1>2. \A i \in DOMAIN events' : events'[i] = new \/ (i \in DOMAIN events /\ events'[i] = events[i])
  BY <1>1 DEF TypeOK
<1>3. \A i \in DOMAIN events' : events'[i].serial \in Registered
  BY <1>1, <1>2 DEF HeardInv
<1>4. ASSUME NEW i \in DOMAIN events'
      PROVE  machines[events'[i].serial].last_seen <= heard'[events'[i].serial]
  <2> DEFINE s == events'[i].serial
  <2>1. CASE s = m
    <3>1. heard'[m] = now
      BY <1>1 DEF TypeOK
    <3> QED BY <1>1, <2>1, <3>1 DEF HeardInv
  <2>2. CASE s # m
    <3>1. i \in DOMAIN events /\ events'[i] = events[i]
      BY <1>2, <2>2
    <3>2. heard'[s] = heard[s]
      BY <1>1, <1>3, <2>2 DEF TypeOK
    <3> QED BY <3>1, <3>2 DEF HeardInv
  <2> QED BY <2>1, <2>2
<1> QED BY <1>1, <1>3, <1>4 DEF HeardInv, Registered

(* What is offered has an event, so its last_seen is its own word. *)
LEMMA HeardGivesOffered == TypeOK /\ HeardInv => OfferedWasHeard
<1> SUFFICES ASSUME TypeOK, HeardInv, NEW s \in Offered
             PROVE  heard[s] >= now - CheckedInWithin
  BY DEF OfferedWasHeard
<1>1. s \in checked_in /\ fpga_state(s) = "pass"
  BY DEF Offered, offered_hosts, is_offered
<1>2. PICK i \in DOMAIN events : events[i].serial = s
  BY <1>1 DEF fpga_state, ChecksOf
<1>3. s \in Registered /\ machines[s].last_seen >= now - CheckedInWithin
  BY <1>1 DEF checked_in
<1>4. machines[s].last_seen <= heard[s]
  BY <1>2 DEF HeardInv
<1>5. /\ machines[s].last_seen \in Int /\ heard[s] \in Int /\ now \in Int
      /\ CheckedInWithin \in Int
  BY <1>3, RegistryAssumption DEF TypeOK, Rows, Moments, Never
<1> QED BY <1>3, <1>4, <1>5

(* Every step keeps what the registry was told by the machines themselves. *)
LEMMA NextHeard == TypeOK /\ HeardInv /\ [Next]_vars => HeardInv'
<1> SUFFICES ASSUME TypeOK, HeardInv, [Next]_vars PROVE HeardInv'
  OBVIOUS
<1>1. CASE \E doc \in Docs, retained \in BOOLEAN : RegisterDocument(doc, retained)
  BY <1>1, RegisterHeard
<1>2. CASE \E s \in Serials, p \in Statuses, retained \in BOOLEAN : Status(s, p, retained)
  BY <1>2, StatusHeard
<1>3. CASE \E s \in Serials, e \in Checks : BootEvent(s, e)
  BY <1>3, EventHeard
<1>4. CASE Tick
  <2>1. \A s \in Registered : machines[s].last_seen \in Int /\ now \in Int
    BY RegistryAssumption DEF TypeOK, Rows, Moments, Never
  <2> QED BY <1>4, <2>1 DEF Tick, HeardInv, Registered
<1>5. CASE UNCHANGED vars
  BY <1>5 DEF vars, HeardInv, Registered
<1> QED
  BY <1>1, <1>2, <1>3, <1>4, <1>5 DEF Next

LEMMA InitHeard == Init => HeardInv
  BY DEF Init, HeardInv, Registered

(* No offered board is one whose Pi was not itself heard within CHECKED_IN_WITHIN, whatever  *)
(* stored copies the broker replays and in whatever order the messages come.                 *)
THEOREM NoReplayRevives == Spec => []OfferedWasHeard
<1> QED
  BY InitHeard, NextHeard, HeardGivesOffered, TypeCorrect, PTL DEF Spec

----------------------------------------------------------------------------
(* LatestIsLastConfirmed is inductive once no snapshot is confirmed in the future. *)
LatestInv ==
    /\ LatestIsLastConfirmed
    /\ \A doc \in DOMAIN snapshots : snapshots[doc] <= now

(* A registration confirms its document now and makes it its machine's latest. *)
LEMMA RegisterLatest ==
    ASSUME TypeOK, LatestInv, NEW doc \in Docs, NEW retained \in BOOLEAN,
           RegisterDocument(doc, retained)
    PROVE  LatestInv'
<1> DEFINE d == doc.serial
           row == RegisteredRow(doc, retained)
<1>1. /\ Registered' = Registered \cup {d}
      /\ machines'[d] = row
      /\ \A s \in Registered : s # d => machines'[s] = machines[s]
      /\ now' = now
  BY DEF RegisterDocument, Saved, Registered
<1>2. /\ DOMAIN snapshots' = DOMAIN snapshots \cup {doc}
      /\ snapshots'[doc] = now
      /\ \A c \in DOMAIN snapshots : c # doc => snapshots'[c] = snapshots[c]
  BY DEF RegisterDocument, Confirmed, Saved
<1>3. row.latest = doc
  <2>1. CASE d \in Registered
    <3>1. machines[d] \in Rows
      BY <2>1 DEF TypeOK
    <3> QED BY <2>1, <3>1 DEF RegisteredRow, Rows
  <2>2. CASE d \notin Registered
    BY <2>2 DEF RegisteredRow
  <2> QED BY <2>1, <2>2
<1>4. now \in Int /\ \A c \in DOMAIN snapshots : snapshots[c] \in Int
  BY RegistryAssumption DEF TypeOK
<1>5. \A c \in DOMAIN snapshots' : snapshots'[c] <= now'
  BY <1>1, <1>2, <1>4 DEF LatestInv
<1>6. ASSUME NEW s \in Registered'
      PROVE  /\ machines'[s].latest \in DOMAIN snapshots'
             /\ machines'[s].latest.serial = s
             /\ \A c \in DOMAIN snapshots' :
                   c.serial = s => snapshots'[c] <= snapshots'[machines'[s].latest]
  <2>1. CASE s = d
    BY <1>1, <1>2, <1>3, <1>5, <2>1
  <2>2. CASE s # d
    <3>1. s \in Registered /\ machines'[s] = machines[s]
      BY <1>1, <2>2
    <3>2. /\ machines[s].latest \in DOMAIN snapshots
          /\ machines[s].latest.serial = s
          /\ \A c \in DOMAIN snapshots : c.serial = s => snapshots[c] <= snapshots[machines[s].latest]
      BY <3>1 DEF LatestInv, LatestIsLastConfirmed
    <3>3. \A c \in DOMAIN snapshots' : c.serial = s => c \in DOMAIN snapshots /\ c # doc
      BY <1>2, <2>2
    <3> QED BY <1>2, <3>1, <3>2, <3>3
  <2> QED BY <2>1, <2>2
<1> QED BY <1>5, <1>6 DEF LatestInv, LatestIsLastConfirmed

(* A status writes no snapshot and keeps its machine's latest. *)
LEMMA StatusLatest ==
    ASSUME TypeOK, LatestInv, NEW m \in Serials, NEW p \in Statuses, NEW retained \in BOOLEAN,
           Status(m, p, retained)
    PROVE  LatestInv'
<1>1. /\ m \in Registered
      /\ Registered' = Registered
      /\ machines'[m] = StatusRow(m, p, retained)
      /\ \A s \in Registered : s # m => machines'[s] = machines[s]
      /\ now' = now /\ snapshots' = snapshots
  BY DEF Status, Saved, Registered
<1>2. StatusRow(m, p, retained).latest = machines[m].latest
  <2>1. machines[m] \in Rows
    BY <1>1 DEF TypeOK
  <2> QED BY <2>1 DEF StatusRow, Rows
<1>3. \A s \in Registered : machines'[s].latest = machines[s].latest
  BY <1>1, <1>2
<1> QED BY <1>1, <1>3 DEF LatestInv, LatestIsLastConfirmed

(* The latest snapshot of a machine is its own and is the one last confirmed, in every      *)
(* state: a flap back to an older document moves the latest back with it.                   *)
THEOREM LatestFollowsConfirmation == Spec => []LatestIsLastConfirmed
<1>1. Init => LatestInv
  BY DEF Init, LatestInv, LatestIsLastConfirmed, Registered
<1>2. TypeOK /\ LatestInv /\ [Next]_vars => LatestInv'
  <2> SUFFICES ASSUME TypeOK, LatestInv, [Next]_vars PROVE LatestInv'
    OBVIOUS
  <2>1. CASE \E doc \in Docs, retained \in BOOLEAN : RegisterDocument(doc, retained)
    BY <2>1, RegisterLatest
  <2>2. CASE \E s \in Serials, p \in Statuses, retained \in BOOLEAN : Status(s, p, retained)
    BY <2>2, StatusLatest
  <2>3. CASE \E s \in Serials, e \in Checks : BootEvent(s, e)
    BY <2>3 DEF BootEvent, LatestInv, LatestIsLastConfirmed, Registered
  <2>4. CASE Tick
    <3>1. now \in Int /\ \A c \in DOMAIN snapshots : snapshots[c] \in Int
      BY RegistryAssumption DEF TypeOK
    <3> QED BY <2>4, <3>1 DEF Tick, LatestInv, LatestIsLastConfirmed, Registered
  <2>5. CASE UNCHANGED vars
    BY <2>5 DEF vars, LatestInv, LatestIsLastConfirmed, Registered
  <2> QED
    BY <2>1, <2>2, <2>3, <2>4, <2>5 DEF Next
<1>3. LatestInv => LatestIsLastConfirmed
  BY DEF LatestInv
<1> QED
  BY <1>1, <1>2, <1>3, TypeCorrect, PTL DEF Spec

----------------------------------------------------------------------------
(* Who speaks for a port, and who is missing: what a step does to the moments the rows were    *)
(* last seen.                                                                                 *)

LEMMA SeenTypes ==
  ASSUME TypeOK
  PROVE  /\ now \in Nat
         /\ \A s \in Registered : s \in Nat /\ machines[s].last_seen \in Int
  BY RegistryAssumption DEF TypeOK, Rows, Moments, Never

(* One step moves last_seen of one machine at most, and of one that was registered only when  *)
(* it was heard; nobody leaves the table.                                                     *)
LEMMA SeenSteps ==
  ASSUME TypeOK, [Next]_vars
  PROVE  /\ now <= now'
         /\ Registered \subseteq Registered'
         /\ \A s \in Registered : \/ machines'[s].last_seen = machines[s].last_seen
                                  \/ machines'[s].last_seen = now' /\ heard'[s] = now'
         /\ \E d : \A s \in Registered' \ {d} :
               s \in Registered /\ machines'[s].last_seen = machines[s].last_seen
<1> USE SeenTypes
<1>1. ASSUME NEW doc \in Docs, NEW retained \in BOOLEAN, RegisterDocument(doc, retained)
      PROVE  /\ now <= now'
             /\ Registered \subseteq Registered'
             /\ \A s \in Registered : \/ machines'[s].last_seen = machines[s].last_seen
                                      \/ machines'[s].last_seen = now' /\ heard'[s] = now'
             /\ \E d : \A s \in Registered' \ {d} :
                   s \in Registered /\ machines'[s].last_seen = machines[s].last_seen
  <2> DEFINE d == doc.serial
  <2>1. /\ Registered' = Registered \cup {d}
        /\ machines'[d] = RegisteredRow(doc, retained)
        /\ \A s \in Registered : s # d => machines'[s] = machines[s]
        /\ now' = now /\ d \in Serials
    BY <1>1, RegistryAssumption DEF RegisterDocument, Saved, Registered
  <2>2. d \in Registered => RegisteredRow(doc, retained).last_seen = LastSeen(d, retained)
    <3> HAVE d \in Registered
    <3>1. machines[d] \in Rows
      BY DEF TypeOK
    <3> QED
      BY <3>1 DEF RegisteredRow, Rows
  <2>3. ~retained => heard'[d] = now'
    BY <1>1, <2>1 DEF RegisterDocument, Hears, TypeOK
  <2>4. \A s \in Registered : \/ machines'[s].last_seen = machines[s].last_seen
                              \/ machines'[s].last_seen = now' /\ heard'[s] = now'
    BY <2>1, <2>2, <2>3 DEF LastSeen
  <2>5. \A s \in Registered' \ {d} : s \in Registered /\ machines'[s].last_seen = machines[s].last_seen
    BY <2>1
  <2> QED
    BY <2>1, <2>4, <2>5
<1>2. ASSUME NEW m \in Serials, NEW p \in Statuses, NEW retained \in BOOLEAN, Status(m, p, retained)
      PROVE  /\ now <= now'
             /\ Registered \subseteq Registered'
             /\ \A s \in Registered : \/ machines'[s].last_seen = machines[s].last_seen
                                      \/ machines'[s].last_seen = now' /\ heard'[s] = now'
             /\ \E d : \A s \in Registered' \ {d} :
                   s \in Registered /\ machines'[s].last_seen = machines[s].last_seen
  <2>1. /\ m \in Registered /\ Registered' = Registered
        /\ machines'[m] = StatusRow(m, p, retained)
        /\ \A s \in Registered : s # m => machines'[s] = machines[s]
        /\ now' = now
    BY <1>2 DEF Status, Saved, Registered
  <2>2. StatusRow(m, p, retained).last_seen = LastSeen(m, retained)
    <3>1. machines[m] \in Rows
      BY <2>1 DEF TypeOK
    <3> QED
      BY <3>1 DEF StatusRow, Rows
  <2>3. ~retained => heard'[m] = now'
    BY <1>2, <2>1 DEF Status, Hears, TypeOK
  <2>4. \A s \in Registered : \/ machines'[s].last_seen = machines[s].last_seen
                              \/ machines'[s].last_seen = now' /\ heard'[s] = now'
    BY <2>1, <2>2, <2>3 DEF LastSeen
  <2> QED
    BY <2>1, <2>4
<1>3. CASE (\E s \in Serials, e \in Checks : BootEvent(s, e)) \/ Tick \/ UNCHANGED vars
  <2>1. machines' = machines /\ now <= now'
    <3>1. now <= now /\ now <= now + 1
      OBVIOUS
    <3> QED
      BY <1>3, <3>1 DEF BootEvent, Tick, vars
  <2> QED
    BY <2>1 DEF Registered
<1> QED
  BY <1>1, <1>2, <1>3 DEF Next

----------------------------------------------------------------------------
(* A missing machine stays missing until it is heard *)

LEMMA MissingStep ==
  ASSUME TypeOK, TypeOK', [Next]_vars, NEW s \in Registered,
         HostCondition(s) = "missing", heard'[s] # now'
  PROVE  HostCondition(s)' = "missing"
<1>1. s \notin checked_in /\ now - machines[s].last_seen > MissingAfter
  BY DEF HostCondition, condition
<1>2. machines'[s].last_seen = machines[s].last_seen /\ s \in Registered' /\ now <= now'
  BY SeenSteps
<1>3. /\ now \in Nat /\ now' \in Nat /\ machines[s].last_seen \in Int
      /\ CheckedInWithin \in Nat /\ MissingAfter \in Nat /\ CheckedInWithin <= MissingAfter
  BY SeenTypes, RegistryAssumption DEF TypeOK
<1>4. now' - machines'[s].last_seen > MissingAfter
  BY <1>1, <1>2, <1>3
<1>5. ~(machines'[s].last_seen >= now' - CheckedInWithin)
  BY <1>2, <1>3, <1>4
<1>6. s \notin checked_in'
  BY <1>5 DEF checked_in
<1> QED
  BY <1>4, <1>6 DEF HostCondition, condition, is_offered

(* For every window, no stored copy, event or passing of time ends a machine's being missing: *)
(* only its own live message does (condition, status, register_document).                    *)
THEOREM OnlyTheHeardReturn == Spec => MissingUntilHeard
<1>1. TypeOK /\ TypeOK' /\ [Next]_vars =>
        [\A s \in Registered :
            (HostCondition(s) = "missing" /\ HostCondition(s)' # "missing") => heard'[s] = now']_vars
  BY MissingStep
<1> QED
  BY <1>1, TypeCorrect, PTL DEF Spec, MissingUntilHeard

----------------------------------------------------------------------------
(* The port passes to the machine heard *)

(* SpeaksBefore orders the registered machines totally. *)
LEMMA SpeaksOrder ==
  ASSUME TypeOK
  PROVE  /\ \A s, t \in Registered : s # t => SpeaksBefore(s, t) \/ SpeaksBefore(t, s)
         /\ \A s, t \in Registered : ~(SpeaksBefore(s, t) /\ SpeaksBefore(t, s))
         /\ \A s, t, u \in Registered : SpeaksBefore(s, t) /\ SpeaksBefore(t, u) => SpeaksBefore(s, u)
  BY SeenTypes DEF SpeaksBefore

(* Every set of machines has one that speaks before the others: the serials are not assumed   *)
(* finite, but a step changes one row only.                                                   *)
FirstInv ==
    \A S \in SUBSET Registered :
        S # {} => \E m \in S : \A t \in S \ {m} : SpeaksBefore(m, t)

LEMMA NextFirst ==
  ASSUME TypeOK, TypeOK', FirstInv, [Next]_vars
  PROVE  FirstInv'
<1> SUFFICES ASSUME NEW S \in SUBSET Registered', S # {}
             PROVE  \E m \in S : \A t \in S \ {m} : SpeaksBefore(m, t)'
  BY DEF FirstInv
<1>1. PICK d : \A s \in Registered' \ {d} :
                  s \in Registered /\ machines'[s].last_seen = machines[s].last_seen
  BY SeenSteps
<1>2. \A s, t \in S \ {d} : SpeaksBefore(s, t) => SpeaksBefore(s, t)'
  BY <1>1 DEF SpeaksBefore
<1>3. CASE S \ {d} = {}
  BY <1>3
<1>4. CASE S \ {d} # {}
  <2>1. PICK m \in S \ {d} : \A t \in (S \ {d}) \ {m} : SpeaksBefore(m, t)
    BY <1>1, <1>4 DEF FirstInv
  <2>2. \A t \in (S \ {d}) \ {m} : SpeaksBefore(m, t)'
    BY <1>2, <2>1
  <2>3. /\ \A s, t \in S : s # t => SpeaksBefore(s, t)' \/ SpeaksBefore(t, s)'
        /\ \A s, t, u \in S : SpeaksBefore(s, t)' /\ SpeaksBefore(t, u)' => SpeaksBefore(s, u)'
    <3>1. \A s \in S : s \in Nat /\ machines'[s].last_seen \in Int
      BY RegistryAssumption DEF TypeOK, Rows, Moments, Never
    <3> QED
      BY <3>1 DEF SpeaksBefore
  <2>4. CASE d \notin S
    BY <2>2, <2>4
  <2>5. CASE d \in S /\ SpeaksBefore(m, d)'
    BY <2>2, <2>5
  <2>6. CASE d \in S /\ SpeaksBefore(d, m)'
    <3>1. \A t \in S \ {d} : SpeaksBefore(d, t)'
      BY <2>2, <2>3, <2>6
    <3> QED
      BY <2>6, <3>1
  <2> QED
    BY <2>3, <2>4, <2>5, <2>6
<1> QED
  BY <1>3, <1>4

(* The machine machine_hosts gives a hostname is on it and speaks before the others there. *)
HolderInv ==
    \A h \in DOMAIN machine_hosts :
        /\ machine_hosts[h] \in On(h)
        /\ \A t \in On(h) \ {machine_hosts[h]} : SpeaksBefore(machine_hosts[h], t)

LEMMA FirstGivesHolder == FirstInv => HolderInv
<1> SUFFICES ASSUME FirstInv, NEW h \in DOMAIN machine_hosts
             PROVE  /\ machine_hosts[h] \in On(h)
                    /\ \A t \in On(h) \ {machine_hosts[h]} : SpeaksBefore(machine_hosts[h], t)
  BY DEF HolderInv
<1>1. On(h) # {} /\ On(h) \in SUBSET Registered
  BY DEF machine_hosts, On
<1>2. \E s \in On(h) : \A t \in On(h) \ {s} : SpeaksBefore(s, t)
  BY <1>1 DEF FirstInv
<1>3. machine_hosts[h] = CHOOSE s \in On(h) : \A t \in On(h) \ {s} : SpeaksBefore(s, t)
  BY DEF machine_hosts
<1> QED
  BY <1>2, <1>3

LEMMA PortStep ==
  ASSUME TypeOK, TypeOK', HeardInv, HolderInv, HolderInv', [Next]_vars,
         NEW h \in DOMAIN machine_hosts \cap DOMAIN machine_hosts',
         NEW holder, holder = machine_hosts[h], NEW next, next = machine_hosts'[h],
         holder # next, next \in On(h), holder \in On(h)'
  PROVE  heard'[next] = now'
<1>1. SpeaksBefore(holder, next)
  BY DEF HolderInv
<1>2. SpeaksBefore(next, holder)'
  BY DEF HolderInv
<1>3. holder \in Registered /\ next \in Registered
  BY DEF HolderInv, On
<1>4. /\ machines[holder].last_seen \in Int /\ machines[next].last_seen \in Int
      /\ holder \in Nat /\ next \in Nat /\ now \in Nat /\ now' \in Nat
      /\ machines[holder].last_seen <= now /\ machines[next].last_seen <= now /\ now <= now'
  BY <1>3, SeenTypes, SeenSteps, RegistryAssumption DEF HeardInv, TypeOK
<1>5. SUFFICES ASSUME machines'[next].last_seen = machines[next].last_seen
               PROVE  FALSE
  BY <1>3, SeenSteps
<1>6. machines'[holder].last_seen \in {machines[holder].last_seen, now'}
  BY <1>3, SeenSteps
<1>7. \/ machines'[next].last_seen > machines'[holder].last_seen
      \/ machines'[next].last_seen = machines'[holder].last_seen /\ next < holder
  BY <1>2 DEF SpeaksBefore
<1> QED
  BY <1>1, <1>4, <1>5, <1>6, <1>7 DEF SpeaksBefore

(* However many machines are registered on one hostname, the port passes from one to another   *)
(* of them only with a live message of the other: stored copies, in any order, leave it where *)
(* it is (machine_hosts, register_document, status).                                          *)
THEOREM PortGoesToTheHeard == Spec => PortPassesToTheHeard
<1>1. Init => FirstInv
  BY DEF Init, FirstInv, Registered
<1>2. TypeOK /\ TypeOK' /\ FirstInv /\ [Next]_vars => FirstInv'
  BY NextFirst
<1>3. TypeOK /\ TypeOK' /\ HeardInv /\ HolderInv /\ HolderInv' /\ [Next]_vars =>
        [\A h \in DOMAIN machine_hosts \cap DOMAIN machine_hosts' :
            LET holder == machine_hosts[h]
                next == machine_hosts'[h]
            IN  (holder # next /\ next \in On(h) /\ holder \in On(h)') => heard'[next] = now']_vars
  BY PortStep
<1> QED
  BY <1>1, <1>2, <1>3, FirstGivesHolder, InitHeard, NextHeard, TypeCorrect, PTL
     DEF Spec, PortPassesToTheHeard

----------------------------------------------------------------------------
(* Every page calls the same machines good *)

(* The three loops over the check events give one state, to which the setup port's rule may be applied twice. *)
LEMMA OneRule ==
  ASSUME NEW s
  PROVE  /\ fpga_report(s) = fpga_state(s)
         /\ fpga_state(s) = "pass" <=> HostState(s) = "pass"
         /\ fpga_state(s) = "pass" <=> setup_port_state(fpga_report(s), machines[s].hostname) = "pass"
<1>1. ReportsOf(s) = ChecksOf(s) /\ HostChecks(s) = ChecksOf(s)
  BY DEF ReportsOf, HostChecks, ChecksOf
<1>2. fpga_report(s) = fpga_state(s)
  BY <1>1 DEF fpga_report, fpga_state, StateOf
<1>4. fpga_state(s) = "pass" => ~on_setup_port(machines[s].hostname)
  BY DEF fpga_state, setup_port_state
<1> QED
  BY <1>1, <1>2, <1>4 DEF HostState, fpga_state, StateOf, setup_port_state

(* The three loops over the check events, and the two uses of the setup port's rule, decide   *)
(* alike in every state of the tables (fpga_states, reporting_machines, hosts).               *)
THEOREM EveryPageAgrees == Spec => []PagesAgree
<1>1. PagesAgree
  <2>1. ReportingOffered = Offered
    BY OneRule DEF ReportingOffered, Offered, offered_hosts, is_offered
  <2>2. ASSUME NEW h \in DOMAIN machine_hosts
        PROVE  h \in offered_hosts <=> HostCondition(machine_hosts[h]) = "operational"
    BY OneRule DEF offered_hosts, HostCondition, condition, is_offered
  <2> QED
    BY <2>1, <2>2 DEF PagesAgree
<1> QED
  BY <1>1, PTL
=============================================================================
