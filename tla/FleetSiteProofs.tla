--------------------------- MODULE FleetSiteProofs ---------------------------
(***************************************************************************)
(* Proofs about the site at work (FleetSite), for every set of Pis, ports, *)
(* payloads and bounds: what it does to the tables is what FleetRegistry   *)
(* allows, no lost, late or replayed message offers a board that did not   *)
(* pass its check in the boot the registry has its Pi in, and once nothing *)
(* is on its way the registry holds what each Pi said last.                *)
(***************************************************************************)
EXTENDS FleetSite, FleetRegistryProofs, FiniteSetTheorems

(* What can be on its way to the consumer. *)
Registrations == [kind : {"registration"}, serial : Serials, body : Docs, retained : BOOLEAN]
StatusMessages == [kind : {"status"}, serial : Serials, body : Statuses, retained : BOOLEAN]
EventMessages == [kind : {"event"}, serial : Serials, body : Checks, retained : {FALSE}]
Messages == Registrations \cup StatusMessages \cup EventMessages

Pis == [on : BOOLEAN, host : Hosts \cup {NoHost}, boot : 0 .. MaxBoots, began : 0 .. MaxTime,
        announced : BOOLEAN, check : {"", "verifying"} \cup Results, checks : Nat]

Stored == [doc : Docs \cup {Absent}, status : Statuses \cup {Absent}]

(* The Pis and the broker only ever hold and send what the registry's payloads can be: a Pi  *)
(* that is on has a port and a boot, and did not start in the future.                        *)
SiteType ==
    /\ now \in 0 .. MaxTime
    /\ pis \in [Serials -> Pis]
    /\ \A s \in Serials : pis[s].on => /\ pis[s].host \in Hosts
                                       /\ pis[s].boot \in Boots
                                       /\ pis[s].began <= now
    /\ stored \in [Serials -> Stored]
    /\ queue \in Seq(Messages)

----------------------------------------------------------------------------
(* A nonempty set of positions of a finite sequence has a last one. *)
LEMMA NewestIsOne ==
    ASSUME NEW n \in Nat, NEW ids \in SUBSET (1 .. n), ids # {}
    PROVE  Newest(ids) \in ids
<1> DEFINE less == OpToRel(<, Nat)
           back == {n - i : i \in ids}
<1>1. back \subseteq Nat /\ back # {}
  <2>1. \A i \in ids : n - i \in Nat
    OBVIOUS
  <2> QED BY <2>1
<1>2. IsWellFoundedOn(less, Nat)
  BY NatLessThanWellFounded
<1>3. PICK k \in back : \A l \in back : ~(<<l, k>> \in less)
  <2> HIDE DEF less, back
  <2> QED BY <1>1, <1>2, WFMin
<1>4. PICK i \in ids : k = n - i
  OBVIOUS
<1>5. ASSUME NEW j \in ids PROVE j <= i
  <2>1. ~(<<n - j, n - i>> \in less)
    BY <1>3, <1>4
  <2>2. ~(n - j < n - i)
    BY <2>1 DEF OpToRel
  <2> QED BY <2>2
<1> QED BY <1>5 DEF Newest

(* The stored copies are finitely many, and each is a message of its kind. *)
LEMMA CopiesType ==
    ASSUME SiteAssumption, SiteType
    PROVE  /\ Copies \subseteq Registrations \cup StatusMessages
           /\ IsFiniteSet(Copies) /\ Cardinality(Copies) \in Nat
<1> DEFINE R == {t \in Serials : stored[t].doc # Absent}
           S == {t \in Serials : stored[t].status # Absent}
           copyR == [s \in R |-> Message("registration", s, stored[s].doc, TRUE)]
           copyS == [s \in S |-> Message("status", s, stored[s].status, TRUE)]
           regs == {Message("registration", s, stored[s].doc, TRUE) : s \in R}
           stats == {Message("status", s, stored[s].status, TRUE) : s \in S}
<1>1. regs \subseteq Registrations
  <2> SUFFICES ASSUME NEW s \in R
               PROVE  Message("registration", s, stored[s].doc, TRUE) \in Registrations
    OBVIOUS
  <2>1. s \in Serials /\ stored[s].doc \in Docs
    BY DEF SiteType, Stored
  <2> QED BY <2>1 DEF Message, Registrations
<1>2. stats \subseteq StatusMessages
  <2> SUFFICES ASSUME NEW s \in S
               PROVE  Message("status", s, stored[s].status, TRUE) \in StatusMessages
    OBVIOUS
  <2>1. s \in Serials /\ stored[s].status \in Statuses
    BY DEF SiteType, Stored
  <2> QED BY <2>1 DEF Message, StatusMessages
<1>3. IsFiniteSet(R) /\ IsFiniteSet(S)
  BY FS_Subset DEF SiteAssumption
<1>4. copyR \in Surjection(R, regs)
  BY DEF Surjection
<1>5. copyS \in Surjection(S, stats)
  BY DEF Surjection
<1>6. IsFiniteSet(regs) /\ IsFiniteSet(stats)
  <2> HIDE DEF R, S, copyR, copyS, regs, stats
  <2> QED BY <1>3, <1>4, <1>5, FS_Surjection
<1>7. IsFiniteSet(regs \cup stats)
  <2> HIDE DEF regs, stats
  <2> QED BY <1>6, FS_Union
<1>8. Copies = regs \cup stats
  BY DEF Copies
<1> QED
  <2> HIDE DEF R, S, copyR, copyS, regs, stats
  <2> QED BY <1>1, <1>2, <1>7, <1>8, FS_CardinalityType

(* on_connect's stored copies come as a sequence of such messages. *)
LEMMA StartsType ==
    ASSUME SiteAssumption, SiteType, ConsumerStarts
    PROVE  queue' \in Seq(Registrations \cup StatusMessages)
<1>1. queue' \in [1 .. Cardinality(Copies) -> Copies]
  BY DEF ConsumerStarts, Orders
<1>2. Cardinality(Copies) \in Nat /\ Copies \subseteq Registrations \cup StatusMessages
  BY CopiesType
<1>3. queue' \in Seq(Copies)
  BY <1>1, <1>2
<1>4. queue' \in [1 .. Cardinality(Copies) -> Registrations \cup StatusMessages]
  BY <1>1, <1>2
<1> QED BY <1>2, <1>4

(* A message the broker forwards joins the ones on their way, or is lost. *)
LEMMA ForwardType ==
    ASSUME SiteType, NEW kind, NEW s, NEW body,
           Message(kind, s, body, FALSE) \in Messages, Forward(kind, s, body)
    PROVE  queue' \in Seq(Messages)
<1>1. queue \in Seq(Messages)
  BY DEF SiteType
<1>2. queue' = queue \/ queue' = Append(queue, Message(kind, s, body, FALSE))
  BY DEF Forward
<1>3. ASSUME NEW m \in Messages, queue' = Append(queue, m)
      PROVE  queue' \in Seq(Messages)
  BY <1>1, <1>3
<1> QED BY <1>1, <1>2, <1>3

LEMMA SiteInitType == SiteInit => SiteType
<1> SUFFICES ASSUME SiteInit PROVE SiteType
  OBVIOUS
<1> DEFINE pi == [on |-> FALSE, host |-> NoHost, boot |-> NoBoot, began |-> 0,
                  announced |-> FALSE, check |-> "", checks |-> 0]
<1>1. pi \in Pis
  BY RegistryAssumption, SiteAssumption DEF Pis
<1>2. pis \in [Serials -> Pis] /\ \A s \in Serials : ~pis[s].on
  BY <1>1 DEF SiteInit
<1>3. stored \in [Serials -> Stored]
  BY DEF SiteInit, Stored
<1>4. queue = << >> /\ now = 0
  BY Zenon DEF SiteInit, Init
<1>5. queue \in Seq(Messages) /\ now \in 0 .. MaxTime
  BY <1>4, RegistryAssumption
<1> QED
  BY <1>2, <1>3, <1>5 DEF SiteType

(* A Pi that starts gets a port, a boot of its own and this moment for its start. *)
LEMMA PowerOnType ==
    ASSUME SiteType, NEW s \in Serials, NEW h \in Hosts, PowerOn(s, h)
    PROVE  SiteType'
<1> DEFINE pi == [pis[s] EXCEPT !.on = TRUE, !.host = h, !.boot = @ + 1, !.began = now,
                                !.announced = FALSE, !.check = ""]
<1>1. /\ pis[s] \in Pis /\ pis[s].boot \in 0 .. MaxBoots /\ pis[s].boot < MaxBoots
      /\ now \in 0 .. MaxTime /\ now <= now
  <2>1. pis[s].boot < MaxBoots
    BY Zenon DEF PowerOn
  <2>2. pis[s] \in Pis /\ now \in 0 .. MaxTime
    BY DEF SiteType
  <2>3. pis[s].boot \in 0 .. MaxBoots
    BY <2>2 DEF Pis
  <2> QED BY <2>1, <2>2, <2>3, RegistryAssumption
<1>2. pis[s].boot + 1 \in Boots /\ pis[s].boot + 1 \in 0 .. MaxBoots
  BY <1>1, SiteAssumption
<1>3. /\ pi \in Pis
      /\ pi.host \in Hosts /\ pi.boot \in Boots /\ pi.began <= now
  BY <1>1, <1>2 DEF Pis
<1>4. pis' = [pis EXCEPT ![s] = pi] /\ now' = now
  BY Zenon DEF PowerOn, vars
<1>5. pis' \in [Serials -> Pis]
  BY <1>3, <1>4 DEF SiteType
<1>6. \A t \in Serials : pis'[t].on => /\ pis'[t].host \in Hosts
                                       /\ pis'[t].boot \in Boots
                                       /\ pis'[t].began <= now
  <2> HIDE DEF pi
  <2> QED BY <1>3, <1>4 DEF SiteType
<1>7. /\ now' \in 0 .. MaxTime
      /\ stored' \in [Serials -> Stored] /\ queue' \in Seq(Messages)
  BY <1>4 DEF PowerOn, SiteType
<1> QED BY <1>4, <1>5, <1>6, <1>7 DEF SiteType

(* Steps of a Pi that leave its port, its boot and its start alone. *)
LEMMA SamePi ==
    ASSUME SiteType, NEW s \in Serials, NEW pi \in Pis,
           pi.on => pis[s].on,
           pi.host = pis[s].host, pi.boot = pis[s].boot, pi.began = pis[s].began,
           pis' = [pis EXCEPT ![s] = pi], now' = now
    PROVE  /\ pis' \in [Serials -> Pis]
           /\ \A t \in Serials : pis'[t].on => /\ pis'[t].host \in Hosts
                                               /\ pis'[t].boot \in Boots
                                               /\ pis'[t].began <= now'
  BY DEF SiteType

(* What a Pi says of itself is a payload the registry knows. *)
LEMMA Payloads ==
    ASSUME SiteType, NEW s \in Serials, pis[s].on
    PROVE  /\ DocOf(s) \in Docs
           /\ BeatOf(s) \in Statuses
           /\ Event("fpga-verifying", s, Absent) \in Checks
           /\ \A result \in Results : Event("fpga-verified", s, result) \in Checks
<1>1. pis[s].host \in Hosts /\ pis[s].boot \in Boots
  BY DEF SiteType
<1>2. DocOf(s) \in Docs
  BY <1>1, SiteAssumption DEF DocOf
<1>3. now - pis[s].began \in 0 .. MaxTime
  <2>1. pis[s].began \in 0 .. MaxTime /\ pis[s].began <= now /\ now \in 0 .. MaxTime
    BY DEF SiteType, Pis
  <2> QED BY <2>1, RegistryAssumption
<1>4. BeatOf(s) \in Statuses
  <2>1. BeatOf(s) \in [online : {TRUE}, boot_id : Boots, uptime : 0 .. MaxTime]
    BY <1>1, <1>3 DEF BeatOf
  <2> QED BY <2>1, SiteAssumption
<1>5. Event("fpga-verifying", s, Absent) \in Checks
  <2>1. Event("fpga-verifying", s, Absent)
          \in [boot : Boots, stage : {"fpga-verifying"}, result : {Absent}]
    BY <1>1 DEF Event
  <2> QED BY <2>1, SiteAssumption
<1>6. ASSUME NEW result \in Results PROVE Event("fpga-verified", s, result) \in Checks
  <2>1. Event("fpga-verified", s, result)
          \in [boot : Boots, stage : {"fpga-verified"}, result : Results]
    BY <1>1 DEF Event
  <2> QED BY <2>1, SiteAssumption
<1> QED BY <1>2, <1>4, <1>5, <1>6

(* Each live message is a message the registry knows. *)
LEMMA LiveMessages ==
    ASSUME SiteType, NEW s \in Serials
    PROVE  /\ pis[s].on => /\ Message("registration", s, DocOf(s), FALSE) \in Messages
                           /\ Message("status", s, BeatOf(s), FALSE) \in Messages
                           /\ Message("event", s, Event("fpga-verifying", s, Absent), FALSE) \in Messages
                           /\ \A result \in Results :
                                Message("event", s, Event("fpga-verified", s, result), FALSE) \in Messages
           /\ Message("status", s, Will, FALSE) \in Messages
<1>1. Will \in Statuses
  BY SiteAssumption
<1>2. \A body \in Docs : Message("registration", s, body, FALSE) \in Messages
  BY DEF Message, Messages, Registrations
<1>3. \A body \in Statuses : Message("status", s, body, FALSE) \in Messages
  BY DEF Message, Messages, StatusMessages
<1>4. \A body \in Checks : Message("event", s, body, FALSE) \in Messages
  BY DEF Message, Messages, EventMessages
<1> QED BY <1>1, <1>2, <1>3, <1>4, Payloads

LEMMA AnnounceType ==
    ASSUME SiteType, NEW s \in Serials, Announce(s)
    PROVE  SiteType'
<1> DEFINE pi == [pis[s] EXCEPT !.announced = TRUE]
           copy == [stored[s] EXCEPT !.doc = DocOf(s)]
<1>1. pis[s].on /\ pis' = [pis EXCEPT ![s] = pi] /\ now' = now
  BY Zenon DEF Announce, vars
<1>2. pis[s] \in Pis /\ stored[s] \in Stored /\ DocOf(s) \in Docs
  BY <1>1, Payloads DEF SiteType
<1>3. /\ pi \in Pis /\ pi.on = pis[s].on /\ pi.host = pis[s].host
      /\ pi.boot = pis[s].boot /\ pi.began = pis[s].began
  BY <1>2 DEF Pis
<1>4. stored' = [stored EXCEPT ![s] = copy]
  BY Zenon DEF Announce
<1>5. copy \in Stored
  BY <1>2 DEF Stored
<1>6. stored' \in [Serials -> Stored]
  BY <1>4, <1>5 DEF SiteType
<1>7. queue' \in Seq(Messages)
  BY <1>1, LiveMessages, ForwardType DEF Announce
<1> HIDE DEF pi
<1> QED BY <1>1, <1>3, <1>6, <1>7, SamePi DEF SiteType

LEMMA BeatType ==
    ASSUME SiteType, NEW s \in Serials, Beat(s)
    PROVE  SiteType'
<1> DEFINE copy == [stored[s] EXCEPT !.status = BeatOf(s)]
<1>1. pis[s].on /\ pis' = pis /\ now' = now
  BY Zenon DEF Beat, vars
<1>2. stored[s] \in Stored /\ BeatOf(s) \in Statuses
  BY <1>1, Payloads DEF SiteType
<1>3. stored' = [stored EXCEPT ![s] = copy]
  BY Zenon DEF Beat
<1>4. copy \in Stored
  BY <1>2 DEF Stored
<1>5. stored' \in [Serials -> Stored]
  BY <1>3, <1>4 DEF SiteType
<1>6. queue' \in Seq(Messages)
  BY <1>1, LiveMessages, ForwardType DEF Beat
<1> QED BY <1>1, <1>5, <1>6 DEF SiteType

LEMMA CheckType ==
    ASSUME SiteType, NEW s \in Serials,
           CheckStarts(s) \/ \E result \in Results : CheckEnds(s, result)
    PROVE  SiteType'
<1>1. pis[s] \in Pis
  BY DEF SiteType
<1>2. CASE CheckStarts(s)
  <2> DEFINE pi == [pis[s] EXCEPT !.check = "verifying", !.checks = @ + 1]
  <2>1. pis[s].on /\ pis' = [pis EXCEPT ![s] = pi] /\ now' = now /\ stored' = stored
    BY <1>2, Zenon DEF CheckStarts, vars
  <2>2. /\ pi \in Pis /\ pi.on = pis[s].on /\ pi.host = pis[s].host
        /\ pi.boot = pis[s].boot /\ pi.began = pis[s].began
    <3>1. pis[s].checks \in Nat
      BY <1>1 DEF Pis
    <3>2. pis[s].checks + 1 \in Nat
      BY <3>1
    <3> QED BY <1>1, <3>2 DEF Pis
  <2>3. queue' \in Seq(Messages)
    BY <1>2, <2>1, LiveMessages, ForwardType DEF CheckStarts
  <2> HIDE DEF pi
  <2> QED BY <2>1, <2>2, <2>3, SamePi DEF SiteType
<1>3. ASSUME NEW result \in Results, CheckEnds(s, result) PROVE SiteType'
  <2> DEFINE pi == [pis[s] EXCEPT !.check = result]
  <2>1. pis[s].on /\ pis' = [pis EXCEPT ![s] = pi] /\ now' = now /\ stored' = stored
    BY <1>3, Zenon DEF CheckEnds, vars
  <2>2. /\ pi \in Pis /\ pi.on = pis[s].on /\ pi.host = pis[s].host
        /\ pi.boot = pis[s].boot /\ pi.began = pis[s].began
    BY <1>1 DEF Pis
  <2>3. queue' \in Seq(Messages)
    BY <1>3, <2>1, LiveMessages, ForwardType DEF CheckEnds
  <2> HIDE DEF pi
  <2> QED BY <2>1, <2>2, <2>3, SamePi DEF SiteType
<1> QED BY <1>2, <1>3

LEMMA PowerLostType ==
    ASSUME SiteType, NEW s \in Serials, PowerLost(s)
    PROVE  SiteType'
<1> DEFINE pi == [pis[s] EXCEPT !.on = FALSE]
<1>1. /\ pis' = [pis EXCEPT ![s] = pi] /\ now' = now
      /\ stored' = stored /\ queue' = queue
  BY Zenon DEF PowerLost, vars
<1>2. pis[s] \in Pis
  BY DEF SiteType
<1>3. /\ pi \in Pis /\ ~pi.on /\ pi.host = pis[s].host
      /\ pi.boot = pis[s].boot /\ pi.began = pis[s].began
  BY <1>2 DEF Pis
<1> HIDE DEF pi
<1> QED BY <1>1, <1>3, SamePi DEF SiteType

LEMMA WillType ==
    ASSUME SiteType, NEW s \in Serials, WillComes(s)
    PROVE  SiteType'
<1> DEFINE copy == [stored[s] EXCEPT !.status = Will]
<1>1. /\ pis' = pis /\ now' = now
      /\ stored' = [stored EXCEPT ![s] = copy]
  BY Zenon DEF WillComes, vars
<1>2. stored[s] \in Stored /\ Will \in Statuses
  BY SiteAssumption DEF SiteType
<1>3. copy \in Stored
  BY <1>2 DEF Stored
<1>4. stored' \in [Serials -> Stored]
  BY <1>1, <1>3 DEF SiteType
<1>5. queue' \in Seq(Messages)
  BY LiveMessages, ForwardType DEF WillComes
<1> QED BY <1>1, <1>4, <1>5 DEF SiteType

(* Everything that is not the registry's own step leaves the tables alone. *)
LEMMA SiteNextType == SiteType /\ [SiteNext]_allVars => SiteType'
<1> SUFFICES ASSUME SiteType, [SiteNext]_allVars PROVE SiteType'
  OBVIOUS
<1>1. CASE \E s \in Serials, h \in Hosts : PowerOn(s, h)
  BY <1>1, PowerOnType
<1>2. CASE \E s \in Serials : Announce(s)
  BY <1>2, AnnounceType
<1>3. CASE \E s \in Serials : Beat(s)
  BY <1>3, BeatType
<1>4. CASE \E s \in Serials : CheckStarts(s)
  BY <1>4, CheckType
<1>5. CASE \E s \in Serials, result \in Results : CheckEnds(s, result)
  BY <1>5, CheckType
<1>6. CASE \E s \in Serials : PowerLost(s)
  BY <1>6, PowerLostType
<1>7. CASE \E s \in Serials : WillComes(s)
  BY <1>7, WillType
<1>8. CASE Consume
  <2>1. now' = now
    <3>1. Dispatched(Head(queue))
      BY <1>8 DEF Consume
    <3> QED
      BY <3>1 DEF Dispatched, RegisterDocument, Status, BootEvent, vars
  <2>2. queue # << >> /\ queue' = Tail(queue) /\ pis' = pis /\ stored' = stored
    BY <1>8 DEF Consume
  <2>3. queue' \in Seq(Messages)
    BY <2>2 DEF SiteType
  <2> QED BY <2>1, <2>2, <2>3 DEF SiteType
<1>9. CASE ConsumerStops
  <2>1. queue' = << >> /\ pis' = pis /\ stored' = stored /\ now' = now
    BY <1>9 DEF ConsumerStops, vars
  <2>2. queue' \in Seq(Messages)
    BY <2>1
  <2> QED BY <2>1, <2>2 DEF SiteType
<1>10. CASE ConsumerStarts
  <2>1. queue' \in Seq(Messages)
    <3>1. queue' \in Seq(Registrations \cup StatusMessages)
      BY <1>10, SiteAssumption, StartsType
    <3>2. queue' \in [1 .. Len(queue') -> Messages]
      BY <3>1 DEF Messages
    <3> QED BY <3>1, <3>2
  <2>2. pis' = pis /\ stored' = stored /\ now' = now
    BY <1>10 DEF ConsumerStarts, vars
  <2> QED BY <2>1, <2>2 DEF SiteType
<1>11. CASE Tick /\ UNCHANGED siteVars
  <2>1. now' = now + 1 /\ now < MaxTime /\ pis' = pis /\ stored' = stored /\ queue' = queue
    BY <1>11 DEF Tick, siteVars
  <2>2. now' \in 0 .. MaxTime
    BY <2>1, RegistryAssumption DEF SiteType
  <2>3. ASSUME NEW s \in Serials, pis[s].on PROVE pis[s].began <= now'
    <3>1. pis[s].began <= now /\ pis[s].began \in Int /\ now \in Int
      <4>1. pis[s] \in Pis /\ now \in 0 .. MaxTime /\ pis[s].began <= now
        BY <2>3 DEF SiteType
      <4>2. pis[s].began \in 0 .. MaxTime
        BY <4>1 DEF Pis
      <4> QED BY <4>1, <4>2, RegistryAssumption
    <3> QED BY <2>1, <3>1
  <2> QED BY <2>1, <2>2, <2>3 DEF SiteType
<1>12. CASE UNCHANGED allVars
  BY <1>12 DEF allVars, vars, siteVars, SiteType
<1> QED
  BY <1>1, <1>2, <1>3, <1>4, <1>5, <1>6, <1>7, <1>8, <1>9, <1>10, <1>11, <1>12 DEF SiteNext

(* A message the consumer applies is one step of an ingest service, or none. *)
LEMMA ConsumeIsIngest ==
    ASSUME SiteType, Consume
    PROVE  [Next]_vars
<1> DEFINE m == Head(queue)
<1>1. m \in Messages /\ Dispatched(m)
  BY DEF Consume, SiteType
<1> HIDE DEF m
<1>2. CASE m \in Registrations
  <2>1. m.kind = "registration" /\ m.body \in Docs /\ m.retained \in BOOLEAN
    BY <1>2 DEF Registrations
  <2>2. RegisterDocument(m.body, m.retained)
    BY <1>1, <2>1 DEF Dispatched
  <2> QED BY <2>1, <2>2 DEF Next
<1>3. CASE m \in StatusMessages
  <2>1. m.kind = "status" /\ m.serial \in Serials /\ m.body \in Statuses /\ m.retained \in BOOLEAN
    BY <1>3 DEF StatusMessages
  <2>2. Status(m.serial, m.body, m.retained) \/ UNCHANGED vars
    BY <1>1, <2>1 DEF Dispatched
  <2> QED BY <2>1, <2>2 DEF Next
<1>4. CASE m \in EventMessages
  <2>1. m.kind = "event" /\ m.serial \in Serials /\ m.body \in Checks
    BY <1>4 DEF EventMessages
  <2>2. BootEvent(m.serial, m.body) \/ UNCHANGED vars
    BY <1>1, <2>1 DEF Dispatched
  <2> QED BY <2>1, <2>2 DEF Next
<1> QED BY <1>1, <1>2, <1>3, <1>4 DEF Messages

(* Every step of the site is a step of the registry or leaves its tables alone. *)
LEMMA SiteStepIsRegistryStep == SiteType /\ [SiteNext]_allVars => [Next]_vars
<1> SUFFICES ASSUME SiteType, [SiteNext]_allVars PROVE [Next]_vars
  OBVIOUS
<1>1. CASE Consume
  BY <1>1, ConsumeIsIngest
<1>2. CASE Tick /\ UNCHANGED siteVars
  BY <1>2 DEF Next
<1>3. CASE UNCHANGED vars
  BY <1>3
<1>4. CASE UNCHANGED allVars
  BY <1>4 DEF allVars
<1> QED
  BY <1>1, <1>2, <1>3, <1>4, Zenon
     DEF SiteNext, PowerOn, Announce, Beat, CheckStarts, CheckEnds, PowerLost, WillComes,
         ConsumerStops, ConsumerStarts

(* The site at work implements the registry: whatever the Pis, the broker and a consumer     *)
(* that stops and starts do, the tables go through steps of the ingest services only, so     *)
(* every theorem about FleetRegistry holds of the site.                                      *)
THEOREM SiteImplementsRegistry == SiteSpec => ImplementsRegistry
<1>1. SiteInit => Init
  BY DEF SiteInit
<1> QED
  BY <1>1, SiteInitType, SiteNextType, SiteStepIsRegistryStep, PTL
     DEF SiteSpec, ImplementsRegistry, Spec

----------------------------------------------------------------------------
(* The inductive form of OfferedPassedItsBoot: what says "pass", stored or still on its way, *)
(* was said by a check that passed in the boot it names.                                     *)
PassInv ==
    /\ \A i \in DOMAIN events :
          StateOf(events[i]) = "pass" => <<events[i].serial, events[i].boot>> \in passed
    /\ \A i \in DOMAIN queue :
          (queue[i].kind = "event" /\ StateOf(queue[i].body) = "pass")
             => <<queue[i].serial, queue[i].body.boot>> \in passed

(* The live messages that end no check say nothing of a pass. *)
LEMMA ForwardPass ==
    ASSUME SiteType, PassInv, NEW kind, NEW s, NEW body,
           Message(kind, s, body, FALSE) \in Messages,
           Forward(kind, s, body), events' = events, passed \subseteq passed',
           (kind = "event" /\ StateOf(body) = "pass") => <<s, body.boot>> \in passed'
    PROVE  PassInv'
<1> DEFINE m == Message(kind, s, body, FALSE)
<1>1. queue \in Seq(Messages)
  BY DEF SiteType
<1>2. queue' = queue \/ queue' = Append(queue, m)
  BY DEF Forward
<1>3. m.kind = kind /\ m.serial = s /\ m.body = body
  BY DEF Message
<1> HIDE DEF m
<1>4. \A i \in DOMAIN queue' : queue'[i] = m \/ (i \in DOMAIN queue /\ queue'[i] = queue[i])
  BY <1>1, <1>2
<1>5. ASSUME NEW i \in DOMAIN queue', queue'[i].kind = "event", StateOf(queue'[i].body) = "pass"
      PROVE  <<queue'[i].serial, queue'[i].body.boot>> \in passed'
  <2>1. CASE queue'[i] = m
    BY <1>3, <1>5, <2>1
  <2>2. CASE i \in DOMAIN queue /\ queue'[i] = queue[i]
    BY <1>5, <2>2 DEF PassInv
  <2> QED BY <1>4, <2>1, <2>2
<1>6. \A i \in DOMAIN events' :
         StateOf(events'[i]) = "pass" => <<events'[i].serial, events'[i].boot>> \in passed'
  BY DEF PassInv
<1> QED BY <1>5, <1>6 DEF PassInv

(* The consumer stores of an event what it says. *)
LEMMA ConsumePass ==
    ASSUME TypeOK, SiteType, PassInv, Consume
    PROVE  PassInv'
<1> DEFINE m == Head(queue)
           row == [serial |-> m.serial, boot |-> m.body.boot, stage |-> m.body.stage,
                   result |-> m.body.result]
<1>1. /\ queue \in Seq(Messages) /\ queue # << >> /\ queue' = Tail(queue)
      /\ passed' = passed /\ Dispatched(m)
  BY DEF Consume, SiteType
<1>2. \A i \in DOMAIN queue' : i + 1 \in DOMAIN queue /\ queue'[i] = queue[i + 1]
  BY <1>1
<1>3. \A i \in DOMAIN queue' : (queue'[i].kind = "event" /\ StateOf(queue'[i].body) = "pass")
                                 => <<queue'[i].serial, queue'[i].body.boot>> \in passed'
  BY <1>1, <1>2 DEF PassInv
<1>4. (m.kind = "event" /\ StateOf(m.body) = "pass") => <<m.serial, m.body.boot>> \in passed
  <2>1. 1 \in DOMAIN queue /\ m = queue[1]
    BY <1>1
  <2> QED BY <2>1 DEF PassInv
<1> HIDE DEF m
<1>5. events' = events \/ (m.kind = "event" /\ events' = Append(events, row))
  BY <1>1, Zenon DEF Dispatched, RegisterDocument, Status, BootEvent, vars
<1>6. \A i \in DOMAIN events' :
         \/ m.kind = "event" /\ events'[i] = row
         \/ i \in DOMAIN events /\ events'[i] = events[i]
  BY <1>5 DEF TypeOK
<1>7. row.serial = m.serial /\ row.boot = m.body.boot /\ StateOf(row) = StateOf(m.body)
  BY DEF StateOf
<1> HIDE DEF row
<1>8. ASSUME NEW i \in DOMAIN events', StateOf(events'[i]) = "pass"
      PROVE  <<events'[i].serial, events'[i].boot>> \in passed
  <2>1. CASE m.kind = "event" /\ events'[i] = row
    BY <1>4, <1>7, <1>8, <2>1
  <2>2. CASE i \in DOMAIN events /\ events'[i] = events[i]
    BY <1>8, <2>2 DEF PassInv
  <2> QED BY <1>6, <2>1, <2>2
<1> QED BY <1>1, <1>3, <1>8 DEF PassInv

(* The copies a start brings are of no event. *)
LEMMA StartsPass ==
    ASSUME SiteAssumption, SiteType, PassInv, ConsumerStarts
    PROVE  PassInv'
<1>1. queue' \in Seq(Registrations \cup StatusMessages)
  BY StartsType
<1>2. \A i \in DOMAIN queue' : queue'[i].kind # "event"
  BY <1>1 DEF Registrations, StatusMessages
<1>3. events' = events /\ passed' = passed
  BY DEF ConsumerStarts, vars
<1> QED BY <1>2, <1>3 DEF PassInv

LEMMA SiteNextPass == TypeOK /\ SiteType /\ PassInv /\ [SiteNext]_allVars => PassInv'
<1> SUFFICES ASSUME TypeOK, SiteType, PassInv, [SiteNext]_allVars PROVE PassInv'
  OBVIOUS
<1>1. ASSUME NEW s \in Serials, Announce(s) PROVE PassInv'
  <2>1. pis[s].on /\ events' = events /\ passed' = passed /\ Forward("registration", s, DocOf(s))
    BY <1>1, Zenon DEF Announce, vars
  <2> QED BY <2>1, LiveMessages, ForwardPass
<1>2. ASSUME NEW s \in Serials, Beat(s) PROVE PassInv'
  <2>1. pis[s].on /\ events' = events /\ passed' = passed /\ Forward("status", s, BeatOf(s))
    BY <1>2, Zenon DEF Beat, vars
  <2> QED BY <2>1, LiveMessages, ForwardPass
<1>3. ASSUME NEW s \in Serials, CheckStarts(s) PROVE PassInv'
  <2>1. /\ pis[s].on /\ events' = events /\ passed' = passed
        /\ Forward("event", s, Event("fpga-verifying", s, Absent))
    BY <1>3, Zenon DEF CheckStarts, vars
  <2>2. StateOf(Event("fpga-verifying", s, Absent)) # "pass"
    BY DEF Event, StateOf
  <2> QED BY <2>1, <2>2, LiveMessages, ForwardPass
<1>4. ASSUME NEW s \in Serials, NEW result \in Results, CheckEnds(s, result) PROVE PassInv'
  <2>1. /\ pis[s].on /\ events' = events /\ Forward("event", s, Event("fpga-verified", s, result))
        /\ passed' = IF result = "pass" THEN passed \cup {<<s, pis[s].boot>>} ELSE passed
    BY <1>4, Zenon DEF CheckEnds, vars
  <2>2. /\ Event("fpga-verified", s, result).boot = pis[s].boot
        /\ StateOf(Event("fpga-verified", s, result)) = result
    BY DEF Event, StateOf
  <2>3. /\ passed \subseteq passed'
        /\ StateOf(Event("fpga-verified", s, result)) = "pass"
             => <<s, Event("fpga-verified", s, result).boot>> \in passed'
    BY <2>1, <2>2
  <2> QED BY <2>1, <2>3, LiveMessages, ForwardPass
<1>5. ASSUME NEW s \in Serials, WillComes(s) PROVE PassInv'
  <2>1. events' = events /\ passed' = passed /\ Forward("status", s, Will)
    BY <1>5, Zenon DEF WillComes, vars
  <2> QED BY <2>1, LiveMessages, ForwardPass
<1>6. CASE Consume
  BY <1>6, ConsumePass
<1>7. CASE ConsumerStarts
  BY <1>7, SiteAssumption, StartsPass
<1>8. CASE ConsumerStops
  BY <1>8 DEF ConsumerStops, PassInv, vars
<1>9. CASE events' = events /\ queue' = queue /\ passed' = passed
  BY <1>9 DEF PassInv
<1>10. ASSUME NEW s \in Serials, (\E h \in Hosts : PowerOn(s, h)) \/ PowerLost(s)
       PROVE  events' = events /\ queue' = queue /\ passed' = passed
  BY <1>10, Zenon DEF PowerOn, PowerLost, vars
<1>11. CASE (Tick /\ UNCHANGED siteVars) \/ UNCHANGED allVars
  BY <1>9, <1>11 DEF Tick, siteVars, allVars, vars
<1> QED
  BY <1>1, <1>2, <1>3, <1>4, <1>5, <1>6, <1>7, <1>8, <1>9, <1>10, <1>11, Zenon DEF SiteNext

(* What is offered has a pass among the events of its boot. *)
LEMMA PassGivesOffered == TypeOK /\ PassInv => OfferedPassedItsBoot
<1> SUFFICES ASSUME TypeOK, PassInv, NEW s \in Offered
             PROVE  <<s, machines[s].boot_id>> \in passed
  BY DEF OfferedPassedItsBoot
<1> DEFINE ids == ChecksOf(s)
           last == Newest(ids)
<1>1. fpga_state(s) = "pass"
  BY DEF Offered, offered_hosts, is_offered
<1>2. ids # {} /\ StateOf(events[last]) = "pass"
  BY <1>1 DEF fpga_state, setup_port_state
<1>3. ids \subseteq 1 .. Len(events) /\ Len(events) \in Nat
  BY DEF ChecksOf, TypeOK
<1>4. last \in ids
  BY <1>2, <1>3, NewestIsOne
<1>5. /\ last \in DOMAIN events /\ events[last].serial = s
      /\ events[last].boot = machines[s].boot_id
  BY <1>4 DEF ChecksOf
<1> QED BY <1>2, <1>5 DEF PassInv

(* No lost, late or replayed message, no restart of a Pi or of the consumer offers a board   *)
(* that did not pass its check in the boot the registry has its Pi in.                       *)
THEOREM NothingUncheckedIsOffered == SiteSpec => []OfferedPassedItsBoot
<1>1. SiteInit => PassInv
  <2>1. SiteInit => events = << >> /\ queue = << >>
    BY Zenon DEF SiteInit, Init
  <2> QED BY <2>1 DEF PassInv
<1> QED
  BY <1>1, SiteInitType, SiteNextType, SiteNextPass, PassGivesOffered, SiteImplementsRegistry,
     TypeCorrect, PTL DEF SiteSpec, ImplementsRegistry

----------------------------------------------------------------------------
(* The registry catches up *)

(* The positions of machine s's messages of a kind that are still on their way. *)
Pending(kind, s) == {i \in DOMAIN queue : queue[i].kind = kind /\ queue[i].serial = s}

(* The last of them, if there is one, says `body`. *)
Carries(kind, s, body) ==
    \A i \in Pending(kind, s) : (\A j \in Pending(kind, s) : j <= i) => queue[i].body = body

DocHeld(s) == s \in Registered /\ machines[s].hostname = stored[s].doc.hostname

(* A machine without a boot has had no status since it was registered. *)
StatusHeld(s) ==
    (s \in Registered /\ machines[s].boot_id # NoBoot) =>
        /\ machines[s].online = stored[s].status.online
        /\ stored[s].status.boot_id \in {Absent, machines[s].boot_id}

(* A registration is of the machine its document names. *)
OwnDocs ==
    /\ \A s \in Serials : stored[s].doc # Absent => stored[s].doc.serial = s
    /\ \A i \in DOMAIN queue : queue[i].kind = "registration" => queue[i].body.serial = queue[i].serial

(* The inductive form of CaughtUpWhenQuiet: what the broker holds of a Pi is what the last    *)
(* message on its way will say, or what the registry holds already, whether the consumer was  *)
(* there when the Pi said it or was handed the copy when it started.                          *)
CaughtInv ==
    /\ OwnDocs
    /\ up => \A s \in Serials :
          /\ stored[s].doc # Absent =>
                /\ Carries("registration", s, stored[s].doc)
                /\ Pending("registration", s) = {} => DocHeld(s)
          /\ stored[s].status # Absent =>
                /\ Carries("status", s, stored[s].status)
                /\ Pending("status", s) = {} => StatusHeld(s)

LEMMA CaughtGivesQuiet == CaughtInv => CaughtUpWhenQuiet
<1> SUFFICES ASSUME CaughtInv, Quiet, NEW s \in Serials, stored[s].doc # Absent
             PROVE  /\ s \in Registered
                    /\ machines[s].hostname = stored[s].doc.hostname
                    /\ (stored[s].status # Absent /\ machines[s].boot_id # NoBoot) =>
                          /\ machines[s].online = stored[s].status.online
                          /\ stored[s].status.boot_id \in {Absent, machines[s].boot_id}
  BY DEF CaughtUpWhenQuiet
<1>1. up /\ Pending("registration", s) = {} /\ Pending("status", s) = {}
  BY DEF Quiet, Pending
<1> QED
  BY <1>1 DEF CaughtInv, DocHeld, StatusHeld

(* A message that joins the queue is the last of its machine and kind; the others' are as     *)
(* they were.                                                                                  *)
LEMMA AppendPending ==
  ASSUME queue \in Seq(Messages), NEW m, queue' = Append(queue, m)
  PROVE  /\ Pending(m.kind, m.serial)' # {} /\ Carries(m.kind, m.serial, m.body)'
         /\ \A k, t : ~(k = m.kind /\ t = m.serial) =>
               /\ Pending(k, t)' = Pending(k, t)
               /\ \A body : Carries(k, t, body) => Carries(k, t, body)'
<1> DEFINE n == Len(queue)
<1>1. /\ n \in Nat /\ DOMAIN queue = 1 .. n /\ DOMAIN queue' = 1 .. (n + 1)
      /\ queue'[n + 1] = m
      /\ \A i \in 1 .. n : queue'[i] = queue[i]
  OBVIOUS
<1> HIDE DEF n
<1>2. n + 1 \in Pending(m.kind, m.serial)'
  BY <1>1 DEF Pending
<1>3. Carries(m.kind, m.serial, m.body)'
  <2> SUFFICES ASSUME NEW i \in Pending(m.kind, m.serial)',
                      \A j \in Pending(m.kind, m.serial)' : j <= i
               PROVE  queue'[i].body = m.body
    BY DEF Carries
  <2>1. i \in 1 .. (n + 1) /\ n + 1 <= i
    BY <1>1, <1>2 DEF Pending
  <2>2. i = n + 1
    BY <1>1, <2>1
  <2> QED
    BY <1>1, <2>2
<1>4. ASSUME NEW k, NEW t, ~(k = m.kind /\ t = m.serial)
      PROVE  /\ Pending(k, t)' = Pending(k, t)
             /\ \A body : Carries(k, t, body) => Carries(k, t, body)'
  <2>1. \A i \in DOMAIN queue' : i = n + 1 \/ i \in DOMAIN queue
    BY <1>1
  <2>2. Pending(k, t)' = Pending(k, t)
    BY <1>1, <1>4, <2>1 DEF Pending
  <2>3. \A i \in Pending(k, t) : queue'[i] = queue[i]
    BY <1>1 DEF Pending
  <2> QED
    BY <2>2, <2>3 DEF Carries
<1> QED
  BY <1>2, <1>3, <1>4

(* Taking the first message leaves the last one of each machine and kind, unless it was the   *)
(* only one, and then it was what the last one had to say.                                     *)
LEMMA TailPending ==
  ASSUME queue \in Seq(Messages), queue # << >>, queue' = Tail(queue), NEW k, NEW t, NEW body
  PROVE  /\ Carries(k, t, body) => Carries(k, t, body)'
         /\ (Pending(k, t)' = {} /\ ~(Head(queue).kind = k /\ Head(queue).serial = t)) =>
               Pending(k, t) = {}
         /\ (Pending(k, t)' = {} /\ Head(queue).kind = k /\ Head(queue).serial = t /\ Carries(k, t, body)) =>
               Head(queue).body = body
<1>1. /\ 1 \in DOMAIN queue /\ Head(queue) = queue[1]
      /\ \A i \in DOMAIN queue' : i \in Nat /\ i + 1 \in DOMAIN queue /\ queue'[i] = queue[i + 1]
      /\ \A i \in DOMAIN queue : i \in Nat /\ (i = 1 \/ (i - 1 \in DOMAIN queue' /\ i = (i - 1) + 1))
  OBVIOUS
<1>2. \A i \in Pending(k, t)' : i \in Nat /\ i + 1 \in Pending(k, t) /\ queue'[i] = queue[i + 1]
  BY <1>1 DEF Pending
<1>3. \A i \in Pending(k, t) : i = 1 \/ i - 1 \in Pending(k, t)'
  <2> SUFFICES ASSUME NEW i \in Pending(k, t), i # 1
               PROVE  i - 1 \in Pending(k, t)'
    OBVIOUS
  <2>1. i \in Nat /\ i - 1 \in DOMAIN queue' /\ queue'[i - 1] = queue[i]
    BY <1>1 DEF Pending
  <2> QED
    BY <2>1 DEF Pending
<1>4. ASSUME Carries(k, t, body)
      PROVE  Carries(k, t, body)'
  <2> SUFFICES ASSUME NEW i \in Pending(k, t)', \A j \in Pending(k, t)' : j <= i
               PROVE  queue'[i].body = body
    BY DEF Carries
  <2>1. ASSUME NEW j \in Pending(k, t)
        PROVE  j <= i + 1
    <3>1. j \in Nat /\ i \in Nat
      BY <1>1, <1>2 DEF Pending
    <3>2. j = 1 \/ j - 1 <= i
      BY <1>3
    <3> QED
      BY <3>1, <3>2
  <2> QED
    BY <1>2, <1>4, <2>1 DEF Carries
<1>5. ASSUME Pending(k, t)' = {}
      PROVE  Pending(k, t) \subseteq {1}
  BY <1>3, <1>5
<1>6. 1 \in Pending(k, t) <=> Head(queue).kind = k /\ Head(queue).serial = t
  BY <1>1 DEF Pending
<1>7. ASSUME Pending(k, t)' = {}, 1 \in Pending(k, t), Carries(k, t, body)
      PROVE  queue[1].body = body
  <2>1. \A j \in Pending(k, t) : j <= 1
    BY <1>5, <1>7
  <2> QED
    BY <1>7, <2>1 DEF Carries
<1> QED
  BY <1>1, <1>4, <1>5, <1>6, <1>7

----------------------------------------------------------------------------
(* A message the broker forwards *)

LEMMA ForwardOwn ==
  ASSUME SiteType, OwnDocs, NEW kind, NEW s \in Serials, NEW body, Forward(kind, s, body),
         kind = "registration" => body.serial = s,
         \A t \in Serials : stored'[t].doc = stored[t].doc \/ (stored'[t].doc = body /\ body.serial = t)
  PROVE  OwnDocs'
<1> DEFINE m == Message(kind, s, body, FALSE)
<1>1. queue \in Seq(Messages) /\ (queue' = queue \/ queue' = Append(queue, m))
  BY DEF Forward, SiteType
<1>2. m.kind = kind /\ m.serial = s /\ m.body = body
  BY DEF Message
<1> HIDE DEF m
<1>3. \A i \in DOMAIN queue' : queue'[i] = m \/ (i \in DOMAIN queue /\ queue'[i] = queue[i])
  BY <1>1
<1> QED
  BY <1>2, <1>3 DEF OwnDocs

(* What a Pi or the broker says is stored with the message that says it. *)
LEMMA ForwardCaught ==
  ASSUME SiteType, CaughtInv, NEW kind, NEW s \in Serials, NEW body,
         Forward(kind, s, body), up' = up, machines' = machines,
         \/ kind = "registration" /\ stored' = [stored EXCEPT ![s].doc = body] /\ body.serial = s
         \/ kind = "status" /\ stored' = [stored EXCEPT ![s].status = body]
         \/ kind = "event" /\ stored' = stored
  PROVE  CaughtInv'
<1> DEFINE m == Message(kind, s, body, FALSE)
<1>1. stored \in [Serials -> Stored] /\ queue \in Seq(Messages)
  BY DEF SiteType
<1>2. \A t \in Serials :
        /\ stored'[t].doc = (IF kind = "registration" /\ t = s THEN body ELSE stored[t].doc)
        /\ stored'[t].status = (IF kind = "status" /\ t = s THEN body ELSE stored[t].status)
  BY <1>1 DEF Stored
<1>3. OwnDocs'
  BY <1>2, ForwardOwn DEF CaughtInv
<1>4. CASE ~up
  BY <1>3, <1>4 DEF CaughtInv
<1>5. CASE up
  <2>1. queue' = Append(queue, m) /\ m.kind = kind /\ m.serial = s /\ m.body = body
    BY <1>5 DEF Forward, Message
  <2> HIDE DEF m
  <2>2. /\ Pending(kind, s)' # {} /\ Carries(kind, s, body)'
        /\ \A k, t : ~(k = kind /\ t = s) =>
              /\ Pending(k, t)' = Pending(k, t)
              /\ \A b : Carries(k, t, b) => Carries(k, t, b)'
    BY <1>1, <2>1, AppendPending
  <2>3. ASSUME NEW t \in Serials, NEW said, said = stored'[t].doc, said # Absent
        PROVE  /\ Carries("registration", t, said)'
               /\ Pending("registration", t)' = {} => DocHeld(t)'
    <3>1. CASE kind = "registration" /\ t = s
      BY <1>2, <2>2, <2>3, <3>1
    <3>2. CASE ~(kind = "registration" /\ t = s)
      <4>1. stored[t].doc = said /\ stored'[t].doc = stored[t].doc /\ stored[t].doc # Absent
        BY <1>2, <2>3, <3>2
      <4>2. Carries("registration", t, said)'
        BY <1>5, <2>2, <3>2, <4>1 DEF CaughtInv
      <4>3. Pending("registration", t)' = {} => DocHeld(t)
        BY <1>5, <2>2, <3>2, <4>1 DEF CaughtInv
      <4> QED
        BY <4>1, <4>2, <4>3 DEF DocHeld, Registered
    <3> QED
      BY <3>1, <3>2
  <2>4. ASSUME NEW t \in Serials, NEW said, said = stored'[t].status, said # Absent
        PROVE  /\ Carries("status", t, said)'
               /\ Pending("status", t)' = {} => StatusHeld(t)'
    <3>1. CASE kind = "status" /\ t = s
      BY <1>2, <2>2, <2>4, <3>1
    <3>2. CASE ~(kind = "status" /\ t = s)
      <4>1. stored[t].status = said /\ stored'[t].status = stored[t].status /\ stored[t].status # Absent
        BY <1>2, <2>4, <3>2
      <4>2. Carries("status", t, said)'
        BY <1>5, <2>2, <3>2, <4>1 DEF CaughtInv
      <4>3. Pending("status", t)' = {} => StatusHeld(t)
        BY <1>5, <2>2, <3>2, <4>1 DEF CaughtInv
      <4> QED
        BY <4>1, <4>2, <4>3 DEF StatusHeld, Registered
    <3> QED
      BY <3>1, <3>2
  <2> QED
    BY <1>3, <2>3, <2>4 DEF CaughtInv, Carries
<1> QED
  BY <1>4, <1>5

----------------------------------------------------------------------------
(* A message the consumer applies *)

(* What dispatching a message does to the row of machine s. *)
LEMMA DispatchRow ==
  ASSUME TypeOK, NEW m \in Messages, Dispatched(m), NEW s \in Serials,
         m.kind = "registration" => m.body.serial = m.serial
  PROVE  /\ IF m.kind = "registration" /\ m.serial = s
            THEN s \in Registered' /\ machines'[s].hostname = m.body.hostname
            ELSE s \in Registered => s \in Registered' /\ machines'[s].hostname = machines[s].hostname
         /\ IF m.kind = "status" /\ m.serial = s
            THEN s \in Registered' =>
                    machines'[s].online = m.body.online /\ m.body.boot_id \in {Absent, machines'[s].boot_id}
            ELSE (s \in Registered' /\ machines'[s].boot_id # NoBoot) =>
                    /\ s \in Registered
                    /\ machines'[s].online = machines[s].online
                    /\ machines'[s].boot_id = machines[s].boot_id
<1>1. s \in Registered => machines[s] \in Rows
  BY DEF TypeOK
<1>2. CASE m.kind = "registration"
  <2> DEFINE d == m.serial
             row == RegisteredRow(m.body, m.retained)
  <2>1. RegisterDocument(m.body, m.retained)
    BY <1>2 DEF Dispatched
  <2>2. /\ Registered' = Registered \cup {d}
        /\ machines'[d] = row
        /\ \A t \in Registered : t # d => machines'[t] = machines[t]
    BY <1>2, <2>1 DEF RegisterDocument, Saved, Registered
  <2>3. d \in Registered => machines[d] \in Rows
    BY DEF TypeOK
  <2>4. /\ row.hostname = m.body.hostname
        /\ row.boot_id # NoBoot => /\ d \in Registered
                                   /\ row.online = machines[d].online
                                   /\ row.boot_id = machines[d].boot_id
    BY <1>2, <2>3 DEF RegisteredRow, Rows
  <2> HIDE DEF d, row
  <2>5. CASE d = s
    BY <1>2, <2>2, <2>4, <2>5 DEF d
  <2>6. CASE d # s
    BY <1>2, <2>2, <2>6 DEF d
  <2> QED
    BY <2>5, <2>6
<1>3. CASE m.kind = "status" /\ m.serial \in Registered
  <2> DEFINE d == m.serial
             row == StatusRow(d, m.body, m.retained)
  <2>1. Status(d, m.body, m.retained)
    BY <1>3 DEF Dispatched
  <2>2. /\ Registered' = Registered
        /\ machines'[d] = row
        /\ \A t \in Registered : t # d => machines'[t] = machines[t]
    BY <1>3, <2>1 DEF Status, Saved, Registered
  <2>3. machines[d] \in Rows
    BY <1>3 DEF TypeOK
  <2>4. /\ row.hostname = machines[d].hostname /\ row.online = m.body.online
        /\ m.body.boot_id \in {Absent, row.boot_id}
    BY <2>3 DEF StatusRow, Rows
  <2> HIDE DEF d, row
  <2>5. CASE d = s
    BY <1>3, <2>2, <2>4, <2>5 DEF d
  <2>6. CASE d # s
    BY <1>3, <2>2, <2>6 DEF d
  <2> QED
    BY <2>5, <2>6
<1>4. CASE m.kind # "registration" /\ ~(m.kind = "status" /\ m.serial \in Registered)
  <2>1. machines' = machines
    BY <1>4 DEF Dispatched, Status, BootEvent, vars
  <2> QED
    BY <1>4, <2>1 DEF Registered
<1> QED
  BY <1>2, <1>3, <1>4

LEMMA ConsumeCaught ==
  ASSUME TypeOK, SiteType, CaughtInv, Consume
  PROVE  CaughtInv'
<1>1. PICK m : m = Head(queue)
  OBVIOUS
<1>2. /\ up /\ queue \in Seq(Messages) /\ queue # << >> /\ queue' = Tail(queue)
      /\ m \in Messages /\ Dispatched(m) /\ UNCHANGED <<up, stored>>
  BY <1>1 DEF Consume, SiteType
<1>3. m.kind = "registration" => m.body.serial = m.serial
  <2>1. 1 \in DOMAIN queue /\ m = queue[1]
    BY <1>1, <1>2
  <2> QED
    BY <2>1 DEF CaughtInv, OwnDocs
<1>4. OwnDocs'
  <2>1. \A i \in DOMAIN queue' : i + 1 \in DOMAIN queue /\ queue'[i] = queue[i + 1]
    BY <1>2
  <2> QED
    BY <1>2, <2>1 DEF CaughtInv, OwnDocs
<1>5. ASSUME NEW s \in Serials, NEW said, said = stored[s].doc, said # Absent
      PROVE  Carries("registration", s, said)' /\ (Pending("registration", s)' = {} => DocHeld(s)')
  <2>1. Carries("registration", s, said) /\ (Pending("registration", s) = {} => DocHeld(s))
    BY <1>2, <1>5 DEF CaughtInv
  <2>2. Carries("registration", s, said)'
    BY <1>2, <2>1, TailPending
  <2>3. ASSUME Pending("registration", s)' = {}
        PROVE  DocHeld(s)'
    <3>1. CASE m.kind = "registration" /\ m.serial = s
      <4>1. m.body = said
        BY <1>1, <1>2, <2>1, <2>3, <3>1, TailPending
      <4> QED
        BY <1>2, <1>3, <1>5, <3>1, <4>1, DispatchRow DEF DocHeld
    <3>2. CASE ~(m.kind = "registration" /\ m.serial = s)
      <4>1. DocHeld(s)
        BY <1>1, <1>2, <2>1, <2>3, <3>2, TailPending
      <4> QED
        BY <1>2, <1>3, <3>2, <4>1, DispatchRow DEF DocHeld
    <3> QED
      BY <3>1, <3>2
  <2> QED
    BY <2>2, <2>3
<1>6. ASSUME NEW s \in Serials, NEW said, said = stored[s].status, said # Absent
      PROVE  Carries("status", s, said)' /\ (Pending("status", s)' = {} => StatusHeld(s)')
  <2>1. Carries("status", s, said) /\ (Pending("status", s) = {} => StatusHeld(s))
    BY <1>2, <1>6 DEF CaughtInv
  <2>2. Carries("status", s, said)'
    BY <1>2, <2>1, TailPending
  <2>3. ASSUME Pending("status", s)' = {}
        PROVE  StatusHeld(s)'
    <3>1. CASE m.kind = "status" /\ m.serial = s
      <4>1. m.body = said
        BY <1>1, <1>2, <2>1, <2>3, <3>1, TailPending
      <4> QED
        BY <1>2, <1>3, <1>6, <3>1, <4>1, DispatchRow DEF StatusHeld
    <3>2. CASE ~(m.kind = "status" /\ m.serial = s)
      <4>1. StatusHeld(s)
        BY <1>1, <1>2, <2>1, <2>3, <3>2, TailPending
      <4> QED
        BY <1>2, <1>3, <3>2, <4>1, DispatchRow DEF StatusHeld
    <3> QED
      BY <3>1, <3>2
  <2> QED
    BY <2>2, <2>3
<1> QED
  BY <1>2, <1>4, <1>5, <1>6 DEF CaughtInv, Carries

(* A start brings every stored copy, once: none is left out of a sequence of distinct copies  *)
(* as long as there are copies.                                                                *)
LEMMA StartsBringAll ==
  ASSUME SiteAssumption, SiteType, ConsumerStarts
  PROVE  /\ \A copy \in Copies : \E i \in DOMAIN queue' : queue'[i] = copy
         /\ \A i \in DOMAIN queue' : queue'[i] \in Copies
<1> DEFINE n == Cardinality(Copies)
<1>1. queue' \in [1 .. n -> Copies] /\ \A i, j \in DOMAIN queue' : queue'[i] = queue'[j] => i = j
  BY DEF ConsumerStarts, Orders
<1>2. queue' \in Injection(1 .. n, Copies)
  BY <1>1 DEF Injection, IsInjective
<1>3. n \in Nat /\ IsFiniteSet(Copies)
  BY CopiesType
<1>4. Cardinality(1 .. n) = n
  BY <1>3, FS_Interval
<1>5. queue' \in Surjection(1 .. n, Copies)
  <2>1. \A f \in Injection(1 .. n, Copies) : f \in Surjection(1 .. n, Copies)
    BY <1>3, <1>4, FS_Injection
  <2> QED
    BY <1>2, <2>1
<1> QED
  BY <1>1, <1>5 DEF Surjection

LEMMA StartsCaught ==
  ASSUME SiteAssumption, SiteType, CaughtInv, ConsumerStarts
  PROVE  CaughtInv'
<1>1. stored' = stored
  BY DEF ConsumerStarts
<1>2. /\ \A copy \in Copies : \E i \in DOMAIN queue' : queue'[i] = copy
      /\ \A i \in DOMAIN queue' : queue'[i] \in Copies
  BY StartsBringAll
<1>3. \A m \in Copies :
        /\ m.serial \in Serials
        /\ \/ m.kind = "registration" /\ m.body = stored[m.serial].doc /\ m.body # Absent
           \/ m.kind = "status" /\ m.body = stored[m.serial].status
  BY DEF Copies, Message
<1>4. OwnDocs'
  BY <1>1, <1>2, <1>3 DEF CaughtInv, OwnDocs
<1>5. ASSUME NEW s \in Serials, NEW said, said = stored[s].doc, said # Absent
      PROVE  Carries("registration", s, said)' /\ Pending("registration", s)' # {}
  <2>1. Message("registration", s, said, TRUE) \in Copies
    BY <1>5 DEF Copies
  <2>2. Pending("registration", s)' # {}
    BY <1>2, <2>1 DEF Pending, Message
  <2> QED
    BY <1>2, <1>5, <1>3, <2>2 DEF Carries, Pending
<1>6. ASSUME NEW s \in Serials, NEW said, said = stored[s].status, said # Absent
      PROVE  Carries("status", s, said)' /\ Pending("status", s)' # {}
  <2>1. Message("status", s, said, TRUE) \in Copies
    BY <1>6 DEF Copies
  <2>2. Pending("status", s)' # {}
    BY <1>2, <2>1 DEF Pending, Message
  <2> QED
    BY <1>2, <1>6, <1>3, <2>2 DEF Carries, Pending
<1> QED
  BY <1>1, <1>4, <1>5, <1>6 DEF CaughtInv, Carries

LEMMA SiteNextCaught == TypeOK /\ SiteType /\ CaughtInv /\ [SiteNext]_allVars => CaughtInv'
<1> SUFFICES ASSUME TypeOK, SiteType, CaughtInv, [SiteNext]_allVars PROVE CaughtInv'
  OBVIOUS
<1>1. ASSUME NEW s \in Serials, Announce(s) PROVE CaughtInv'
  <2>1. PICK doc : doc = DocOf(s)
    OBVIOUS
  <2>2. /\ Forward("registration", s, doc) /\ stored' = [stored EXCEPT ![s].doc = doc]
        /\ up' = up /\ machines' = machines
    BY <1>1, <2>1, Zenon DEF Announce, vars
  <2>3. doc.serial = s
    BY <2>1 DEF DocOf
  <2> QED
    BY <2>2, <2>3, ForwardCaught
<1>2. ASSUME NEW s \in Serials, Beat(s) PROVE CaughtInv'
  <2>1. PICK beat : beat = BeatOf(s)
    OBVIOUS
  <2>2. /\ Forward("status", s, beat) /\ stored' = [stored EXCEPT ![s].status = beat]
        /\ up' = up /\ machines' = machines
    BY <1>2, <2>1, Zenon DEF Beat, vars
  <2> QED
    BY <2>2, ForwardCaught
<1>3. ASSUME NEW s \in Serials, WillComes(s) PROVE CaughtInv'
  <2>1. /\ Forward("status", s, Will) /\ stored' = [stored EXCEPT ![s].status = Will]
        /\ up' = up /\ machines' = machines
    BY <1>3, Zenon DEF WillComes, vars
  <2> QED
    BY <2>1, ForwardCaught
<1>4. ASSUME NEW s \in Serials, CheckStarts(s) \/ \E result \in Results : CheckEnds(s, result)
      PROVE  CaughtInv'
  <2>1. PICK event : /\ Forward("event", s, event)
                     /\ stored' = stored /\ up' = up /\ machines' = machines
    BY <1>4, Zenon DEF CheckStarts, CheckEnds, vars
  <2> QED
    BY <2>1, ForwardCaught
<1>5. CASE Consume
  BY <1>5, ConsumeCaught
<1>6. CASE ConsumerStarts
  BY <1>6, SiteAssumption, StartsCaught
<1>7. CASE ConsumerStops
  BY <1>7 DEF ConsumerStops, CaughtInv, OwnDocs
<1>8. CASE UNCHANGED <<stored, queue, up, machines>>
  BY <1>8 DEF CaughtInv, OwnDocs, Carries, Pending, DocHeld, StatusHeld, Registered
<1>9. ASSUME NEW s \in Serials, (\E h \in Hosts : PowerOn(s, h)) \/ PowerLost(s)
      PROVE  UNCHANGED <<stored, queue, up, machines>>
  BY <1>9, Zenon DEF PowerOn, PowerLost, vars
<1>10. CASE (Tick /\ UNCHANGED siteVars) \/ UNCHANGED allVars
  BY <1>8, <1>10 DEF Tick, siteVars, allVars, vars
<1> QED
  BY <1>1, <1>2, <1>3, <1>4, <1>5, <1>6, <1>7, <1>8, <1>9, <1>10, Zenon DEF SiteNext

(* Whatever was lost while the consumer was down, once the queue is empty the registry holds  *)
(* what each Pi said last: the broker's copies make up for every message missed.              *)
THEOREM RegistryCatchesUp == SiteSpec => []CaughtUpWhenQuiet
<1>1. SiteInit => CaughtInv
  <2> SUFFICES ASSUME SiteInit PROVE CaughtInv
    OBVIOUS
  <2>1. /\ stored = [s \in Serials |-> [doc |-> Absent, status |-> Absent]]
        /\ queue = << >>
    BY Zenon DEF SiteInit
  <2>2. \A s \in Serials : stored[s].doc = Absent /\ stored[s].status = Absent
    BY <2>1
  <2> QED
    BY <2>1, <2>2 DEF CaughtInv, OwnDocs
<1> QED
  BY <1>1, SiteInitType, SiteNextType, SiteNextCaught, CaughtGivesQuiet, SiteImplementsRegistry,
     TypeCorrect, PTL DEF SiteSpec, ImplementsRegistry
=============================================================================
