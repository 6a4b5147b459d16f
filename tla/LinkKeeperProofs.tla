-------------------------- MODULE LinkKeeperProofs --------------------------
(***************************************************************************)
(* What holds of the Link badge for every bound: its types, that a reading *)
(* newer than every record is believed, and that a refresh undoes nothing  *)
(* as long as the page waits for one answer before it asks for the next.   *)
(***************************************************************************)
EXTENDS LinkKeeper, FiniteSetTheorems, TLAPS

----------------------------------------------------------------------------
(* Types *)

LEMMA InitType == Init => TypeOK
<1> SUFFICES ASSUME Init
             PROVE  TypeOK
  OBVIOUS
<1>1. 0 \in Moments /\ 0 \in 0 .. MaxChanges
  BY KeeperAssumption DEF Moments
<1>2. port \in [link : Links, enabled : BOOLEAN, changes : 0 .. MaxChanges]
  BY <1>1 DEF Init
<1>3. BadgeOf(port) \in Badges
  BY <1>2 DEF BadgeOf, Badges
<1>4. cache \in Readings
  BY <1>1, <1>3 DEF Init, Readings
<1> QED
  BY <1>1, <1>2, <1>3, <1>4 DEF Init, TypeOK, Readings

LEMMA PushedType ==
  ASSUME TypeOK, Pushed
  PROVE  TypeOK'
<1>1. PICK record \in wire :
        /\ wire' = wire \ {record}
        /\ IF Applies(record)
           THEN /\ drawn' = Over(drawn, record.link)
                /\ kept' = record
                /\ applied' = IF applied = None \/ record.at >= applied.at THEN record ELSE applied
                /\ since' = TRUE
           ELSE UNCHANGED <<drawn, kept, applied, since>>
        /\ UNCHANGED <<now, port, poller, open, begun, cache, flight, reading>>
  BY DEF Pushed
<1>2. record \in Records
  BY DEF TypeOK
<1>3. CASE Applies(record)
  <2>1. record.link \in Links /\ record \in [link : Links, at : Moments]
    BY <1>2, <1>3 DEF Applies, Records
  <2>2. drawn' \in Badges
    BY <1>1, <1>3, <2>1 DEF Over, Badges
  <2> QED
    BY <1>1, <1>3, <2>1, <2>2 DEF TypeOK
<1>4. CASE ~Applies(record)
  BY <1>1, <1>4 DEF TypeOK
<1> QED
  BY <1>3, <1>4

LEMMA RefreshedType ==
  ASSUME TypeOK, Refreshed
  PROVE  TypeOK'
<1>1. PICK r \in flight :
        /\ flight' = flight \ {r}
        /\ reading' = r
        /\ IF kept # None /\ ~CaughtUp(kept, r)
           THEN /\ drawn' = Over(r.badge, kept.link)
                /\ kept' = kept
           ELSE /\ drawn' = r.badge
                /\ kept' = None
        /\ since' = FALSE
        /\ UNCHANGED <<now, port, poller, open, wire, begun, cache, applied>>
  BY DEF Refreshed
<1>2. r \in Readings /\ r.badge \in Badges
  BY DEF TypeOK, Readings
<1>3. drawn' \in Badges /\ kept' \in [link : Links, at : Moments] \cup {None}
  BY <1>1, <1>2 DEF TypeOK, Over, Badges
<1> QED
  BY <1>1, <1>2, <1>3 DEF TypeOK

LEMMA NextType == TypeOK /\ [Next]_vars => TypeOK'
<1> SUFFICES ASSUME TypeOK, [Next]_vars
             PROVE  TypeOK'
  OBVIOUS
<1> USE KeeperAssumption
<1>1. CASE Change
  <2>1. PICK link \in Links, enabled \in BOOLEAN :
          /\ port' = [link |-> link, enabled |-> enabled, changes |-> port.changes + 1]
          /\ poller' = [poller EXCEPT !.flapped = @ \/ link # port.link]
    BY <1>1 DEF Change
  <2>2. port.changes + 1 \in 0 .. MaxChanges
    BY <1>1 DEF Change, TypeOK
  <2>3. port' \in [link : Links, enabled : BOOLEAN, changes : 0 .. MaxChanges]
    BY <2>1, <2>2
  <2>4. (poller.flapped \/ link # port.link) \in BOOLEAN
    OBVIOUS
  <2>5. poller' \in [link : Links, flapped : BOOLEAN]
    BY <2>1, <2>4, Zenon DEF TypeOK
  <2> QED
    BY <1>1, <2>3, <2>5 DEF Change, TypeOK, pageVars
<1>2. CASE Poll
  <2>1. [link |-> IF port.link = poller.link THEN "bounced" ELSE port.link, at |-> now] \in Records
    BY DEF TypeOK, Records
  <2> QED
    BY <1>2, <2>1 DEF Poll, TypeOK, pageVars
<1>3. CASE ReadBegins
  BY <1>3 DEF ReadBegins, TypeOK, pageVars
<1>4. CASE ReadEnds
  BY <1>4 DEF ReadEnds, TypeOK, Readings, BadgeOf, Badges, pageVars
<1>5. CASE ReadFails
  BY <1>5 DEF ReadFails, TypeOK, Readings, pageVars
<1>6. CASE DashboardAnswers
  BY <1>6 DEF DashboardAnswers, TypeOK, pageVars
<1>7. CASE SocketDrops
  BY <1>7 DEF SocketDrops, TypeOK, pageVars
<1>8. CASE SocketOpens
  BY <1>8 DEF SocketOpens, TypeOK, pageVars
<1>9. CASE Tick
  BY <1>9 DEF Tick, TypeOK, Moments, pageVars
<1>10. CASE Pushed
  BY <1>10, PushedType
<1>11. CASE Refreshed
  BY <1>11, RefreshedType
<1>12. CASE UNCHANGED vars
  BY <1>12 DEF vars, TypeOK
<1> QED
  BY <1>1, <1>2, <1>3, <1>4, <1>5, <1>6, <1>7, <1>8, <1>9, <1>10, <1>11, <1>12 DEF Next

(* The keeper's types, in every behaviour: it keeps and draws only a record with a link state, *)
(* whatever the poller pushed (createKeeper.apply).                                            *)
THEOREM TypeCorrect == Spec => []TypeOK
  BY InitType, NextType, PTL DEF Spec

----------------------------------------------------------------------------
(* A newer reading is believed *)

(* The record kept is not newer than the newest applied; a badge just rebuilt either is the   *)
(* reading's or is drawn over a reading older than the record kept.                           *)
KeptInv ==
    /\ kept # None => applied # None /\ kept.at <= applied.at
    /\ (~since /\ kept # None) => reading.from < kept.at
    /\ (~since /\ kept = None) => drawn = reading.badge

LEMMA PushedKept ==
  ASSUME TypeOK, KeptInv, Pushed
  PROVE  KeptInv'
<1>1. PICK record \in wire :
        /\ IF Applies(record)
           THEN /\ kept' = record
                /\ applied' = IF applied = None \/ record.at >= applied.at THEN record ELSE applied
                /\ since' = TRUE
           ELSE UNCHANGED <<drawn, kept, applied, since>>
        /\ reading' = reading
  BY DEF Pushed
<1>2. CASE Applies(record)
  <2>1. record.at \in Int
    BY KeeperAssumption DEF TypeOK, Records, Moments
  <2>2. applied # None => applied.at \in Int
    BY KeeperAssumption DEF TypeOK, Moments
  <2>3. CASE applied = None \/ record.at >= applied.at
    BY <1>1, <1>2, <2>1, <2>3 DEF KeptInv
  <2>4. CASE ~(applied = None \/ record.at >= applied.at)
    BY <1>1, <1>2, <2>1, <2>2, <2>4 DEF KeptInv
  <2> QED
    BY <2>3, <2>4
<1>3. CASE ~Applies(record)
  BY <1>1, <1>3 DEF KeptInv
<1> QED
  BY <1>2, <1>3

LEMMA RefreshedKept ==
  ASSUME TypeOK, KeptInv, Refreshed
  PROVE  KeptInv'
<1>1. PICK r \in flight :
        /\ reading' = r
        /\ IF kept # None /\ ~CaughtUp(kept, r)
           THEN kept' = kept
           ELSE drawn' = r.badge /\ kept' = None
        /\ since' = FALSE /\ applied' = applied
  BY DEF Refreshed
<1>2. r.from \in Int /\ (kept # None => kept.at \in Int)
  BY KeeperAssumption DEF TypeOK, Readings, Moments, NoTime
<1> QED
  BY <1>1, <1>2 DEF KeptInv, CaughtUp

LEMMA NextKept == TypeOK /\ KeptInv /\ [Next]_vars => KeptInv'
<1> SUFFICES ASSUME TypeOK, KeptInv, [Next]_vars
             PROVE  KeptInv'
  OBVIOUS
<1>1. CASE Pushed
  BY <1>1, PushedKept
<1>2. CASE Refreshed
  BY <1>2, RefreshedKept
<1>3. CASE UNCHANGED pageVars
  BY <1>3 DEF pageVars, KeptInv
<1>4. UNCHANGED pageVars \/ Pushed \/ Refreshed
  BY DEF Next, vars, pageVars, Change, Poll, ReadBegins, ReadEnds, ReadFails, DashboardAnswers,
         SocketDrops, SocketOpens, Tick
<1> QED
  BY <1>1, <1>2, <1>3, <1>4

LEMMA KeptGivesBelieved == TypeOK /\ KeptInv => ReadingBelieved
<1> SUFFICES ASSUME TypeOK, KeptInv, ~since, applied = None \/ reading.from >= applied.at
             PROVE  drawn = reading.badge
  BY DEF ReadingBelieved
<1>1. reading.from \in Int /\ (kept # None => kept.at \in Int) /\ (applied # None => applied.at \in Int)
  BY KeeperAssumption DEF TypeOK, Readings, Moments, NoTime
<1>2. kept = None
  BY <1>1 DEF KeptInv
<1> QED
  BY <1>2 DEF KeptInv

(* Any number of fetches at once, any order of records: a reading begun at or after every   *)
(* record applied is drawn as it is (createKeeper.reapply).                                 *)
THEOREM NewerReadingIsBelieved == Spec => []ReadingBelieved
<1>1. Init => KeptInv
  BY DEF Init, KeptInv
<1> QED
  BY <1>1, TypeCorrect, NextKept, KeptGivesBelieved, PTL DEF Spec

----------------------------------------------------------------------------
(* A refresh undoes nothing, when one fetch follows the other *)

(* At most one answer is on its way, so readings reach the page in the order they began; the  *)
(* table's reading is older than the newest record only while that record is the one kept.    *)
OneByOne ==
    /\ flight = {} \/ \E r \in Readings : flight = {r}
    /\ \A r \in flight : reading.begun <= r.begun /\ r.begun <= cache.begun
    /\ reading.begun <= cache.begun
    /\ cache.begun <= now
    /\ begun # None => cache.begun <= begun /\ begun <= now
    /\ \A r \in flight \cup {cache} : r.from <= r.begun

UndoneInv ==
    (applied # None /\ reading.begun < applied.at) => kept = applied /\ drawn \in {applied.link, "off"}

LEMMA NumberTypes ==
  ASSUME TypeOK
  PROVE  /\ now \in Nat
         /\ begun # None => begun \in Nat
         /\ \A r \in flight \cup {cache, reading} : r.begun \in Nat /\ r.from \in Int /\ r.from >= -1
         /\ applied # None => applied.at \in Nat
         /\ kept # None => kept.at \in Nat
<1>1. \A r \in flight \cup {cache, reading} : r \in Readings
  BY DEF TypeOK
<1>2. \A r \in Readings : r.begun \in Nat /\ r.from \in Int /\ r.from >= -1
  BY KeeperAssumption DEF Readings, Moments, NoTime
<1> QED
  BY <1>1, <1>2, KeeperAssumption DEF TypeOK, Moments

LEMMA NextOneByOne ==
  ASSUME MaxFlight <= 1, TypeOK, OneByOne, [Next]_vars
  PROVE  OneByOne'
<1> USE NumberTypes
<1>1. CASE ReadBegins
  BY <1>1 DEF ReadBegins, OneByOne, pageVars
<1>2. CASE ReadEnds
  BY <1>2 DEF ReadEnds, OneByOne, pageVars
<1>3. CASE ReadFails
  <2>1. cache'.begun = cache.begun /\ cache'.from = -1
    BY <1>3 DEF ReadFails, TypeOK, Readings, NoTime
  <2>2. UNCHANGED <<now, flight, reading>> /\ begun' = None
    BY <1>3 DEF ReadFails, pageVars
  <2>3. \A r \in flight \cup {cache'} : r.from <= r.begun
    BY <2>1 DEF OneByOne
  <2> QED
    BY <2>1, <2>2, <2>3 DEF OneByOne
<1>4. CASE DashboardAnswers
  <2>1. ASSUME NEW r, flight = {r}
        PROVE  FALSE
    <3>1. Cardinality(flight) = 1
      BY <2>1, FS_Singleton
    <3> QED
      BY <1>4, <3>1, KeeperAssumption DEF DashboardAnswers
  <2>2. flight = {}
    BY <2>1 DEF OneByOne
  <2>3. flight' = {cache} /\ cache \in Readings
    BY <1>4, <2>2 DEF DashboardAnswers, TypeOK
  <2> QED
    BY <1>4, <2>3 DEF DashboardAnswers, OneByOne, pageVars
<1>5. CASE Tick
  BY <1>5 DEF Tick, OneByOne, pageVars
<1>6. CASE Refreshed
  <2>1. PICK r \in flight : flight' = flight \ {r} /\ reading' = r
    BY <1>6 DEF Refreshed
  <2>2. flight' = {}
    BY <2>1 DEF OneByOne
  <2> QED
    BY <1>6, <2>1, <2>2 DEF Refreshed, OneByOne
<1>7. CASE UNCHANGED <<now, begun, cache, flight, reading>>
  BY <1>7 DEF OneByOne
<1>8. \/ UNCHANGED <<now, begun, cache, flight, reading>>
      \/ ReadBegins \/ ReadEnds \/ ReadFails \/ DashboardAnswers \/ Tick \/ Refreshed
  BY DEF Next, vars, pageVars, Change, Poll, SocketDrops, SocketOpens, Pushed
<1> QED
  BY <1>1, <1>2, <1>3, <1>4, <1>5, <1>6, <1>7, <1>8

LEMMA PushedUndone ==
  ASSUME TypeOK, UndoneInv, Pushed
  PROVE  UndoneInv'
<1>1. PICK record \in wire :
        /\ IF Applies(record)
           THEN /\ drawn' = Over(drawn, record.link)
                /\ kept' = record
                /\ applied' = IF applied = None \/ record.at >= applied.at THEN record ELSE applied
           ELSE UNCHANGED <<drawn, kept, applied>>
        /\ reading' = reading
  BY DEF Pushed
<1>2. CASE Applies(record)
  <2>1. record.at \in Int /\ reading.begun \in Nat /\ (applied # None => applied.at \in Nat)
    BY NumberTypes, KeeperAssumption DEF TypeOK, Records, Moments
  <2>2. CASE applied = None \/ record.at >= applied.at
    BY <1>1, <1>2, <2>2 DEF UndoneInv, Over
  <2>3. CASE ~(applied = None \/ record.at >= applied.at)
    BY <1>1, <1>2, <2>1, <2>3 DEF UndoneInv, Applies
  <2> QED
    BY <2>2, <2>3
<1>3. CASE ~Applies(record)
  BY <1>1, <1>3 DEF UndoneInv
<1> QED
  BY <1>2, <1>3

LEMMA RefreshedUndone ==
  ASSUME TypeOK, OneByOne, UndoneInv, Refreshed
  PROVE  UndoneInv'
<1>1. PICK r \in flight :
        /\ reading' = r
        /\ IF kept # None /\ ~CaughtUp(kept, r)
           THEN drawn' = Over(r.badge, kept.link) /\ kept' = kept
           ELSE drawn' = r.badge /\ kept' = None
        /\ applied' = applied
  BY DEF Refreshed
<1> SUFFICES ASSUME applied # None, r.begun < applied.at
             PROVE  kept' = applied /\ drawn' \in {applied.link, "off"}
  BY <1>1 DEF UndoneInv
<1>2. reading.begun < applied.at /\ r.from < applied.at
  BY NumberTypes DEF OneByOne
<1>3. kept = applied
  BY <1>2 DEF UndoneInv
<1>4. ~CaughtUp(kept, r)
  BY <1>2, <1>3, NumberTypes DEF CaughtUp
<1> QED
  BY <1>1, <1>3, <1>4 DEF Over

LEMMA NextUndone ==
  ASSUME TypeOK, OneByOne, UndoneInv, [Next]_vars
  PROVE  UndoneInv'
<1>1. CASE Pushed
  BY <1>1, PushedUndone
<1>2. CASE Refreshed
  BY <1>2, RefreshedUndone
<1>3. CASE UNCHANGED pageVars
  BY <1>3 DEF pageVars, UndoneInv
<1>4. UNCHANGED pageVars \/ Pushed \/ Refreshed
  BY DEF Next, vars, pageVars, Change, Poll, ReadBegins, ReadEnds, ReadFails, DashboardAnswers,
         SocketDrops, SocketOpens, Tick
<1> QED
  BY <1>1, <1>2, <1>3, <1>4

(* When the page asks for one reading at a time, no refresh undoes a pushed change, whatever  *)
(* the number of records, changes and lost sockets; with two at once it can (the run          *)
(* link_keeper_overlap).                                                                      *)
THEOREM RefreshUndoesNothing ==
  ASSUME MaxFlight <= 1
  PROVE  Spec => []NotUndone
<1>1. Init => OneByOne /\ UndoneInv
  <2> SUFFICES ASSUME Init
               PROVE  OneByOne /\ UndoneInv
    OBVIOUS
  <2> QED
    BY DEF Init, OneByOne, UndoneInv
<1>2. TypeOK /\ OneByOne /\ UndoneInv /\ [Next]_vars => (OneByOne /\ UndoneInv)'
  BY NextOneByOne, NextUndone
<1>3. UndoneInv => NotUndone
  BY DEF UndoneInv, NotUndone
<1> QED
  BY <1>1, <1>2, <1>3, TypeCorrect, PTL DEF Spec
=============================================================================
