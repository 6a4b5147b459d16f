--------------------------- MODULE FleetPageProofs ---------------------------
(***************************************************************************)
(* Proofs about the pages' reads (FleetPage), for every set of machines,   *)
(* ports, payloads and windows: a page put together from reads of several  *)
(* moments offers nothing that was silent at its own look, and             *)
(* tinytapeout's page offers nothing under a setup port's name.            *)
(***************************************************************************)
EXTENDS FleetPage, FleetRegistryProofs

----------------------------------------------------------------------------
(* A page only reads *)

LEMMA PageOnlyReads == [PageNext]_pageVars => [Next]_vars
  BY DEF PageNext, pageVars, Ask, ReadReports, ReadCheckedIn, ReadHosts, ReadNewest, ReadRows, Answered

(* A request leaves the tables as they are at each of its queries, so that a site that serves *)
(* pages is a registry as FleetRegistry says: every theorem about the registry holds of it.   *)
THEOREM PagesKeepRegistry == PageSpec => Spec
<1>1. PageInit => Init
  BY DEF PageInit
<1> QED
  BY <1>1, PageOnlyReads, PTL DEF PageSpec, Spec

LEMMA RegistryHolds == PageSpec => [](TypeOK /\ HeardInv)
  BY PagesKeepRegistry, TypeCorrect, InitHeard, NextHeard, PTL DEF Spec

----------------------------------------------------------------------------
(* What is offered was heard *)

HasEvent(s) == \E i \in DOMAIN events : events[i].serial = s

(* What the half-made answer stands on. A report of a good check was read from an event, and  *)
(* events stay: whoever has one is seen only by its own word. So of the machines read to be   *)
(* checked in those with such a report had been heard by then, and what was heard stays heard. *)
PageInv ==
    /\ read = [asking |-> read.asking, step |-> read.step, reports |-> read.reports, live |-> read.live,
               newest |-> read.newest]
    /\ page = [rows |-> page.rows, at |-> page.at]
    /\ page.at \in Nat /\ page.at <= now
    /\ read.asking = "none" <=> read.step = "none"
    /\ read.step \in {"checked_in", "hosts", "rows"} =>
          \A s \in DOMAIN read.reports : read.reports[s] = "pass" => HasEvent(s)
    /\ read.step \in {"hosts", "rows"} =>
          /\ page.rows = {}
          /\ \A s \in read.live :
                s \in Serials /\ (Reported(s) = "pass" => heard[s] >= page.at - CheckedInWithin)
    /\ \A row \in OnPage : row.serial \in Serials
    /\ PageOfferedWasHeard

(* Of the registry's steps a page only feels that events are added and machines heard. *)
LEMMA RegistryGrows ==
  ASSUME TypeOK, TypeOK', [Next]_vars
  PROVE  /\ now \in Nat /\ now' \in Nat /\ now <= now'
         /\ \A s : HasEvent(s) => HasEvent(s)'
         /\ \A s \in Serials : heard'[s] = heard[s] \/ heard'[s] = now'
<1>1. now \in Nat /\ now' \in Nat /\ now <= now'
  BY SeenTypes, SeenSteps DEF TypeOK
<1>2. CASE \E doc \in Docs, retained \in BOOLEAN : RegisterDocument(doc, retained)
  BY <1>1, <1>2 DEF RegisterDocument, Hears, HasEvent, TypeOK
<1>3. CASE \E s \in Serials, p \in Statuses, retained \in BOOLEAN : Status(s, p, retained)
  BY <1>1, <1>3 DEF Status, Hears, HasEvent, TypeOK
<1>4. CASE \E s \in Serials, e \in Checks : BootEvent(s, e)
  <2>1. PICK m \in Serials, e \in Checks : BootEvent(m, e)
    BY <1>4
  <2>2. heard' = [heard EXCEPT ![m] = now] /\ now' = now
    BY <2>1 DEF BootEvent, Hears
  <2>3. \A i \in DOMAIN events : i \in DOMAIN events' /\ events'[i] = events[i]
    BY <2>1 DEF BootEvent, TypeOK
  <2> QED
    BY <1>1, <2>2, <2>3 DEF HasEvent, TypeOK
<1>5. CASE Tick \/ UNCHANGED vars
  BY <1>1, <1>5 DEF Tick, vars, HasEvent
<1> QED
  BY <1>1, <1>2, <1>3, <1>4, <1>5 DEF Next

LEMMA InitPage == PageInit => PageInv
  BY DEF PageInit, Init, PageInv, NothingRead, OnPage, PageOfferedWasHeard

LEMMA BesidesPage ==
  ASSUME TypeOK, TypeOK', PageInv, [Next]_vars, UNCHANGED <<read, page>>
  PROVE  PageInv'
<1>1. /\ now \in Nat /\ now' \in Nat /\ now <= now'
      /\ \A s : HasEvent(s) => HasEvent(s)'
      /\ \A s \in Serials : heard'[s] = heard[s] \/ heard'[s] = now'
  BY RegistryGrows
<1>2. page.at \in Nat /\ page.at <= now' /\ now' >= page.at - CheckedInWithin
  BY <1>1, RegistryAssumption DEF PageInv
<1>3. \A s \in Serials : heard[s] >= page.at - CheckedInWithin => heard'[s] >= page.at - CheckedInWithin
  BY <1>1, <1>2
<1>4. PageOfferedWasHeard'
  BY <1>3 DEF PageInv, PageOfferedWasHeard, OnPage
<1> QED
  BY <1>1, <1>2, <1>3, <1>4 DEF PageInv, OnPage, Reported

LEMMA ReadReportsInv ==
  ASSUME TypeOK, PageInv, ReadReports
  PROVE  PageInv'
<1>1. ASSUME NEW s \in Registered, fpga_report(s) = "pass"
      PROVE  HasEvent(s)
  BY <1>1 DEF fpga_report, ReportsOf, HasEvent
<1>2. /\ read'.step = "checked_in" /\ read'.asking = read.asking
      /\ read'.reports = [s \in Registered |-> fpga_report(s)]
      /\ UNCHANGED <<vars, page>>
  BY DEF ReadReports, PageInv
<1>3. read' = [asking |-> read'.asking, step |-> read'.step, reports |-> read'.reports, live |-> read'.live,
               newest |-> read'.newest]
  BY DEF ReadReports, PageInv
<1>4. read.asking # "none"
  BY DEF ReadReports, PageInv
<1> QED
  BY <1>1, <1>2, <1>3, <1>4 DEF PageInv, HasEvent, OnPage, PageOfferedWasHeard, vars

(* The look at who is checked in: whoever has a good report has spoken within the window. *)
LEMMA ReadCheckedInInv ==
  ASSUME TypeOK, HeardInv, PageInv, ReadCheckedIn
  PROVE  PageInv'
<1>1. /\ read'.step = "hosts" /\ read'.asking = read.asking /\ read'.reports = read.reports
      /\ read'.live = checked_in
      /\ page' = [rows |-> {}, at |-> now]
      /\ UNCHANGED vars
      /\ read.step = "checked_in" /\ read.asking # "none"
  BY DEF ReadCheckedIn, PageInv
<1>2. read' = [asking |-> read'.asking, step |-> read'.step, reports |-> read'.reports, live |-> read'.live,
               newest |-> read'.newest]
  BY DEF ReadCheckedIn, PageInv
<1>3. ASSUME NEW s \in checked_in
      PROVE  s \in Serials /\ (Reported(s) = "pass" => heard[s] >= now - CheckedInWithin)
  <2>1. s \in Registered /\ s \in Serials /\ machines[s].last_seen >= now - CheckedInWithin
    BY <1>3 DEF checked_in, TypeOK
  <2>2. ASSUME Reported(s) = "pass"
        PROVE  machines[s].last_seen <= heard[s]
    <3>1. HasEvent(s)
      BY <1>1, <2>2 DEF Reported, PageInv
    <3> QED
      BY <3>1 DEF HasEvent, HeardInv
  <2>3. machines[s].last_seen \in Int /\ heard[s] \in Int /\ now \in Int /\ CheckedInWithin \in Int
    BY <2>1, SeenTypes, RegistryAssumption DEF TypeOK, Moments, Never
  <2> QED
    BY <2>1, <2>2, <2>3
<1>4. now \in Nat /\ now <= now
  BY SeenTypes
<1>5. \A s : Reported(s)' = Reported(s)
  BY <1>1 DEF Reported
<1> QED
  BY <1>1, <1>2, <1>3, <1>4, <1>5 DEF PageInv, HasEvent, OnPage, PageOfferedWasHeard, vars

(* The answer: its offered rows are of machines that were read to be checked in, with a good  *)
(* report.                                                                                     *)
LEMMA AnsweredInv ==
  ASSUME PageInv, read.step \in {"hosts", "rows"}, NEW rows, Answered(rows),
         \A row \in rows : row.offered => row.serial \in read.live /\ Reported(row.serial) = "pass"
  PROVE  PageInv'
<1>1. /\ page' = [rows |-> rows, at |-> page.at]
      /\ read' = NothingRead
      /\ UNCHANGED vars
  BY DEF Answered, PageInv
<1>2. \A row \in OnPage' : row.serial \in Serials /\ heard[row.serial] >= page.at - CheckedInWithin
  BY <1>1 DEF OnPage, PageInv
<1>3. PageOfferedWasHeard'
  BY <1>1, <1>2 DEF PageOfferedWasHeard, vars
<1> QED
  BY <1>1, <1>2, <1>3 DEF PageInv, NothingRead, vars

LEMMA ReadHostsInv ==
  ASSUME PageInv, ReadHosts
  PROVE  PageInv'
<1> DEFINE offered == {h \in DOMAIN machine_hosts :
                         is_offered(Reported(machine_hosts[h]), machine_hosts[h] \in read.live)}
           rows == {PageRow(machine_hosts[h], h, TRUE) : h \in offered}
<1>1. Answered(rows) /\ read.step = "hosts"
  BY DEF ReadHosts
<1>2. \A row \in rows : row.serial \in read.live /\ Reported(row.serial) = "pass"
  BY DEF PageRow, is_offered
<1> HIDE DEF rows
<1> QED
  BY <1>1, <1>2, AnsweredInv

(* The row of a machine that stands under the setup port's name is not offered. *)
LEMMA RowStateReported ==
  ASSUME NEW s, RowState(s) = "pass"
  PROVE  Reported(s) = "pass" /\ ~on_setup_port(machines[s].hostname)
  BY DEF RowState, setup_port_state

LEMMA ReadRowsOffers ==
  ASSUME ReadRows
  PROVE  \E rows :
            /\ Answered(rows) /\ read.step = "rows"
            /\ \A row \in rows : row.offered => /\ row.serial \in read.live /\ Reported(row.serial) = "pass"
                                                /\ ~on_setup_port(row.hostname)
<1> DEFINE chosen == {read.newest[h] : h \in DOMAIN read.newest}
           rows == {PageRow(s, machines[s].hostname, is_offered(RowState(s), s \in read.live)) : s \in chosen}
<1>1. Answered(rows) /\ read.step = "rows"
  BY DEF ReadRows
<1>2. ASSUME NEW row \in rows, row.offered
      PROVE  /\ row.serial \in read.live /\ Reported(row.serial) = "pass"
             /\ ~on_setup_port(row.hostname)
  <2>1. PICK s \in chosen : row = PageRow(s, machines[s].hostname, is_offered(RowState(s), s \in read.live))
    BY <1>2
  <2>2. row.serial = s /\ row.hostname = machines[s].hostname /\ RowState(s) = "pass" /\ s \in read.live
    BY <1>2, <2>1 DEF PageRow, is_offered
  <2> QED
    BY <2>2, RowStateReported
<1> HIDE DEF rows
<1> QED
  BY <1>1, <1>2

LEMMA NextPage ==
  ASSUME TypeOK, TypeOK', HeardInv, PageInv, [PageNext]_pageVars
  PROVE  PageInv'
<1>1. CASE (Next /\ UNCHANGED <<read, page>>) \/ UNCHANGED pageVars
  BY <1>1, BesidesPage DEF pageVars
<1>2. ASSUME NEW request \in {"offered_boards", "reporting_machines"}, Ask(request)
      PROVE  PageInv'
  <2>1. read'.step = "reports" /\ read'.asking = request /\ UNCHANGED <<vars, page>>
    BY <1>2 DEF Ask, PageInv
  <2>2. read' = [asking |-> read'.asking, step |-> read'.step, reports |-> read'.reports,
                 live |-> read'.live, newest |-> read'.newest]
    BY <1>2 DEF Ask, PageInv
  <2> QED
    BY <2>1, <2>2 DEF PageInv, OnPage, PageOfferedWasHeard, vars
<1>3. CASE ReadReports
  BY <1>3, ReadReportsInv
<1>4. CASE ReadCheckedIn
  BY <1>4, ReadCheckedInInv
<1>5. CASE ReadHosts
  BY <1>5, ReadHostsInv
<1>6. CASE ReadNewest
  <2>1. /\ read'.step = "rows" /\ read.step = "hosts" /\ read'.asking = read.asking /\ read.asking # "none"
        /\ read'.reports = read.reports /\ read'.live = read.live
        /\ UNCHANGED <<vars, page>>
    BY <1>6 DEF ReadNewest, PageInv
  <2>2. read' = [asking |-> read'.asking, step |-> read'.step, reports |-> read'.reports,
                 live |-> read'.live, newest |-> read'.newest]
    BY <1>6 DEF ReadNewest, PageInv
  <2> QED
    BY <2>1, <2>2 DEF PageInv, OnPage, PageOfferedWasHeard, HasEvent, Reported, vars
<1>7. CASE ReadRows
  BY <1>7, ReadRowsOffers, AnsweredInv
<1> QED
  BY <1>1, <1>2, <1>3, <1>4, <1>5, <1>6, <1>7 DEF PageNext

LEMMA PageHolds == PageSpec => []PageInv
<1>1. TypeOK /\ TypeOK' /\ HeardInv /\ PageInv /\ [PageNext]_pageVars => PageInv'
  BY NextPage
<1> QED
  BY <1>1, InitPage, RegistryHolds, PTL DEF PageSpec

(* Whatever the consumer writes between the queries of a request, either page offers only Pis *)
(* that were heard themselves within CHECKED_IN_WITHIN of its look at checked_in.             *)
THEOREM PageOffersTheHeard == PageSpec => []PageOfferedWasHeard
<1>1. PageInv => PageOfferedWasHeard
  BY DEF PageInv
<1> QED
  BY <1>1, PageHolds, PTL

(* The setup port's rule, applied to the hostname read last, holds of tinytapeout's answer    *)
(* though the machine may have moved after its check was read (reporting_machines).           *)
THEOREM RowsOffSetupPort == PageSpec => RowOffSetupPort
<1>1. ASSUME PageInv, [PageNext]_pageVars, read.step = "rows"
      PROVE  \A row \in OnPage' : ~on_setup_port(row.hostname)
  <2>1. CASE ReadRows
    BY <1>1, <2>1, ReadRowsOffers DEF Answered, PageInv, OnPage
  <2>2. CASE ~ReadRows
    <3>1. page' = page
      BY <1>1, <2>2 DEF PageNext, pageVars, Ask, ReadReports, ReadCheckedIn, ReadHosts, ReadNewest
    <3> QED
      BY <1>1, <3>1 DEF PageInv, OnPage
  <2> QED
    BY <2>1, <2>2
<1>2. PageInv /\ [PageNext]_pageVars =>
        [read.step = "rows" => \A row \in OnPage' : ~on_setup_port(row.hostname)]_pageVars
  BY <1>1
<1> QED
  BY <1>2, PageHolds, PTL DEF PageSpec, RowOffSetupPort
=============================================================================
