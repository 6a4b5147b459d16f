----------------------------- MODULE FleetPage -----------------------------
(***************************************************************************)
(* A page's view of the fleet registry.  The site has no transaction       *)
(* around a request, so a page that asks several queries reads the tables  *)
(* at several moments while the consumer goes on writing them:             *)
(*   offered_boards (/fpgas/)        events, then checked_in, then hosts    *)
(*   reporting_machines (ttsite)     the same, then the chosen rows again   *)
(* One request at a time: two share nothing but the tables.                *)
(***************************************************************************)
EXTENDS FleetRegistry

VARIABLES
    read,  \* the request being answered: [asking, step: the query asked next, reports, live, newest]
    page   \* the last answer: [rows, at]; at: when its checked_in was read

pageVars == <<vars, read, page>>

PageRow(s, host, offered) == [serial |-> s, hostname |-> host, offered |-> offered]

NothingRead == [asking |-> "none", step |-> "none", reports |-> << >>, live |-> {}, newest |-> << >>]

PageInit ==
    /\ Init
    /\ read = NothingRead
    /\ page = [rows |-> {}, at |-> 0]

Ask(request) ==
    /\ read.asking = "none"
    /\ read' = [read EXCEPT !.asking = request, !.step = "reports"]
    /\ UNCHANGED <<vars, page>>

ReadReports ==
    /\ read.step = "reports"
    /\ read' = [read EXCEPT !.reports = [s \in Registered |-> fpga_report(s)], !.step = "checked_in"]
    /\ UNCHANGED <<vars, page>>

ReadCheckedIn ==
    /\ read.step = "checked_in"
    /\ read' = [read EXCEPT !.live = checked_in, !.step = "hosts"]
    /\ page' = [rows |-> {}, at |-> now]
    /\ UNCHANGED vars

(* reports.get(serial, ("", [])) *)
Reported(s) == IF s \in DOMAIN read.reports THEN read.reports[s] ELSE ""

Answered(rows) ==
    /\ page' = [page EXCEPT !.rows = rows]
    /\ read' = NothingRead
    /\ UNCHANGED vars

(* offered_boards ends with machine_hosts. *)
ReadHosts ==
    /\ read.step = "hosts" /\ read.asking = "offered_boards"
    /\ LET offered == {h \in DOMAIN machine_hosts :
                         is_offered(Reported(machine_hosts[h]), machine_hosts[h] \in read.live)}
       IN  Answered({PageRow(machine_hosts[h], h, TRUE) : h \in offered})

(* reporting_machines keeps the serials and reads their rows again. *)
ReadNewest ==
    /\ read.step = "hosts" /\ read.asking = "reporting_machines"
    /\ read' = [read EXCEPT !.newest = machine_hosts, !.step = "rows"]
    /\ UNCHANGED <<vars, page>>

(* Mutant: the state the reports gave is used as it is. *)
RowState_AsReported(s) == Reported(s)

(* The setup port's rule again, on the hostname of the row just read. *)
RowState(s) == setup_port_state(Reported(s), machines[s].hostname)

ReadRows ==
    /\ read.step = "rows"
    /\ Answered({PageRow(s, machines[s].hostname, is_offered(RowState(s), s \in read.live)) :
                   s \in {read.newest[h] : h \in DOMAIN read.newest}})

PageNext ==
    \/ Next /\ UNCHANGED <<read, page>>
    \/ \E request \in {"offered_boards", "reporting_machines"} : Ask(request)
    \/ ReadReports
    \/ ReadCheckedIn
    \/ ReadHosts
    \/ ReadNewest
    \/ ReadRows

PageSpec == PageInit /\ [][PageNext]_pageVars

----------------------------------------------------------------------------
(* Properties *)

OnPage == {row \in page.rows : row.offered}

(* A page put together from reads of several moments still offers only Pis that were heard   *)
(* themselves within CHECKED_IN_WITHIN of its own look at checked_in, on either page         *)
(* (offered_boards, reporting_machines).                                                     *)
PageOfferedWasHeard == \A row \in OnPage : heard[row.serial] >= page.at - CheckedInWithin

(* tinytapeout's page never offers a machine under a setup port's name, though the machine   *)
(* may have moved there after its check was read (reporting_machines' second                 *)
(* setup_port_state).                                                                        *)
RowOffSetupPort ==
    [][read.step = "rows" => \A row \in OnPage' : ~on_setup_port(row.hostname)]_pageVars

(* What on_setup_port's docstring says: "it is never offered": no page offers a machine      *)
(* under the setup port's name.                                                              *)
SetupPortNeverOffered == \A row \in OnPage : ~on_setup_port(row.hostname)
=============================================================================
