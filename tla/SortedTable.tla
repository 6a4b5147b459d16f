---------------------------- MODULE SortedTable ----------------------------
(***************************************************************************)
(* A table of the management pages that the reader can sort                *)
(* (management/static/management/table.js), on a page whose tables are     *)
(* drawn again under the reader's hands: in place every minute             *)
(* (refreshEvery), or row by row by the switch page, which asks for        *)
(* MgmtTable.resort.                                                       *)
(*                                                                         *)
(* A cell is the number it sorts by; `compare` is the order of numbers. A  *)
(* column is its header's text. Scrolling, focus and wording are left out. *)
(***************************************************************************)
EXTENDS Integers, Sequences, FiniteSets

CONSTANTS
    Tables,   \* what the site may serve: [cols, rows], rows a sequence of functions from columns to numbers
    None      \* no sort chosen

VARIABLES
    kind,     \* how the page is drawn again: "region" or "rows"
    up,       \* whether the site answers
    site,     \* the table the site serves now
    source,   \* history: the table as it was served that is drawn now
    body,     \* the rows in the order drawn: [cells, served]
    ariaSort, \* what each header says
    chosen,   \* the reader's sort
    storage,  \* whether sessionStorage is there
    kept,   \* what it holds
    fetch,    \* the refresh: "no", "out", "back" or "lost"
    answer    \* the table it brings, None before

vars == <<kind, up, site, source, body, ariaSort, chosen, storage, kept, fetch, answer>>
page == <<source, body, ariaSort, chosen, storage, kept>>
refresh == <<fetch, answer>>

Unnumbered == 0
Directions == {"none", "ascending", "descending"}

(***************************************************************************)
(* Sorting                                                                 *)
(***************************************************************************)
(* Equal keys keep the served order. *)
Before_AsDrawn(p, q, column, direction) ==
    LET x == p.cells[column]
        y == q.cells[column]
    IN IF direction = "none" THEN p.served < q.served
       ELSE IF direction = "ascending" THEN x < y ELSE x > y

Before(p, q, column, direction) ==
    LET x == p.cells[column]
        y == q.cells[column]
    IN IF direction = "none" \/ x = y THEN p.served < q.served
       ELSE IF direction = "ascending" THEN x < y ELSE x > y

(* A row that has no number yet gets that of its place: the served order of a body just built. *)
Numbered(rows) ==
    [i \in DOMAIN rows |-> IF rows[i].served = Unnumbered THEN [rows[i] EXCEPT !.served = i] ELSE rows[i]]

(* A stable sort: a row's place is the number of the rows that come sooner, those that stand before it and do not come
   after it among them. *)
sortBody(rows, column, direction) ==
    LET numbered == Numbered(rows)
        Sooner(j, i) == IF j < i THEN ~Before(numbered[i], numbered[j], column, direction)
                                 ELSE Before(numbered[j], numbered[i], column, direction)
        place == [i \in DOMAIN rows |-> Cardinality({j \in DOMAIN rows : Sooner(j, i)})]
    IN [k \in DOMAIN rows |-> numbered[CHOOSE i \in DOMAIN rows : place[i] = k - 1]]

Fresh(table) == [i \in DOMAIN table.rows |-> [cells |-> table.rows[i], served |-> Unnumbered]]

AllNone(cols) == [c \in cols |-> "none"]

(* enhance: a table just drawn gets its buttons, its served rows their numbers, and the reader's order again. A column
   that is no longer there sorts nothing. *)
enhance(table, want) ==
    LET there == want # None /\ want.column \in table.cols
        column == IF there THEN want.column ELSE CHOOSE c \in table.cols : TRUE
        direction == IF there THEN want.direction ELSE "none"
    IN /\ source' = table
       /\ ariaSort' = [AllNone(table.cols) EXCEPT ![column] = direction]
       /\ body' = sortBody(Fresh(table), column, direction)

(* resort: the headers stay, the body was built anew. *)
Sorted(cols) == {c \in cols : ariaSort[c] # "none"}

resort(rows) ==
    IF Sorted(source.cols) = {} THEN rows
    ELSE LET c == CHOOSE c \in Sorted(source.cols) : TRUE IN sortBody(rows, c, ariaSort[c])

(***************************************************************************)
(* What happens                                                            *)
(***************************************************************************)
Init ==
    /\ kind \in {"region", "rows"} /\ storage \in BOOLEAN
    /\ up = TRUE
    /\ site \in Tables /\ source = site
    /\ body = Numbered(Fresh(site))
    /\ ariaSort = AllNone(site.cols)
    /\ chosen = None /\ kept = None
    /\ fetch = "no" /\ answer = None

NextDirection(now) ==
    CASE now = "none" -> "ascending" [] now = "ascending" -> "descending" [] OTHER -> "none"

(* A press of a header's button. *)
Click(column) ==
    LET next == NextDirection(ariaSort[column])
    IN /\ ariaSort' = [AllNone(source.cols) EXCEPT ![column] = next]
       /\ body' = sortBody(body, column, next)
       /\ chosen' = IF next = "none" THEN None ELSE [column |-> column, direction |-> next]
       /\ kept' = IF storage THEN chosen' ELSE kept
       /\ UNCHANGED <<kind, up, site, source, storage, refresh>>

(* The page is loaded again, or the same page with another filter. *)
Reload ==
    /\ up
    /\ chosen' = kept
    /\ enhance(site, kept)
    /\ fetch' = "no" /\ answer' = None
    /\ UNCHANGED <<kind, up, site, storage, kept>>

(* The interval: nothing is asked while a refresh is out. *)
tick ==
    /\ kind = "region" /\ fetch = "no"
    /\ fetch' = "out"
    /\ UNCHANGED <<kind, up, site, page, answer>>

SiteAnswers ==
    /\ fetch = "out" /\ up
    /\ fetch' = "back" /\ answer' = site
    /\ UNCHANGED <<kind, up, site, page>>

(* The answer: the marked part is swapped for the new one, whatever the reader chose while it was on its way. *)
Swapped ==
    /\ fetch = "back"
    /\ enhance(answer, chosen)
    /\ fetch' = "no" /\ answer' = None
    /\ UNCHANGED <<kind, up, site, chosen, storage, kept>>

AnswerLost ==
    /\ fetch \in {"out", "back"} /\ ~up
    /\ fetch' = "lost" /\ answer' = None
    /\ UNCHANGED <<kind, up, site, page>>

(* The site says no, or REFRESH_TIMEOUT aborts the fetch: the tables stay as they were. *)
Failed_StaysBusy ==
    /\ fetch = "out" /\ ~up
    /\ fetch' = "lost"
    /\ UNCHANGED <<kind, up, site, page, answer>>

Failed ==
    /\ (fetch = "out" /\ ~up) \/ fetch = "lost"
    /\ fetch' = "no"
    /\ UNCHANGED <<kind, up, site, page, answer>>

(* The switch page draws its rows again from a reading: the headers of its tables do not change. *)
RowsDrawn ==
    /\ kind = "rows" /\ up /\ site.cols = source.cols
    /\ source' = site
    /\ body' = resort(Fresh(site))
    /\ UNCHANGED <<kind, up, site, ariaSort, chosen, storage, kept, refresh>>

SiteChanges ==
    /\ site' \in Tables
    /\ kind = "rows" => site'.cols = site.cols
    /\ UNCHANGED <<kind, up, page, refresh>>

SiteTurns ==
    /\ up' = ~up
    /\ UNCHANGED <<kind, site, page, refresh>>

Next ==
    \/ \E c \in source.cols : Click(c)
    \/ Reload
    \/ tick \/ SiteAnswers \/ Swapped \/ AnswerLost \/ Failed
    \/ RowsDrawn
    \/ SiteChanges \/ SiteTurns

Spec == Init /\ [][Next]_vars

(* The browser goes on: the interval fires, an answer that is made arrives, the timer aborts; a site that is up answers
   what it was asked. *)
Fairness ==
    /\ WF_vars(tick) /\ WF_vars(SiteAnswers) /\ WF_vars(Swapped)
    /\ WF_vars(Failed) /\ WF_vars(RowsDrawn)

(***************************************************************************)
(* What must hold                                                          *)
(***************************************************************************)
(* What is drawn is the table as it was served, each row once, in the order the reader chose, equal rows in the served
   order, and the headers say so: whichever clicks fell between a refresh's question and its answer, and whatever
   columns came and went. *)
Chose(c) == chosen # None /\ chosen.column = c
Served(i) == IF body[i].served = Unnumbered THEN i ELSE body[i].served

SortKept ==
    /\ \A c \in source.cols : ariaSort[c] = IF Chose(c) THEN chosen.direction ELSE "none"
    /\ Len(body) = Len(source.rows)
    /\ {Served(i) : i \in DOMAIN body} = DOMAIN source.rows
    /\ \A i \in DOMAIN body : body[i].cells = source.rows[Served(i)]
    /\ \A i, j \in DOMAIN body :
          i < j =>
            IF \E c \in source.cols : Chose(c)
              THEN LET x == body[i].cells[chosen.column]
                       y == body[j].cells[chosen.column]
                   IN \/ IF chosen.direction = "ascending" THEN x < y ELSE x > y
                      \/ x = y /\ Served(i) < Served(j)
              ELSE Served(i) < Served(j)

(* Once the site stays up and its table stays the same, that table is drawn, however many refreshes failed or were
   lost before. *)
DrawsTheLatest ==
    (<>[]up /\ <>[][FALSE]_site) => <>[](source = site)
=============================================================================
