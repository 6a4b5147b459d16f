---------------------------- MODULE PowerButton ----------------------------
(***************************************************************************)
(* One PoE power button of the switch port dashboard (management/static/   *)
(* management/power-button.js): the tracker that remembers a press, the    *)
(* page's glue that sends it and redraws, the readings that refresh the    *)
(* table meanwhile, and every other visitor of the same port.              *)
(*                                                                         *)
(* The PoE service (/snmp/power) and its dashboard reader are not in the   *)
(* repository.  They are modelled from what the page says of them: the     *)
(* service writes the switch, reads it back and answers with the state,    *)
(* its time and the seconds it holds the port for; inside a hold it        *)
(* answers 429; a reading carries the time it STARTED and may be cached.   *)
(*                                                                         *)
(* One clock stands for two: the page compares its own times with its own  *)
(* (until, answered) and the gateway's with the gateway's (after, from).   *)
(***************************************************************************)
EXTENDS Integers, FiniteSets

CONSTANTS
    SETTLE,      \* SETTLE_MS, in units of time
    ANSWER,      \* ANSWER_MS
    Hold,        \* how long the service holds a port after switching it: state -> time
    None,        \* no state, no answer
    MaxTime,     \* bound: the last moment
    MaxPresses,  \* bound: presses of this page's button
    MaxFlight    \* bound: dashboard answers on their way to the page

States == {"on", "off"}
Replies == [kind : {"ok", "held", "error"}, state : States, seconds : Nat, at : 0 .. MaxTime]

ASSUME ButtonAssumption ==
    /\ SETTLE \in Nat /\ ANSWER \in Nat
    /\ MaxTime \in Nat /\ MaxPresses \in Nat
    /\ Hold \in [States -> Nat]
    /\ None \notin States \cup Replies

VARIABLES
    now,      \* the time
    switch,   \* the port at the switch: [state, held]; held: when the service lets it be switched again
    cache,    \* the dashboard's last reading: [state, from]
    begun,    \* when the reading under way started; None when there is none
    flight,   \* dashboard answers on their way to the page
    posts,    \* presses on their way to the service: [press, want]
    reply,    \* the service's answer on its way to the page, None when there is none
    page,     \* [press: presses so far, out: one is unanswered, at: when it was sent, reading: the table's]
    tracker,  \* the tracker's entry of the port; blank stands for no entry
    shown,    \* the button as last drawn: [action, busy, disabled]
    conf,     \* history: the last confirmation the page got: [state, at, followed, alone]
    unknown   \* history: a hold may run that the page was not told of

vars == <<now, switch, cache, begun, flight, posts, reply, page, tracker, shown, conf, unknown>>

Infinity == MaxTime + 1
NaN == -1   \* the reading of a switch that does not answer carries no time

Readings == [state : States, from : NaN .. MaxTime]
Entries == [busy : BOOLEAN, settling : BOOLEAN, until : Nat, state : States \cup {None},
            after : 0 .. Infinity, answered : 0 .. MaxTime]

----------------------------------------------------------------------------
(* The tracker *)

ACTION_OF(state) == IF state = "on" THEN "off" ELSE "on"

Blank == [busy |-> FALSE, settling |-> FALSE, until |-> 0, state |-> None, after |-> Infinity, answered |-> 0]

(* Mutant: forgetting a press forgets the hold too. *)
forget_Hold(p) == [p EXCEPT !.busy = FALSE, !.settling = FALSE, !.state = None, !.after = Infinity, !.until = 0]

forget(p) == [p EXCEPT !.busy = FALSE, !.settling = FALSE, !.state = None, !.after = Infinity]

start(p, state) == [p EXCEPT !.busy = TRUE, !.settling = FALSE, !.after = Infinity, !.state = state]

confirmed(p, state, seconds, after) ==
    [p EXCEPT !.busy = FALSE, !.settling = TRUE, !.until = now + seconds, !.state = state,
              !.after = after, !.answered = now]

held(p, seconds) ==
    [forget(p) EXCEPT !.until = IF p.until > now + seconds THEN p.until ELSE now + seconds]

(* Mutant: a press that failed leaves its twirl on. *)
failed_KeepsBusy(p) == [p EXCEPT !.settling = FALSE, !.state = None, !.after = Infinity]

failed(p) == forget(p)

(* Mutant: a reading that agrees with the press is believed (round 5b). *)
Follows_Agrees(p, r) == p.state # None /\ ~p.busy /\ (r.from > p.after \/ r.state = p.state)

(* A reading begun after the change: believe it. *)
Follows(p, r) == p.state # None /\ ~p.busy /\ r.from > p.after

(* Mutant: a press waits for its reading as long as it takes. *)
Stalls_Never(p, t) == FALSE

Stalls(p, t) == p.settling /\ t - p.answered > SETTLE

(* The entry as `view` leaves it at time t; one with nothing left in it is deleted. *)
Viewed(p, r, t) ==
    LET q == IF Follows(p, r) THEN forget(p)
             ELSE IF Stalls(p, t) THEN [p EXCEPT !.settling = FALSE]
             ELSE p
    IN  IF q.state = None /\ ~q.busy /\ q.until <= t THEN Blank ELSE q

(* What `view` draws from it. *)
View(p, r, t) ==
    LET turning == p.busy \/ p.settling
    IN  [action |-> ACTION_OF(IF p.state = None THEN r.state ELSE p.state),
         busy |-> turning,
         disabled |-> turning \/ p.until > t]

(* redraw: after every press, answer and refresh, and four times a second while a button counts. *)
Redraw(p, r, t) ==
    /\ tracker' = Viewed(p, r, t)
    /\ shown' = View(Viewed(p, r, t), r, t)

----------------------------------------------------------------------------
(* The page *)

Init ==
    /\ now = 0
    /\ switch \in [state : States, held : {0}]
    /\ cache = [state |-> switch.state, from |-> 0]
    /\ begun = None
    /\ flight = {}
    /\ posts = {}
    /\ reply = None
    /\ page = [press |-> 0, out |-> FALSE, at |-> 0, reading |-> cache]
    /\ tracker = Blank
    /\ shown = View(Blank, cache, 0)
    /\ conf = [state |-> None, at |-> 0, followed |-> FALSE, alone |-> TRUE]
    /\ unknown = FALSE

Press ==
    /\ ~shown.disabled
    /\ page.press < MaxPresses
    /\ page' = [page EXCEPT !.press = @ + 1, !.out = TRUE, !.at = now]
    /\ posts' = posts \cup {[press |-> page.press + 1, want |-> shown.action]}
    /\ Redraw(start(tracker, shown.action), page.reading, now)
    /\ conf' = [conf EXCEPT !.alone = FALSE]
    /\ UNCHANGED <<now, switch, cache, begun, flight, reply, unknown>>

(* The answer arrives; each one is followed by a redraw (and a refresh, which may come any time). *)
AnswerArrives ==
    /\ reply # None
    /\ page' = [page EXCEPT !.out = FALSE]
    /\ reply' = None
    /\ \/ /\ reply.kind = "ok"
          /\ Redraw(confirmed(tracker, reply.state, reply.seconds, reply.at), page.reading, now)
          /\ conf' = [state |-> reply.state, at |-> reply.at, alone |-> TRUE,
                      followed |-> page.reading.from > reply.at]
       \/ /\ reply.kind = "held"
          /\ Redraw(held(tracker, reply.seconds), page.reading, now)
          /\ conf' = conf
       \/ /\ reply.kind = "error"
          /\ Redraw(failed(tracker), page.reading, now)
          /\ conf' = conf
    /\ UNCHANGED <<now, switch, cache, begun, flight, posts, unknown>>

Late == page.out /\ now - page.at >= ANSWER

(* The page gives up on the answer: the request may be anywhere, and may still be carried out. *)
Abort ==
    /\ Late
    /\ page' = [page EXCEPT !.out = FALSE]
    /\ reply' = None
    /\ Redraw(failed(tracker), page.reading, now)
    /\ unknown' = TRUE
    /\ UNCHANGED <<now, switch, cache, begun, flight, posts, conf>>

(* tick's fetch is answered: update rebuilds the row, notes when the reading started, redraws. *)
Refreshed ==
    \E r \in flight :
        /\ flight' = flight \ {r}
        /\ page' = [page EXCEPT !.reading = r]
        /\ Redraw(tracker, r, now)
        /\ conf' = [conf EXCEPT !.followed = @ \/ r.from > conf.at]
        /\ UNCHANGED <<now, switch, cache, begun, posts, reply, unknown>>

----------------------------------------------------------------------------
(* The PoE service, the dashboard reader and the other visitors *)

Answer(post, r) == reply' = IF page.out /\ post.press = page.press THEN r ELSE reply

Switched(state) == [state |-> state, held |-> now + Hold[state]]

ServiceSwitches ==
    \E post \in posts :
        /\ now >= switch.held
        /\ posts' = posts \ {post}
        /\ switch' = Switched(post.want)
        /\ Answer(post, [kind |-> "ok", state |-> post.want, seconds |-> Hold[post.want], at |-> now])
        /\ UNCHANGED <<now, cache, begun, flight, page, tracker, shown, conf, unknown>>

ServiceHolds ==
    \E post \in posts :
        /\ now < switch.held
        /\ posts' = posts \ {post}
        /\ Answer(post, [kind |-> "held", state |-> switch.state, seconds |-> switch.held - now, at |-> now])
        /\ UNCHANGED <<now, switch, cache, begun, flight, page, tracker, shown, conf, unknown>>

(* Refused, or failed before or after the write. *)
ServiceFails ==
    \E post \in posts, wrote \in BOOLEAN :
        /\ now >= switch.held
        /\ posts' = posts \ {post}
        /\ switch' = IF wrote THEN Switched(post.want) ELSE switch
        /\ unknown' = (unknown \/ wrote)
        /\ Answer(post, [kind |-> "error", state |-> post.want, seconds |-> 0, at |-> now])
        /\ UNCHANGED <<now, cache, begun, flight, page, tracker, shown, conf>>

OtherVisitor ==
    /\ now >= switch.held
    /\ switch' = Switched(ACTION_OF(switch.state))
    /\ unknown' = TRUE
    /\ UNCHANGED <<now, cache, begun, flight, posts, reply, page, tracker, shown, conf>>

ReadBegins ==
    /\ begun = None
    /\ begun' = now
    /\ UNCHANGED <<now, switch, cache, flight, posts, reply, page, tracker, shown, conf, unknown>>

(* A switch that does not answer keeps its last ports, without a time. *)
ReadEnds ==
    /\ begun # None
    /\ begun' = None
    /\ \/ cache' = [state |-> switch.state, from |-> begun]
       \/ cache' = [cache EXCEPT !.from = NaN]
    /\ UNCHANGED <<now, switch, flight, posts, reply, page, tracker, shown, conf, unknown>>

DashboardAnswers ==
    /\ Cardinality(flight) < MaxFlight
    /\ flight' = flight \cup {cache}
    /\ UNCHANGED <<now, switch, cache, begun, posts, reply, page, tracker, shown, conf, unknown>>

(* Time does not pass the moment the page's own timers fire. *)
Tick ==
    /\ now < MaxTime /\ ~Late
    /\ now' = now + 1
    /\ Redraw(tracker, page.reading, now + 1)
    /\ UNCHANGED <<switch, cache, begun, flight, posts, reply, page, conf, unknown>>

Next ==
    \/ Press \/ AnswerArrives \/ Abort \/ Refreshed
    \/ ServiceSwitches \/ ServiceHolds \/ ServiceFails
    \/ OtherVisitor
    \/ ReadBegins \/ ReadEnds \/ DashboardAnswers
    \/ Tick

Spec == Init /\ [][Next]_vars

----------------------------------------------------------------------------
(* Properties *)

(* Type correctness: the button's entry, the readings and the answers have their shapes, and *)
(* the page waits for an answer exactly while the entry is busy.                             *)
TypeOK ==
    /\ now \in 0 .. MaxTime
    /\ switch \in [state : States, held : Nat]
    /\ cache \in Readings /\ flight \subseteq Readings
    /\ begun \in 0 .. MaxTime \cup {None}
    /\ posts \subseteq [press : 1 .. MaxPresses, want : States]
    /\ reply \in Replies \cup {None}
    /\ page \in [press : 0 .. MaxPresses, out : BOOLEAN, at : 0 .. MaxTime, reading : Readings]
    /\ tracker \in Entries
    /\ shown \in [action : States, busy : BOOLEAN, disabled : BOOLEAN]
    /\ tracker.busy = page.out

(* After a confirmation, and until the next press, the button is drawn from what the switch  *)
(* confirmed as long as every reading that came began no later; from the first that began    *)
(* after it on, from the table's reading, whatever it says (view).                           *)
DrawnFromTheNewer ==
    (conf.state # None /\ conf.alone) =>
        shown.action = ACTION_OF(IF conf.followed THEN page.reading.state ELSE conf.state)

(* No press turns for ever: whatever is lost, late or cached, the twirl has ended when an    *)
(* answer and then a reading have been waited for (ANSWER_MS, SETTLE_MS).                    *)
TwirlEnds == shown.busy => now <= page.at + ANSWER + SETTLE

(* The button counts its own holds down for long enough: a press is answered 429 only where  *)
(* someone else switched the port, or an earlier press's outcome never reached the page.     *)
OwnHoldKept == (reply # None /\ reply.kind = "held") => unknown

(* What the module's comment says: "keeps each port's confirmed state and draws the button   *)
(* from it until a reading that STARTED after the switch confirmed it arrives".              *)
ConfirmedKept ==
    (conf.state # None /\ ~conf.followed /\ ~page.out) => shown.action = ACTION_OF(conf.state)
=============================================================================
