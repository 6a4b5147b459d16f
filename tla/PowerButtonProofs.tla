------------------------- MODULE PowerButtonProofs -------------------------
(***************************************************************************)
(* What holds of the power button for every SETTLE_MS, ANSWER_MS and hold: *)
(* its types, that no press turns for ever, that it never presses into a   *)
(* hold it was told of, and that it is drawn from the newer fact.          *)
(***************************************************************************)
EXTENDS PowerButton, TLAPS

Buttons == [action : States, busy : BOOLEAN, disabled : BOOLEAN]

----------------------------------------------------------------------------
(* The tracker's operations *)

LEMMA BlankEntry == Blank \in Entries
  BY ButtonAssumption DEF Blank, Entries, Infinity

(* Forgetting keeps the hold and the types. *)
LEMMA ForgetEntry ==
  ASSUME NEW p \in Entries
  PROVE  /\ forget(p) \in Entries
         /\ ~forget(p).busy /\ ~forget(p).settling
         /\ forget(p).until = p.until /\ forget(p).answered = p.answered
<1>1. Infinity \in 0 .. Infinity
  BY ButtonAssumption DEF Infinity
<1>2. forget(p) = [p EXCEPT !.busy = FALSE, !.settling = FALSE, !.state = None, !.after = Infinity]
  BY DEF forget
<1>3. forget(p) \in Entries
  BY <1>1, <1>2 DEF Entries
<1> QED
  BY <1>2, <1>3 DEF Entries

(* What view leaves: the types, whether the button is busy, and a settling or a hold that  *)
(* still runs.                                                                              *)
LEMMA ViewedEntry ==
  ASSUME NEW p \in Entries, NEW r \in Readings, NEW t \in Nat
  PROVE  /\ Viewed(p, r, t) \in Entries
         /\ Viewed(p, r, t).busy = p.busy
         /\ Viewed(p, r, t).settling =>
               /\ p.settling /\ t - p.answered <= SETTLE
               /\ Viewed(p, r, t).answered = p.answered
         /\ Viewed(p, r, t).until = p.until \/ p.until <= t
<1> DEFINE q == IF Follows(p, r) THEN forget(p)
                ELSE IF Stalls(p, t) THEN [p EXCEPT !.settling = FALSE]
                ELSE p
<1>1. /\ q \in Entries
      /\ q.busy = p.busy
      /\ q.settling => p.settling /\ ~Stalls(p, t)
      /\ q.until = p.until /\ q.answered = p.answered
  <2>1. CASE Follows(p, r)
    BY <2>1, ForgetEntry DEF Follows, Entries
  <2>2. CASE ~Follows(p, r) /\ Stalls(p, t)
    BY <2>2 DEF Entries
  <2>3. CASE ~Follows(p, r) /\ ~Stalls(p, t)
    BY <2>3 DEF Entries
  <2> QED
    BY <2>1, <2>2, <2>3
<1>2. q.settling => t - p.answered <= SETTLE
  BY <1>1, ButtonAssumption DEF Stalls, Entries
<1>3. Viewed(p, r, t) = IF q.state = None /\ ~q.busy /\ q.until <= t THEN Blank ELSE q
  BY DEF Viewed
<1>4. CASE q.state = None /\ ~q.busy /\ q.until <= t
  <2>1. Viewed(p, r, t) = Blank
    BY <1>3, <1>4
  <2>2. p.busy = FALSE
    BY <1>1, <1>4 DEF Entries
  <2>3. ~Blank.busy /\ ~Blank.settling /\ Blank.busy = FALSE
    BY DEF Blank
  <2>4. p.until <= t
    BY <1>1, <1>4
  <2> QED
    BY <2>1, <2>2, <2>3, <2>4, BlankEntry
<1>5. CASE ~(q.state = None /\ ~q.busy /\ q.until <= t)
  <2>1. Viewed(p, r, t) = q
    BY <1>3, <1>5
  <2> QED
    BY <1>1, <1>2, <2>1
<1> QED
  BY <1>4, <1>5

LEMMA ViewButton ==
  ASSUME NEW p \in Entries, NEW r \in Readings, NEW t \in Nat
  PROVE  /\ View(p, r, t) \in Buttons
         /\ View(p, r, t).busy = (p.busy \/ p.settling)
         /\ View(p, r, t).disabled = (p.busy \/ p.settling \/ p.until > t)
<1>1. (p.busy \/ p.settling) \in BOOLEAN /\ (p.busy \/ p.settling \/ p.until > t) \in BOOLEAN
  OBVIOUS
<1>2. ACTION_OF(IF p.state = None THEN r.state ELSE p.state) \in States
  BY DEF ACTION_OF, States
<1> QED
  BY <1>1, <1>2 DEF View, Buttons

(* What a redraw leaves of the entry p, and of the button. *)
LEMMA Redrawn ==
  ASSUME NEW p \in Entries, NEW r \in Readings, NEW t \in Nat, Redraw(p, r, t)
  PROVE  /\ tracker' \in Entries
         /\ tracker'.busy = p.busy
         /\ tracker'.settling => /\ p.settling /\ t - p.answered <= SETTLE
                                 /\ tracker'.answered = p.answered
         /\ tracker'.until = p.until \/ p.until <= t
         /\ shown' \in Buttons
         /\ shown'.busy = (tracker'.busy \/ tracker'.settling)
         /\ shown'.disabled = (tracker'.busy \/ tracker'.settling \/ tracker'.until > t)
<1>1. tracker' = Viewed(p, r, t) /\ shown' = View(tracker', r, t)
  BY DEF Redraw
<1>2. tracker' \in Entries
  BY <1>1, ViewedEntry
<1> QED
  BY <1>1, <1>2, ViewedEntry, ViewButton

LEMMA AnsweredEntry ==
  ASSUME TypeOK, reply # None
  PROVE  /\ confirmed(tracker, reply.state, reply.seconds, reply.at) \in Entries
         /\ held(tracker, reply.seconds) \in Entries
         /\ failed(tracker) \in Entries
         /\ ~confirmed(tracker, reply.state, reply.seconds, reply.at).busy
         /\ confirmed(tracker, reply.state, reply.seconds, reply.at).answered = now
         /\ confirmed(tracker, reply.state, reply.seconds, reply.at).until = now + reply.seconds
         /\ ~held(tracker, reply.seconds).busy /\ ~held(tracker, reply.seconds).settling
         /\ ~failed(tracker).busy /\ ~failed(tracker).settling
         /\ failed(tracker).until = tracker.until
<1>1. tracker \in Entries /\ now \in 0 .. MaxTime /\ reply \in Replies
  BY DEF TypeOK, Entries
<1>2. now + reply.seconds \in Nat /\ reply.at \in 0 .. Infinity /\ reply.state \in States
  BY <1>1, ButtonAssumption DEF Replies, Infinity
<1>3. forget(tracker) \in Entries
  BY <1>1, ForgetEntry
<1>4. (IF tracker.until > now + reply.seconds THEN tracker.until ELSE now + reply.seconds) \in Nat
  BY <1>1, <1>2 DEF Entries
<1>5. held(tracker, reply.seconds) \in Entries
  BY <1>3, <1>4 DEF held, Entries
<1>6. ~held(tracker, reply.seconds).busy /\ ~held(tracker, reply.seconds).settling
  BY <1>1, <1>3, ForgetEntry DEF held, Entries
<1> QED
  BY <1>1, <1>2, <1>3, <1>5, <1>6, ForgetEntry DEF confirmed, failed, Entries

----------------------------------------------------------------------------
(* Types *)

LEMMA InitType == Init => TypeOK
<1> SUFFICES ASSUME Init
             PROVE  TypeOK
  OBVIOUS
<1>1. 0 \in 0 .. MaxTime /\ 0 \in 0 .. MaxPresses /\ 0 \in Nat
  BY ButtonAssumption
<1>2. switch \in [state : States, held : Nat]
  BY DEF Init
<1>3. cache \in Readings
  BY <1>1, <1>2 DEF Init, Readings, NaN
<1>4. page \in [press : 0 .. MaxPresses, out : BOOLEAN, at : 0 .. MaxTime, reading : Readings]
  BY <1>1, <1>3 DEF Init
<1>5. tracker \in Entries /\ shown \in Buttons
  BY <1>3, BlankEntry, ViewButton DEF Init
<1>6. tracker.busy = page.out
  BY DEF Init, Blank
<1> QED
  BY <1>1, <1>2, <1>3, <1>4, <1>5, <1>6 DEF Init, TypeOK, Buttons

(* The button is drawn from the entry as it is now. *)
Drawn ==
    /\ shown.busy = (tracker.busy \/ tracker.settling)
    /\ shown.disabled = (tracker.busy \/ tracker.settling \/ tracker.until > now)

(* Every redraw restores the types of entry and button. *)
LEMMA RedrawType ==
  ASSUME NEW p \in Entries, now' \in 0 .. MaxTime, page'.reading \in Readings,
         Redraw(p, page'.reading, now'), p.busy = page'.out
  PROVE  tracker' \in Entries /\ shown' \in Buttons /\ tracker'.busy = page'.out /\ Drawn'
<1>1. now' \in Nat
  BY ButtonAssumption
<1> QED
  BY <1>1, Redrawn DEF Drawn

(* A press: the entry it starts. *)
LEMMA StartEntry ==
  ASSUME NEW p \in Entries, NEW state \in States
  PROVE  /\ start(p, state) \in Entries
         /\ start(p, state).busy = TRUE /\ start(p, state).settling = FALSE
         /\ start(p, state).until = p.until
<1>1. Infinity \in 0 .. Infinity
  BY ButtonAssumption DEF Infinity
<1> QED
  BY <1>1 DEF start, Entries

LEMMA PressType ==
  ASSUME TypeOK, Press
  PROVE  TypeOK' /\ Drawn'
<1>1. /\ now' = now /\ now \in 0 .. MaxTime
      /\ tracker \in Entries /\ shown.action \in States
      /\ UNCHANGED <<switch, cache, begun, flight, reply>>
  BY DEF TypeOK, Press
<1>2. page.press + 1 \in 1 .. MaxPresses
  BY ButtonAssumption DEF TypeOK, Press
<1>3. /\ page' \in [press : 0 .. MaxPresses, out : BOOLEAN, at : 0 .. MaxTime, reading : Readings]
      /\ page'.out = TRUE /\ page'.reading = page.reading
  <2>1. page' = [page EXCEPT !.press = @ + 1, !.out = TRUE, !.at = now]
    BY DEF Press
  <2>2. page \in [press : 0 .. MaxPresses, out : BOOLEAN, at : 0 .. MaxTime, reading : Readings]
    BY DEF TypeOK
  <2>3. page.press + 1 \in 0 .. MaxPresses
    BY <1>2
  <2> QED
    BY <1>1, <2>1, <2>2, <2>3
<1>4. posts' \subseteq [press : 1 .. MaxPresses, want : States]
  BY <1>1, <1>2 DEF TypeOK, Press
<1>5. Redraw(start(tracker, shown.action), page'.reading, now')
  BY <1>1, <1>3 DEF Press
<1>6. tracker' \in Entries /\ shown' \in Buttons /\ tracker'.busy = page'.out /\ Drawn'
  BY <1>1, <1>3, <1>5, StartEntry, RedrawType
<1> QED
  BY <1>1, <1>3, <1>4, <1>6 DEF TypeOK, Buttons

LEMMA AnswerType ==
  ASSUME TypeOK, AnswerArrives
  PROVE  TypeOK' /\ Drawn'
<1>1. /\ now' = now /\ now \in 0 .. MaxTime /\ reply' = None
      /\ UNCHANGED <<switch, cache, begun, flight, posts>>
  BY DEF TypeOK, AnswerArrives
<1>2. /\ page' \in [press : 0 .. MaxPresses, out : BOOLEAN, at : 0 .. MaxTime, reading : Readings]
      /\ page'.out = FALSE /\ page'.reading = page.reading
  BY DEF TypeOK, AnswerArrives
<1>3. PICK p \in Entries : p.busy = FALSE /\ Redraw(p, page'.reading, now')
  BY <1>1, <1>2, AnsweredEntry DEF AnswerArrives, Entries
<1>4. tracker' \in Entries /\ shown' \in Buttons /\ tracker'.busy = page'.out /\ Drawn'
  BY <1>1, <1>2, <1>3, RedrawType
<1> QED
  BY <1>1, <1>2, <1>4 DEF TypeOK, Buttons

LEMMA AbortType ==
  ASSUME TypeOK, Abort
  PROVE  TypeOK' /\ Drawn'
<1>1. /\ now' = now /\ now \in 0 .. MaxTime /\ reply' = None
      /\ UNCHANGED <<switch, cache, begun, flight, posts>>
  BY DEF TypeOK, Abort
<1>2. /\ page' \in [press : 0 .. MaxPresses, out : BOOLEAN, at : 0 .. MaxTime, reading : Readings]
      /\ page'.out = FALSE /\ page'.reading = page.reading
  BY DEF TypeOK, Abort
<1>3. failed(tracker) \in Entries /\ failed(tracker).busy = FALSE
  BY ForgetEntry DEF failed, TypeOK, Entries
<1>4. Redraw(failed(tracker), page'.reading, now')
  BY <1>1, <1>2 DEF Abort
<1>5. tracker' \in Entries /\ shown' \in Buttons /\ tracker'.busy = page'.out /\ Drawn'
  BY <1>1, <1>2, <1>3, <1>4, RedrawType
<1> QED
  BY <1>1, <1>2, <1>5 DEF TypeOK, Buttons

LEMMA RefreshedType ==
  ASSUME TypeOK, Refreshed
  PROVE  TypeOK' /\ Drawn'
<1>1. PICK r \in flight :
        /\ flight' = flight \ {r}
        /\ page' = [page EXCEPT !.reading = r]
        /\ Redraw(tracker, r, now)
        /\ UNCHANGED <<now, switch, cache, begun, posts, reply>>
  BY DEF Refreshed
<1>2. /\ page' \in [press : 0 .. MaxPresses, out : BOOLEAN, at : 0 .. MaxTime, reading : Readings]
      /\ page'.out = page.out /\ page'.reading = r
      /\ flight' \subseteq Readings
  BY <1>1 DEF TypeOK
<1>3. tracker' \in Entries /\ shown' \in Buttons /\ tracker'.busy = page'.out /\ Drawn'
  BY <1>1, <1>2, RedrawType DEF TypeOK
<1> QED
  BY <1>1, <1>2, <1>3 DEF TypeOK, Buttons

LEMMA TickType ==
  ASSUME TypeOK, Tick
  PROVE  TypeOK' /\ Drawn'
<1>1. /\ now' = now + 1 /\ now' \in 0 .. MaxTime
      /\ UNCHANGED <<switch, cache, begun, flight, posts, reply, page>>
  BY ButtonAssumption DEF TypeOK, Tick
<1>2. Redraw(tracker, page'.reading, now')
  BY <1>1 DEF Tick
<1>3. tracker' \in Entries /\ shown' \in Buttons /\ tracker'.busy = page'.out /\ Drawn'
  BY <1>1, <1>2, RedrawType DEF TypeOK
<1> QED
  BY <1>1, <1>3 DEF TypeOK, Buttons

(* The service, the readers and the other visitors leave the page alone. *)
Outside ==
    \/ ServiceSwitches \/ ServiceHolds \/ ServiceFails
    \/ OtherVisitor \/ ReadBegins \/ ReadEnds \/ DashboardAnswers

LEMMA SwitchedType ==
  ASSUME TypeOK, NEW state \in States
  PROVE  Switched(state) \in [state : States, held : Nat]
  BY ButtonAssumption DEF TypeOK, Switched

LEMMA AnswerReply ==
  ASSUME TypeOK, NEW post, NEW r \in Replies, Answer(post, r)
  PROVE  reply' \in Replies \cup {None}
  BY DEF TypeOK, Answer

LEMMA OutsideType ==
  ASSUME TypeOK, Outside
  PROVE  TypeOK' /\ UNCHANGED <<now, page, tracker, shown>>
<1>1. UNCHANGED <<now, page, tracker, shown>>
  BY DEF Outside, ServiceSwitches, ServiceHolds, ServiceFails, OtherVisitor, ReadBegins, ReadEnds,
         DashboardAnswers
<1>2. CASE ServiceSwitches
  <2>1. PICK post \in posts :
          /\ posts' = posts \ {post}
          /\ switch' = Switched(post.want)
          /\ Answer(post, [kind |-> "ok", state |-> post.want, seconds |-> Hold[post.want], at |-> now])
          /\ UNCHANGED <<cache, begun, flight>>
    BY <1>2 DEF ServiceSwitches
  <2>2. post.want \in States /\ now \in 0 .. MaxTime /\ Hold[post.want] \in Nat
    BY ButtonAssumption DEF TypeOK
  <2>3. [kind |-> "ok", state |-> post.want, seconds |-> Hold[post.want], at |-> now] \in Replies
    BY <2>2 DEF Replies
  <2> QED
    BY <1>1, <2>1, <2>2, <2>3, SwitchedType, AnswerReply DEF TypeOK
<1>3. CASE ServiceHolds
  <2>1. PICK post \in posts :
          /\ now < switch.held
          /\ posts' = posts \ {post}
          /\ Answer(post, [kind |-> "held", state |-> switch.state, seconds |-> switch.held - now, at |-> now])
          /\ UNCHANGED <<switch, cache, begun, flight>>
    BY <1>3 DEF ServiceHolds
  <2>2. now \in 0 .. MaxTime /\ switch.state \in States /\ switch.held - now \in Nat
    BY <2>1, ButtonAssumption DEF TypeOK
  <2>3. [kind |-> "held", state |-> switch.state, seconds |-> switch.held - now, at |-> now] \in Replies
    BY <2>2 DEF Replies
  <2> QED
    BY <1>1, <2>1, <2>3, AnswerReply DEF TypeOK
<1>4. CASE ServiceFails
  <2>1. PICK post \in posts, wrote \in BOOLEAN :
          /\ posts' = posts \ {post}
          /\ switch' = IF wrote THEN Switched(post.want) ELSE switch
          /\ Answer(post, [kind |-> "error", state |-> post.want, seconds |-> 0, at |-> now])
          /\ UNCHANGED <<cache, begun, flight>>
    BY <1>4 DEF ServiceFails
  <2>2. post.want \in States /\ now \in 0 .. MaxTime
    BY DEF TypeOK
  <2>3. [kind |-> "error", state |-> post.want, seconds |-> 0, at |-> now] \in Replies
    BY <2>2 DEF Replies
  <2>4. switch' \in [state : States, held : Nat]
    BY <2>1, <2>2, SwitchedType DEF TypeOK
  <2> QED
    BY <1>1, <2>1, <2>3, <2>4, AnswerReply DEF TypeOK
<1>5. CASE OtherVisitor
  <2>1. ACTION_OF(switch.state) \in States
    BY DEF ACTION_OF, States
  <2> QED
    BY <1>1, <1>5, <2>1, SwitchedType DEF TypeOK, OtherVisitor
<1>6. CASE ReadBegins
  BY <1>1, <1>6 DEF TypeOK, ReadBegins
<1>7. CASE ReadEnds
  <2>1. begun \in NaN .. MaxTime /\ NaN \in NaN .. MaxTime
    BY <1>7, ButtonAssumption DEF TypeOK, ReadEnds, NaN
  <2>2. cache' \in Readings
    BY <1>7, <2>1 DEF TypeOK, ReadEnds, Readings
  <2> QED
    BY <1>1, <1>7, <2>2 DEF TypeOK, ReadEnds
<1>8. CASE DashboardAnswers
  BY <1>1, <1>8 DEF TypeOK, DashboardAnswers
<1> QED
  BY <1>1, <1>2, <1>3, <1>4, <1>5, <1>6, <1>7, <1>8 DEF Outside

LEMMA Steps ==
  [Next]_vars => Press \/ AnswerArrives \/ Abort \/ Refreshed \/ Tick \/ Outside \/ UNCHANGED vars
  BY DEF Next, Outside

LEMMA NextType ==
  ASSUME TypeOK, Drawn, [Next]_vars
  PROVE  TypeOK' /\ Drawn'
<1>1. CASE Press
  BY <1>1, PressType
<1>2. CASE AnswerArrives
  BY <1>2, AnswerType
<1>3. CASE Abort
  BY <1>3, AbortType
<1>4. CASE Refreshed
  BY <1>4, RefreshedType
<1>5. CASE Tick
  BY <1>5, TickType
<1>6. CASE Outside
  BY <1>6, OutsideType DEF Drawn
<1>7. CASE UNCHANGED vars
  BY <1>7 DEF vars, TypeOK, Drawn
<1> QED
  BY <1>1, <1>2, <1>3, <1>4, <1>5, <1>6, <1>7, Steps

LEMMA InitDrawn == Init => Drawn
<1> SUFFICES ASSUME Init
             PROVE  Drawn
  OBVIOUS
<1>1. TypeOK
  BY InitType
<1> QED
  BY <1>1, BlankEntry, ViewButton DEF Init, Drawn, TypeOK

LEMMA TypeAndDrawn == Spec => [](TypeOK /\ Drawn)
<1>1. TypeOK /\ Drawn /\ [Next]_vars => (TypeOK /\ Drawn)'
  BY NextType
<1> QED
  BY <1>1, InitType, InitDrawn, PTL DEF Spec

(* The button's types in every behaviour, and that the entry is busy exactly while the page   *)
(* waits for an answer (start, confirmed, held, failed, view).                                *)
THEOREM TypeCorrect == Spec => []TypeOK
  BY TypeAndDrawn, PTL

----------------------------------------------------------------------------
(* No press turns for ever *)

(* While a press is unanswered its time is not up; an entry that settles was answered in time *)
(* and is not settling for longer than SETTLE; only an unanswered press is answered.          *)
TwirlInv ==
    /\ reply # None => page.out
    /\ page.out => now <= page.at + ANSWER
    /\ tracker.settling =>
          tracker.answered <= page.at + ANSWER /\ now - tracker.answered <= SETTLE

LEMMA NextTwirl ==
  ASSUME TypeOK, TwirlInv, [Next]_vars
  PROVE  TwirlInv'
<1>1. /\ now \in Nat /\ tracker \in Entries /\ page.reading \in Readings /\ page.at \in Nat
      /\ SETTLE \in Nat /\ ANSWER \in Nat /\ shown.action \in States /\ tracker.answered \in Nat
      /\ tracker.busy = page.out /\ page.out \in BOOLEAN
  BY ButtonAssumption DEF TypeOK, Entries
<1>2. CASE Press
  <2>1. page'.out = TRUE /\ page'.at = now /\ now' = now
    BY <1>2 DEF Press, TypeOK
  <2>2. ~tracker'.settling
    BY <1>1, <1>2, StartEntry, Redrawn DEF Press
  <2> QED
    BY <1>1, <2>1, <2>2 DEF TwirlInv
<1>3. CASE AnswerArrives
  <2>1. page'.out = FALSE /\ page'.at = page.at /\ now' = now /\ reply' = None
    BY <1>3 DEF AnswerArrives, TypeOK
  <2>2. PICK p \in Entries :
          /\ Redraw(p, page.reading, now)
          /\ p.settling => p.answered = now
    BY <1>3, AnsweredEntry DEF AnswerArrives
  <2>3. tracker'.settling => tracker'.answered = now
    BY <1>1, <2>2, Redrawn
  <2>4. now <= page.at + ANSWER
    BY <1>3 DEF AnswerArrives, TwirlInv
  <2> QED
    BY <1>1, <2>1, <2>3, <2>4 DEF TwirlInv
<1>4. CASE Abort
  <2>1. page'.out = FALSE /\ page'.at = page.at /\ now' = now /\ reply' = None
    BY <1>4 DEF Abort, TypeOK
  <2>2. ~tracker'.settling
    BY <1>1, <1>4, ForgetEntry, Redrawn DEF Abort, failed
  <2> QED
    BY <2>1, <2>2 DEF TwirlInv
<1>5. CASE Refreshed
  <2>1. PICK r \in flight : page' = [page EXCEPT !.reading = r] /\ Redraw(tracker, r, now)
    BY <1>5 DEF Refreshed
  <2>2. page'.out = page.out /\ page'.at = page.at /\ now' = now /\ reply' = reply
    BY <1>5, <2>1 DEF Refreshed, TypeOK
  <2>3. tracker'.settling => tracker.settling /\ tracker'.answered = tracker.answered
    BY <1>1, <2>1, Redrawn DEF TypeOK
  <2> QED
    BY <2>2, <2>3 DEF TwirlInv
<1>6. CASE Tick
  <2>1. page' = page /\ now' = now + 1 /\ reply' = reply
    BY <1>6 DEF Tick
  <2>2. page.out => now' <= page.at + ANSWER
    BY <1>1, <1>6, <2>1 DEF Tick, Late
  <2>3. tracker'.settling => /\ tracker.settling /\ tracker'.answered = tracker.answered
                             /\ now' - tracker.answered <= SETTLE
    BY <1>1, <1>6, <2>1, Redrawn DEF Tick
  <2> QED
    BY <2>1, <2>2, <2>3 DEF TwirlInv
<1>7. CASE Outside
  <2>1. UNCHANGED <<now, page, tracker>>
    BY <1>7, OutsideType
  <2>2. reply' # None => page.out
    BY <1>7 DEF TwirlInv, Outside, ServiceSwitches, ServiceHolds, ServiceFails, OtherVisitor,
                ReadBegins, ReadEnds, DashboardAnswers, Answer
  <2> QED
    BY <2>1, <2>2 DEF TwirlInv
<1>8. CASE UNCHANGED vars
  BY <1>8 DEF vars, TwirlInv
<1> QED
  BY <1>2, <1>3, <1>4, <1>5, <1>6, <1>7, <1>8, Steps

LEMMA TwirlGivesEnd == TypeOK /\ Drawn /\ TwirlInv => TwirlEnds
<1> SUFFICES ASSUME TypeOK, Drawn, TwirlInv, shown.busy
             PROVE  now <= page.at + ANSWER + SETTLE
  BY DEF TwirlEnds
<1>1. /\ now \in Nat /\ page.at \in Nat /\ SETTLE \in Nat /\ ANSWER \in Nat /\ tracker.answered \in Nat
      /\ tracker.busy = page.out
  BY ButtonAssumption DEF TypeOK, Entries
<1>2. tracker.busy \/ tracker.settling
  BY DEF Drawn
<1> QED
  BY <1>1, <1>2 DEF TwirlInv

LEMMA InitTwirl == Init => TwirlInv
  BY DEF Init, TwirlInv, Blank

(* For every ANSWER_MS and SETTLE_MS, whatever is lost, late or cached, a button has stopped  *)
(* turning when both have passed since its press (press, view).                               *)
THEOREM EveryTwirlEnds == Spec => []TwirlEnds
<1>1. TypeOK /\ Drawn /\ TwirlInv /\ [Next]_vars => TwirlInv'
  BY NextTwirl
<1> QED
  BY <1>1, InitTwirl, TypeAndDrawn, TwirlGivesEnd, PTL DEF Spec

----------------------------------------------------------------------------
(* The page's own holds *)

(* As long as every hold was made by a press whose outcome the page got: at most one request  *)
(* is out, of the press the page waits for, and no hold runs at the switch then; an answer on *)
(* its way tells of the hold; any other hold is one the entry counts down.                    *)
HoldInv ==
    ~unknown =>
        /\ posts = {} \/ \E post : posts = {post}
        /\ \A post \in posts : page.out /\ post.press = page.press /\ reply = None /\ switch.held <= now
        /\ reply # None => reply.kind # "held"
        /\ (reply # None /\ reply.kind = "ok") => switch.held <= now + reply.seconds
        /\ (reply = None \/ reply.kind # "ok") => switch.held <= tracker.until \/ switch.held <= now

LEMMA NextHold ==
  ASSUME TypeOK, Drawn, TwirlInv, HoldInv, [Next]_vars
  PROVE  HoldInv'
<1> SUFFICES ASSUME ~unknown'
             PROVE  HoldInv'
  BY DEF HoldInv
<1>1. /\ now \in Nat /\ tracker \in Entries /\ tracker.until \in Nat /\ switch.held \in Nat
      /\ page.reading \in Readings /\ shown.action \in States /\ tracker.busy = page.out
      /\ reply # None => reply.seconds \in Nat /\ reply.kind \in {"ok", "held", "error"}
  BY ButtonAssumption DEF TypeOK, Entries, Replies
<1>2. ~unknown
  BY Steps DEF Press, AnswerArrives, Abort, Refreshed, Tick, Outside, ServiceSwitches, ServiceHolds,
         ServiceFails, OtherVisitor, ReadBegins, ReadEnds, DashboardAnswers, vars
<1>3. CASE Press
  <2>1. ~page.out /\ tracker.until <= now
    <3>1. ~(tracker.busy \/ tracker.settling \/ tracker.until > now)
      BY <1>3, Zenon DEF Press, Drawn
    <3>2. ~page.out
      BY <1>1, <3>1, Zenon
    <3> QED
      BY <1>1, <3>1, <3>2
  <2>2. posts = {} /\ reply = None
    BY <1>2, <2>1 DEF HoldInv, TwirlInv
  <2>3. switch.held <= now
    BY <1>1, <1>2, <2>1, <2>2 DEF HoldInv
  <2>4. posts' = {[press |-> page.press + 1, want |-> shown.action]} /\ reply' = None
    BY <1>3, <2>2 DEF Press
  <2>5. page'.out /\ page'.press = page.press + 1 /\ UNCHANGED <<now, switch>>
    BY <1>3 DEF Press, TypeOK
  <2> QED
    BY <2>3, <2>4, <2>5 DEF HoldInv
<1>4. CASE AnswerArrives
  <2>1. posts = {} /\ UNCHANGED <<now, switch, posts>> /\ reply' = None
    BY <1>2, <1>4 DEF AnswerArrives, HoldInv
  <2>2. CASE reply.kind = "ok"
    <3>1. switch.held <= now + reply.seconds
      BY <1>2, <1>4, <2>2 DEF AnswerArrives, HoldInv
    <3>2. Redraw(confirmed(tracker, reply.state, reply.seconds, reply.at), page.reading, now)
      BY <1>4, <2>2 DEF AnswerArrives
    <3>3. tracker'.until = now + reply.seconds \/ now + reply.seconds <= now
      BY <1>1, <1>4, <3>2, AnsweredEntry, Redrawn DEF AnswerArrives
    <3> QED
      BY <1>1, <1>4, <2>1, <3>1, <3>3 DEF HoldInv, AnswerArrives
  <2>3. CASE reply.kind = "error"
    <3>1. switch.held <= tracker.until \/ switch.held <= now
      BY <1>2, <2>3 DEF HoldInv
    <3>2. Redraw(failed(tracker), page.reading, now)
      BY <1>4, <2>3 DEF AnswerArrives
    <3>3. tracker'.until = tracker.until \/ tracker.until <= now
      BY <1>1, <1>4, <3>2, AnsweredEntry, Redrawn DEF AnswerArrives
    <3> QED
      BY <1>1, <2>1, <3>1, <3>3 DEF HoldInv
  <2>4. reply.kind # "held"
    BY <1>2, <1>4 DEF AnswerArrives, HoldInv
  <2> QED
    BY <1>1, <1>4, <2>2, <2>3, <2>4 DEF AnswerArrives
<1>5. CASE Abort
  BY <1>5 DEF Abort
<1>6. CASE Refreshed
  <2>1. PICK r \in flight : page' = [page EXCEPT !.reading = r] /\ Redraw(tracker, r, now)
    BY <1>6 DEF Refreshed
  <2>2. page'.out = page.out /\ page'.press = page.press /\ UNCHANGED <<now, switch, posts, reply>>
    BY <1>6, <2>1 DEF Refreshed, TypeOK
  <2>3. tracker'.until = tracker.until \/ tracker.until <= now
    BY <1>1, <2>1, Redrawn DEF TypeOK
  <2> QED
    <3>1. \A post \in posts' :
            page'.out /\ post.press = page'.press /\ reply' = None /\ switch'.held <= now'
      BY <1>2, <2>2, Zenon DEF HoldInv
    <3>2. posts' = {} \/ \E post : posts' = {post}
      BY <1>2, <2>2 DEF HoldInv
    <3>3. reply' # None => reply'.kind # "held"
      BY <1>2, <2>2 DEF HoldInv
    <3>4. (reply' # None /\ reply'.kind = "ok") => switch'.held <= now' + reply'.seconds
      BY <1>2, <2>2 DEF HoldInv
    <3>5. (reply' = None \/ reply'.kind # "ok") => switch'.held <= tracker'.until \/ switch'.held <= now'
      BY <1>1, <1>2, <2>2, <2>3 DEF HoldInv
    <3> QED
      BY <3>1, <3>2, <3>3, <3>4, <3>5, Zenon DEF HoldInv
<1>7. CASE Tick
  <2>1. now' = now + 1 /\ UNCHANGED <<page, switch, posts, reply>>
    BY <1>7 DEF Tick
  <2>2. tracker'.until = tracker.until \/ tracker.until <= now + 1
    BY <1>1, <1>7, Redrawn DEF Tick
  <2> QED
    BY <1>1, <1>2, <2>1, <2>2 DEF HoldInv
<1>8. CASE ServiceSwitches
  <2>1. PICK post \in posts :
          /\ posts' = posts \ {post}
          /\ switch' = Switched(post.want)
          /\ Answer(post, [kind |-> "ok", state |-> post.want, seconds |-> Hold[post.want], at |-> now])
          /\ UNCHANGED <<now, page, tracker>>
    BY <1>8 DEF ServiceSwitches
  <2>2. posts' = {}
    BY <1>2, <2>1 DEF HoldInv
  <2>3. reply' = [kind |-> "ok", state |-> post.want, seconds |-> Hold[post.want], at |-> now]
    BY <1>2, <2>1 DEF HoldInv, Answer
  <2>4. switch'.held = now + Hold[post.want] /\ Hold[post.want] \in Nat
    BY <2>1, ButtonAssumption DEF Switched, TypeOK
  <2>5. reply' # None
    <3>1. [kind |-> "ok", state |-> post.want, seconds |-> Hold[post.want], at |-> now] \in Replies
      BY <2>1, <2>4 DEF Replies, TypeOK
    <3> QED
      BY <2>3, <3>1, ButtonAssumption
  <2>6. reply'.kind = "ok" /\ switch'.held <= now' + reply'.seconds
    BY <1>1, <2>1, <2>3, <2>4
  <2> QED
    BY <2>2, <2>5, <2>6 DEF HoldInv
<1>9. CASE ServiceHolds
  BY <1>1, <1>2, <1>9 DEF ServiceHolds, HoldInv
<1>10. CASE ServiceFails
  <2>1. PICK post \in posts, wrote \in BOOLEAN :
          /\ posts' = posts \ {post}
          /\ switch' = IF wrote THEN Switched(post.want) ELSE switch
          /\ unknown' = (unknown \/ wrote)
          /\ Answer(post, [kind |-> "error", state |-> post.want, seconds |-> 0, at |-> now])
          /\ UNCHANGED <<now, page, tracker>>
    BY <1>10 DEF ServiceFails
  <2>2. posts' = {} /\ switch' = switch /\ switch.held <= now
    BY <1>2, <2>1 DEF HoldInv
  <2>3. reply' = [kind |-> "error", state |-> post.want, seconds |-> 0, at |-> now]
    BY <1>2, <2>1 DEF HoldInv, Answer
  <2> QED
    BY <2>1, <2>2, <2>3 DEF HoldInv
<1>11. CASE OtherVisitor
  BY <1>11 DEF OtherVisitor
<1>12. CASE ReadBegins \/ ReadEnds \/ DashboardAnswers \/ UNCHANGED vars
  <2>1. UNCHANGED <<now, switch, posts, reply, page, tracker, unknown>>
    BY <1>12 DEF ReadBegins, ReadEnds, DashboardAnswers, vars
  <2> QED
    BY <1>2, <2>1 DEF HoldInv
<1> QED
  BY <1>3, <1>4, <1>5, <1>6, <1>7, <1>8, <1>9, <1>10, <1>11, <1>12, Steps DEF Outside

LEMMA InitHold == Init => HoldInv
<1> SUFFICES ASSUME Init
             PROVE  HoldInv
  OBVIOUS
<1>1. switch.held = 0 /\ now = 0
  BY DEF Init
<1> QED
  BY <1>1 DEF Init, HoldInv

(* For every pair of holds, a press meets a hold (429) only where somebody else switched the  *)
(* port or the outcome of one of the page's own presses never reached it (confirmed, held).   *)
THEOREM OwnHoldsAreKept == Spec => []OwnHoldKept
<1>1. TypeOK /\ Drawn /\ TwirlInv /\ [Next]_vars => TwirlInv'
  BY NextTwirl
<1>2. TypeOK /\ Drawn /\ TwirlInv /\ HoldInv /\ [Next]_vars => HoldInv'
  BY NextHold
<1>3. HoldInv => OwnHoldKept
  BY DEF HoldInv, OwnHoldKept
<1> QED
  BY <1>1, <1>2, <1>3, InitTwirl, InitHold, TypeAndDrawn, PTL DEF Spec

----------------------------------------------------------------------------
(* The button is drawn from the newer of confirmation and reading *)

(* What view leaves of the state it draws: a reading that follows the confirmation forgets    *)
(* it, nothing else does.                                                                     *)
LEMMA ViewedState ==
  ASSUME NEW p \in Entries, NEW r \in Readings, NEW t \in Nat
  PROVE  /\ Viewed(p, r, t).state = IF Follows(p, r) THEN None ELSE p.state
         /\ Viewed(p, r, t).state # None => Viewed(p, r, t).after = p.after
<1> DEFINE q == IF Follows(p, r) THEN forget(p)
                ELSE IF Stalls(p, t) THEN [p EXCEPT !.settling = FALSE]
                ELSE p
<1>1. /\ q.state = IF Follows(p, r) THEN None ELSE p.state
      /\ q.state # None => q.after = p.after
  BY DEF forget, Entries
<1>2. Blank.state = None
  BY DEF Blank
<1>3. Viewed(p, r, t) = IF q.state = None /\ ~q.busy /\ q.until <= t THEN Blank ELSE q
  BY DEF Viewed
<1> HIDE DEF q
<1> QED
  BY <1>1, <1>2, <1>3

(* While the last confirmation stands alone no press is out; the entry holds it as long as no *)
(* reading has followed it, and holds no state any more from the first one on. Redrawing      *)
(* never leaves the button at what the entry was before.                                      *)
NewerInv ==
    /\ conf \in [state : States \cup {None}, at : 0 .. MaxTime, followed : BOOLEAN, alone : BOOLEAN]
    /\ reply # None => page.out
    /\ shown.action = ACTION_OF(IF tracker.state = None THEN page.reading.state ELSE tracker.state)
    /\ (conf.state # None /\ conf.alone) =>
          /\ ~page.out
          /\ conf.followed => tracker.state = None
          /\ ~conf.followed => /\ tracker.state = conf.state /\ tracker.after = conf.at
                               /\ page.reading.from <= conf.at

LEMMA NewerGivesDrawn == NewerInv => DrawnFromTheNewer
  BY DEF NewerInv, DrawnFromTheNewer

(* A redraw of the entry p over the reading r, at the time t. *)
LEMMA RedrawnState ==
  ASSUME NEW p \in Entries, NEW r \in Readings, NEW t \in Nat, Redraw(p, r, t)
  PROVE  /\ tracker'.state = IF Follows(p, r) THEN None ELSE p.state
         /\ tracker'.state # None => tracker'.after = p.after
         /\ shown'.action = ACTION_OF(IF tracker'.state = None THEN r.state ELSE tracker'.state)
  BY ViewedState DEF Redraw, View

LEMMA InitNewer == Init => NewerInv
<1> SUFFICES ASSUME Init
             PROVE  NewerInv
  OBVIOUS
<1>1. 0 \in 0 .. MaxTime
  BY ButtonAssumption
<1> QED
  BY <1>1 DEF Init, NewerInv, View, Blank

LEMMA PressNewer ==
  ASSUME TypeOK, NewerInv, Press
  PROVE  NewerInv'
<1>1. /\ shown.action \in States /\ tracker \in Entries /\ page.reading \in Readings /\ now \in Nat
      /\ Redraw(start(tracker, shown.action), page.reading, now)
      /\ reply' = reply
  BY ButtonAssumption DEF TypeOK, Press
<1>2. page'.out = TRUE /\ page'.reading = page.reading /\ start(tracker, shown.action) \in Entries
  BY <1>1, StartEntry DEF Press, TypeOK
<1>3. /\ conf' \in [state : States \cup {None}, at : 0 .. MaxTime, followed : BOOLEAN, alone : BOOLEAN]
      /\ conf'.alone = FALSE
  BY DEF Press, NewerInv
<1> QED
  BY <1>1, <1>2, <1>3, RedrawnState DEF NewerInv

(* An answer: what it confirms is newer than the table's reading, or that reading follows it. *)
LEMMA AnswerNewer ==
  ASSUME TypeOK, NewerInv, AnswerArrives
  PROVE  NewerInv'
<1>1. /\ tracker \in Entries /\ page.reading \in Readings /\ now \in Nat /\ reply \in Replies
      /\ reply # None /\ reply' = None
      /\ page'.out = FALSE /\ page'.reading = page.reading
  BY ButtonAssumption DEF TypeOK, AnswerArrives
<1>2. ~(conf.state # None /\ conf.alone)
  BY <1>1 DEF NewerInv
<1>3. CASE reply.kind = "ok"
  <2> DEFINE p == confirmed(tracker, reply.state, reply.seconds, reply.at)
  <2>1. p \in Entries /\ ~p.busy
    BY <1>1, AnsweredEntry
  <2>2. p.state = reply.state /\ p.after = reply.at /\ p.state # None
    BY <1>1, ButtonAssumption DEF confirmed, Entries, Replies
  <2>3. /\ Redraw(p, page.reading, now)
        /\ conf' = [state |-> reply.state, at |-> reply.at, alone |-> TRUE,
                    followed |-> page.reading.from > reply.at]
    BY <1>3 DEF AnswerArrives
  <2>4. page.reading.from \in Int /\ reply.at \in 0 .. MaxTime /\ reply.at \in Int /\ reply.state \in States
    BY <1>1, ButtonAssumption DEF Readings, Replies, NaN
  <2>5. Follows(p, page.reading) <=> page.reading.from > reply.at
    BY <2>1, <2>2 DEF Follows
  <2> HIDE DEF p
  <2>6. (page.reading.from > reply.at) \in BOOLEAN
    OBVIOUS
  <2>7. conf' \in [state : States \cup {None}, at : 0 .. MaxTime, followed : BOOLEAN, alone : BOOLEAN]
    BY <2>3, <2>4, <2>6
  <2>8. /\ conf'.state = reply.state /\ conf'.at = reply.at
         /\ conf'.followed = (page.reading.from > reply.at)
    BY <2>3
  <2>9. tracker'.state = (IF page.reading.from > reply.at THEN None ELSE reply.state)
    BY <1>1, <2>1, <2>2, <2>3, <2>5, RedrawnState
  <2>10. tracker'.state # None => tracker'.after = reply.at
    BY <1>1, <2>1, <2>2, <2>3, RedrawnState
  <2>11. shown'.action = ACTION_OF(IF tracker'.state = None THEN page.reading.state ELSE tracker'.state)
    BY <1>1, <2>1, <2>3, RedrawnState
  <2> QED
    BY <1>1, <2>2, <2>4, <2>7, <2>8, <2>9, <2>10, <2>11 DEF NewerInv
<1>4. CASE reply.kind # "ok"
  <2>1. conf' = conf
    BY <1>4 DEF AnswerArrives
  <2>2. PICK p \in Entries : Redraw(p, page.reading, now)
    BY <1>1, <1>4, AnsweredEntry DEF AnswerArrives
  <2> QED
    BY <1>1, <1>2, <2>1, <2>2, RedrawnState DEF NewerInv
<1> QED
  BY <1>3, <1>4

LEMMA AbortNewer ==
  ASSUME TypeOK, NewerInv, Abort
  PROVE  NewerInv'
<1>1. /\ tracker \in Entries /\ page.reading \in Readings /\ now \in Nat
      /\ reply' = None /\ conf' = conf
      /\ page.out /\ page'.out = FALSE /\ page'.reading = page.reading
  BY ButtonAssumption DEF TypeOK, Abort, Late
<1>2. ~(conf.state # None /\ conf.alone)
  BY <1>1 DEF NewerInv
<1>3. failed(tracker) \in Entries /\ Redraw(failed(tracker), page.reading, now)
  BY <1>1, ForgetEntry DEF failed, Abort
<1> QED
  BY <1>1, <1>2, <1>3, RedrawnState DEF NewerInv

LEMMA RefreshedNewer ==
  ASSUME TypeOK, NewerInv, Refreshed
  PROVE  NewerInv'
<1>1. PICK r \in flight :
        /\ page' = [page EXCEPT !.reading = r]
        /\ Redraw(tracker, r, now)
        /\ conf' = [conf EXCEPT !.followed = @ \/ r.from > conf.at]
        /\ reply' = reply
  BY DEF Refreshed
<1>2. /\ tracker \in Entries /\ r \in Readings /\ now \in Nat /\ r.from \in Int
      /\ page'.out = page.out /\ page'.reading = r /\ tracker.busy = page.out
      /\ conf.at \in 0 .. MaxTime /\ conf.at \in Int
  BY <1>1, ButtonAssumption DEF TypeOK, NewerInv, Readings, NaN
<1>3. (conf.followed \/ r.from > conf.at) \in BOOLEAN
  BY DEF NewerInv
<1>4. /\ conf' \in [state : States \cup {None}, at : 0 .. MaxTime, followed : BOOLEAN, alone : BOOLEAN]
      /\ conf'.state = conf.state /\ conf'.alone = conf.alone /\ conf'.at = conf.at
      /\ conf'.followed = (conf.followed \/ r.from > conf.at)
  BY <1>1, <1>3 DEF NewerInv
<1>5. /\ tracker'.state = IF Follows(tracker, r) THEN None ELSE tracker.state
      /\ tracker'.state # None => tracker'.after = tracker.after
      /\ shown'.action = ACTION_OF(IF tracker'.state = None THEN r.state ELSE tracker'.state)
  BY <1>1, <1>2, RedrawnState
<1>6. ASSUME conf.state # None, conf.alone
      PROVE  /\ ~page.out
             /\ conf'.followed => tracker'.state = None
             /\ ~conf'.followed => /\ tracker'.state = conf.state /\ tracker'.after = conf.at
                                   /\ r.from <= conf.at
  <2>1. CASE conf.followed
    BY <1>4, <1>5, <1>6, <2>1 DEF NewerInv, Follows
  <2>2. CASE ~conf.followed
    <3>1. /\ ~page.out /\ ~tracker.busy /\ tracker.state = conf.state /\ tracker.after = conf.at
      BY <1>2, <1>6, <2>2 DEF NewerInv
    <3>2. Follows(tracker, r) <=> r.from > conf.at
      BY <1>6, <3>1 DEF Follows
    <3>3. conf'.followed <=> r.from > conf.at
      BY <1>4, <2>2
    <3> QED
      BY <1>2, <1>5, <1>6, <3>1, <3>2, <3>3
  <2> QED
    BY <2>1, <2>2
<1> QED
  BY <1>1, <1>2, <1>4, <1>5, <1>6 DEF NewerInv

(* Time forgets no confirmation: the reading is the one it was. *)
LEMMA TickNewer ==
  ASSUME TypeOK, NewerInv, Tick
  PROVE  NewerInv'
<1>1. /\ tracker \in Entries /\ page.reading \in Readings /\ now + 1 \in Nat
      /\ page.reading.from \in Int /\ conf.at \in Int
      /\ Redraw(tracker, page.reading, now + 1)
      /\ UNCHANGED <<reply, page, conf>>
  BY ButtonAssumption DEF TypeOK, Tick, NewerInv, Readings, NaN
<1>2. /\ tracker'.state = IF Follows(tracker, page.reading) THEN None ELSE tracker.state
      /\ tracker'.state # None => tracker'.after = tracker.after
      /\ shown'.action = ACTION_OF(IF tracker'.state = None THEN page.reading.state ELSE tracker'.state)
  BY <1>1, RedrawnState
<1>3. ASSUME conf.state # None, conf.alone
      PROVE  ~Follows(tracker, page.reading)
  BY <1>1, <1>3 DEF NewerInv, Follows
<1> QED
  BY <1>1, <1>2, <1>3 DEF NewerInv

LEMMA NextNewer ==
  ASSUME TypeOK, NewerInv, [Next]_vars
  PROVE  NewerInv'
<1>1. CASE Press
  BY <1>1, PressNewer
<1>2. CASE AnswerArrives
  BY <1>2, AnswerNewer
<1>3. CASE Abort
  BY <1>3, AbortNewer
<1>4. CASE Refreshed
  BY <1>4, RefreshedNewer
<1>5. CASE Tick
  BY <1>5, TickNewer
<1>6. CASE Outside
  <2>1. UNCHANGED <<page, tracker, shown, conf>>
    BY <1>6 DEF Outside, ServiceSwitches, ServiceHolds, ServiceFails, OtherVisitor, ReadBegins, ReadEnds,
           DashboardAnswers
  <2>2. reply' # None => reply' = reply \/ page.out
    BY <1>6 DEF Outside, ServiceSwitches, ServiceHolds, ServiceFails, OtherVisitor, ReadBegins, ReadEnds,
           DashboardAnswers, Answer
  <2> QED
    BY <2>1, <2>2 DEF NewerInv
<1>7. CASE UNCHANGED vars
  BY <1>7 DEF vars, NewerInv
<1> QED
  BY <1>1, <1>2, <1>3, <1>4, <1>5, <1>6, <1>7, Steps

(* Until the next press the button is drawn from what the switch confirmed, while every       *)
(* reading began no later; from the first that began after it on, from the table's reading.   *)
THEOREM DrawnFromNewer == Spec => []DrawnFromTheNewer
<1>1. TypeOK /\ NewerInv /\ [Next]_vars => NewerInv'
  BY NextNewer
<1> QED
  BY <1>1, InitNewer, NewerGivesDrawn, TypeCorrect, PTL DEF Spec
=============================================================================
