---------------------------- MODULE StatusSocket ----------------------------
(***************************************************************************)
(* The status log socket of a board page (pistat/static/dcws.js): it       *)
(* connects again by itself with a growing delay, the page's buttons       *)
(* replace it on purpose, and what the visitor says while it is down waits *)
(* in a queue.                                                             *)
(*                                                                         *)
(* Time is in ticks; a timer is the time it has left, and the browser may  *)
(* be late to fire it. The query that check_status sends is no message of  *)
(* the visitor's: it is left out of the queue.                             *)
(***************************************************************************)
EXTENDS Integers, Sequences

CONSTANTS
    FirstDelay,   \* the first delay before a reconnect, 1 s
    LongestDelay, \* the longest, 30 s
    StableAfter,  \* how long a connection must last for the first delay to apply again, 30 s
    MaxSaid,      \* bound: messages the visitor says
    MaxLeaving    \* bound: replaced sockets whose close is still to come

ASSUME SocketAssumption ==
    /\ FirstDelay \in Nat \ {0} /\ LongestDelay \in Nat /\ FirstDelay <= LongestDelay
    /\ StableAfter \in Nat /\ MaxSaid \in Nat /\ MaxLeaving \in Nat

None == -1   \* a timer that is not set

VARIABLES
    server,      \* whether the server accepts connections: "up" or "down"
    logSocket,   \* the readyState of the page's current socket
    leaving,     \* how many replaced sockets have not closed yet
    retryTimer,
    retryDelay,
    stableTimer,
    pending,     \* the messages that wait
    said,        \* how many messages the visitor said: the last one's number
    out,         \* history: the messages given to an open socket
    upFor        \* history: how long the current socket has been up, at most StableAfter

vars == <<server, logSocket, leaving, retryTimer, retryDelay, stableTimer, pending, said, out, upFor>>

(***************************************************************************)
(* The page's functions                                                    *)
(***************************************************************************)
connect_KeepsTimer ==
    /\ UNCHANGED retryTimer /\ stableTimer' = None
    /\ leaving' = IF logSocket = "closed" THEN leaving ELSE leaving + 1
    /\ logSocket' = "connecting" /\ upFor' = 0
    /\ UNCHANGED retryDelay

connect ==
    /\ retryTimer' = None /\ stableTimer' = None
    /\ leaving' = IF logSocket = "closed" THEN leaving ELSE leaving + 1
    /\ logSocket' = "connecting" /\ upFor' = 0
    /\ UNCHANGED retryDelay

(* send(message) with the current socket in the state `socket`. *)
send_Unchecked(socket) ==
    /\ said' = said + 1
    /\ IF socket # "closed"
         THEN out' = Append(out, said + 1) /\ UNCHANGED pending
         ELSE pending' = Append(pending, said + 1) /\ UNCHANGED out

send(socket) ==
    /\ said' = said + 1
    /\ IF socket = "open"
         THEN out' = Append(out, said + 1) /\ UNCHANGED pending
         ELSE pending' = Append(pending, said + 1) /\ UNCHANGED out

onopen ==
    /\ logSocket' = "open"
    /\ stableTimer' = StableAfter
    /\ out' = out \o pending
    /\ pending' = <<>>
    /\ UNCHANGED <<leaving, retryTimer, retryDelay, said, upFor>>

Doubled == IF 2 * retryDelay < LongestDelay THEN 2 * retryDelay ELSE LongestDelay

onclose_KeepsStable(who) ==
    IF who = "current"
      THEN /\ retryTimer' = retryDelay
           /\ retryDelay' = Doubled
           /\ UNCHANGED stableTimer
      ELSE UNCHANGED <<stableTimer, retryTimer, retryDelay>>

onclose_OnlyOpened(who) ==
    IF who = "current"
      THEN /\ stableTimer' = None
           /\ retryTimer' = IF logSocket = "connecting" THEN None ELSE retryDelay
           /\ retryDelay' = Doubled
      ELSE UNCHANGED <<stableTimer, retryTimer, retryDelay>>

(* onclose of the current socket, or of one replaced on purpose, which does nothing. *)
onclose(who) ==
    IF who = "current"
      THEN /\ stableTimer' = None
           /\ retryTimer' = retryDelay
           /\ retryDelay' = Doubled
      ELSE UNCHANGED <<stableTimer, retryTimer, retryDelay>>

(***************************************************************************)
(* What happens                                                            *)
(***************************************************************************)
Init ==
    /\ server \in {"up", "down"}
    /\ logSocket = "connecting"
    /\ leaving = 0
    /\ retryTimer = None
    /\ retryDelay = FirstDelay
    /\ stableTimer = None
    /\ pending = <<>>
    /\ said = 0
    /\ out = <<>>
    /\ upFor = 0

Opens == logSocket = "connecting" /\ server = "up" /\ onopen /\ UNCHANGED server

(* A close the page did not ask for begins: from here readyState is CLOSING. *)
Drops ==
    /\ logSocket = "open" /\ server = "down"
    /\ logSocket' = "closing"
    /\ UNCHANGED <<server, leaving, retryTimer, retryDelay, stableTimer, pending, said, out, upFor>>

Closes ==
    /\ logSocket = "closing" \/ (logSocket \in {"connecting", "open"} /\ server = "down")
    /\ logSocket' = "closed" /\ upFor' = 0
    /\ onclose("current")
    /\ UNCHANGED <<server, leaving, pending, said, out>>

ReplacedCloses ==
    /\ leaving > 0
    /\ leaving' = leaving - 1
    /\ onclose("replaced")
    /\ UNCHANGED <<server, logSocket, pending, said, out, upFor>>

RetryFires == retryTimer = 0 /\ connect /\ UNCHANGED <<server, pending, said, out>>

StableFires ==
    /\ stableTimer = 0
    /\ stableTimer' = None
    /\ retryDelay' = FirstDelay
    /\ UNCHANGED <<server, logSocket, leaving, retryTimer, pending, said, out, upFor>>

(* The visitor's buttons *)
MayReplace == logSocket = "closed" \/ leaving < MaxLeaving

Reconnect == MayReplace /\ connect /\ UNCHANGED <<server, pending, said, out>>

Reset == MayReplace /\ said < MaxSaid /\ connect /\ send(logSocket') /\ UNCHANGED server

LogSubmit ==
    /\ said < MaxSaid
    /\ send(logSocket)
    /\ UNCHANGED <<server, logSocket, leaving, retryTimer, retryDelay, stableTimer, upFor>>

ServerTurns ==
    /\ server' = IF server = "up" THEN "down" ELSE "up"
    /\ UNCHANGED <<logSocket, leaving, retryTimer, retryDelay, stableTimer, pending, said, out, upFor>>

Left(timer) == IF timer > 0 THEN timer - 1 ELSE timer

Tick ==
    /\ retryTimer' = Left(retryTimer)
    /\ stableTimer' = Left(stableTimer)
    /\ upFor' = IF logSocket \in {"open", "closing"} /\ upFor < StableAfter THEN upFor + 1 ELSE upFor
    /\ UNCHANGED <<server, logSocket, leaving, retryDelay, pending, said, out>>

Next ==
    \/ Opens \/ Drops \/ Closes \/ ReplacedCloses
    \/ RetryFires \/ StableFires
    \/ Reconnect \/ Reset \/ LogSubmit
    \/ ServerTurns \/ Tick

Spec == Init /\ [][Next]_vars

(* The browser goes on: connections open or fail, timers run and fire. Nothing is asked of the server or the
   visitor. *)
Fairness ==
    /\ WF_vars(Opens) /\ WF_vars(Closes) /\ WF_vars(ReplacedCloses)
    /\ WF_vars(RetryFires) /\ WF_vars(Tick)

FairSpec == Spec /\ Fairness

(***************************************************************************)
(* What must hold                                                          *)
(***************************************************************************)
States == {"connecting", "open", "closing", "closed"}
Timers(longest) == {None} \cup 0 .. longest

SocketTypeOK ==
    /\ server \in {"up", "down"} /\ logSocket \in States
    /\ leaving \in Nat
    /\ retryDelay \in FirstDelay .. LongestDelay
    /\ retryTimer \in Timers(LongestDelay) /\ stableTimer \in Timers(StableAfter)
    /\ said \in Nat /\ pending \in Seq(Nat) /\ out \in Seq(Nat)
    /\ upFor \in 0 .. StableAfter

(* A socket that is closed has a retry on its way, and no retry is on its way otherwise, whatever buttons replaced
   it meanwhile: the page never ends without a socket and never replaces one that is connecting or open by itself. *)
ComingBack == (retryTimer # None) <=> (logSocket = "closed")

(* The delay goes back to the first only when the connection had lasted StableAfter: a server that accepts and
   drops every socket meets the growing delay. *)
BackoffHeld == [][retryDelay' < retryDelay => upFor = StableAfter]_vars

(* The socket keeps what an outbox promises: every message goes out once, in the order the visitor said them. *)
Promise == INSTANCE Outbox WITH waiting <- pending
KeepsOutbox == Promise!Spec

(* If the server accepts from some moment on, the socket is open with nothing waiting again and again, whatever
   the visitor presses. *)
EverythingGoesOut ==
    <>[](server = "up") => []<>(logSocket = "open" /\ pending = <<>>)
=============================================================================
