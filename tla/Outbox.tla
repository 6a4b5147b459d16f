------------------------------- MODULE Outbox -------------------------------
(***************************************************************************)
(* What the status socket of a board page promises the visitor: a message  *)
(* said to it goes out at once or waits, and what waits goes out together, *)
(* in the order in which it was said (the comment over dcws.js's logSocket: *)
(* "Messages sent while it is down are queued and go out when it is back"). *)
(* Messages are numbered as they are said.                                 *)
(***************************************************************************)
EXTENDS Naturals, Sequences

VARIABLES
    said,      \* how many messages were said
    waiting,   \* those that wait, the first said first
    out        \* history: those given to a socket that was open, in that order

outbox == <<said, waiting, out>>

Init == said = 0 /\ waiting = <<>> /\ out = <<>>

(* Nothing that was said before may be waiting when a message goes out at once. *)
SayNow ==
    /\ waiting = <<>>
    /\ said' = said + 1
    /\ out' = Append(out, said + 1)
    /\ UNCHANGED waiting

SayLater ==
    /\ said' = said + 1
    /\ waiting' = Append(waiting, said + 1)
    /\ UNCHANGED out

GoOut ==
    /\ waiting # <<>>
    /\ out' = out \o waiting
    /\ waiting' = <<>>
    /\ UNCHANGED said

Next == SayNow \/ SayLater \/ GoOut

Spec == Init /\ [][Next]_outbox

-----------------------------------------------------------------------------
(* Every message said went out or waits, once, in the order in which they were said. *)
EachOnceInOrder == out \o waiting = [n \in 1 .. said |-> n]
=============================================================================
