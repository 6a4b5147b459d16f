----------------------------- MODULE WhepReader -----------------------------
(***************************************************************************)
(* The WebRTC reader of a board page's live view (mediamtx-reader.js): it  *)
(* asks for ICE servers, makes a connection and an offer, posts the offer, *)
(* sets the answer, and starts again RETRY_PAUSE after a failure.          *)
(*                                                                         *)
(* An attempt is one run of the promise chain of start(). Nothing cancels  *)
(* a chain or a request when an attempt fails, and the restart's timer     *)
(* waits for none: a late one goes on with whatever the reader's fields    *)
(* hold by then. So that behaviours go on for ever an attempt that starts  *)
(* takes the place of one that is over, and what that one may have left    *)
(* behind for good is followed no further.                                 *)
(***************************************************************************)
EXTENDS Naturals, FiniteSets

CONSTANTS
    Attempts,   \* bound: attempts told apart
    NoPeer        \* no connection

ASSUME ReaderAssumption == NoPeer \notin Attempts

VARIABLES
    state,          \* #state
    restartTimeout, \* whether the timer of a restart is set
    chain,          \* how far each attempt's promise chain is
    pc,             \* #pc: the attempt that made it, or NoPeer
    opened,         \* the connections that are not closed, by the attempt that made them
    answered,       \* those of them that have a remote description and have not failed
    sessionUrl,     \* whether #sessionUrl is set
    queued,         \* whether #queuedCandidates holds any
    patching        \* whether PATCHes are on their way, to this session or to earlier ones

readerVars == <<state, restartTimeout, chain, pc, opened, answered, sessionUrl, queued, patching>>

Stages == {"over", "options", "offer", "post", "text"}

ReaderInit ==
    /\ state = "getting_codecs"
    /\ restartTimeout = FALSE
    /\ chain = [a \in Attempts |-> "over"]
    /\ pc = NoPeer /\ opened = {} /\ answered = {}
    /\ sessionUrl = FALSE /\ queued = FALSE /\ patching = FALSE

Restarting_NoTimer(current) ==
    /\ opened' = opened \ {current} /\ answered' = answered \ {current}
    /\ pc' = NoPeer /\ sessionUrl' = FALSE /\ queued' = FALSE
    /\ state' \in {"restarting", "closed"}
    /\ restartTimeout' = FALSE

(* handleError in the state running, the connection `current` being #pc. The page's onError may close the reader,
   and closing clears the timer. *)
Restarting(current) ==
    /\ opened' = opened \ {current} /\ answered' = answered \ {current}
    /\ pc' = NoPeer
    /\ sessionUrl' = FALSE
    /\ queued' = FALSE
    /\ state' \in {"restarting", "closed"}
    /\ restartTimeout' = (state' = "restarting")

handleError ==
    IF state = "running"
      THEN Restarting(pc)
      ELSE UNCHANGED <<state, restartTimeout, pc, opened, answered, sessionUrl, queued>>

close ==
    /\ state' = "closed"
    /\ opened' = opened \ {pc} /\ answered' = answered \ {pc}
    /\ restartTimeout' = FALSE
    /\ UNCHANGED <<chain, pc, sessionUrl, queued, patching>>

(* An attempt whose chain ended, and whose connection the reader does not hold. *)
Over(a) == chain[a] = "over" /\ a # pc

start ==
    \E a \in Attempts :
        /\ Over(a)
        /\ chain' = [chain EXCEPT ![a] = "options"]
        /\ opened' = opened \ {a} /\ answered' = answered \ {a}

CodecsKnown ==
    /\ state = "getting_codecs"
    /\ state' = "running"
    /\ start
    /\ UNCHANGED <<restartTimeout, pc, sessionUrl, queued, patching>>

(* A browser without WebRTC: the question which codecs it supports fails. *)
NoWebRTC ==
    /\ state = "getting_codecs"
    /\ state' = "failed"
    /\ UNCHANGED <<restartTimeout, chain, pc, opened, answered, sessionUrl, queued, patching>>

restart ==
    /\ state = "restarting" /\ restartTimeout
    /\ restartTimeout' = FALSE
    /\ state' = "running"
    /\ start
    /\ UNCHANGED <<pc, sessionUrl, queued, patching>>

(* A step of an attempt's chain fails, or finds the reader no longer running. *)
ChainFails(a) ==
    /\ chain[a] # "over"
    /\ chain' = [chain EXCEPT ![a] = "over"]
    /\ handleError
    /\ UNCHANGED <<patching>>

(* Mutant: the attempt goes on whatever became of the reader. *)
setupPeerConnection_Unchecked(a) ==
    /\ chain[a] = "options"
    /\ chain' = [chain EXCEPT ![a] = "offer"]
    /\ pc' = a /\ opened' = opened \cup {a}
    /\ UNCHANGED <<state, restartTimeout, answered, sessionUrl, queued, patching>>

(* The connection that was #pc, if a late attempt finds one, is left open. *)
setupPeerConnection(a) ==
    /\ chain[a] = "options" /\ state = "running"
    /\ chain' = [chain EXCEPT ![a] = "offer"]
    /\ pc' = a /\ opened' = opened \cup {a}
    /\ UNCHANGED <<state, restartTimeout, answered, sessionUrl, queued, patching>>

(* createOffer is through, on the attempt's own connection, and setLocalDescription, on the one that is #pc by now. *)
sendOffer(a) ==
    /\ chain[a] = "offer" /\ state = "running" /\ a \in opened /\ pc # NoPeer
    /\ chain' = [chain EXCEPT ![a] = "post"]
    /\ UNCHANGED <<state, restartTimeout, pc, opened, answered, sessionUrl, queued, patching>>

(* The POST is answered 201. The reader takes the session whatever its state. *)
SessionOpens(a) ==
    /\ chain[a] = "post"
    /\ chain' = [chain EXCEPT ![a] = "text"]
    /\ sessionUrl' = TRUE
    /\ UNCHANGED <<state, restartTimeout, pc, opened, answered, queued, patching>>

(* A connection takes one answer; from there the track event fires, and the candidates that waited are sent. *)
setAnswer(a) ==
    /\ chain[a] = "text" /\ state = "running" /\ pc # NoPeer /\ pc \notin answered
    /\ chain' = [chain EXCEPT ![a] = "over"]
    /\ answered' = answered \cup {pc}
    /\ patching' = (patching \/ queued)
    /\ queued' = FALSE
    /\ UNCHANGED <<state, restartTimeout, pc, opened, sessionUrl>>

(* A connection with its offer set finds a candidate. *)
onLocalCandidate ==
    /\ state = "running" /\ \E a \in opened : chain[a] \notin {"options", "offer"}
    /\ IF sessionUrl
         THEN patching' = TRUE /\ UNCHANGED queued
         ELSE queued' = TRUE /\ UNCHANGED patching
    /\ UNCHANGED <<state, restartTimeout, chain, pc, opened, answered, sessionUrl>>

PatchTaken ==
    /\ patching
    /\ patching' \in BOOLEAN
    /\ UNCHANGED <<state, restartTimeout, chain, pc, opened, answered, sessionUrl, queued>>

PatchFails ==
    /\ patching
    /\ patching' \in BOOLEAN
    /\ handleError
    /\ UNCHANGED <<chain>>

(* The connection that is #pc fails, or the other side ends it. *)
onConnectionState ==
    /\ state = "running" /\ pc \in answered
    /\ handleError
    /\ UNCHANGED <<chain, patching>>

(* A connection that is no longer #pc fails: the handler asks #pc's state and does nothing, or throws where there is
   none. *)
ReplacedFails(a) ==
    /\ a \in answered \ {pc}
    /\ answered' = answered \ {a}
    /\ UNCHANGED <<state, restartTimeout, chain, pc, opened, sessionUrl, queued, patching>>

ChainGoesOn ==
    \E a \in Attempts : ChainFails(a) \/ setupPeerConnection(a) \/ sendOffer(a) \/ SessionOpens(a)

PatchEnds == PatchTaken \/ PatchFails

Replaced == \E a \in Attempts : ReplacedFails(a)

(* Every step of the reader but the one that brings a track. *)
ReaderStep ==
    \/ CodecsKnown \/ NoWebRTC \/ restart
    \/ ChainGoesOn \/ PatchEnds \/ Replaced
    \/ onLocalCandidate \/ onConnectionState

Track == \E a \in Attempts : setAnswer(a)

(***************************************************************************)
(* What the reader keeps                                                   *)
(***************************************************************************)
ReaderTypeOK ==
    /\ state \in {"getting_codecs", "running", "restarting", "failed", "closed"}
    /\ restartTimeout \in BOOLEAN /\ sessionUrl \in BOOLEAN /\ queued \in BOOLEAN /\ patching \in BOOLEAN
    /\ chain \in [Attempts -> Stages]
    /\ pc \in Attempts \cup {NoPeer}
    /\ opened \in SUBSET Attempts /\ answered \in SUBSET opened
=============================================================================
