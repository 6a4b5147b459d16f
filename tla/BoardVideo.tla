----------------------------- MODULE BoardVideo -----------------------------
(***************************************************************************)
(* The video of a board page: the live view (whep-live.js) over its WebRTC *)
(* reader (WhepReader), and the box over the HLS player (NoPicture) that   *)
(* watches the live view come and go.                                      *)
(*                                                                         *)
(* The reader calls onError and onTrack from inside its own steps, and the *)
(* box's observer runs before anything else does: one step here is one     *)
(* task of the browser.                                                    *)
(***************************************************************************)
EXTENDS WhepReader

CONSTANT MaxErrors   \* the errors in a row at which the page gives up on WHEP, 10

ASSUME VideoAssumption == MaxErrors \in Nat /\ MaxErrors > 1

VARIABLES
    haveTrack, wantLive, errors,
    active,      \* the live view is shown and the HLS player hidden (class whep-active)
    stream,      \* the connection whose stream the live view plays
    unloaded,    \* history: a beforeunload was seen
    playlist, pageHidden, player, box, timer, asking, stale

liveVars == <<haveTrack, wantLive, errors, active, stream, unloaded>>
boxVars == <<playlist, pageHidden, player, box, timer, asking, stale>>

Box == INSTANCE NoPicture

videoVars == <<readerVars, liveVars, boxVars>>

VideoInit ==
    /\ ReaderInit
    /\ haveTrack = FALSE /\ wantLive = TRUE /\ errors = 0
    /\ active = FALSE /\ stream = NoPeer /\ unloaded = FALSE
    /\ Box!Init

(* show(live), with haveTrack as the caller has set it. *)
show(live) == active' = (live /\ haveTrack')

onError_KeepsTrack ==
    /\ active' = FALSE /\ errors' = errors + 1
    /\ (state' = "closed") <=> (errors + 1 >= MaxErrors)
    /\ UNCHANGED <<haveTrack, wantLive, stream, unloaded>>

onError ==
    /\ haveTrack' = FALSE
    /\ show(FALSE)
    /\ errors' = errors + 1
    /\ (state' = "closed") <=> (errors + 1 >= MaxErrors)
    /\ UNCHANGED <<wantLive, stream, unloaded>>

onTrack ==
    /\ errors' = 0
    /\ stream' = pc
    /\ haveTrack' = TRUE
    /\ show(wantLive)
    /\ UNCHANGED <<wantLive, unloaded>>

(* The reader fails, which it tells the page. *)
Errs == state \in {"running", "getting_codecs"} /\ state' \in {"restarting", "failed", "closed"}

Told == (IF Errs THEN onError ELSE UNCHANGED liveVars) /\ Box!Observed

ReaderRuns == ReaderStep /\ Told

TrackComes_Unobserved == Track /\ onTrack /\ UNCHANGED boxVars

TrackComes == Track /\ onTrack /\ Box!Observed

Rewind ==
    /\ active
    /\ wantLive' = FALSE
    /\ UNCHANGED <<haveTrack, errors, stream, unloaded, readerVars>>
    /\ show(FALSE)
    /\ Box!Observed

GoLive ==
    /\ haveTrack /\ ~active
    /\ wantLive' = TRUE
    /\ UNCHANGED <<haveTrack, errors, stream, unloaded, readerVars>>
    /\ show(TRUE)
    /\ Box!Observed

(* beforeunload: the page is asked to go, and may stay. *)
Unload ==
    /\ close
    /\ unloaded' = TRUE
    /\ UNCHANGED <<haveTrack, wantLive, errors, active, stream>>
    /\ Box!Observed

InBox(A) == A /\ UNCHANGED <<readerVars, haveTrack, wantLive, errors, stream, unloaded>>

BoxSteps == InBox(Box!Next)

LiveSteps == ReaderRuns \/ TrackComes \/ Rewind \/ GoLive \/ Unload

VideoNext == LiveSteps \/ BoxSteps

VideoSpec == VideoInit /\ [][VideoNext]_videoVars

(***************************************************************************)
(* What must hold                                                          *)
(***************************************************************************)
VideoTypeOK ==
    /\ ReaderTypeOK /\ Box!BoxTypeOK
    /\ haveTrack \in BOOLEAN /\ wantLive \in BOOLEAN /\ unloaded \in BOOLEAN
    /\ errors \in 0 .. MaxErrors
    /\ stream \in Attempts \cup {NoPeer}

(* The live view is shown only while the reader runs, over a connection that the reader has not closed: a failure
   brings the HLS player back in the same step, and no answer that comes after it, to whichever attempt, brings the
   live view back without a track of its own. *)
LiveIsOpen == active /\ ~unloaded => state = "running" /\ stream \in opened

(* A reader that waits for its restart, failed or was closed has no connection under way, and no attempt that is
   answered late gives it one. *)
OnlyRunningConnects == pc \in opened => state = "running"

(* What whep-live.js says of a reader that fails, "meanwhile fall back": a live view whose connection failed is taken
   away. *)
FallsBack == active /\ ~unloaded => stream \in answered

(* If from some moment on nothing fails, the page ends with a track it can show, unless the reader was closed, for
   MaxErrors failures in a row or because the page was asked to go, or the browser has no WebRTC. *)
LiveComesBack ==
    <>[][~Errs]_videoVars => <>[](haveTrack \/ state \in {"failed", "closed"})

(* Every step of the page's video is one that the box over the player knows: no change of the live view goes past its
   observer. *)
KeepsBox == Box!BoxSpec

(* The box never stands next to the live view, however the reader's failures and late answers fall. *)
OnePicture == Box!OnePicture

(* A box on a visible page is being asked about or will be, with the live view coming and going as it does here. *)
BoxIsAsked == Box!BoxIsAsked

(* The player comes back from behind the box. *)
PictureComesBack == Box!PictureComesBack
=============================================================================
