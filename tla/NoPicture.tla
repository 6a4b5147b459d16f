------------------------------ MODULE NoPicture ------------------------------
(***************************************************************************)
(* The box that stands in place of a board's HLS player while there is no  *)
(* playlist (no-picture.js). The playlist is asked for once at the start,  *)
(* then every POLL_MS while the box stands and the page is visible.        *)
(*                                                                         *)
(* `active` is whep-live.js's: its live view is shown. The browser has a   *)
(* MutationObserver, which tells every change of it before anything else   *)
(* happens (Observed).                                                     *)
(***************************************************************************)
VARIABLES
    playlist,  \* whether the server has the playlist: "up" or "down"
    pageHidden,
    player,    \* the video.js player: "absent" before it is set up, "fed", "gaveup" when it found no playlist
    box,       \* whether the box stands and the player is hidden
    timer,     \* whether the next question is scheduled
    asking,    \* "no", "out", or the answer on its way back: "404" or "ok"
    stale,     \* the player last saw a 404: its source is due before it is shown again
    active

noPictureVars == <<playlist, pageHidden, player, box, timer, asking, stale>>
boxVars == <<box, timer, asking, stale, player>>

Init ==
    /\ playlist \in {"up", "down"} /\ pageHidden = FALSE
    /\ player = "absent"
    /\ box = FALSE /\ timer = FALSE /\ stale = FALSE
    /\ asking = "out"

ask == asking' = IF asking = "no" THEN "out" ELSE asking

Loaded == IF playlist = "up" THEN "fed" ELSE "gaveup"

reload ==
    IF player = "absent"
      THEN UNCHANGED <<stale, player>>
      ELSE stale' = FALSE /\ player' = Loaded

restore_ShowsOnly(live) == timer' = FALSE /\ box' = FALSE /\ UNCHANGED <<stale, player>>

restore(live) ==
    /\ timer' = FALSE
    /\ box' = FALSE
    /\ IF live THEN UNCHANGED <<stale, player>> ELSE reload

(* schedule, with the box as it stands by then. *)
schedule(standing) == timer' = (timer \/ (standing /\ ~pageHidden))

answered_Always(status) ==
    /\ asking' = "no"
    /\ \/ status = "404" /\ stale' = TRUE /\ box' = TRUE /\ schedule(TRUE) /\ UNCHANGED player
       \/ status = "ok" /\ box /\ restore(active)
       \/ status = "ok" /\ ~box /\ stale /\ reload /\ UNCHANGED <<box, timer>>
       \/ status = "ok" /\ ~box /\ ~stale /\ UNCHANGED <<box, timer, stale, player>>
       \/ status = "other" /\ schedule(box) /\ UNCHANGED <<box, stale, player>>

answered(status) ==
    /\ asking' = "no"
    /\ \/ /\ active
          /\ stale' = (stale \/ status = "404")
          /\ box' = FALSE /\ timer' = (timer /\ ~box)
          /\ UNCHANGED player
       \/ /\ ~active
          /\ \/ status = "404" /\ stale' = TRUE /\ box' = TRUE /\ schedule(TRUE) /\ UNCHANGED player
             \/ status = "ok" /\ box /\ restore(active)
             \/ status = "ok" /\ ~box /\ stale /\ reload /\ UNCHANGED <<box, timer>>
             \/ status = "ok" /\ ~box /\ ~stale /\ UNCHANGED <<box, timer, stale, player>>
             \/ status = "other" /\ schedule(box) /\ UNCHANGED <<box, stale, player>>

(* The observer of the WHEP view's class. *)
Observed ==
    /\ UNCHANGED <<playlist, pageHidden>>
    /\ \/ active' = active /\ UNCHANGED boxVars
       \/ ~active /\ active' /\ box /\ restore(active') /\ UNCHANGED asking
       \/ ~active /\ active' /\ ~box /\ UNCHANGED boxVars
       \/ active /\ ~active' /\ ask /\ UNCHANGED <<box, timer, stale, player>>

ServerSays ==
    /\ asking = "out"
    /\ asking' = IF playlist = "up" THEN "ok" ELSE "404"
    /\ UNCHANGED <<playlist, pageHidden, player, box, timer, stale, active>>

AnswerArrives ==
    /\ asking \in {"404", "ok"}
    /\ answered(asking)
    /\ UNCHANGED <<playlist, pageHidden, active>>

(* The question fails, is answered with an error, or FETCH_MS passes, from where its answer is ignored. *)
NoAnswer ==
    /\ asking # "no"
    /\ answered("other")
    /\ UNCHANGED <<playlist, pageHidden, active>>

TimerFires ==
    /\ timer
    /\ timer' = FALSE
    /\ ask
    /\ UNCHANGED <<playlist, pageHidden, player, box, stale, active>>

visibilitychange_Waits ==
    /\ pageHidden' = ~pageHidden
    /\ timer' = (timer /\ pageHidden)
    /\ UNCHANGED <<playlist, player, box, stale, active, asking>>

visibilitychange ==
    /\ pageHidden' = ~pageHidden
    /\ IF pageHidden'
         THEN timer' = FALSE /\ UNCHANGED asking
         ELSE UNCHANGED timer /\ IF box /\ ~timer THEN ask ELSE UNCHANGED asking
    /\ UNCHANGED <<playlist, player, box, stale, active>>

(* The page's "reset video player": its own handler loads the player again, and the box asks at once. *)
Reset ==
    /\ player # "absent"
    /\ player' = Loaded
    /\ IF box THEN ask ELSE UNCHANGED asking
    /\ UNCHANGED <<playlist, pageHidden, box, timer, stale, active>>

(* video.js sets the player up, and a player gives up on a playlist that is gone. *)
PlayerSetUp ==
    /\ player = "absent"
    /\ player' = Loaded
    /\ UNCHANGED <<playlist, pageHidden, box, timer, asking, stale, active>>

PlayerGivesUp ==
    /\ player = "fed" /\ playlist = "down"
    /\ player' = "gaveup"
    /\ UNCHANGED <<playlist, pageHidden, box, timer, asking, stale, active>>

PlaylistTurns ==
    /\ playlist' = IF playlist = "up" THEN "down" ELSE "up"
    /\ UNCHANGED <<pageHidden, player, box, timer, asking, stale, active>>

Next ==
    \/ ServerSays \/ AnswerArrives \/ NoAnswer \/ TimerFires
    \/ visibilitychange \/ Reset \/ PlayerSetUp \/ PlayerGivesUp \/ PlaylistTurns

(* The live view, from here: it comes and goes at any time. *)
LiveViewTurns == active' = ~active /\ Observed

vars == <<noPictureVars, active>>

BoxInit == Init /\ active = FALSE
BoxNext == Next \/ LiveViewTurns
BoxSpec == BoxInit /\ [][BoxNext]_vars

(***************************************************************************)
(* What must hold                                                          *)
(***************************************************************************)
BoxTypeOK ==
    /\ playlist \in {"up", "down"} /\ pageHidden \in BOOLEAN /\ player \in {"absent", "fed", "gaveup"}
    /\ box \in BOOLEAN /\ timer \in BOOLEAN /\ stale \in BOOLEAN /\ active \in BOOLEAN
    /\ asking \in {"no", "out", "404", "ok"}

(* The box never stands next to the live view, whatever answer arrives late. *)
OnePicture == ~(box /\ active)

(* A box on a page that is visible is being asked about or will be: it cannot stand for ever. *)
BoxIsAsked == box /\ ~pageHidden => timer \/ asking # "no"

(* Whenever the box stands, and from there the playlist is there and the page visible, the box goes, and the player it
   hid is given its source before it shows, unless the live view is the picture; and then the box is gone for good. *)
Good == playlist = "up" /\ ~pageHidden

PictureComesBack ==
    /\ [](box /\ []Good => <>(~box /\ (active \/ player # "gaveup")))
    /\ <>[]Good => <>[]~box
=============================================================================
