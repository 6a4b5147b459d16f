-------------------------- MODULE BoardVideoProofs --------------------------
(***************************************************************************)
(* Proofs about the video of a board page (BoardVideo), for any number of  *)
(* attempts and of errors, whatever is answered late: what the box over    *)
(* the player and the live view show at once, that the live view is shown  *)
(* only over a connection its reader has open, and that no late attempt    *)
(* connects a reader that does not run.                                    *)
(***************************************************************************)
EXTENDS BoardVideo, TLAPS

----------------------------------------------------------------------------
(* The box: what a step of it, or of the live view it observes, keeps. *)

BoxInv == Box!BoxTypeOK /\ Box!OnePicture /\ Box!BoxIsAsked

LEMMA AskType ==
  ASSUME Box!BoxTypeOK, Box!ask
  PROVE  asking' \in {"out", "404", "ok"}
  BY DEF Box!BoxTypeOK, Box!ask

LEMMA ReloadType ==
  ASSUME Box!BoxTypeOK, Box!reload
  PROVE  player' \in {"absent", "fed", "gaveup"} /\ stale' \in BOOLEAN
  BY DEF Box!BoxTypeOK, Box!reload, Box!Loaded

LEMMA RestoreType ==
  ASSUME Box!BoxTypeOK, NEW live, Box!restore(live)
  PROVE  player' \in {"absent", "fed", "gaveup"} /\ stale' \in BOOLEAN /\ timer' = FALSE /\ box' = FALSE
<1>1. timer' = FALSE /\ box' = FALSE /\ (Box!reload \/ UNCHANGED <<stale, player>>)
  BY DEF Box!restore
<1> QED
  BY <1>1, ReloadType DEF Box!BoxTypeOK

(* What an answer does to the box: it stands only where there is no live view, and is then asked about again. *)
LEMMA AnsweredBox ==
  ASSUME Box!BoxTypeOK, NEW status \in {"404", "ok", "other"}, Box!answered(status)
  PROVE  /\ asking' = "no" /\ player' \in {"absent", "fed", "gaveup"}
         /\ stale' \in BOOLEAN /\ box' \in BOOLEAN /\ timer' \in BOOLEAN
         /\ box' => ~active /\ (timer' \/ pageHidden)
<1> USE DEF Box!BoxTypeOK, Box!schedule
<1>0. asking' = "no"
  BY DEF Box!answered
<1>1. CASE active
  BY <1>0, <1>1, Zenon DEF Box!answered
<1>2. CASE ~active /\ status = "404"
  BY <1>0, <1>2 DEF Box!answered
<1>3. CASE ~active /\ status = "other"
  BY <1>0, <1>3 DEF Box!answered
<1>4. CASE ~active /\ status = "ok"
  <2>1. CASE box /\ Box!restore(active)
    BY <1>0, <2>1, RestoreType
  <2>2. CASE ~box /\ stale /\ Box!reload /\ UNCHANGED <<box, timer>>
    BY <1>0, <2>2, ReloadType
  <2>3. CASE UNCHANGED <<box, timer, stale, player>> /\ ~box
    BY <1>0, <2>3
  <2> QED
    BY <1>4, <2>1, <2>2, <2>3 DEF Box!answered
<1> QED
  BY <1>1, <1>2, <1>3, <1>4

LEMMA BoxStep ==
  ASSUME BoxInv, [Box!BoxNext]_(Box!vars)
  PROVE  BoxInv'
<1>0. Box!BoxTypeOK /\ Box!OnePicture /\ Box!BoxIsAsked
  BY DEF BoxInv
<1> USE DEF BoxInv, Box!BoxTypeOK, Box!OnePicture, Box!BoxIsAsked
<1>1. CASE Box!ServerSays
  BY <1>0, <1>1 DEF Box!ServerSays
<1>2. CASE Box!AnswerArrives \/ Box!NoAnswer
  <2>1. PICK status \in {"404", "ok", "other"} : Box!answered(status)
    BY <1>2 DEF Box!AnswerArrives, Box!NoAnswer
  <2>2. UNCHANGED <<playlist, pageHidden, active>>
    BY <1>2 DEF Box!AnswerArrives, Box!NoAnswer
  <2> QED
    BY <1>0, <2>1, <2>2, AnsweredBox
<1>3. CASE Box!TimerFires
  <2>1. asking' \in {"out", "404", "ok"}
    BY <1>0, <1>3, AskType DEF Box!TimerFires
  <2> QED
    BY <1>0, <1>3, <2>1 DEF Box!TimerFires
<1>4. CASE Box!visibilitychange
  <2>1. asking' \in {"out", "404", "ok"} \/ asking' = asking
    BY <1>0, <1>4, AskType DEF Box!visibilitychange
  <2> QED
    BY <1>0, <1>4, <2>1 DEF Box!visibilitychange, Box!ask
<1>5. CASE Box!Reset
  <2>1. asking' \in {"out", "404", "ok"} \/ asking' = asking
    BY <1>0, <1>5, AskType DEF Box!Reset
  <2> QED
    BY <1>0, <1>5, <2>1 DEF Box!Reset, Box!Loaded
<1>6. CASE Box!PlayerSetUp \/ Box!PlayerGivesUp \/ Box!PlaylistTurns
  BY <1>0, <1>6 DEF Box!PlayerSetUp, Box!PlayerGivesUp, Box!PlaylistTurns, Box!Loaded
<1>7. CASE Box!LiveViewTurns
  <2>1. active' \in BOOLEAN /\ UNCHANGED <<playlist, pageHidden>>
    BY <1>0, <1>7 DEF Box!LiveViewTurns, Box!Observed
  <2>2. CASE ~active /\ active' /\ box /\ Box!restore(active') /\ UNCHANGED asking
    BY <1>0, <2>1, <2>2, RestoreType
  <2>3. CASE ~active /\ active' /\ ~box /\ UNCHANGED Box!boxVars
    BY <1>0, <2>1, <2>3 DEF Box!boxVars
  <2>4. CASE active /\ ~active' /\ Box!ask /\ UNCHANGED <<box, timer, stale, player>>
    <3>1. asking' \in {"out", "404", "ok"}
      BY <1>0, <2>4, AskType
    <3> QED
      BY <1>0, <2>1, <2>4, <3>1
  <2> QED
    BY <1>0, <1>7, <2>2, <2>3, <2>4 DEF Box!LiveViewTurns, Box!Observed
<1>8. CASE UNCHANGED Box!vars
  BY <1>0, <1>8 DEF Box!vars, Box!noPictureVars
<1> QED
  BY <1>1, <1>2, <1>3, <1>4, <1>5, <1>6, <1>7, <1>8 DEF Box!BoxNext, Box!Next

----------------------------------------------------------------------------
(* Every step of the video is one the box knows. *)

LEMMA ObservedStep ==
  ASSUME active \in BOOLEAN, active' \in BOOLEAN, Box!Observed
  PROVE  [Box!BoxNext]_(Box!vars)
<1>1. CASE active' = active
  BY <1>1 DEF Box!Observed, Box!vars, Box!noPictureVars, Box!boxVars
<1>2. CASE active' # active
  <2>1. active' = ~active
    BY <1>2
  <2> QED
    BY <2>1 DEF Box!BoxNext, Box!LiveViewTurns
<1> QED
  BY <1>1, <1>2

LEMMA ShowType ==
  ASSUME active \in BOOLEAN, [VideoNext]_videoVars, ~BoxSteps
  PROVE  active' \in BOOLEAN
<1>1. CASE ReaderRuns
  <2>1. (Errs /\ onError) \/ UNCHANGED liveVars
    BY <1>1 DEF ReaderRuns, Told
  <2> QED
    BY <2>1 DEF onError, show, liveVars
<1>2. CASE TrackComes
  BY <1>2 DEF TrackComes, onTrack, show
<1>3. CASE Rewind \/ GoLive \/ Unload \/ UNCHANGED videoVars
  BY <1>3 DEF Rewind, GoLive, Unload, show, videoVars, liveVars
<1> QED
  BY <1>1, <1>2, <1>3 DEF VideoNext, LiveSteps

LEMMA StepKnown ==
  ASSUME active \in BOOLEAN, [VideoNext]_videoVars
  PROVE  [Box!BoxNext]_(Box!vars)
<1>1. CASE BoxSteps
  BY <1>1 DEF BoxSteps, InBox, Box!BoxNext
<1>2. CASE ~BoxSteps /\ VideoNext
  <2>1. Box!Observed
    BY <1>2 DEF VideoNext, LiveSteps, ReaderRuns, Told, TrackComes, Rewind, GoLive, Unload
  <2> QED
    BY <1>2, <2>1, ShowType, ObservedStep
<1>3. CASE UNCHANGED videoVars
  BY <1>3 DEF videoVars, boxVars, liveVars, Box!vars, Box!noPictureVars
<1> QED
  BY <1>1, <1>2, <1>3

LEMMA InitBox == VideoInit => BoxInv /\ Box!BoxInit
  BY DEF VideoInit, Box!BoxInit, Box!Init, BoxInv, Box!BoxTypeOK, Box!OnePicture, Box!BoxIsAsked

LEMMA BoxHolds == VideoSpec => []BoxInv
<1>1. BoxInv /\ [VideoNext]_videoVars => BoxInv'
  <2> SUFFICES ASSUME BoxInv, [VideoNext]_videoVars
               PROVE  BoxInv'
    OBVIOUS
  <2>1. active \in BOOLEAN
    BY DEF BoxInv, Box!BoxTypeOK
  <2> QED
    BY <2>1, StepKnown, BoxStep
<1> QED
  BY <1>1, InitBox, PTL DEF VideoSpec

(* Every step of the page's video is one that the box knows: each change of the live view, at a track, at a failure
   of the reader (whep-live.js, onError) or at a press, is seen by the box's observer in the same task, so that all
   that is shown of the box alone is true of it on this page. *)
THEOREM KeepsItsBox == VideoSpec => KeepsBox
<1>1. BoxInv /\ [VideoNext]_videoVars => [Box!BoxNext]_(Box!vars)
  BY StepKnown DEF BoxInv, Box!BoxTypeOK
<1> QED
  BY <1>1, InitBox, BoxHolds, PTL DEF VideoSpec, KeepsBox, Box!BoxSpec

(* The box never stands next to the live view: an answer to the box's question that arrives after the live view came
   back puts up no box (no-picture.js, answered). *)
THEOREM OnePictureShown == VideoSpec => []OnePicture
<1>1. BoxInv => OnePicture
  BY DEF BoxInv, OnePicture
<1> QED
  BY <1>1, BoxHolds, PTL

(* A box on a page that is visible is being asked about or will be, with timers that hidden pages lose and questions
   that the live view's return leaves behind (no-picture.js, schedule and visibilitychange). *)
THEOREM BoxIsAskedAbout == VideoSpec => []BoxIsAsked
<1>1. BoxInv => BoxIsAsked
  BY DEF BoxInv, BoxIsAsked
<1> QED
  BY <1>1, BoxHolds, PTL

----------------------------------------------------------------------------
(* Types. A reader that may still fail has not yet failed MaxErrors times. *)

PcIsOpen == state # "closed" /\ pc # NoPeer => pc \in opened

Types ==
    /\ VideoTypeOK
    /\ state \in {"getting_codecs", "running", "restarting"} => errors < MaxErrors
    /\ PcIsOpen

LEMMA HandleErrorType ==
  ASSUME ReaderTypeOK, handleError
  PROVE  /\ state' \in {"getting_codecs", "running", "restarting", "failed", "closed"}
         /\ state # "running" => state' = state
         /\ restartTimeout' \in BOOLEAN /\ queued' \in BOOLEAN
         /\ pc' \in Attempts \cup {NoPeer} /\ sessionUrl' \in BOOLEAN
         /\ opened' \in SUBSET Attempts /\ answered' \in SUBSET opened'
  BY DEF ReaderTypeOK, handleError, Restarting

LEMMA StartType ==
  ASSUME ReaderTypeOK, start
  PROVE  /\ chain' \in [Attempts -> Stages]
         /\ opened' \in SUBSET Attempts /\ answered' \in SUBSET opened'
         /\ pc \in opened => pc \in opened'
  BY DEF ReaderTypeOK, start, Over, Stages

LEMMA ReaderStepType ==
  ASSUME ReaderTypeOK, ReaderStep
  PROVE  ReaderTypeOK'
<1> USE DEF ReaderTypeOK, Stages
<1>1. CASE CodecsKnown \/ restart
  <2>1. /\ chain' \in [Attempts -> Stages]
        /\ opened' \in SUBSET Attempts /\ answered' \in SUBSET opened'
    BY <1>1, StartType DEF CodecsKnown, restart
  <2> QED
    BY <1>1, <2>1 DEF CodecsKnown, restart
<1>2. CASE NoWebRTC
  BY <1>2 DEF NoWebRTC
<1>3. CASE \E a \in Attempts : ChainFails(a)
  BY <1>3, HandleErrorType DEF ChainFails
<1>4. CASE \E a \in Attempts : setupPeerConnection(a)
  BY <1>4 DEF setupPeerConnection
<1>5. CASE \E a \in Attempts : sendOffer(a) \/ SessionOpens(a)
  BY <1>5 DEF sendOffer, SessionOpens
<1>6. CASE PatchEnds
  BY <1>6, HandleErrorType DEF PatchEnds, PatchTaken, PatchFails
<1>7. CASE Replaced
  BY <1>7 DEF Replaced, ReplacedFails
<1>8. CASE onLocalCandidate
  BY <1>8 DEF onLocalCandidate
<1>9. CASE onConnectionState
  BY <1>9, HandleErrorType DEF onConnectionState
<1> QED
  BY <1>1, <1>2, <1>3, <1>4, <1>5, <1>6, <1>7, <1>8, <1>9 DEF ReaderStep, ChainGoesOn

LEMMA ReaderStepPc ==
  ASSUME ReaderTypeOK, PcIsOpen, ReaderStep
  PROVE  PcIsOpen'
<1> USE DEF PcIsOpen
<1>1. CASE handleError
  BY <1>1 DEF handleError, Restarting
<1>2. CASE \E a \in Attempts : setupPeerConnection(a)
  BY <1>2 DEF setupPeerConnection
<1>3. CASE start /\ UNCHANGED pc /\ state # "closed"
  BY <1>3, StartType
<1>4. CASE UNCHANGED <<pc, opened>> /\ (state = "closed" => state' = "closed")
  BY <1>4
<1>5. \/ handleError \/ \E a \in Attempts : setupPeerConnection(a)
      \/ start /\ UNCHANGED pc /\ state # "closed"
      \/ UNCHANGED <<pc, opened>> /\ (state = "closed" => state' = "closed")
  BY DEF ReaderStep, CodecsKnown, NoWebRTC, restart, ChainGoesOn, ChainFails, sendOffer, SessionOpens, PatchEnds,
     PatchTaken, PatchFails, Replaced, ReplacedFails, onLocalCandidate, onConnectionState
<1> QED
  BY <1>1, <1>2, <1>3, <1>4, <1>5

(* A step of the reader in which it does not fail leads to the state running only from one that may fail. *)
LEMMA ReaderStepState ==
  ASSUME ReaderTypeOK, ReaderStep, ~Errs
  PROVE  \/ state' = state
         \/ state \in {"getting_codecs", "restarting"} /\ state' = "running"
<1>1. CASE handleError
  BY <1>1 DEF Errs, handleError, Restarting
<1>2. CASE ~handleError
  BY <1>2 DEF ReaderStep, Errs, CodecsKnown, NoWebRTC, restart, ChainGoesOn, ChainFails, setupPeerConnection,
     sendOffer, SessionOpens, PatchEnds, PatchTaken, PatchFails, Replaced, ReplacedFails,
     onLocalCandidate, onConnectionState
<1> QED
  BY <1>1, <1>2

LEMMA NextTypes ==
  ASSUME Types, [VideoNext]_videoVars, BoxInv'
  PROVE  Types'
<1> USE VideoAssumption, ReaderAssumption
<1>0. Box!BoxTypeOK'
  BY DEF BoxInv
<1>1. CASE ReaderRuns
  <2>1. ReaderTypeOK /\ ReaderTypeOK' /\ PcIsOpen'
    BY <1>1, ReaderStepType, ReaderStepPc DEF ReaderRuns, Types, VideoTypeOK
  <2>2. CASE Errs /\ onError
    <3>1. errors \in 0 .. MaxErrors /\ errors < MaxErrors
      BY <2>2 DEF Types, VideoTypeOK, Errs
    <3>2. errors' \in 0 .. MaxErrors /\ (state' # "closed" => errors' < MaxErrors)
      BY <2>2, <3>1 DEF onError
    <3>3. haveTrack' \in BOOLEAN /\ wantLive' \in BOOLEAN /\ unloaded' \in BOOLEAN /\ stream' \in Attempts \cup {NoPeer}
      BY <2>2 DEF onError, Types, VideoTypeOK
    <3> QED
      BY <1>0, <2>1, <3>2, <3>3 DEF Types, VideoTypeOK
  <2>3. CASE ~Errs /\ UNCHANGED liveVars
    BY <1>0, <1>1, <2>1, <2>3, ReaderStepState DEF ReaderRuns, Types, VideoTypeOK, liveVars
  <2> QED
    BY <1>1, <2>2, <2>3 DEF ReaderRuns, Told
<1>2. CASE TrackComes
  <2>1. PICK a \in Attempts : setAnswer(a)
    BY <1>2 DEF TrackComes, Track
  <2>2. ReaderTypeOK' /\ state' = state /\ pc' = pc
    BY <2>1 DEF Types, VideoTypeOK, ReaderTypeOK, setAnswer, Stages, PcIsOpen
  <2>3. PcIsOpen'
    BY <2>1 DEF Types, PcIsOpen, setAnswer
  <2> QED
    BY <1>0, <1>2, <2>2, <2>3 DEF TrackComes, onTrack, Types, VideoTypeOK, ReaderTypeOK
<1>3. CASE Rewind \/ GoLive
  BY <1>0, <1>3 DEF Rewind, GoLive, PcIsOpen, Types, VideoTypeOK, ReaderTypeOK, readerVars
<1>4. CASE Unload
  BY <1>0, <1>4 DEF Unload, close, PcIsOpen, Types, VideoTypeOK, ReaderTypeOK
<1>5. CASE BoxSteps \/ UNCHANGED videoVars
  BY <1>0, <1>5 DEF BoxSteps, InBox, videoVars, liveVars, PcIsOpen, Types, VideoTypeOK, ReaderTypeOK, readerVars
<1> QED
  BY <1>1, <1>2, <1>3, <1>4, <1>5 DEF VideoNext, LiveSteps

LEMMA TypesHold == VideoSpec => []Types
<1>1. VideoInit => Types
  <2> SUFFICES ASSUME VideoInit
               PROVE  Types
    OBVIOUS
  <2>1. Box!BoxTypeOK
    BY InitBox DEF BoxInv
  <2>2. ReaderTypeOK /\ PcIsOpen
    BY DEF VideoInit, ReaderInit, ReaderTypeOK, Stages, PcIsOpen
  <2>3. errors \in 0 .. MaxErrors /\ errors < MaxErrors
    BY VideoAssumption DEF VideoInit
  <2>4. haveTrack \in BOOLEAN /\ wantLive \in BOOLEAN /\ unloaded \in BOOLEAN /\ stream \in Attempts \cup {NoPeer}
    BY DEF VideoInit
  <2> QED
    BY <2>1, <2>2, <2>3, <2>4 DEF Types, VideoTypeOK
<1>2. Types /\ [VideoNext]_videoVars /\ BoxInv' => Types'
  BY NextTypes
<1> QED
  BY <1>1, <1>2, BoxHolds, PTL DEF VideoSpec

(* Every variable of the page's video keeps its type; the count of errors in a row stops at MaxErrors, where
   whep-live.js closes the reader for good. *)
THEOREM VideoTypeCorrect == VideoSpec => []VideoTypeOK
<1>1. Types => VideoTypeOK
  BY DEF Types
<1> QED
  BY <1>1, TypesHold, PTL

----------------------------------------------------------------------------
(* What a late answer cannot do. No request of an earlier attempt is assumed to have ended. *)

(* A step that leaves #pc alone, whatever else it does to the fields, opens no connection. *)
LEMMA ConnectsRunning ==
  ASSUME ReaderTypeOK, OnlyRunningConnects, ReaderStep
  PROVE  OnlyRunningConnects'
<1> USE DEF OnlyRunningConnects
<1>1. CASE handleError
  BY <1>1, ReaderAssumption DEF handleError, Restarting, ReaderTypeOK
<1>2. CASE \E a \in Attempts : setupPeerConnection(a)
  BY <1>2 DEF setupPeerConnection
<1>3. CASE start /\ state' = "running"
  BY <1>3
<1>4. CASE UNCHANGED <<pc, opened, state>>
  BY <1>4
<1>5. CASE NoWebRTC
  BY <1>5 DEF NoWebRTC
<1> QED
  BY <1>1, <1>2, <1>3, <1>4, <1>5 DEF ReaderStep, CodecsKnown, restart, ChainGoesOn, ChainFails, sendOffer,
     SessionOpens, PatchEnds, PatchTaken, PatchFails, Replaced, ReplacedFails, onLocalCandidate,
     onConnectionState

LEMMA ConnectsStep ==
  ASSUME ReaderTypeOK, OnlyRunningConnects, [VideoNext]_videoVars
  PROVE  OnlyRunningConnects'
<1>1. CASE ReaderRuns
  BY <1>1, ConnectsRunning DEF ReaderRuns
<1>2. CASE TrackComes
  BY <1>2 DEF TrackComes, Track, setAnswer, OnlyRunningConnects
<1>3. CASE Unload
  BY <1>3 DEF Unload, close, OnlyRunningConnects
<1>4. CASE UNCHANGED readerVars
  BY <1>4 DEF readerVars, OnlyRunningConnects
<1> QED
  BY <1>1, <1>2, <1>3, <1>4 DEF VideoNext, LiveSteps, Rewind, GoLive, BoxSteps, InBox, videoVars

(* A reader that waits for its restart, failed or was closed has no connection under way: an attempt that is answered
   after the reader stopped running makes none (mediamtx-reader.js, #setupPeerConnection), and one that had made it
   finds it closed. *)
THEOREM NoLateConnection == VideoSpec => []OnlyRunningConnects
<1>1. VideoInit => OnlyRunningConnects
  BY DEF VideoInit, ReaderInit, OnlyRunningConnects
<1>2. OnlyRunningConnects /\ VideoTypeOK /\ [VideoNext]_videoVars => OnlyRunningConnects'
  BY ConnectsStep DEF VideoTypeOK
<1> QED
  BY <1>1, <1>2, VideoTypeCorrect, PTL DEF VideoSpec

(* There is a track only while the reader runs and has the track's connection open. The live view shows only with a
   track. *)
TrackKept ==
    /\ active => haveTrack
    /\ haveTrack /\ ~unloaded => state = "running" /\ stream \in opened

(* A running reader that does not fail closes no connection, however late its answers are. *)
LEMMA RunningStep ==
  ASSUME ReaderStep, ~Errs, state = "running"
  PROVE  state' = "running" /\ opened \subseteq opened'
<1>1. ~handleError
  BY DEF Errs, handleError, Restarting
<1> QED
  BY <1>1 DEF ReaderStep, CodecsKnown, NoWebRTC, restart, ChainGoesOn, ChainFails, setupPeerConnection,
     sendOffer, SessionOpens, PatchEnds, PatchTaken, PatchFails, Replaced, ReplacedFails,
     onLocalCandidate, onConnectionState

LEMMA TrackKeptStep ==
  ASSUME Types, active \in BOOLEAN, TrackKept, [VideoNext]_videoVars
  PROVE  TrackKept'
<1> USE DEF TrackKept
<1>1. CASE ReaderRuns
  <2>1. CASE Errs /\ onError
    BY <2>1 DEF onError, show
  <2>2. CASE ~Errs /\ UNCHANGED liveVars
    BY <1>1, <2>2, RunningStep DEF ReaderRuns, liveVars
  <2> QED
    BY <1>1, <2>1, <2>2 DEF ReaderRuns, Told
<1>2. CASE TrackComes
  <2>1. state' = "running" /\ pc \in opened'
    BY <1>2 DEF TrackComes, Track, setAnswer, Types, PcIsOpen
  <2> QED
    BY <1>2, <2>1 DEF TrackComes, onTrack, show
<1>3. CASE Rewind \/ GoLive
  BY <1>3 DEF Rewind, GoLive, show, readerVars
<1>4. CASE Unload
  BY <1>4 DEF Unload
<1>5. CASE BoxSteps
  <2>1. active' = active
    BY <1>5 DEF BoxSteps, InBox, Box!Next, Box!ServerSays, Box!AnswerArrives, Box!NoAnswer, Box!TimerFires,
       Box!visibilitychange, Box!Reset, Box!PlayerSetUp, Box!PlayerGivesUp, Box!PlaylistTurns
  <2> QED
    BY <1>5, <2>1 DEF BoxSteps, InBox, readerVars
<1>6. CASE UNCHANGED videoVars
  BY <1>6 DEF videoVars, liveVars, readerVars
<1> QED
  BY <1>1, <1>2, <1>3, <1>4, <1>5, <1>6 DEF VideoNext, LiveSteps

(* Until the page is asked to go, the live view is shown only while the reader runs, over a connection the reader has
   open: a failure takes it away in the same step (whep-live.js, onError), and from there no answer that comes late,
   to whichever attempt, nor a press of the live button shows it again without a new track. *)
THEOREM LiveViewIsOpen == VideoSpec => []LiveIsOpen
<1>1. VideoInit => TrackKept
  BY DEF VideoInit, TrackKept
<1>2. TrackKept /\ Types /\ BoxInv /\ [VideoNext]_videoVars => TrackKept'
  BY TrackKeptStep DEF BoxInv, Box!BoxTypeOK
<1>3. TrackKept => LiveIsOpen
  BY DEF TrackKept, LiveIsOpen
<1> QED
  BY <1>1, <1>2, <1>3, BoxHolds, TypesHold, PTL DEF VideoSpec

=============================================================================
