---------------------------- MODULE PageScripts ----------------------------
(***************************************************************************)
(* The scripts of the site's pages that keep something for the visitor     *)
(* while the site comes and goes: the status socket, the video and the     *)
(* design gallery of a board page, and a sorted table of a management      *)
(* page. They share nothing: a behaviour is that of the one that is open.  *)
(* The video is open with its box, or ("live") with a box nothing happens  *)
(* to but what it observes.                                                *)
(***************************************************************************)
EXTENDS StatusSocket, Gallery, BoardVideo

CONSTANTS
    Tables,
    BoxAttempts,   \* bound: the attempts where the box is open too
    MaxBoxErrors   \* bound: the errors in a row where the box is open too

VARIABLES
    open,   \* the page that is open
    kind, up, site, source, body, ariaSort, chosen, storage, kept, fetch, answer

T == INSTANCE SortedTable WITH None <- NoValue

(* A cell is a number, and no sort chosen is not a sort. *)
ASSUME TablesAssumption ==
    /\ \A t \in Tables : t.rows \in Seq([t.cols -> Int])
    /\ NoValue \notin [column : UNION {t.cols : t \in Tables}, direction : T!Directions]

tableVars == <<kind, up, site, source, body, ariaSort, chosen, storage, kept, fetch, answer>>
pageVars == <<open, vars, galleryVars, tableVars, videoVars>>

Video == {"video", "live"}

(* A page that is not open rests in one state: its server is down, its gallery shows nothing, its player has no
   playlist. *)
PagesInit ==
    /\ open \in {"socket", "gallery", "table"} \cup Video
    /\ Init /\ (open # "socket" => server = "down")
    /\ GalleryInit /\ (open # "gallery" => stored = Designs /\ running = CHOOSE d \in Designs : TRUE)
    /\ T!Init /\ (open # "table" => site = (CHOOSE t \in Tables : TRUE) /\ kind = "rows" /\ storage)
    /\ VideoInit /\ (open \notin Video => playlist = "down")

OnSocket(A) == open = "socket" /\ A /\ UNCHANGED <<open, galleryVars, tableVars, videoVars>>
InGallery(A) == open = "gallery" /\ A /\ UNCHANGED <<open, vars, tableVars, videoVars>>
OnTable(A) == open = "table" /\ A /\ UNCHANGED <<open, vars, galleryVars, videoVars>>
OnVideo(A) ==
    /\ open \in Video /\ A /\ (open = "video" => errors' <= MaxBoxErrors /\ \A a \in Attempts \ BoxAttempts : chain'[a] = "over")
    /\ UNCHANGED <<open, vars, galleryVars, tableVars>>
OnBox(A) == open = "video" /\ OnVideo(InBox(A))

PagesNext ==
    \/ OnSocket(Next) \/ InGallery(GalleryNext) \/ OnTable(T!Next)
    \/ OnVideo(LiveSteps) \/ OnBox(Box!Next)

(* The status socket and the table, as each module says. *)
SocketFair ==
    /\ WF_pageVars(OnSocket(Opens)) /\ WF_pageVars(OnSocket(Closes)) /\ WF_pageVars(OnSocket(ReplacedCloses))
    /\ WF_pageVars(OnSocket(RetryFires)) /\ WF_pageVars(OnSocket(Tick))

TableFair ==
    /\ WF_pageVars(OnTable(T!tick)) /\ WF_pageVars(OnTable(T!SiteAnswers)) /\ WF_pageVars(OnTable(T!Swapped))
    /\ WF_pageVars(OnTable(T!Failed)) /\ WF_pageVars(OnTable(T!RowsDrawn))

(* The reader: requests end and timers fire; none need succeed. *)
ReaderFair ==
    /\ WF_pageVars(OnVideo((CodecsKnown \/ NoWebRTC \/ restart) /\ Told))
    /\ WF_pageVars(OnVideo(ChainGoesOn /\ Told)) /\ WF_pageVars(OnVideo(TrackComes))

(* The box: timers fire, video.js sets the player up, questions end; and of endlessly many questions the server answers
   some in time. *)
BoxFair ==
    /\ WF_pageVars(OnBox(Box!TimerFires)) /\ WF_pageVars(OnBox(Box!PlayerSetUp)) /\ WF_pageVars(OnBox(Box!NoAnswer))
    /\ SF_pageVars(OnBox(Box!ServerSays)) /\ SF_pageVars(OnBox(Box!AnswerArrives))

PagesFair == SocketFair /\ TableFair /\ ReaderFair /\ BoxFair

PagesSpec == PagesInit /\ [][PagesNext]_pageVars /\ PagesFair

(* The live view comes back where the video is open (BoardVideo). *)
LiveViewComesBack == open \in Video => LiveComesBack

(* A table drawn again is in the order the reader chose (SortedTable). *)
SortKept == T!SortKept

(* A table that stays the same at the site is in the end the one drawn (SortedTable). *)
DrawsTheLatest == T!DrawsTheLatest
=============================================================================
