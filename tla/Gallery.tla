------------------------------- MODULE Gallery -------------------------------
(***************************************************************************)
(* The design gallery of the FPGA board pages: the page's script           *)
(* (ttsite/static/ttsite/board.js), the views that stand between it and    *)
(* the Pi's daemon and keep the daemon's list in a cache shared by all     *)
(* workers (ttsite/views.py, daemon.py), and the daemon, which is not in   *)
(* the repository.                                                         *)
(*                                                                         *)
(* Every page shows the gallery of the same board. A page loads the list   *)
(* when it is opened and after every design it has enabled; it carries out *)
(* one enable or upload at a time.                                         *)
(***************************************************************************)
CONSTANTS
    Designs,   \* the designs the board can hold
    Pages,     \* the open pages
    Pressing,  \* bound: the pages whose visitor presses anything
    NoValue     \* no list, no entry, nothing running

VARIABLES
    running,   \* at the Pi: the design that runs
    stored,    \* at the Pi: the designs that are there
    cache,     \* the cached list: [enabled, designs, crossed], or NoValue
    loads,     \* the page's loadDesigns: for each page, when it is opened and after an enable
    job,       \* the page's enable or upload under way
    list,      \* the list as the page shows it, NoValue when it shows none
    disabled   \* the designs whose button is disabled

galleryVars == <<running, stored, cache, loads, job, list, disabled>>

Kinds == {"first", "again"}
Body == [enabled |-> running, designs |-> stored]
BodyOf(r) == [enabled |-> r.enabled, designs |-> r.designs]

(* A load: "no" when none is under way, "asked" the daemon, "read" it, or "back" on the way to the page. `crossed` is a
   history: the list was changed between the daemon's answer and its being stored, or behind the views' back. *)
NoLoad == [at |-> "no", enabled |-> NoValue, designs |-> {}, crossed |-> FALSE]
NoJob == [at |-> "no", design |-> NoValue, attached |-> FALSE]

GalleryInit ==
    /\ stored \in SUBSET Designs \ {{}}
    /\ running \in stored
    /\ cache = NoValue
    /\ loads = [p \in Pages |-> [k \in Kinds |-> IF k = "first" THEN [NoLoad EXCEPT !.at = "out"] ELSE NoLoad]]
    /\ job = [p \in Pages |-> NoJob]
    /\ list = [p \in Pages |-> NoValue]
    /\ disabled = [p \in Pages |-> {}]

(***************************************************************************)
(* api_designs                                                             *)
(***************************************************************************)
Load(p, k, r) == loads' = [loads EXCEPT ![p][k] = r]

CacheHit(p, k) ==
    /\ loads[p][k].at = "out" /\ cache # NoValue
    /\ Load(p, k, [cache EXCEPT !.at = "back"])
    /\ UNCHANGED <<running, stored, cache, job, list, disabled>>

CacheMiss(p, k) ==
    /\ loads[p][k].at = "out" /\ cache = NoValue
    /\ Load(p, k, [loads[p][k] EXCEPT !.at = "asked"])
    /\ UNCHANGED <<running, stored, cache, job, list, disabled>>

DaemonLists(p, k) ==
    /\ loads[p][k].at = "asked"
    /\ Load(p, k, [at |-> "read", enabled |-> running, designs |-> stored, crossed |-> FALSE])
    /\ UNCHANGED <<running, stored, cache, job, list, disabled>>

CacheSet(p, k) ==
    /\ loads[p][k].at = "read"
    /\ cache' = loads[p][k]
    /\ Load(p, k, [loads[p][k] EXCEPT !.at = "back"])
    /\ UNCHANGED <<running, stored, job, list, disabled>>

(* The entry's DESIGNS_CACHE_SECONDS pass. *)
CacheExpires ==
    /\ cache # NoValue
    /\ cache' = NoValue
    /\ UNCHANGED <<running, stored, loads, job, list, disabled>>

(***************************************************************************)
(* api_enable and api_bitstream                                            *)
(***************************************************************************)
To(p, at) == job' = [job EXCEPT ![p].at = at]

(* The lists that are not the Pi's any more once it has become `enabled` and `designs`. *)
Outdated(r, enabled, designs) == r.enabled # enabled \/ r.designs # designs

(* What was read before and is not stored yet, or was stored, when nobody will delete it. *)
CrossedLoads(enabled, designs) ==
    loads' = [p \in Pages |-> [k \in Kinds |->
                 IF loads[p][k].at = "read" /\ Outdated(loads[p][k], enabled, designs)
                   THEN [loads[p][k] EXCEPT !.crossed = TRUE] ELSE loads[p][k]]]

CrossedCache(enabled, designs) ==
    cache' = IF cache # NoValue /\ Outdated(cache, enabled, designs) THEN [cache EXCEPT !.crossed = TRUE] ELSE cache

(* The daemon does what a job asks of it. *)
Enabled(p) == IF job[p].at = "enable" THEN job[p].design ELSE running
Stored(p) == IF job[p].at = "upload" THEN stored \cup {job[p].design} ELSE stored

DaemonDoes(p) ==
    /\ job[p].at \in {"enable", "upload"}
    /\ Enabled(p) \in stored
    /\ running' = Enabled(p) /\ stored' = Stored(p)
    /\ To(p, IF job[p].at = "enable" THEN "switched" ELSE "kept")
    /\ UNCHANGED <<cache, loads, list, disabled>>

(* It does, but its answer does not come within the timeout: the view answers 502 and leaves the cache alone. *)
DaemonDoesUnheard(p) ==
    /\ job[p].at \in {"enable", "upload"}
    /\ Enabled(p) \in stored
    /\ running' = Enabled(p) /\ stored' = Stored(p)
    /\ To(p, "refused")
    /\ CrossedCache(running', stored') /\ CrossedLoads(running', stored')
    /\ UNCHANGED <<list, disabled>>

(* A view refuses, the daemon refuses or is not reached. *)
Refused(p) ==
    /\ job[p].at \in {"enable", "upload"}
    /\ To(p, "refused")
    /\ UNCHANGED <<running, stored, cache, loads, list, disabled>>

CacheDelete_EnableOnly(p) ==
    /\ job[p].at \in {"switched", "kept"}
    /\ cache' = IF job[p].at = "switched" THEN NoValue ELSE cache
    /\ CrossedLoads(running, stored)
    /\ To(p, IF job[p].at = "switched" THEN "enabled" ELSE "uploaded")
    /\ UNCHANGED <<running, stored, list, disabled>>

CacheDelete(p) ==
    /\ job[p].at \in {"switched", "kept"}
    /\ cache' = NoValue
    /\ CrossedLoads(running, stored)
    /\ To(p, IF job[p].at = "switched" THEN "enabled" ELSE "uploaded")
    /\ UNCHANGED <<running, stored, list, disabled>>

(***************************************************************************)
(* The page                                                                *)
(***************************************************************************)
(* A new list has new buttons: those a job disabled are detached. *)
render(p, body) ==
    /\ list' = [list EXCEPT ![p] = body]
    /\ disabled' = [disabled EXCEPT ![p] = IF body = NoValue THEN {} ELSE {body.enabled} \cap body.designs]

(* The end of an enable, and of the upload it may be part of: the buttons it disabled are enabled again, where they
   are still on the page. *)
Finally(p, attached) == IF attached THEN [disabled EXCEPT ![p] = {}] ELSE disabled

LoadEnds(p, k, body) ==
    /\ Load(p, k, NoLoad)
    /\ render(p, body)
    /\ job' = [job EXCEPT ![p] = IF k = "again" THEN NoJob ELSE [job[p] EXCEPT !.attached = FALSE]]
    /\ UNCHANGED <<running, stored, cache>>

Loaded(p, k) == loads[p][k].at = "back" /\ LoadEnds(p, k, BodyOf(loads[p][k]))

LoadFails(p, k) == loads[p][k].at \in {"out", "asked", "back"} /\ LoadEnds(p, k, NoValue)

Buttons(p) == IF list[p] = NoValue THEN {} ELSE list[p].designs

(* enable(name) and the upload form's submit, which both disable every button first. *)
Begin(p, at, design) ==
    /\ job' = [job EXCEPT ![p] = [at |-> at, design |-> design, attached |-> TRUE]]
    /\ disabled' = [disabled EXCEPT ![p] = Buttons(p)]
    /\ UNCHANGED <<running, stored, cache, loads, list>>

Run(p, d) == p \in Pressing /\ job[p].at = "no" /\ d \in Buttons(p) \ disabled[p] /\ Begin(p, "enable", d)

Upload(p, d) == p \in Pressing /\ job[p].at = "no" /\ Begin(p, "upload", d)

(* An upload that came through is enabled by the page itself. *)
Uploaded(p) ==
    /\ job[p].at = "uploaded"
    /\ Begin(p, "enable", job[p].design)

EnabledSaid(p) ==
    /\ job[p].at = "enabled"
    /\ To(p, "loading")
    /\ Load(p, "again", [NoLoad EXCEPT !.at = "out"])
    /\ UNCHANGED <<running, stored, cache, list, disabled>>

RefusedSaid_NoFinally(p) ==
    /\ job[p].at = "refused" /\ job' = [job EXCEPT ![p] = NoJob]
    /\ UNCHANGED <<running, stored, cache, loads, list, disabled>>

RefusedSaid(p) ==
    /\ job[p].at = "refused"
    /\ job' = [job EXCEPT ![p] = NoJob]
    /\ disabled' = Finally(p, job[p].attached)
    /\ UNCHANGED <<running, stored, cache, loads, list>>

GalleryNext ==
    \/ CacheExpires
    \/ \E p \in Pages :
          \/ \E k \in Kinds :
                \/ CacheHit(p, k) \/ CacheMiss(p, k) \/ DaemonLists(p, k) \/ CacheSet(p, k)
                \/ Loaded(p, k) \/ LoadFails(p, k)
          \/ \E d \in Designs : Run(p, d) \/ Upload(p, d)
          \/ DaemonDoes(p) \/ DaemonDoesUnheard(p) \/ Refused(p) \/ CacheDelete(p)
          \/ Uploaded(p) \/ EnabledSaid(p) \/ RefusedSaid(p)

GallerySpec == GalleryInit /\ [][GalleryNext]_galleryVars

(***************************************************************************)
(* What must hold                                                          *)
(***************************************************************************)
Loads == [at : {"no", "out", "asked", "read", "back"}, enabled : Designs \cup {NoValue}, designs : SUBSET Designs,
          crossed : BOOLEAN]
Lists == [enabled : Designs \cup {NoValue}, designs : SUBSET Designs]
JobStages == {"no", "enable", "upload", "switched", "kept", "refused", "enabled", "uploaded", "loading"}
Jobs == [at : JobStages, design : Designs \cup {NoValue}, attached : BOOLEAN]

GalleryTypeOK ==
    /\ running \in Designs /\ stored \in SUBSET Designs
    /\ cache \in Loads \cup {NoValue}
    /\ loads \in [Pages -> [Kinds -> Loads]]
    /\ job \in [Pages -> Jobs] /\ \A p \in Pages : job[p].at # "no" => job[p].design \in Designs
    /\ list \in [Pages -> Lists \cup {NoValue}]
    /\ disabled \in [Pages -> SUBSET Designs]

(* The shared cache holds the Pi's list as it is, but for three cases, each until the entry expires: a change whose
   delete is still to come, a list that was read before a change and stored after its delete, and a change the views
   never heard of. *)
CacheTrue ==
    cache # NoValue =>
        \/ BodyOf(cache) = Body
        \/ cache.crossed
        \/ \E p \in Pages : job[p].at \in {"switched", "kept"}

(* A page with nothing under way leaves the visitor every design to press, but at most the one it shows running,
   whichever requests failed and whichever list arrived meanwhile. *)
ButtonsFreed ==
    \A p \in Pages : job[p].at = "no" /\ list[p] # NoValue => disabled[p] \subseteq {list[p].enabled}
=============================================================================
