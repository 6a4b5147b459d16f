# fpgas.online-site: TLA+ models, checks and proofs

The site lets visitors use FPGA boards that are plugged into Raspberry Pis on a LAN. Each Pi has its own
port of a PoE switch. The Pis and the gateway tell the site over MQTT what they are and how they are; the
site keeps that in a database (`fleet`), decides from it which boards to offer (`pibfpgas`, `ttsite`), shows
the staff what is wrong (`management`), and lets a visitor upload a bitstream (`pibup`), watch the board
(`no-picture.js`, `whep-live.js`) and power-cycle its Pi.

The code is sequential almost everywhere. What is hard in it is the order things arrive in: messages that
are replayed, late, repeated or lost, a consumer that is down meanwhile, pages put together from several
queries, and browser code that holds a newer fact against an older reading, replaces sockets and connections
whose events are still coming, or waits for answers that cross the visitor's clicks. The modules below are about
that.

## The parts, and how they interact

| component | state | operations | hard behaviour | what makes it correct |
|---|---|---|---|---|
| fleet registry (`fleet/services.py`, `models.py`) | tables Machine, HardwareSnapshot, BootEvent | `register_document`, `status`, `boot_event`; the queries of the pages | retained copies mixed with life; flapping documents; two machines on one hostname | nothing dead is offered; one rule for all pages |
| fleet consumer (`consumer.py`, `fleet_consumer`) | the subscription | `dispatch`, restart by systemd | what was said while it was down | it catches up |
| pages' reads (`offered_boards`, `reporting_machines`) | the answer being put together | 3–4 queries, no transaction | the consumer writes in between | what is offered was good by the page's own look |
| gateway records (`gateway_record`, `seen_ports`) | table GatewayRecord, `_last_prune` | store, match, prune, read | late, repeated, same-second records; deletion of old ones | one device a port, the last ACKed |
| power button (`power-button.js`) | the tracker's entry of a port | `start`, `confirmed`, `held`, `failed`, `view`, `press` | cached readings, late answers, other visitors | drawn from the newer of two facts; never turns for ever |
| link badge push (`switch-events.js`, `switches.html`) | the keeper's record of a port | `apply`, `reapply`, the refresh, the socket | records and readings cross; a lost socket | a refresh never undoes a push |
| status socket (`dcws.js`) | the socket, its queue, the delay, two timers | `connect`, `send`, `onopen`, `onclose`, the buttons | timers, buttons and late closes race | every message once and in order; always coming back, never too fast |
| board page video: the reader (`mediamtx-reader.js`) | its state, connection, session, candidates | `start` and its chain, PATCHes, `handleError`, `restart`, `close` | nothing cancels the requests of an attempt that failed | what is shown is open; connects only while it runs; comes back |
| board page video: live view and box (`whep-live.js`, `no-picture.js`) | the track, the errors, the box, its question and timer | `onTrack`, `onError`, both buttons; `ask`, `answered`, `restore`, the observer | answers that arrive after the picture changed; hidden pages | one picture at a time; a box never stands for ever |
| tinytapeout gallery (`board.js`, `ttsite/views.py`, `daemon.py`) | the cached list; the page's list and buttons | `api_designs`, `api_enable`, `api_bitstream`; load, run, upload | a list read before a change is stored after it; requests that fail half way | the cache is the Pi's list; buttons come back |
| management tables (`table.js`) | the reader's sort, its storage, the refresh | a click, the refresh in place, `resort` | tables swapped under the reader's hands | the reader's order is kept; the latest table is drawn |
| switch port dashboard (`views/switches.py`, `panel.py`) | cached baselines of error counters | `error_baselines`, `net_check`, JSON | several workers, one cache | not modelled |
| fpgas pages, ttsite pages and catalogue (`pibfpgas`, `ttsite`) | – | queries of the tables; a loader | – | not modelled: no state of their own |
| bitstream upload (`pibup`) | a file on the Pi | write over SFTP | a failure between two steps | not modelled |
| hardware identity, network names (`hwid.py`, `network.py`) | – | pure functions over texts | – | not modelled |
| demos, netconsole, labels, settings | – | listing, drawing, configuration | – | not modelled: I/O and wording |

The Pis' agents and the gateway publish to an MQTT broker; the consumer process subscribes and calls the
services; every web worker only reads the tables (there is no transaction around a request). The PoE
service, the switch poller and the dashboard reader are other programs on the gateway: pages call the first,
the second pushes records over `ws/switches/`, the third's readings are what `switches_json` serves.

## The modules

**FleetRegistry** — `machines`, `snapshots` and `events` are the three tables; `heard` is a history of the
live messages. `RegisterDocument`, `Status` and `BootEvent` are the three ingest services, whole
(`Confirmed` is the `get_or_create` with its `last_confirmed`; `StatusRow` is what a payload with absent keys
writes; `LastSeen` the rule that a retained copy is not a sign of life). `fpga_state`, `checked_in`,
`machine_hosts`, `offered_hosts`, `is_offered`, `condition` and `HostState` are the queries, as operators; the
three loops of the code that read the check events stay three definitions (`fpga_state`, `fpga_report`, `HostState`, each
with a query of its own), so that one of them going apart from the others shows.
A machine is a natural (the table's order breaks ties by it); hostnames and boots are model values; the
document's content is a or b. `booted_at` is written but nothing here depends on its value.

**FleetSite** — composes FleetRegistry with the Pis (`PowerOn`, `Announce`, `Beat`, `CheckStarts`,
`CheckEnds`, `PowerLost`), the broker (`stored` retained copies, `wills`, the `queue` to the consumer) and the
consumer process (`Consume` is one `on_message`, through `dispatch`; `ConsumerStops`, `ConsumerStarts` with
the stored copies in any order). Pis and broker are outside the repository: they are modelled as the
consumer and its comments describe them and marked external.

**FleetPage** — a request as the sequence of its queries, each a step, with every action of FleetRegistry in
between. `read` is the half-made answer, `page` the last one.

**PortRecords** — the table of the gateway's records. `gateway_record` is the service whole: the match to a
machine, the row, and the prune when it is due, which can fail and leave the row. `seen_ports` is the
reading. `ledger` and `last_stored` are histories that no prune touches: the properties compare with them.

**PowerButton** — one button of one page, its tracker (`Blank` is "no entry"), the press and its three kinds
of answer, the timers (`Tick` redraws), the refresh, and outside them the service, the switch, the cached
reader and another visitor. Deletion of an entry is part of `Viewed`, because `view` does it.

**LinkKeeper** — one badge, the records on the socket, the keeper (`Applies`, `CaughtUp`), and the page's
refresh; outside it the switch, its poller and the reader. `reapply` also forgets the record of a switch that the JSON
no longer lists, or of a time that does not parse (`switch-events.js:97`): both are left out, the port's switch being listed
throughout and the poller's times being times.

**Outbox** — the abstract specification of what the status socket promises: a message said goes out at once when
nothing waits, or waits; what waits goes out together, in order. Its words are those of the comment over
`logSocket` in `dcws.js`. It is about the visitor's messages: `check_status()` sends a line of its own when a socket opens,
ahead of what waits.

**StatusSocket** — the page's socket by its `readyState`, the sockets it replaced that have not closed yet
(`leaving`), the retry and the stable timer, the queue. `connect`, `send`, `onopen` and `onclose` are the code's
functions as operators; the actions are what calls them: the browser (`Opens`, `Closes`, `ReplacedCloses`, the
timers) and the buttons. `KeepsOutbox` is `Outbox!Spec` under the mapping `waiting <- pending`.

**WhepReader** — the WebRTC reader. An attempt is one run of the promise chain of `start()`; `chain` is how far each
has come, and the fields `pc`, `sessionUrl` and `queued` are shared by all of them, as in the code. Nothing orders the
requests of one attempt and those of the next: the restart's timer fires whatever is still out, and a late answer acts on
what the fields hold by then. What is open is a variable of its own (`opened`), so that what the reader forgets
can be told from what it closed; `ReplacedFails` is the failure of a connection that is no longer `#pc`. An attempt that
starts takes the place of one that is over (`Over`), and what that one left behind for good is followed no further. Of the
sessions the reader only asks whether it has one, and any PATCH may fail whichever session it is for: that is all of them that
is kept. SDP, ICE, authorization and the session's DELETE are left out.

**NoPicture** — the box over one HLS player: `ask`, `answered`, `schedule`, `restore` and `reload` are the methods
of `Board`; `Observed` is its MutationObserver. By itself it takes the live view to come and go at any time
(`LiveViewTurns`, `BoxSpec`).

**BoardVideo** — composes both with `whep-live.js`. The reader's callbacks run inside the reader's own steps, and the
observer before the next task, so that a step is `ReaderStep /\ onError /\ Box!Observed`. `KeepsBox` says that the
whole implements `Box!BoxSpec`.

**Gallery** — the gallery of one board on several pages: the views' cache calls are steps of their own (`CacheMiss`,
`DaemonLists`, `CacheSet`; `DaemonDoes`, `CacheDelete`), the page's `loadDesigns`, `enable` and upload are followed
to their `finally`. The daemon is outside the repository. `crossed` is a history that marks the lists that were
outdated on their way. A page's visitor carries out one enable or upload at a time, though
`board.js:198` leaves the form usable meanwhile; evictions of designs and lists
refused with a 4xx, which `views.py:144` caches as well, are left out.

**SortedTable** — one table: `order`, `sortBody`, `enhance` and `resort` are operators on the rows, a cell being the
number it sorts by. The sort is stated by what it does, a row's place being the number of rows that come sooner. `site` is what the site serves now, `source` what was served when the body was drawn.

**PageScripts** — the status socket, the gallery, the table and the video as one specification: a behaviour is that of one
page (`open`), which they do not share with each other. The video is open in two ways: with its box (`video`), or with a box
nothing happens to but what it observes (`live`); the box changes nothing that the reader and the live view read. It holds
the fairness of all, and is there so that one run checks them;
each of its steps is a step of one of them that leaves the others alone, so that what is proved of each holds of it.

Each `MC*` module gives the constants their values for TLC.

## The runs

| run | instance | shows |
|---|---|---|
| registry | 2 machines, a port and the setup port, 3 documents, 2 statuses, 3 check events of 2 boots, time 0..2 | all six properties of the registry |
| site | 1 Pi, 2 ports, 2 boots, 1 check, 1 consumer restart, 2 messages on their way, time 0..1 | the consumer catches up; only a boot that passed is offered; a Pi that stays on ends up registered (liveness); every step is one FleetRegistry allows (`ImplementsRegistry`, the refinement) |
| page_reads | 2 machines, 1 event, time 0..1 | a page made of several moments offers only what was heard at its own look |
| page_offers_setup_port | the same | a page can offer a machine under the setup port's name |
| port_records | 2 ports, 2 devices, 3 records, delay 1, time 0..3, prune after 1 | one device a port, read where it was last ACKed, the prune keeps what it must |
| port_hand_back | the same, 4 records in order | a prune can hand a port back without an ACK |
| power_button | 2 presses, 1 answer in flight, time 0..4, SETTLE and ANSWER 1, holds of 2 and 1 | the button follows the newer fact, stops turning, keeps its own holds |
| power_button_forgets | the same, time 0..5 | a second press that fails loses the first one's confirmation |
| link_keeper | 2 changes, 1 record and 1 answer in flight, time 0..2 | a refresh undoes no push, a newer reading is believed, the badge ends up right (liveness) |
| link_keeper_overlap | 2 answers in flight | with two overlapping fetches a refresh does undo a push |
| live_view_freezes | 2 attempts, 3 errors in a row | a late attempt replaces the connection that is shown, which is closed by nothing and fails with nobody told |
| page_scripts | delays 1, 2, 4, stable after 3, 3 messages, 2 replaced sockets; 2 designs, 2 pages, one of which presses; 4 tables of 3 or no rows; the video with 2 attempts and 3 errors in a row, where the box is open too with 1 attempt and 1 error | the socket implements the outbox (`KeepsOutbox`), keeps its delay and comes back; the cache is the Pi's list; buttons come back; a table keeps the reader's order and is in the end the latest; the live view is shown over an open connection of a running reader, a reader that does not run connects nothing, one picture at a time, a box is asked about, every step is one the box allows (`KeepsBox`), and the live view and the player come back (liveness) |

### The bounds, and why they are enough

* *Time.* Each window in the code is compared with one difference of moments. CHECKED_IN_WITHIN = 0 and
  MISSING_AFTER = 1 with times 0..2 hold a machine that is in, out and missing; a larger window only adds
  states between. SETTLE, ANSWER and the holds are 1 or 2 with times to 4: a press, its answer, its settling
  and a second press all fit, on both sides of each limit.
* *Two machines, two ports, two devices* are the fewest that can displace each other. The rules are over
  pairs (the later of two, another device on the same port).
* *Events and records.* An offer needs one event, a change of mind two; a displacement followed by a prune
  needs three records, handing back a port four.
* *Attempts.* A late request acts on the attempt after it, so two that have something under way at a time suffice;
  attempts that are over are used again, and behaviours go on for ever. With three errors in a row an attempt can outlive
  two failures and be answered after them, before the reader is closed. Where the box is open too one attempt and one error
  (`BoxAttempts`, `MaxBoxErrors`) are enough: the box sees only whether the live view is shown, which comes, goes and comes
  back; with two of each the run takes more time than there is, and what the box keeps is proved for any number.
* *The socket.* Three delays are the first, a doubled one and the longest; a connection can last longer than the
  longest delay or end within it. Two replaced sockets can close in either order around the current one's open.
* *Pages and tables.* One page's late list against another's change needs two pages. The four tables have equal
  keys, a column in which the served order differs, a column that goes away, and no rows.
* *Restarts.* One stop and start with everything in progress; a second one starts from a state the first
  can reach as well.
* Bounds that cut behaviours off (`MaxTime`, `MaxEvents`, `MaxRecords`, ...) stand in the guards, named.

Deadlock is not checked in the runs registry, site, port_records and port_hand_back, where time, messages and records run
out by the bounds; in the others a step is always possible.

### Fairness

*FleetSite*: a Pi that is on announces itself and beats (its agent is a loop), the broker notices a broken
connection (its keep-alive), the consumer applies what is queued (`loop_forever`), and systemd starts it again
(`Restart=always`, said in `fleet_consumer.py`). All weak. Nothing must fail, move or be checked.

*LinkKeeper*: time passes, the interval goes on fetching and the fetches are answered, the reader goes on
reading, a record on its way arrives or is lost with its socket. All weak. The socket need not ever open,
the poller need not poll, and the switch need not answer: `EndsUpDrawn` assumes instead, in its premise,
that the switch answers from some moment on and that the port stops changing.

*StatusSocket*: a connection opens or fails, a socket closes, timers run and fire (weak). The server may refuse for
ever and the visitor press whenever; `EverythingGoesOut` takes as its premise that the server accepts from some
moment on. That a connection has time to open although the visitor presses reconnect again and again is what weak
fairness of `Opens` asks.

*PageScripts* (`ReaderFair`, `BoxFair`) for the video: each kind of step of the reader's chain and its restart (weak: promises
settle, the timer fires), at no particular time and in no particular order; that any of them succeeds is not assumed, and
`LiveViewComesBack` has "nothing fails from some moment on" as its premise. The box's timer and timeout fire, video.js sets
the player up (weak), and of endlessly many questions some are answered before FETCH_MS (strong, on `ServerSays` and
`AnswerArrives`): with every answer later than the timeout the box rightly stays.

*SortedTable*: the interval fires, a site that is up answers, an answer that is made is drawn, the timeout aborts a
fetch (weak). The gallery's properties need none.

## What is proved

TLAPS proves these for every value of the constants that satisfies the modules' assumptions
(`RegistryAssumption`, `SiteAssumption`, `RecordsAssumption`, `ButtonAssumption`, `KeeperAssumption`,
`SocketAssumption`, `ReaderAssumption`, `VideoAssumption`, `TablesAssumption`): any number of machines, ports, documents,
presses, records, messages, attempts, pages, designs, tables, rows and columns, any windows and delays, any length of a
behaviour. TLC evaluates each assumption in the run of its module.

*The registry* (`FleetRegistryProofs`)

* `TypeCorrect`: `TypeOK` is inductive by itself; one lemma per service.
* `NoReplayRevives` (`OfferedWasHeard`). The property is not inductive: it speaks of the machines offered now. The
  inductive invariant (`HeardInv`) relates a row's `last_seen` to `heard`. That `last_seen` is never later than
  the machine was heard is false: a machine new to the site can be stamped by a stored copy. But it holds of a
  machine with an event, since events come only live and only of registered machines, and an offered machine has
  one; `HeardGivesOffered` then reads the property off `checked_in`.
* `LatestFollowsConfirmation` (`LatestIsLastConfirmed`): inductive with `TypeOK`, because a confirmation is
  always stamped now and nothing is stamped later than now.
* `OnlyTheHeardReturn` (`MissingUntilHeard`), an action property: of the steps that change a row only one that
  stamps `last_seen`, and so `heard`, brings a machine back below MISSING_AFTER (`MissingStep`). The machine is known,
  so no stored copy stamps it.
* `PortGoesToTheHeard` (`PortPassesToTheHeard`): `machine_hosts` chooses the machine that speaks before the
  others on its hostname. That there is one is an invariant (`FirstInv`: the serials need not be finite, but a
  step changes one row), from which `HolderInv` gives what the choice is in both states of a step; with `HeardInv`
  nothing was seen in the future, so one stamped now comes first.
* `EveryPageAgrees` (`PagesAgree`): holds of every state; `OneRule` is that the three loops give one state, and that
  applying the setup port's rule twice is applying it once.

*The site* (`FleetSiteProofs`)

* `SiteImplementsRegistry` (`ImplementsRegistry`): the site implements FleetRegistry, with the identity for a
  refinement mapping. A step of the consumer is a step of the registry only if the message is one the registry
  knows, so the invariant (`SiteType`) follows every payload from the Pi that made it through the stored copies
  and the queue; `CopiesType` shows the stored copies to be finitely many, so that a start brings a sequence.
  With it every theorem above holds of the site as well.
* `NothingUncheckedIsOffered` (`OfferedPassedItsBoot`): the inductive invariant (`PassInv`) says of every pass
  that is stored or still on its way that a check passed in the boot it names. Stored copies carry no event;
  `NewestIsOne` (a nonempty set of positions has a last one, from the naturals being well-founded) lets
  `PassGivesOffered` read the property off `fpga_state`.
* `RegistryCatchesUp` (`CaughtUpWhenQuiet`). The property speaks of an empty queue; the invariant (`CaughtInv`) says
  what holds before: while the consumer is up, of each Pi and topic the last message on its way carries what the
  broker stores, and if none is on its way the registry holds it already (`DocHeld`, `StatusHeld`). A start is the
  step that establishes it: the queue is then the stored copies, each in it (`StartsBringAll`, which needs that the
  copies are finitely many) and no two of one topic, so that the order in which they come does not matter.

*The pages' reads* (`FleetPageProofs`)

* `PagesKeepRegistry`: a request's queries leave the tables alone, so every theorem about the registry holds of a
  site that serves pages. The two below use its invariants.
* `PageOffersTheHeard` (`PageOfferedWasHeard`): the invariant (`PageInv`) follows the half-made answer from query
  to query: a machine whose report was read as good has an event, events stay, and a machine with an event that
  was seen at the second query was heard itself by then (`HeardInv`); what was heard stays heard.
* `RowsOffSetupPort` (`RowOffSetupPort`): from the rule applied to the last query's rows; `OneRule` is not enough, since
  the hostnames are read later than the checks.

*The gateway's records* (`PortRecordsProofs`)

* `TypeCorrect`: includes that an id is never given twice, which needs that every row's id is at most the last
  one given.
* `AlwaysOneDeviceAPort` (`OneDeviceAPort`): a consequence of the type invariant alone. `LaterTotal` says two
  rows are always ordered, ids being unique; of two machines' records on one port the later takes the other's
  away.
* `LastRecordSurvives` (`LastStoredKept`): needs that `last_stored` is the largest id of its kind and port, so
  that the prune's "newest by id" keeps exactly that row.
* `OnlyAcksMove` (`OnlyAnAckMoves`): from `Places` (a record that places a machine is the only one that does),
  before and after the step.
* `ReadWhereLastAcked` (`ReadWhereAcked`): `LedgerInv` ties the table to the history of all ACKs: the table
  holds stored ones only, and all of the recent ones, whatever the prune deleted.

*The browser's code* (`PowerButtonProofs`, `LinkKeeperProofs`)

* `PowerButtonProofs!TypeCorrect`: proved together with `Drawn` (the button is drawn from the entry as it is
  now), without which the busy entry and the press that is out could part.
* `EveryTwirlEnds` (`TwirlEnds`): `TwirlInv` bounds the two waits: a press that is out is not late, an entry that
  settles was answered in time.
* `OwnHoldsAreKept` (`OwnHoldKept`): `HoldInv` says where each hold at the switch is known: in a request that
  is still out, in its answer, or in the entry's countdown.
* `DrawnFromNewer` (`DrawnFromTheNewer`): `NewerInv` ties the entry to the history of confirmations: while the last
  one stands alone no press is out, and the entry holds it, no earlier than the reading on the page, until the
  first reading that follows it, and holds none after that. Redrawing adds that the button shows what the entry is
  now, not what it was.
* `LinkKeeperProofs!TypeCorrect`, and `NewerReadingIsBelieved` (`ReadingBelieved`) through `KeptInv`.
* `RefreshUndoesNothing` (`NotUndone`) holds under the assumption MaxFlight <= 1, that one fetch follows the
  other (`OneByOne`): the run link_keeper_overlap shows that it does not hold without it.

*The status socket* (`PageScriptsProofs`)

* `AlwaysComingBack` (`ComingBack`) and `BackoffIsHeld` (`BackoffHeld`): the inductive invariant adds that the stable
  timer is set only while the current socket is open or closing, and what it has left and how long the socket has
  been up add up to StableAfter.
* `SocketKeepsOutbox` (`KeepsOutbox`): the refinement. That a message goes out at once only when nothing waits
  needs that an open socket has an empty queue, which `onopen` makes true and `send` keeps.
* `EveryMessageOnceInOrder`: the outbox's own invariant, carried to the socket: what went out, followed by what
  waits, is every message said, in order.

*The gallery* (`PageScriptsProofs`)

* `CacheIsTrue` (`CacheTrue`): the invariant follows a list from the daemon's answer to the cache: what was read and
  is not stored yet is the Pi's list, or a change is waiting for its delete, or the list is marked.
* `ButtonsAreFreed` (`ButtonsFreed`): the invariant says of a page with nothing under way, and of a job whose buttons
  are detached, that only the running design's button is disabled.

*The sorted table* (`PageScriptsProofs`)

* `TableStaysSorted` (`SortKept`). `sortBody` counts for each row the rows that come sooner. That this is a sort is
  `PlacesArrange`: under a strict order of all rows the counts grow with the order (`PlacesGrow`, from the cardinality
  of subsets) and so are all different, and an injection of a finite set into itself reaches every place
  (`PlacesSort`). `BeforeOrders` shows that the rows' order is such a one, equal keys being told apart by the
  served place; `SortBodySorts` puts both together. The inductive invariant (`TableInv`) is SortKept with the types: the
  headers are determined by the reader's sort, so that `resort`, which reads the order off them, finds it (the rows
  of the switch page), and a sort kept for a column that is gone leaves the served order.
* `PagesKeepScripts`, `PagesKeepAll`: a step of the pages is one of the script that is open and stutters for the
  others, so that all of these, and those of the video below, hold of `PagesSpec`, which the run checks.

*The video* (`BoardVideoProofs`)

* `KeepsItsBox` (`KeepsBox`), the refinement: every task that can change the live view (a track, a failure, a
  press) ends with the observer. `OnePictureShown` (`OnePicture`) and `BoxIsAskedAbout` (`BoxIsAsked`) are inductive for the box alone
  (`BoxStep`), and so hold of the whole.
* `VideoTypeCorrect`: needs that a reader that may still fail has failed fewer than MaxErrors times, and that a
  connection the reader holds is open.
* `NoLateConnection` (`OnlyRunningConnects`): only an attempt that finds the reader running makes a connection
  (`setupPeerConnection` asks first), and whatever ends the running closes the one there is, in the same step. It is
  inductive with the types, whichever attempts are still out.
* `LiveViewIsOpen` (`LiveIsOpen`): the invariant (`TrackKept`) is about the track rather than what is shown, since the visitor
  may turn to it at any time: a page that was not asked to go has a track only while the reader runs and has not
  closed the track's connection. Every failure forgets the track with the connection; a connection that a late attempt
  takes the place of stays open, so that the statement holds of it too (that it may be dead is the run live_view_freezes).

Only model-checked: the liveness properties (`EndsUpRegistered`, `EndsUpDrawn`, `EverythingGoesOut`, `LiveViewComesBack`,
`PictureComesBack`, `DrawsTheLatest`), which hold under fairness, and neither fairness nor ENABLED is within the prover's
reach. The five properties that the code does not keep (below) are no theorems, of course.

## Where the code and its comments part

* A page of `/fpgas/` names a machine by a later query than the one that applied the setup port's rule
  (`page_offers_setup_port`); `services.py:106` says it is never offered there. `reporting_machines` applies
  the rule again, and `RowOffSetupPort` holds.
* The prune deletes the ACK that displaced a machine when a later end of a lease is its port's newest record
  (`port_hand_back`); `fpga.py:470` says a machine moved out stays out until it is ACKed again.
* `failed` and `held` forget an earlier confirmation that no reading has followed yet
  (`power_button_forgets`); `power-button.js:22` says it is kept until one does.
* Overlapping fetches carry no order (`link_keeper_overlap`); `switch-events.js:70` says a refresh cannot
  undo a record.
* Two attempts of the reader whose answers come late both make a connection. The one that `#pc` no longer names is never closed, and
  the handler of each connection asks the state of `#pc`: a live view that plays the replaced connection stays when it
  fails (`live_view_freezes`), where `whep-live.js:99` says that the page falls back.

Met and not made a run: a replayed status moves a machine's boot without its start (`services.py:79`); a
late will counts as its machine being seen (`services.py:77`); a machine that takes another's hostname
between two queries of `reporting_machines` is listed next to it (`services.py:378`); `dcws.js:144`
compares `data.status` with "cam", which no message carries. The first three heal with the next beat or page.
In the scripts of the board page: `mediamtx-reader.js:56` says that `close()` closes "all its resources", which a connection
replaced by a late attempt (`live_view_freezes`) is not, nor a session, for which `close()` sends no DELETE (the server ends both
in time); `whep-live.js:118` closes the reader at `beforeunload`, where the visitor may still stay on the page (a download, a
navigation that is stopped) with a reader that never retries, though `whep-live.js:17` says it keeps retrying
(`LiveIsOpen` and `LiveComesBack` except it by name); a player that gave up while the box was not shown is asked
about only when the live view turns or the page is loaded again (`no-picture.js:5` promises the player "back as
soon as there is a picture": `PictureComesBack` says it of a box that stands). In the gallery, a Run that is
refused enables the button of the running design as well (`board.js:194`).

## What is abstracted, and what is missing

* A message is applied in one step. `register_document` writes its rows without a transaction; a crash
  between two of them is not modelled.
* Parsing is a guard: a payload that does not parse is no step. The boards inside a check report and
  `found_boards` are left out.
* MACs stand for devices; a record without a MAC is matched to any registered machine, which covers the
  match by hostname.
* One port, one page and one button in PowerButton and LinkKeeper: the code keeps an entry per port and the
  entries do not meet.
* The power button's page is not loaded again: a visitor who does so forgets the holds of his own presses.
* PowerButton uses one clock for the page's and the gateway's: the code never compares the one with the
  other.
* Timers and time: the socket counts in ticks, the others fire "at some moment"; a timer may be late.
* In BoardVideo one step is one task of the browser. The track event is taken to come with the answer's being set
  (`setRemoteDescription`), as browsers do.

## Not modelled

* *The vendored bundle* `videojs-contrib-media-sources.js`: 9,266 of the repository's 11,671 lines of JavaScript. It
  is third-party code, and no template loads it. Counted over all JavaScript the map therefore stays near a tenth; of
  the 2,405 lines that are the site's own or run on its pages it covers over two fifths, the rest being
  SDP editing, drawing, texts and the Commander's mounting. The Python the map covers is counted in neither.
* *Pages with no state of their own* (`pibfpgas`, the board pages of `ttsite`, the layout of `management`): a request reads the
  registry, whose queries are FleetRegistry's, and draws it.
* *Pure functions over texts* (`hwid.py`, `network.py`, `labelart.py`, `timeago.py`): which serial, VLAN or wording a text
  gives is character by character, with no order of events in it; the unit tests reach it.
* *`error_baselines`* and *the upload*: the two hazards are listed. The cache's get and set are two steps by Django's
  contract and the code asks for no more; the upload is one request that writes one file.
* *A crash inside `register_document`, two Pis with late wills*: listed as hazards. The first is healed by the Pi's
  next announcement and no comment says what holds before; the second takes the site run beyond what TLC
  finishes.
* *I/O, configuration and generated code*: demos, netconsole, settings, routing, migrations.
