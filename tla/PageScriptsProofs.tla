-------------------------- MODULE PageScriptsProofs --------------------------
(***************************************************************************)
(* Proofs about the three scripts of PageScripts: the status socket, the   *)
(* design gallery and a sorted table. The socket: for every delay, every   *)
(* number of messages and every length of a behaviour, it always comes     *)
(* back, its backoff holds and it keeps what Outbox promises. The gallery: *)
(* for any designs, any number of pages and any that press, the cached     *)
(* list is explained and no button stays disabled. The table: for any      *)
(* tables of numbers that the site may serve, it stays sorted as the       *)
(* reader chose. The three together keep what each keeps alone.            *)
(***************************************************************************)
EXTENDS PageScripts, BoardVideoProofs, SequenceTheorems, FiniteSetTheorems, TLAPS

(***************************************************************************)
(* The status socket                                                       *)
(***************************************************************************)
LEMMA DelayDoubles ==
  ASSUME SocketTypeOK
  PROVE  Doubled \in FirstDelay .. LongestDelay /\ Doubled >= retryDelay
  BY SocketAssumption DEF SocketTypeOK, Doubled

(* A timer runs down, and is not set or unset by time. *)
LEMMA TimerRunsDown ==
  ASSUME NEW longest \in Nat, NEW t \in Timers(longest)
  PROVE  Left(t) \in Timers(longest) /\ (Left(t) = None <=> t = None)
  BY DEF Timers, Left, None

LEMMA SocketInitType == Init => SocketTypeOK /\ ComingBack
  BY SocketAssumption, EmptySeq DEF Init, SocketTypeOK, ComingBack, States, Timers, None

(* What the functions of the page do to the timers. *)
LEMMA ConnectTimers ==
  ASSUME SocketTypeOK, connect
  PROVE  /\ logSocket' = "connecting" /\ leaving' \in Nat /\ upFor' = 0
         /\ retryTimer' = None /\ stableTimer' = None /\ retryDelay' = retryDelay
  BY DEF SocketTypeOK, connect

LEMMA CloseTimers ==
  ASSUME SocketTypeOK, NEW who, onclose(who)
  PROVE  /\ retryDelay' \in FirstDelay .. LongestDelay /\ retryDelay' >= retryDelay
         /\ retryTimer' \in Timers(LongestDelay) /\ stableTimer' \in Timers(StableAfter)
         /\ who = "current" => retryTimer' # None /\ stableTimer' = None
         /\ who # "current" => UNCHANGED <<stableTimer, retryTimer, retryDelay>>
<1>1. CASE who = "current"
  BY <1>1, DelayDoubles, SocketAssumption DEF SocketTypeOK, onclose, Timers, None
<1>2. CASE who # "current"
  BY <1>2, SocketAssumption DEF SocketTypeOK, onclose
<1> QED
  BY <1>1, <1>2

LEMMA SendTypes ==
  ASSUME SocketTypeOK, NEW socket, send(socket)
  PROVE  said' \in Nat /\ pending' \in Seq(Nat) /\ out' \in Seq(Nat)
<1>1. said + 1 \in Nat
  BY DEF SocketTypeOK
<1>2. Append(pending, said + 1) \in Seq(Nat) /\ Append(out, said + 1) \in Seq(Nat)
  BY <1>1, AppendProperties DEF SocketTypeOK
<1> QED
  BY <1>1, <1>2 DEF SocketTypeOK, send

(***************************************************************************)
(* One step: the types, and that a socket that is closed has its retry on  *)
(* the way.                                                                *)
(***************************************************************************)
LEMMA SocketStepKeeps ==
  ASSUME SocketTypeOK, ComingBack, [Next]_vars
  PROVE  SocketTypeOK' /\ ComingBack'
<1> USE DEF States
<1>1. CASE Opens
  <2>1. out \o pending \in Seq(Nat) /\ <<>> \in Seq(Nat)
    BY ConcatProperties, EmptySeq DEF SocketTypeOK
  <2>2. StableAfter \in Timers(StableAfter)
    BY SocketAssumption DEF Timers
  <2> QED
    BY <1>1, <2>1, <2>2 DEF Opens, onopen, SocketTypeOK, ComingBack
<1>2. CASE Drops
  BY <1>2 DEF Drops, SocketTypeOK, ComingBack
<1>3. CASE Closes
  <2>1. onclose("current") /\ logSocket' = "closed" /\ upFor' = 0
        /\ UNCHANGED <<server, leaving, pending, said, out>>
    BY <1>3 DEF Closes
  <2> QED
    BY <2>1, CloseTimers, SocketAssumption DEF SocketTypeOK, ComingBack
<1>4. CASE ReplacedCloses
  <2>1. onclose("replaced") /\ leaving' \in Nat /\ UNCHANGED <<server, logSocket, pending, said, out, upFor>>
    BY <1>4 DEF ReplacedCloses, SocketTypeOK
  <2> QED
    BY <2>1, CloseTimers DEF SocketTypeOK, ComingBack
<1>5. CASE RetryFires \/ Reconnect
  <2>1. connect /\ UNCHANGED <<server, pending, said, out>>
    BY <1>5 DEF RetryFires, Reconnect
  <2> QED
    BY <2>1, ConnectTimers, SocketAssumption DEF SocketTypeOK, ComingBack, Timers
<1>6. CASE StableFires
  BY <1>6, SocketAssumption DEF StableFires, SocketTypeOK, ComingBack, Timers
<1>7. CASE Reset
  <2>1. connect /\ send(logSocket') /\ UNCHANGED server
    BY <1>7 DEF Reset
  <2> QED
    BY <2>1, ConnectTimers, SendTypes, SocketAssumption DEF SocketTypeOK, ComingBack, Timers
<1>8. CASE LogSubmit
  <2>1. send(logSocket) /\ UNCHANGED <<server, logSocket, leaving, retryTimer, retryDelay, stableTimer, upFor>>
    BY <1>8 DEF LogSubmit
  <2> QED
    BY <2>1, SendTypes DEF SocketTypeOK, ComingBack
<1>9. CASE ServerTurns
  BY <1>9 DEF ServerTurns, SocketTypeOK, ComingBack
<1>10. CASE Tick
  <2>1. /\ Left(retryTimer) \in Timers(LongestDelay) /\ (Left(retryTimer) = None <=> retryTimer = None)
        /\ Left(stableTimer) \in Timers(StableAfter)
    BY TimerRunsDown, SocketAssumption DEF SocketTypeOK
  <2>2. upFor' \in 0 .. StableAfter
    BY <1>10, SocketAssumption DEF Tick, SocketTypeOK
  <2> QED
    BY <1>10, <2>1, <2>2 DEF Tick, SocketTypeOK, ComingBack
<1>11. CASE UNCHANGED vars
  BY <1>11 DEF vars, SocketTypeOK, ComingBack
<1> QED
  BY <1>1, <1>2, <1>3, <1>4, <1>5, <1>6, <1>7, <1>8, <1>9, <1>10, <1>11 DEF Next

(* The socket's state, timers and queue keep their types, whatever closes, opens and is pressed. *)
THEOREM SocketTypeCorrect == Spec => []SocketTypeOK
<1>1. Init => SocketTypeOK /\ ComingBack
  BY SocketInitType
<1>2. SocketTypeOK /\ ComingBack /\ [Next]_vars => (SocketTypeOK /\ ComingBack)'
  BY SocketStepKeeps
<1> QED
  BY <1>1, <1>2, PTL DEF Spec

(* dcws.js's onclose and connect: a socket that closed by itself always has a reconnect on its way, and only it. *)
THEOREM AlwaysComingBack == Spec => []ComingBack
<1>1. Init => SocketTypeOK /\ ComingBack
  BY SocketInitType
<1>2. SocketTypeOK /\ ComingBack /\ [Next]_vars => (SocketTypeOK /\ ComingBack)'
  BY SocketStepKeeps
<1> QED
  BY <1>1, <1>2, PTL DEF Spec

(***************************************************************************)
(* The backoff: the timer that resets the delay has StableAfter to run     *)
(* together with what the connection already lasted, and is set for no     *)
(* other.                                                                  *)
(***************************************************************************)
StableInv ==
    /\ stableTimer # None => logSocket \in {"open", "closing"} /\ upFor + stableTimer = StableAfter
    /\ logSocket \in {"connecting", "closed"} => upFor = 0

LEMMA StableInit == Init => StableInv
  BY DEF Init, StableInv, None

LEMMA StableStep ==
  ASSUME SocketTypeOK, StableInv, [Next]_vars
  PROVE  StableInv' /\ (retryDelay' < retryDelay => upFor = StableAfter)
<1> USE SocketAssumption
<1>0. retryDelay \in Int /\ upFor \in Int /\ stableTimer \in Int
  BY DEF SocketTypeOK, Timers, None
<1>1. CASE Opens
  BY <1>1, <1>0 DEF Opens, onopen, StableInv, None
<1>2. CASE Drops
  BY <1>2, <1>0 DEF Drops, StableInv
<1>3. CASE Closes
  <2>1. onclose("current") /\ logSocket' = "closed" /\ upFor' = 0
    BY <1>3 DEF Closes
  <2> QED
    BY <2>1, <1>0, CloseTimers DEF StableInv
<1>4. CASE ReplacedCloses
  <2>1. onclose("replaced") /\ UNCHANGED <<logSocket, upFor>>
    BY <1>4 DEF ReplacedCloses
  <2> QED
    BY <2>1, <1>0, CloseTimers DEF StableInv
<1>5. CASE RetryFires \/ Reconnect \/ Reset
  <2>1. connect
    BY <1>5 DEF RetryFires, Reconnect, Reset
  <2> QED
    BY <2>1, <1>0, ConnectTimers DEF StableInv
<1>6. CASE StableFires
  BY <1>6, <1>0 DEF StableFires, StableInv, None
<1>7. CASE LogSubmit \/ ServerTurns
  BY <1>7, <1>0 DEF LogSubmit, ServerTurns, StableInv
<1>8. CASE Tick
  <2>1. CASE stableTimer > 0
    BY <1>8, <2>1, <1>0 DEF Tick, Left, StableInv, None
  <2>2. CASE ~(stableTimer > 0)
    BY <1>8, <2>2, <1>0 DEF Tick, Left, StableInv, SocketTypeOK, Timers, None
  <2> QED
    BY <2>1, <2>2
<1>9. CASE UNCHANGED vars
  BY <1>9, <1>0 DEF vars, StableInv
<1> QED
  BY <1>1, <1>2, <1>3, <1>4, <1>5, <1>6, <1>7, <1>8, <1>9 DEF Next

(* dcws.js's retryDelay: it goes back to the first delay only after a connection that lasted, so a server that accepts
   and drops every socket is met ever less often. *)
THEOREM BackoffIsHeld == Spec => BackoffHeld
<1>1. Init => SocketTypeOK /\ ComingBack /\ StableInv
  BY SocketInitType, StableInit
<1>2. SocketTypeOK /\ ComingBack /\ StableInv /\ [Next]_vars
        => /\ (SocketTypeOK /\ ComingBack /\ StableInv)'
           /\ [retryDelay' < retryDelay => upFor = StableAfter]_vars
  BY SocketStepKeeps, StableStep
<1> QED
  BY <1>1, <1>2, PTL DEF Spec, BackoffHeld

(***************************************************************************)
(* The queue: nothing waits while the socket is open, so what is said then *)
(* overtakes nothing.                                                      *)
(***************************************************************************)
NothingWaits == logSocket = "open" => pending = <<>>

LEMMA WaitStep ==
  ASSUME NothingWaits, [Next]_vars
  PROVE  NothingWaits'
<1>1. CASE Opens
  BY <1>1 DEF Opens, onopen, NothingWaits
<1>2. CASE Drops \/ Closes
  BY <1>2 DEF Drops, Closes, NothingWaits
<1>3. CASE RetryFires \/ Reconnect \/ Reset
  BY <1>3 DEF RetryFires, Reconnect, Reset, connect, NothingWaits
<1>4. CASE LogSubmit
  BY <1>4 DEF LogSubmit, send, NothingWaits
<1>5. CASE ReplacedCloses \/ StableFires \/ ServerTurns \/ Tick \/ UNCHANGED vars
  BY <1>5 DEF ReplacedCloses, StableFires, ServerTurns, Tick, vars, NothingWaits
<1> QED
  BY <1>1, <1>2, <1>3, <1>4, <1>5 DEF Next

(* A step of the socket is one of the outbox, or none. *)
LEMMA OutboxStep ==
  ASSUME SocketTypeOK, NothingWaits, [Next]_vars
  PROVE  [Promise!Next]_(Promise!outbox)
<1> USE DEF Promise!outbox, Promise!Next
<1>1. CASE Opens
  <2>1. CASE pending = <<>>
    <3>1. out \o pending = out
      BY <2>1, ConcatEmptySeq DEF SocketTypeOK
    <3> QED
      BY <1>1, <2>1, <3>1 DEF Opens, onopen
  <2>2. CASE pending # <<>>
    BY <1>1, <2>2 DEF Opens, onopen, Promise!GoOut
  <2> QED
    BY <2>1, <2>2
<1>2. CASE Reset
  BY <1>2 DEF Reset, connect, send, Promise!SayLater
<1>3. CASE LogSubmit
  BY <1>3 DEF LogSubmit, send, NothingWaits, Promise!SayNow, Promise!SayLater
<1>4. CASE ~(Opens \/ Reset \/ LogSubmit)
  BY <1>4 DEF Next, Drops, Closes, ReplacedCloses, RetryFires, Reconnect, StableFires, ServerTurns, Tick, vars
<1> QED
  BY <1>1, <1>2, <1>3, <1>4

(* dcws.js's send and onopen keep what their comment promises (Outbox): what is said while the socket is down is queued
   and goes out when it is back, and nothing overtakes it. *)
THEOREM SocketKeepsOutbox == Spec => KeepsOutbox
<1>1. Init => Promise!Init /\ SocketTypeOK /\ ComingBack /\ NothingWaits
  BY SocketInitType DEF Init, Promise!Init, NothingWaits
<1>2. SocketTypeOK /\ ComingBack /\ NothingWaits /\ [Next]_vars
        => (SocketTypeOK /\ ComingBack /\ NothingWaits)' /\ [Promise!Next]_(Promise!outbox)
  BY SocketStepKeeps, WaitStep, OutboxStep
<1> QED
  BY <1>1, <1>2, PTL DEF Spec, KeepsOutbox, Promise!Spec

(* A step of an outbox keeps every message in its place. *)
LEMMA OutboxKeepsOrder ==
  ASSUME said \in Nat, pending \in Seq(Nat), out \in Seq(Nat), Promise!EachOnceInOrder,
         [Promise!Next]_(Promise!outbox)
  PROVE  Promise!EachOnceInOrder'
<1> DEFINE all == out \o pending
<1>1. /\ Append(out, said + 1) \o <<>> = Append(out, said + 1)
      /\ out \o <<>> = out /\ all \o <<>> = all
      /\ out \o Append(pending, said + 1) = Append(all, said + 1)
  BY DEF all
<1>2. Append([n \in 1 .. said |-> n], said + 1) = [n \in 1 .. said + 1 |-> n]
  OBVIOUS
<1>3. CASE Promise!SayNow
  BY <1>1, <1>2, <1>3 DEF Promise!SayNow, Promise!EachOnceInOrder
<1>4. CASE Promise!SayLater
  BY <1>1, <1>2, <1>4 DEF Promise!SayLater, Promise!EachOnceInOrder
<1>5. CASE Promise!GoOut
  BY <1>1, <1>5 DEF Promise!GoOut, Promise!EachOnceInOrder
<1>6. CASE UNCHANGED Promise!outbox
  BY <1>6 DEF Promise!outbox, Promise!EachOnceInOrder
<1> QED
  BY <1>3, <1>4, <1>5, <1>6 DEF Promise!Next

(* What an outbox promises, of the socket: every message the visitor says goes to an open socket once or waits, in the
   order in which they were said, through every drop, replacement and reconnect. *)
THEOREM EveryMessageOnceInOrder == Spec => []Promise!EachOnceInOrder
<1>1. Init => SocketTypeOK /\ ComingBack /\ NothingWaits /\ Promise!EachOnceInOrder
  BY SocketInitType DEF Init, NothingWaits, Promise!EachOnceInOrder
<1>2. SocketTypeOK /\ ComingBack /\ NothingWaits /\ Promise!EachOnceInOrder /\ [Next]_vars
        => (SocketTypeOK /\ ComingBack /\ NothingWaits /\ Promise!EachOnceInOrder)'
  <2>1. SocketTypeOK => said \in Nat /\ pending \in Seq(Nat) /\ out \in Seq(Nat)
    BY DEF SocketTypeOK
  <2> QED
    BY <2>1, SocketStepKeeps, WaitStep, OutboxStep, OutboxKeepsOrder
<1> QED
  BY <1>1, <1>2, PTL DEF Spec

(***************************************************************************)
(* The design gallery                                                      *)
(***************************************************************************)
LEMMA GalleryInitType == GalleryInit => GalleryTypeOK
<1> SUFFICES ASSUME GalleryInit PROVE GalleryTypeOK
  OBVIOUS
<1>1. NoLoad \in Loads /\ [NoLoad EXCEPT !.at = "out"] \in Loads
  BY DEF NoLoad, Loads
<1>2. NoJob \in Jobs
  BY DEF NoJob, Jobs, JobStages
<1>3. running \in Designs /\ stored \in SUBSET Designs /\ cache \in Loads \cup {NoValue}
  BY DEF GalleryInit
<1>4. loads \in [Pages -> [Kinds -> Loads]]
  BY <1>1 DEF GalleryInit
<1>5. job \in [Pages -> Jobs] /\ \A p \in Pages : job[p].at = "no"
  BY <1>2 DEF GalleryInit, NoJob
<1>6. list \in [Pages -> Lists \cup {NoValue}] /\ disabled \in [Pages -> SUBSET Designs]
  BY DEF GalleryInit
<1> QED
  BY <1>3, <1>4, <1>5, <1>6 DEF GalleryTypeOK

(* Writing one load, one job, one list. *)
LEMMA LoadType ==
  ASSUME GalleryTypeOK, NEW p \in Pages, NEW k \in Kinds, NEW r \in Loads, Load(p, k, r)
  PROVE  /\ loads' \in [Pages -> [Kinds -> Loads]]
         /\ loads'[p][k] = r
         /\ \A q \in Pages, h \in Kinds : q # p \/ h # k => loads'[q][h] = loads[q][h]
  BY DEF GalleryTypeOK, Load

LEMMA JobType ==
  ASSUME GalleryTypeOK, NEW p \in Pages, NEW j \in Jobs, job' = [job EXCEPT ![p] = j]
  PROVE  /\ job' \in [Pages -> Jobs] /\ job'[p] = j
         /\ \A q \in Pages : q # p => job'[q] = job[q]
  BY DEF GalleryTypeOK

LEMMA ToType ==
  ASSUME GalleryTypeOK, NEW p \in Pages, NEW at \in JobStages, To(p, at)
  PROVE  /\ job' \in [Pages -> Jobs] /\ job'[p].at = at /\ job'[p].attached = job[p].attached
         /\ job'[p].design = job[p].design
         /\ \A q \in Pages : q # p => job'[q] = job[q]
<1> DEFINE j == [job[p] EXCEPT !.at = at]
<1>1. job[p] \in Jobs
  BY DEF GalleryTypeOK
<1>2. j \in Jobs /\ j.at = at /\ j.attached = job[p].attached /\ j.design = job[p].design
  BY <1>1, Zenon DEF Jobs
<1>3. job' = [job EXCEPT ![p] = j]
  BY DEF To
<1> QED
  BY <1>2, <1>3, JobType

LEMMA CrossedLoadsType ==
  ASSUME GalleryTypeOK, NEW enabled, NEW designs, CrossedLoads(enabled, designs)
  PROVE  /\ loads' \in [Pages -> [Kinds -> Loads]]
         /\ \A q \in Pages, h \in Kinds :
               /\ loads'[q][h].at = loads[q][h].at
               /\ BodyOf(loads'[q][h]) = BodyOf(loads[q][h])
               /\ loads[q][h].at = "read" =>
                     loads'[q][h].crossed \/ BodyOf(loads[q][h]) = [enabled |-> enabled, designs |-> designs]
<1> DEFINE marked(r) == IF r.at = "read" /\ Outdated(r, enabled, designs) THEN [r EXCEPT !.crossed = TRUE] ELSE r
<1>1. \A r \in Loads : /\ marked(r) \in Loads /\ marked(r).at = r.at
                       /\ marked(r).enabled = r.enabled /\ marked(r).designs = r.designs
                       /\ r.at = "read" => marked(r).crossed \/ ~Outdated(r, enabled, designs)
  BY DEF Loads
<1>2. loads' = [q \in Pages |-> [h \in Kinds |-> marked(loads[q][h])]]
  BY DEF CrossedLoads
<1>3. \A q \in Pages, h \in Kinds : loads[q][h] \in Loads /\ loads'[q][h] = marked(loads[q][h])
  BY <1>2 DEF GalleryTypeOK
<1> HIDE DEF marked
<1>4. loads' \in [Pages -> [Kinds -> Loads]]
  BY <1>1, <1>2, <1>3
<1> QED
  BY <1>1, <1>3, <1>4 DEF BodyOf, Outdated

(***************************************************************************)
(* What holds of every state besides the types: of the lists on their way  *)
(* into the cache what holds of the cache, and of a page whose enabling    *)
(* job is over, or whose buttons the job no longer holds, what holds of an *)
(* idle one. The second load of a page belongs to its job.                 *)
(***************************************************************************)
Deleting == \E p \in Pages : job[p].at \in {"switched", "kept"}

Known(r) == BodyOf(r) = Body \/ r.crossed \/ Deleting

ReadKnown == \A p \in Pages, k \in Kinds : loads[p][k].at = "read" => Known(loads[p][k])

CacheKnown == cache # NoValue => Known(cache)

Freed == \A p \in Pages :
    (job[p].at = "no" \/ ~job[p].attached) /\ list[p] # NoValue => disabled[p] \subseteq {list[p].enabled}

Again == \A p \in Pages : loads[p]["again"].at # "no" => job[p].at = "loading"

GalleryInv == GalleryTypeOK /\ ReadKnown /\ CacheKnown /\ Freed /\ Again

LEMMA GalleryInitInv == GalleryInit => GalleryInv
<1> SUFFICES ASSUME GalleryInit PROVE GalleryInv
  OBVIOUS
<1>1. ReadKnown
  BY DEF GalleryInit, ReadKnown, NoLoad, Kinds
<1>2. CacheKnown /\ Freed /\ Again
  BY DEF GalleryInit, CacheKnown, Freed, Again, NoLoad, Kinds
<1> QED
  BY <1>1, <1>2, GalleryInitType DEF GalleryInv

(* A step of the cache alone, between a page's load and the daemon: no job and no list changes. *)
LEMMA LoadSteps ==
  ASSUME GalleryInv, NEW p \in Pages, NEW k \in Kinds,
         CacheHit(p, k) \/ CacheMiss(p, k) \/ DaemonLists(p, k) \/ CacheSet(p, k)
  PROVE  GalleryInv'
<1>1. GalleryTypeOK /\ ReadKnown /\ CacheKnown /\ Freed /\ Again
  BY DEF GalleryInv
<1>2. loads[p][k] \in Loads /\ (cache # NoValue => cache \in Loads)
  BY <1>1 DEF GalleryTypeOK
<1>3. UNCHANGED <<running, stored, job, list, disabled>>
  BY Zenon DEF CacheHit, CacheMiss, DaemonLists, CacheSet
<1>4. PICK r \in Loads : Load(p, k, r) /\ (r.at = "read" => BodyOf(r) = Body)
  <2>1. CASE CacheHit(p, k)
    <3>1. [cache EXCEPT !.at = "back"] \in Loads /\ [cache EXCEPT !.at = "back"].at = "back"
      BY <2>1, <1>2 DEF CacheHit, Loads
    <3> QED
      BY <2>1, <3>1 DEF CacheHit
  <2>2. CASE CacheMiss(p, k)
    <3>1. [loads[p][k] EXCEPT !.at = "asked"] \in Loads /\ [loads[p][k] EXCEPT !.at = "asked"].at = "asked"
      BY <1>2 DEF Loads
    <3> QED
      BY <2>2, <3>1 DEF CacheMiss
  <2>3. CASE DaemonLists(p, k)
    <3> DEFINE r == [at |-> "read", enabled |-> running, designs |-> stored, crossed |-> FALSE]
    <3>1. r \in Loads /\ BodyOf(r) = Body
      BY <1>1 DEF GalleryTypeOK, Loads, BodyOf, Body
    <3> QED
      BY <2>3, <3>1 DEF DaemonLists
  <2>4. CASE CacheSet(p, k)
    <3>1. [loads[p][k] EXCEPT !.at = "back"] \in Loads /\ [loads[p][k] EXCEPT !.at = "back"].at = "back"
      BY <1>2 DEF Loads
    <3> QED
      BY <2>4, <3>1 DEF CacheSet
  <2> QED
    BY <2>1, <2>2, <2>3, <2>4
<1>5. /\ loads' \in [Pages -> [Kinds -> Loads]] /\ loads'[p][k] = r
      /\ \A q \in Pages, h \in Kinds : q # p \/ h # k => loads'[q][h] = loads[q][h]
  BY <1>1, <1>4, LoadType
<1>6. Body' = Body /\ (Deleting' <=> Deleting) /\ Freed'
  BY <1>1, <1>3 DEF Body, Deleting, Freed
<1>7. cache' = cache \/ (cache' = loads[p][k] /\ loads[p][k].at = "read")
  BY Zenon DEF CacheHit, CacheMiss, DaemonLists, CacheSet
<1>8. GalleryTypeOK'
  BY <1>1, <1>2, <1>3, <1>5, <1>7 DEF GalleryTypeOK
<1>9. CacheKnown'
  BY <1>1, <1>6, <1>7 DEF CacheKnown, ReadKnown, Known, BodyOf
<1>10. ReadKnown'
  BY <1>1, <1>4, <1>5, <1>6 DEF ReadKnown, Known, BodyOf
<1>11. loads[p][k].at # "no"
  BY Zenon DEF CacheHit, CacheMiss, DaemonLists, CacheSet
<1>12. Again'
  BY <1>1, <1>3, <1>5, <1>11 DEF Again, Kinds
<1> QED
  BY <1>6, <1>8, <1>9, <1>10, <1>12 DEF GalleryInv

(* A page's job that moves on without the Pi, the cache or a list changing. *)
LEMMA KeptByJob ==
  ASSUME GalleryInv, NEW p \in Pages, UNCHANGED <<running, stored, cache, loads>>,
         ~(job[p].at \in {"switched", "kept"}),
         job' \in [Pages -> Jobs], \A q \in Pages : q # p => job'[q] = job[q]
  PROVE  ReadKnown' /\ CacheKnown'
<1>1. Body' = Body /\ (Deleting => Deleting')
  BY DEF Body, Deleting
<1> QED
  BY <1>1 DEF GalleryInv, ReadKnown, CacheKnown, Known, BodyOf

(* The Pi changes, and the page's job with it: heard of, so that a delete is to come, or not, so that what is known of
   the Pi is marked. *)
LEMMA DaemonSteps ==
  ASSUME GalleryInv, NEW p \in Pages, DaemonDoes(p) \/ DaemonDoesUnheard(p)
  PROVE  GalleryInv'
<1>1. GalleryTypeOK /\ ReadKnown /\ CacheKnown /\ Freed /\ Again
  BY DEF GalleryInv
<1>2. /\ job[p].at \in {"enable", "upload"} /\ Enabled(p) \in stored
      /\ running' = Enabled(p) /\ stored' = Stored(p) /\ UNCHANGED <<list, disabled>>
  BY Zenon DEF DaemonDoes, DaemonDoesUnheard
<1>3. running' \in Designs /\ stored' \in SUBSET Designs
  BY <1>1, <1>2 DEF GalleryTypeOK, Stored
<1>4. PICK at \in JobStages \ {"no"} : To(p, at) /\ (DaemonDoes(p) => at \in {"switched", "kept"})
  BY Zenon DEF DaemonDoes, DaemonDoesUnheard, JobStages
<1>5. /\ job' \in [Pages -> Jobs] /\ job'[p].at = at /\ job'[p].attached = job[p].attached
      /\ job'[p].design = job[p].design
      /\ \A q \in Pages : q # p => job'[q] = job[q]
  BY <1>1, <1>4, ToType
<1>6. Freed'
  BY <1>1, <1>2, <1>4, <1>5 DEF Freed
<1>7. \A q \in Pages : job'[q].at # "no" => job'[q].design \in Designs
  BY <1>1, <1>2, <1>5 DEF GalleryTypeOK
<1>8. list \in [Pages -> Lists \cup {NoValue}] /\ disabled \in [Pages -> SUBSET Designs]
  BY <1>1 DEF GalleryTypeOK
<1>9. CASE DaemonDoes(p)
  <2>1. UNCHANGED <<cache, loads>>
    BY <1>9 DEF DaemonDoes
  <2>2. Deleting'
    BY <1>4, <1>5, <1>9 DEF Deleting
  <2>3. GalleryTypeOK'
    BY <1>1, <1>2, <1>3, <1>5, <1>7, <1>8, <2>1 DEF GalleryTypeOK
  <2>4. Again'
    BY <1>1, <1>2, <1>5, <2>1 DEF Again
  <2> QED
    BY <1>6, <2>2, <2>3, <2>4 DEF GalleryInv, ReadKnown, CacheKnown, Known
<1>10. CASE DaemonDoesUnheard(p)
  <2>1. CrossedCache(running', stored') /\ CrossedLoads(running', stored')
    BY <1>10 DEF DaemonDoesUnheard
  <2>2. /\ loads' \in [Pages -> [Kinds -> Loads]]
        /\ \A q \in Pages, h \in Kinds :
              /\ loads'[q][h].at = loads[q][h].at
              /\ BodyOf(loads'[q][h]) = BodyOf(loads[q][h])
              /\ loads[q][h].at = "read" => loads'[q][h].crossed \/ BodyOf(loads[q][h]) = Body'
    BY <1>1, <2>1, CrossedLoadsType DEF Body
  <2>3. ReadKnown'
    BY <2>2 DEF ReadKnown, Known
  <2>4. cache' \in Loads \cup {NoValue} /\ CacheKnown'
    <3>1. CASE cache # NoValue /\ Outdated(cache, running', stored')
      <4>1. cache \in Loads /\ cache' = [cache EXCEPT !.crossed = TRUE]
        BY <1>1, <2>1, <3>1 DEF CrossedCache, GalleryTypeOK
      <4> QED
        BY <4>1 DEF Loads, CacheKnown, Known
    <3>2. CASE ~(cache # NoValue /\ Outdated(cache, running', stored'))
      BY <1>1, <2>1, <3>2 DEF CrossedCache, CacheKnown, Known, BodyOf, Body, Outdated, GalleryTypeOK
    <3> QED
      BY <3>1, <3>2
  <2>5. GalleryTypeOK'
    BY <1>1, <1>2, <1>3, <1>5, <1>7, <1>8, <2>2, <2>4 DEF GalleryTypeOK
  <2>6. Again'
    BY <1>1, <1>2, <1>5, <2>2 DEF Again, Kinds
  <2> QED
    BY <1>6, <2>3, <2>4, <2>5, <2>6 DEF GalleryInv
<1> QED
  BY <1>9, <1>10

(* The view deletes the cached list: what was read before and is still to be stored is marked. *)
LEMMA DeleteStep ==
  ASSUME GalleryInv, NEW p \in Pages, CacheDelete(p)
  PROVE  GalleryInv'
<1>1. GalleryTypeOK /\ Freed /\ Again
  BY DEF GalleryInv
<1>2. /\ job[p].at \in {"switched", "kept"} /\ cache' = NoValue /\ CrossedLoads(running, stored)
      /\ UNCHANGED <<running, stored, list, disabled>>
  BY Zenon DEF CacheDelete
<1>3. PICK at \in JobStages \ {"no"} : To(p, at)
  BY Zenon DEF CacheDelete, JobStages
<1>4. /\ job' \in [Pages -> Jobs] /\ job'[p].at = at /\ job'[p].attached = job[p].attached
      /\ job'[p].design = job[p].design
      /\ \A q \in Pages : q # p => job'[q] = job[q]
  BY <1>1, <1>3, ToType
<1>5. /\ loads' \in [Pages -> [Kinds -> Loads]]
      /\ \A q \in Pages, h \in Kinds :
            /\ loads'[q][h].at = loads[q][h].at
            /\ BodyOf(loads'[q][h]) = BodyOf(loads[q][h])
            /\ loads[q][h].at = "read" => loads'[q][h].crossed \/ BodyOf(loads[q][h]) = Body
  BY <1>1, <1>2, CrossedLoadsType DEF Body
<1>6. Body' = Body
  BY <1>2 DEF Body
<1>7. ReadKnown' /\ CacheKnown'
  BY <1>2, <1>5, <1>6 DEF ReadKnown, CacheKnown, Known
<1>8. Freed'
  BY <1>1, <1>2, <1>3, <1>4 DEF Freed
<1>9. \A q \in Pages : job'[q].at # "no" => job'[q].design \in Designs
  BY <1>1, <1>2, <1>4 DEF GalleryTypeOK
<1>10. GalleryTypeOK'
  BY <1>1, <1>2, <1>4, <1>5, <1>9 DEF GalleryTypeOK
<1>11. Again'
  BY <1>1, <1>2, <1>4, <1>5 DEF Again, Kinds
<1> QED
  BY <1>7, <1>8, <1>10, <1>11 DEF GalleryInv

(* The end of a load draws a new list, whose buttons are free but the running design's. *)
LEMMA EndStep ==
  ASSUME GalleryInv, NEW p \in Pages, NEW k \in Kinds, NEW drawn \in Lists \cup {NoValue}, LoadEnds(p, k, drawn),
         loads[p][k].at # "no"
  PROVE  GalleryInv'
<1>1. GalleryTypeOK /\ ReadKnown /\ CacheKnown /\ Freed /\ Again
  BY DEF GalleryInv
<1>2. /\ Load(p, k, NoLoad) /\ render(p, drawn) /\ UNCHANGED <<running, stored, cache>>
      /\ job' = [job EXCEPT ![p] = IF k = "again" THEN NoJob ELSE [job[p] EXCEPT !.attached = FALSE]]
  BY Zenon DEF LoadEnds
<1>3. NoLoad \in Loads /\ NoLoad.at = "no"
  BY DEF NoLoad, Loads
<1>4. /\ loads' \in [Pages -> [Kinds -> Loads]] /\ loads'[p][k] = NoLoad
      /\ \A q \in Pages, h \in Kinds : q # p \/ h # k => loads'[q][h] = loads[q][h]
  BY <1>1, <1>2, <1>3, LoadType
<1> DEFINE j == IF k = "again" THEN NoJob ELSE [job[p] EXCEPT !.attached = FALSE]
<1>5. /\ j \in Jobs /\ (j.at # "no" => j.design \in Designs)
      /\ k # "again" => j.at = job[p].at
      /\ job[p].at \in {"switched", "kept"} => j.at = job[p].at
  BY <1>1 DEF Jobs, JobStages, NoJob, GalleryTypeOK, Again
<1>6. job' = [job EXCEPT ![p] = j]
  BY <1>2
<1> HIDE DEF j
<1>7. /\ job' \in [Pages -> Jobs] /\ job'[p] = j
      /\ \A q \in Pages : q # p => job'[q] = job[q]
  BY <1>1, <1>5, <1>6, JobType
<1>8. Body' = Body /\ (Deleting => Deleting')
  BY <1>2, <1>5, <1>7 DEF Body, Deleting
<1>9. ReadKnown' /\ CacheKnown'
  BY <1>1, <1>2, <1>3, <1>4, <1>8 DEF ReadKnown, CacheKnown, Known, BodyOf
<1>10. /\ list' \in [Pages -> Lists \cup {NoValue}] /\ list'[p] = drawn
       /\ disabled' \in [Pages -> SUBSET Designs]
       /\ disabled'[p] = IF drawn = NoValue THEN {} ELSE {drawn.enabled} \cap drawn.designs
       /\ \A q \in Pages : q # p => list'[q] = list[q] /\ disabled'[q] = disabled[q]
  BY <1>1, <1>2 DEF render, GalleryTypeOK, Lists
<1>11. Freed'
  BY <1>1, <1>7, <1>10 DEF Freed
<1>12. GalleryTypeOK'
  BY <1>1, <1>2, <1>4, <1>5, <1>7, <1>10 DEF GalleryTypeOK
<1>13. Again'
  BY <1>1, <1>3, <1>4, <1>5, <1>7 DEF Again, Kinds
<1> QED
  BY <1>9, <1>11, <1>12, <1>13 DEF GalleryInv

(* A press disables every button, which its job holds. *)
LEMMA BeginStep ==
  ASSUME GalleryInv, NEW p \in Pages, NEW at \in {"enable", "upload"}, NEW design \in Designs, Begin(p, at, design),
         job[p].at \in {"no", "uploaded"}
  PROVE  GalleryInv'
<1>1. GalleryTypeOK /\ Freed /\ Again
  BY DEF GalleryInv
<1> DEFINE j == [at |-> at, design |-> design, attached |-> TRUE]
<1>2. j \in Jobs /\ j.at \in {"enable", "upload"} /\ j.attached /\ j.design \in Designs
  BY DEF Jobs, JobStages
<1>3. job' = [job EXCEPT ![p] = j] /\ UNCHANGED <<running, stored, cache, loads, list>>
  BY DEF Begin
<1> HIDE DEF j
<1>4. job' \in [Pages -> Jobs] /\ job'[p] = j /\ \A q \in Pages : q # p => job'[q] = job[q]
  BY <1>1, <1>2, <1>3, JobType
<1>5. ReadKnown' /\ CacheKnown'
  BY <1>3, <1>4, KeptByJob
<1>6. Buttons(p) \in SUBSET Designs
  BY <1>1 DEF Buttons, GalleryTypeOK, Lists
<1>7. disabled' \in [Pages -> SUBSET Designs] /\ \A q \in Pages : q # p => disabled'[q] = disabled[q]
  BY <1>1, <1>6 DEF Begin, GalleryTypeOK
<1>8. Freed'
  BY <1>1, <1>2, <1>3, <1>4, <1>7 DEF Freed
<1>9. Again'
  BY <1>1, <1>3, <1>4 DEF Again
<1>10. GalleryTypeOK'
  BY <1>1, <1>2, <1>3, <1>4, <1>7 DEF GalleryTypeOK
<1> QED
  BY <1>5, <1>8, <1>9, <1>10 DEF GalleryInv

(* A refusal leaves the Pi as it is. *)
LEMMA RefusedStep ==
  ASSUME GalleryInv, NEW p \in Pages, Refused(p)
  PROVE  GalleryInv'
<1>1. GalleryTypeOK /\ Freed /\ Again
  BY DEF GalleryInv
<1>2. /\ job[p].at \in {"enable", "upload"} /\ To(p, "refused")
      /\ UNCHANGED <<running, stored, cache, loads, list, disabled>>
  BY DEF Refused
<1>3. /\ job' \in [Pages -> Jobs] /\ job'[p].at = "refused" /\ job'[p].attached = job[p].attached
      /\ job'[p].design = job[p].design
      /\ \A q \in Pages : q # p => job'[q] = job[q]
  BY <1>1, <1>2, ToType DEF JobStages
<1>4. ReadKnown' /\ CacheKnown'
  BY <1>2, <1>3, KeptByJob
<1>5. Freed'
  BY <1>1, <1>2, <1>3 DEF Freed
<1>6. Again'
  BY <1>1, <1>2, <1>3 DEF Again
<1>7. GalleryTypeOK'
  BY <1>1, <1>2, <1>3 DEF GalleryTypeOK
<1> QED
  BY <1>4, <1>5, <1>6, <1>7 DEF GalleryInv

(* The end of a refused job frees the buttons it holds. *)
LEMMA RefusedSaidStep ==
  ASSUME GalleryInv, NEW p \in Pages, RefusedSaid(p)
  PROVE  GalleryInv'
<1>1. GalleryTypeOK /\ Freed /\ Again
  BY DEF GalleryInv
<1>2. NoJob \in Jobs /\ NoJob.at = "no"
  BY DEF NoJob, Jobs, JobStages
<1>3. /\ job[p].at = "refused" /\ job' = [job EXCEPT ![p] = NoJob]
      /\ disabled' = Finally(p, job[p].attached) /\ UNCHANGED <<running, stored, cache, loads, list>>
  BY DEF RefusedSaid
<1>4. job' \in [Pages -> Jobs] /\ job'[p] = NoJob /\ \A q \in Pages : q # p => job'[q] = job[q]
  BY <1>1, <1>2, <1>3, JobType
<1>5. ReadKnown' /\ CacheKnown'
  BY <1>3, <1>4, KeptByJob
<1>6. /\ disabled' \in [Pages -> SUBSET Designs]
      /\ \A q \in Pages : q # p => disabled'[q] = disabled[q]
      /\ (job[p].attached /\ disabled'[p] = {}) \/ (~job[p].attached /\ disabled' = disabled)
  BY <1>1, <1>3 DEF Finally, GalleryTypeOK
<1>7. Freed'
  BY <1>1, <1>3, <1>4, <1>6 DEF Freed
<1>8. Again'
  BY <1>1, <1>3, <1>4 DEF Again
<1>9. GalleryTypeOK'
  BY <1>1, <1>2, <1>3, <1>4, <1>6 DEF GalleryTypeOK
<1> QED
  BY <1>5, <1>7, <1>8, <1>9 DEF GalleryInv

(* A design that runs has the page load the list again. *)
LEMMA EnabledSaidStep ==
  ASSUME GalleryInv, NEW p \in Pages, EnabledSaid(p)
  PROVE  GalleryInv'
<1>1. GalleryTypeOK /\ ReadKnown /\ CacheKnown /\ Freed /\ Again
  BY DEF GalleryInv
<1> DEFINE r == [NoLoad EXCEPT !.at = "out"]
<1>2. r \in Loads /\ r.at = "out" /\ "again" \in Kinds
  BY DEF NoLoad, Loads, Kinds
<1>3. /\ job[p].at = "enabled" /\ To(p, "loading") /\ Load(p, "again", r)
      /\ UNCHANGED <<running, stored, cache, list, disabled>>
  BY DEF EnabledSaid
<1> HIDE DEF r
<1>4. /\ job' \in [Pages -> Jobs] /\ job'[p].at = "loading" /\ job'[p].attached = job[p].attached
      /\ job'[p].design = job[p].design
      /\ \A q \in Pages : q # p => job'[q] = job[q]
  BY <1>1, <1>3, ToType DEF JobStages
<1>5. /\ loads' \in [Pages -> [Kinds -> Loads]] /\ loads'[p]["again"] = r
      /\ \A q \in Pages, h \in Kinds : q # p \/ h # "again" => loads'[q][h] = loads[q][h]
  BY <1>1, <1>2, <1>3, LoadType
<1>6. Body' = Body /\ (Deleting => Deleting')
  BY <1>3, <1>4 DEF Body, Deleting
<1>7. ReadKnown' /\ CacheKnown'
  BY <1>1, <1>2, <1>3, <1>5, <1>6 DEF ReadKnown, CacheKnown, Known, BodyOf
<1>8. Freed'
  BY <1>1, <1>3, <1>4 DEF Freed
<1>9. Again'
  BY <1>1, <1>2, <1>4, <1>5 DEF Again
<1>10. GalleryTypeOK'
  BY <1>1, <1>3, <1>4, <1>5 DEF GalleryTypeOK
<1> QED
  BY <1>7, <1>8, <1>9, <1>10 DEF GalleryInv

LEMMA GalleryStepKeeps ==
  ASSUME GalleryInv, [GalleryNext]_galleryVars
  PROVE  GalleryInv'
<1>1. CASE CacheExpires
  BY <1>1 DEF CacheExpires, GalleryInv, GalleryTypeOK, ReadKnown, CacheKnown, Known, BodyOf, Body, Deleting, Freed, Again
<1>2. ASSUME NEW p \in Pages, NEW k \in Kinds,
             CacheHit(p, k) \/ CacheMiss(p, k) \/ DaemonLists(p, k) \/ CacheSet(p, k)
      PROVE  GalleryInv'
  BY <1>2, LoadSteps
<1>3. ASSUME NEW p \in Pages, NEW k \in Kinds, Loaded(p, k) \/ LoadFails(p, k)
      PROVE  GalleryInv'
  <2>1. loads[p][k] \in Loads
    BY DEF GalleryInv, GalleryTypeOK
  <2>2. BodyOf(loads[p][k]) \in Lists
    BY <2>1 DEF BodyOf, Loads, Lists
  <2>3. PICK drawn \in Lists \cup {NoValue} : LoadEnds(p, k, drawn) /\ loads[p][k].at # "no"
    BY <1>3, <2>2 DEF Loaded, LoadFails
  <2> QED
    BY <2>3, EndStep
<1>4. ASSUME NEW p \in Pages, NEW d \in Designs, Run(p, d) \/ Upload(p, d)
      PROVE  GalleryInv'
  BY <1>4, BeginStep DEF Run, Upload
<1>5. ASSUME NEW p \in Pages, Uploaded(p)
      PROVE  GalleryInv'
  <2>1. job[p].at = "uploaded" /\ Begin(p, "enable", job[p].design)
    BY <1>5 DEF Uploaded
  <2>2. job[p].design \in Designs
    BY <2>1 DEF GalleryInv, GalleryTypeOK
  <2> QED
    BY <2>1, <2>2, BeginStep
<1>6. ASSUME NEW p \in Pages,
             \/ DaemonDoes(p) \/ DaemonDoesUnheard(p) \/ Refused(p) \/ CacheDelete(p)
             \/ EnabledSaid(p) \/ RefusedSaid(p)
      PROVE  GalleryInv'
  BY <1>6, DaemonSteps, RefusedStep, DeleteStep, EnabledSaidStep, RefusedSaidStep
<1>7. CASE UNCHANGED galleryVars
  BY <1>7 DEF galleryVars, GalleryInv, GalleryTypeOK, ReadKnown, CacheKnown, Known, BodyOf, Body, Deleting, Freed, Again
<1> QED
  BY <1>1, <1>2, <1>3, <1>4, <1>5, <1>6, <1>7 DEF GalleryNext

LEMMA GalleryInvImplies == GalleryInv => GalleryTypeOK /\ CacheTrue /\ ButtonsFreed
  BY DEF GalleryInv, CacheKnown, Known, Deleting, Freed, CacheTrue, ButtonsFreed

(* The gallery's loads, jobs, lists and cache keep their types, whatever request fails. *)
THEOREM GalleryTypeCorrect == GallerySpec => []GalleryTypeOK
  BY GalleryInitInv, GalleryStepKeeps, GalleryInvImplies, PTL DEF GallerySpec

(* ttsite/views.py's api_designs, api_enable and api_bitstream: however many pages load, enable and upload at once, a
   cached list that is not the Pi's has its delete to come, or crossed one, or was left by a change no view heard of. *)
THEOREM CacheIsTrue == GallerySpec => []CacheTrue
  BY GalleryInitInv, GalleryStepKeeps, GalleryInvImplies, PTL DEF GallerySpec

(* board.js's enable and upload form: no page with nothing under way has a button disabled but the running design's. *)
THEOREM ButtonsAreFreed == GallerySpec => []ButtonsFreed
  BY GalleryInitInv, GalleryStepKeeps, GalleryInvImplies, PTL DEF GallerySpec

(***************************************************************************)
(* A sorted table: the rows' places, counted as the rows that come sooner, *)
(* are all the places there are.                                           *)
(***************************************************************************)
StrictOrder(n, sooner) ==
    /\ \A i \in 1 .. n : <<i, i>> \notin sooner
    /\ \A i, j \in 1 .. n : i # j => <<i, j>> \in sooner \/ <<j, i>> \in sooner
    /\ \A i, j, k \in 1 .. n : <<i, j>> \in sooner /\ <<j, k>> \in sooner => <<i, k>> \in sooner

PlacesIn(n, sooner) == [i \in 1 .. n |-> Cardinality({j \in 1 .. n : <<j, i>> \in sooner})]

ByPlace(n, place) == [k \in 1 .. n |-> CHOOSE i \in 1 .. n : place[i] = k - 1]

Arranges(n, sooner, at) ==
    /\ \A k \in 1 .. n : at[k] \in 1 .. n
    /\ \A i \in 1 .. n : \E k \in 1 .. n : at[k] = i
    /\ \A k, l \in 1 .. n : k < l => <<at[k], at[l]>> \in sooner

LEMMA PlacesGrow ==
  ASSUME NEW n \in Nat, NEW sooner,
         \A i \in 1 .. n : <<i, i>> \notin sooner,
         \A i, j, k \in 1 .. n : <<i, j>> \in sooner /\ <<j, k>> \in sooner => <<i, k>> \in sooner
  PROVE  /\ \A i \in 1 .. n : Cardinality({j \in 1 .. n : <<j, i>> \in sooner}) \in 0 .. n - 1
         /\ \A i, j \in 1 .. n :
               <<i, j>> \in sooner =>
                  Cardinality({k \in 1 .. n : <<k, i>> \in sooner})
                     < Cardinality({k \in 1 .. n : <<k, j>> \in sooner})
<1> DEFINE N == 1 .. n
           earlier == [i \in N |-> {j \in N : <<j, i>> \in sooner}]
<1>1. IsFiniteSet(N) /\ Cardinality(N) = n
  BY FS_Interval
<1>2. /\ \A i \in N : earlier[i] \in SUBSET N /\ i \notin earlier[i]
      /\ \A i, j \in N : <<i, j>> \in sooner => earlier[i] \in SUBSET earlier[j] /\ i \in earlier[j]
  OBVIOUS
<1> HIDE DEF N, earlier
<1>3. ASSUME NEW i \in N
      PROVE  IsFiniteSet(earlier[i]) /\ Cardinality(earlier[i]) \in 0 .. n - 1
  <2>1. earlier[i] \in SUBSET N /\ earlier[i] # N
    BY <1>2
  <2>2. IsFiniteSet(earlier[i]) /\ Cardinality(earlier[i]) <= n /\ Cardinality(earlier[i]) # n
    BY <1>1, <2>1, FS_Subset
  <2>3. Cardinality(earlier[i]) \in Nat
    BY <2>2, FS_CardinalityType
  <2> QED
    BY <2>2, <2>3
<1>4. ASSUME NEW i \in N, NEW j \in N, <<i, j>> \in sooner
      PROVE  Cardinality(earlier[i]) < Cardinality(earlier[j])
  <2>1. earlier[i] \in SUBSET earlier[j] /\ earlier[i] # earlier[j] /\ IsFiniteSet(earlier[j])
    BY <1>2, <1>3, <1>4
  <2>2. Cardinality(earlier[i]) <= Cardinality(earlier[j]) /\ Cardinality(earlier[i]) # Cardinality(earlier[j])
    BY <2>1, FS_Subset
  <2> QED
    BY <1>3, <2>2
<1>5. \A i \in N : earlier[i] = {j \in N : <<j, i>> \in sooner}
  BY DEF earlier
<1> QED
  BY <1>3, <1>4, <1>5 DEF N

LEMMA PlacesSort ==
  ASSUME NEW n \in Nat, NEW sooner, NEW place \in [1 .. n -> 0 .. n - 1],
         \A i, j \in 1 .. n : i # j => <<i, j>> \in sooner \/ <<j, i>> \in sooner,
         \A i, j \in 1 .. n : <<i, j>> \in sooner => place[i] < place[j]
  PROVE  Arranges(n, sooner, ByPlace(n, place))
<1> DEFINE N == 1 .. n
           at == ByPlace(n, place)
           rank == [i \in N |-> place[i] + 1]
<1>0. \A i \in N : place[i] \in Int
  OBVIOUS
<1>1. \A i, j \in N : place[i] = place[j] => i = j
  <2> SUFFICES ASSUME NEW i \in N, NEW j \in N, place[i] = place[j], i # j PROVE FALSE
    OBVIOUS
  <2>1. place[i] < place[j] \/ place[j] < place[i]
    OBVIOUS
  <2> QED
    BY <1>0, <2>1
<1>2. \A k \in N : \E i \in N : place[i] = k - 1
  <2>1. IsFiniteSet(N)
    BY FS_Interval
  <2>2. rank \in [N -> N]
    OBVIOUS
  <2>3. \A i, j \in N : rank[i] = rank[j] => i = j
    BY <1>1
  <2>4. rank \in Injection(N, N)
    BY <2>2, <2>3 DEF Injection, IsInjective
  <2>5. \A k \in N : \E i \in N : rank[i] = k
    <3> HIDE DEF N, rank
    <3> QED
      BY <2>1, <2>2, <2>4, FS_Injection DEF Surjection
  <2> SUFFICES ASSUME NEW k \in N PROVE \E i \in N : place[i] = k - 1
    OBVIOUS
  <2>6. PICK i \in N : rank[i] = k
    BY <2>5
  <2>7. place[i] = k - 1
    BY <1>0, <2>6
  <2> QED
    BY <2>7
<1>3. \A k \in N : at[k] \in N /\ place[at[k]] = k - 1
  BY <1>2 DEF ByPlace
<1> HIDE DEF at
<1>4. \A i \in N : \E k \in N : at[k] = i
  <2> SUFFICES ASSUME NEW i \in N PROVE \E k \in N : at[k] = i
    OBVIOUS
  <2>1. place[i] + 1 \in N /\ place[i] = (place[i] + 1) - 1
    OBVIOUS
  <2>2. at[place[i] + 1] \in N /\ place[at[place[i] + 1]] = place[i]
    BY <1>3, <2>1
  <2> QED
    BY <1>1, <2>1, <2>2
<1>5. \A k, l \in N : k < l => <<at[k], at[l]>> \in sooner
  <2> SUFFICES ASSUME NEW k \in N, NEW l \in N, k < l PROVE <<at[k], at[l]>> \in sooner
    OBVIOUS
  <2>1. at[k] \in N /\ at[l] \in N /\ place[at[k]] < place[at[l]]
    BY <1>3
  <2>2. place[at[k]] \in Int /\ place[at[l]] \in Int
    BY <1>0, <2>1
  <2>3. \A x, y \in Int : x < y => ~(y < x) /\ x # y
    OBVIOUS
  <2>4. ~(place[at[l]] < place[at[k]]) /\ at[k] # at[l]
    BY <2>1, <2>2, <2>3, Zenon
  <2> QED
    BY <2>1, <2>4
<1> QED
  BY <1>3, <1>4, <1>5 DEF Arranges, at

LEMMA PlacesArrange ==
  ASSUME NEW n \in Nat, NEW sooner, StrictOrder(n, sooner)
  PROVE  Arranges(n, sooner, ByPlace(n, PlacesIn(n, sooner)))
<1>1. /\ \A i \in 1 .. n : <<i, i>> \notin sooner
      /\ \A i, j \in 1 .. n : i # j => <<i, j>> \in sooner \/ <<j, i>> \in sooner
      /\ \A i, j, k \in 1 .. n : <<i, j>> \in sooner /\ <<j, k>> \in sooner => <<i, k>> \in sooner
  BY DEF StrictOrder
<1> DEFINE place == PlacesIn(n, sooner)
<1>2. /\ \A i \in 1 .. n : Cardinality({j \in 1 .. n : <<j, i>> \in sooner}) \in 0 .. n - 1
      /\ \A i, j \in 1 .. n :
            <<i, j>> \in sooner =>
               Cardinality({k \in 1 .. n : <<k, i>> \in sooner})
                  < Cardinality({k \in 1 .. n : <<k, j>> \in sooner})
  BY <1>1, PlacesGrow, Zenon
<1>3. \A i \in 1 .. n : place[i] = Cardinality({j \in 1 .. n : <<j, i>> \in sooner})
  BY DEF PlacesIn
<1>4. place = [i \in 1 .. n |-> place[i]]
  BY DEF PlacesIn
<1> HIDE DEF place
<1>5. place \in [1 .. n -> 0 .. n - 1]
  BY <1>2, <1>3, <1>4
<1>6. \A i, j \in 1 .. n : <<i, j>> \in sooner => place[i] < place[j]
  BY <1>2, <1>3, Zenon
<1>7. Arranges(n, sooner, ByPlace(n, place))
  BY <1>1, <1>5, <1>6, PlacesSort
<1> QED
  BY <1>7 DEF place

(* The rows of a table, drawn in any order: each row once, numbered by its served place, or by its place in the body. *)
Row(cols) == [cells : [cols -> Int], served : Nat]
Rows(cols) == Seq(Row(cols))

Place(rows, i) == IF rows[i].served = T!Unnumbered THEN i ELSE rows[i].served

Draws(rows, table) ==
    /\ rows \in Rows(table.cols) /\ Len(rows) = Len(table.rows)
    /\ \A i \in DOMAIN rows : Place(rows, i) \in DOMAIN table.rows /\ rows[i].cells = table.rows[Place(rows, i)]
    /\ \A i, j \in DOMAIN rows : Place(rows, i) = Place(rows, j) => i = j
    /\ \A k \in DOMAIN table.rows : \E i \in DOMAIN rows : Place(rows, i) = k

AllNumbered(rows) == \A i \in DOMAIN rows : rows[i].served # T!Unnumbered

InOrder(rows, column, direction) ==
    \A i, j \in DOMAIN rows : i < j => T!Before(rows[i], rows[j], column, direction)

(* What a sort can be asked for: a column of the table, or the served order. *)
Sorts(table, column, direction) ==
    direction = "none" \/ (direction \in T!Directions /\ column \in table.cols)

LEMMA FreshDraws ==
  ASSUME NEW table \in Tables
  PROVE  Draws(T!Fresh(table), table)
<1>1. table.rows \in Seq([table.cols -> Int])
  BY TablesAssumption
<1> DEFINE rows == T!Fresh(table)
<1>2. rows = [i \in 1 .. Len(table.rows) |-> [cells |-> table.rows[i], served |-> 0]]
  BY <1>1 DEF T!Fresh, T!Unnumbered
<1>3. rows \in Rows(table.cols) /\ Len(rows) = Len(table.rows) /\ DOMAIN rows = DOMAIN table.rows
  BY <1>1, <1>2 DEF Rows, Row
<1>4. \A i \in DOMAIN rows : rows[i].cells = table.rows[i] /\ Place(rows, i) = i
  BY <1>1, <1>2 DEF Place, T!Unnumbered
<1> QED
  BY <1>3, <1>4 DEF Draws

LEMMA NumberedDraws ==
  ASSUME NEW table \in Tables, NEW rows, Draws(rows, table)
  PROVE  /\ Draws(T!Numbered(rows), table) /\ AllNumbered(T!Numbered(rows))
         /\ DOMAIN T!Numbered(rows) = DOMAIN rows
         /\ \A i \in DOMAIN rows : Place(T!Numbered(rows), i) = Place(rows, i)
<1> DEFINE new == T!Numbered(rows)
<1>1. table.rows \in Seq([table.cols -> Int])
  BY TablesAssumption
<1>2. rows \in Rows(table.cols) /\ Len(rows) = Len(table.rows)
  BY DEF Draws
<1>3. /\ DOMAIN new = DOMAIN rows /\ DOMAIN rows = 1 .. Len(rows) /\ DOMAIN table.rows = 1 .. Len(rows)
      /\ Len(rows) \in Nat
  BY <1>1, <1>2 DEF T!Numbered, Rows
<1>4. ASSUME NEW i \in DOMAIN rows
      PROVE  /\ Place(rows, i) \in Nat \ {0} /\ rows[i].cells \in [table.cols -> Int]
             /\ new[i] = [cells |-> rows[i].cells, served |-> Place(rows, i)]
  <2>1. rows[i] \in Row(table.cols)
    BY <1>2, <1>3, ElementOfSeq, Zenon DEF Rows
  <2>2. Place(rows, i) \in Nat \ {0}
    <3>1. Place(rows, i) \in DOMAIN table.rows
      BY DEF Draws
    <3> QED
      BY <1>3, <3>1
  <2>3. new[i] = IF rows[i].served = T!Unnumbered THEN [rows[i] EXCEPT !.served = i] ELSE rows[i]
    BY DEF T!Numbered
  <2> QED
    BY <2>1, <2>2, <2>3 DEF Place, Row
<1>5. new \in Rows(table.cols) /\ Len(new) = Len(rows) /\ DOMAIN new = DOMAIN rows
  <2>1. new = [i \in 1 .. Len(rows) |-> new[i]]
    BY <1>3 DEF T!Numbered
  <2>2. \A i \in 1 .. Len(rows) : new[i] \in Row(table.cols)
    BY <1>3, <1>4 DEF Row
  <2> HIDE DEF new
  <2> QED
    BY <1>3, <2>1, <2>2 DEF Rows
<1>6. ASSUME NEW i \in DOMAIN rows
      PROVE  Place(new, i) = Place(rows, i) /\ new[i].cells = rows[i].cells /\ new[i].served # T!Unnumbered
  <2>1. new[i] = [cells |-> rows[i].cells, served |-> Place(rows, i)] /\ Place(rows, i) \in Nat \ {0}
    BY <1>4, Zenon
  <2> HIDE DEF new
  <2> QED
    BY <2>1 DEF Place, T!Unnumbered
<1> HIDE DEF new
<1>7. Draws(new, table) /\ AllNumbered(new)
  BY <1>3, <1>5, <1>6 DEF Draws, AllNumbered
<1> QED
  BY <1>5, <1>6, <1>7 DEF new

(* The order the rows are sorted by is a strict order of them all: equal keys are told apart by the served place. *)
LEMMA BeforeOrders ==
  ASSUME NEW table \in Tables, NEW rows, Draws(rows, table), AllNumbered(rows),
         NEW column, NEW direction, Sorts(table, column, direction)
  PROVE  /\ \A i \in DOMAIN rows : ~T!Before(rows[i], rows[i], column, direction)
         /\ \A i, j \in DOMAIN rows :
               i # j => \/ T!Before(rows[i], rows[j], column, direction)
                        \/ T!Before(rows[j], rows[i], column, direction)
         /\ \A i, j, k \in DOMAIN rows :
               T!Before(rows[i], rows[j], column, direction) /\ T!Before(rows[j], rows[k], column, direction)
                  => T!Before(rows[i], rows[k], column, direction)
<1>1. ASSUME NEW i \in DOMAIN rows
      PROVE  /\ rows[i].served \in Int /\ rows[i].served = Place(rows, i)
             /\ direction # "none" => rows[i].cells[column] \in Int
  <2>0. rows \in Rows(table.cols)
    BY DEF Draws
  <2>1. rows \in Rows(table.cols) /\ i \in 1 .. Len(rows)
    BY <2>0 DEF Rows
  <2>2. rows[i] \in Row(table.cols)
    BY <2>1, ElementOfSeq, Zenon DEF Rows
  <2>3. rows[i].served \in Nat /\ rows[i].cells \in [table.cols -> Int]
    BY <2>2 DEF Row
  <2>4. rows[i].served # T!Unnumbered
    BY DEF AllNumbered
  <2>5. direction # "none" => column \in table.cols
    BY DEF Sorts
  <2> QED
    BY <2>3, <2>4, <2>5 DEF Place
<1>2. \A i, j \in DOMAIN rows : i # j => rows[i].served # rows[j].served
  BY <1>1 DEF Draws
<1> DEFINE s(i) == rows[i].served
           x(i) == rows[i].cells[column]
<1>3. CASE direction = "none"
  <2>1. \A i, j \in DOMAIN rows : T!Before(rows[i], rows[j], column, direction) <=> s(i) < s(j)
    BY <1>3 DEF T!Before
  <2>2. \A i \in DOMAIN rows : s(i) \in Int
    BY <1>1
  <2>3. \A i, j \in DOMAIN rows : i # j => s(i) # s(j)
    BY <1>2
  <2> HIDE DEF s
  <2> QED
    BY <2>1, <2>2, <2>3
<1>4. CASE direction = "ascending"
  <2>1. \A i, j \in DOMAIN rows :
           T!Before(rows[i], rows[j], column, direction) <=> x(i) < x(j) \/ (x(i) = x(j) /\ s(i) < s(j))
    <3> SUFFICES ASSUME NEW i \in DOMAIN rows, NEW j \in DOMAIN rows
                 PROVE  T!Before(rows[i], rows[j], column, direction) <=> x(i) < x(j) \/ (x(i) = x(j) /\ s(i) < s(j))
      OBVIOUS
    <3>1. x(i) \in Int /\ x(j) \in Int
      BY <1>1, <1>4
    <3> QED
      BY <1>4, <3>1 DEF T!Before
  <2>2. \A i \in DOMAIN rows : s(i) \in Int /\ x(i) \in Int
    BY <1>1, <1>4
  <2>3. \A i, j \in DOMAIN rows : i # j => s(i) # s(j)
    BY <1>2
  <2> HIDE DEF s, x
  <2> QED
    BY <2>1, <2>2, <2>3
<1>5. CASE direction = "descending"
  <2>1. \A i, j \in DOMAIN rows :
           T!Before(rows[i], rows[j], column, direction) <=> x(j) < x(i) \/ (x(i) = x(j) /\ s(i) < s(j))
    <3> SUFFICES ASSUME NEW i \in DOMAIN rows, NEW j \in DOMAIN rows
                 PROVE  T!Before(rows[i], rows[j], column, direction) <=> x(j) < x(i) \/ (x(i) = x(j) /\ s(i) < s(j))
      OBVIOUS
    <3>1. x(i) \in Int /\ x(j) \in Int
      BY <1>1, <1>5
    <3> QED
      BY <1>5, <3>1 DEF T!Before
  <2>2. \A i \in DOMAIN rows : s(i) \in Int /\ x(i) \in Int
    BY <1>1, <1>5
  <2>3. \A i, j \in DOMAIN rows : i # j => s(i) # s(j)
    BY <1>2
  <2> HIDE DEF s, x
  <2> QED
    BY <2>1, <2>2, <2>3
<1> QED
  BY <1>3, <1>4, <1>5 DEF Sorts, T!Directions

(* table.js's sortBody: each row once, in the order asked for. *)
LEMMA SortBodySorts ==
  ASSUME NEW table \in Tables, NEW rows, Draws(rows, table),
         NEW column, NEW direction, Sorts(table, column, direction)
  PROVE  /\ Draws(T!sortBody(rows, column, direction), table)
         /\ AllNumbered(T!sortBody(rows, column, direction))
         /\ InOrder(T!sortBody(rows, column, direction), column, direction)
<1> DEFINE new == T!Numbered(rows)
           D == DOMAIN rows
           n == Len(rows)
           sooner == {e \in D \X D : T!Before(new[e[1]], new[e[2]], column, direction)}
           place == PlacesIn(n, sooner)
           at == ByPlace(n, place)
           sorted == T!sortBody(rows, column, direction)
<1>1. n \in Nat /\ D = 1 .. n /\ rows \in Rows(table.cols) /\ n = Len(table.rows)
  BY DEF Draws, Rows
<1>2. Draws(new, table) /\ AllNumbered(new) /\ DOMAIN new = D
  BY NumberedDraws
<1>3. \A i, j \in D : <<i, j>> \in sooner <=> T!Before(new[i], new[j], column, direction)
  OBVIOUS
<1>4. StrictOrder(n, sooner)
  <2> HIDE DEF new, D, sooner
  <2>1. /\ \A i \in D : <<i, i>> \notin sooner
        /\ \A i, j \in D : i # j => <<i, j>> \in sooner \/ <<j, i>> \in sooner
        /\ \A i, j, k \in D : <<i, j>> \in sooner /\ <<j, k>> \in sooner => <<i, k>> \in sooner
    BY <1>2, <1>3, BeforeOrders
  <2> QED
    BY <1>1, <2>1 DEF StrictOrder
<1>5. Arranges(n, sooner, at)
  <2> HIDE DEF n, sooner
  <2> QED
    BY <1>1, <1>4, PlacesArrange
<1>6. sorted = [k \in D |-> new[at[k]]]
  <2> DEFINE Sooner(j, i) == IF j < i THEN ~T!Before(new[i], new[j], column, direction)
                                      ELSE T!Before(new[j], new[i], column, direction)
             count == [i \in D |-> T!Cardinality({j \in D : Sooner(j, i)})]
  <2>1. sorted = [k \in D |-> new[CHOOSE i \in D : count[i] = k - 1]]
    BY DEF T!sortBody
  <2>2. \A i, j \in D : Sooner(j, i) <=> <<j, i>> \in sooner
    <3> HIDE DEF sooner, new, n
    <3>1. /\ \A i \in D : <<i, i>> \notin sooner
          /\ \A i, j \in D : i # j => <<i, j>> \in sooner \/ <<j, i>> \in sooner
          /\ \A i, j, k \in D : <<i, j>> \in sooner /\ <<j, k>> \in sooner => <<i, k>> \in sooner
      BY <1>1, <1>4 DEF StrictOrder
    <3> SUFFICES ASSUME NEW i \in D, NEW j \in D PROVE Sooner(j, i) <=> <<j, i>> \in sooner
      OBVIOUS
    <3>2. i \in Int /\ j \in Int
      BY <1>1
    <3> HIDE DEF D
    <3>3. CASE j < i
      <4>1. i # j
        BY <3>2, <3>3
      <4>2. <<i, j>> \notin sooner <=> <<j, i>> \in sooner
        BY <3>1, <4>1
      <4> QED
        BY <1>3, <3>3, <4>2
    <3>4. CASE ~(j < i)
      BY <1>3, <3>4
    <3> QED
      BY <3>3, <3>4
  <2>3. \A i \in D : {j \in D : Sooner(j, i)} = {j \in D : <<j, i>> \in sooner}
    <3> HIDE DEF sooner, Sooner, D
    <3> SUFFICES ASSUME NEW i \in D
                 PROVE  {j \in D : Sooner(j, i)} = {j \in D : <<j, i>> \in sooner}
      OBVIOUS
    <3> QED
      BY <2>2, Zenon
  <2>4. \A S : T!Cardinality(S) = Cardinality(S)
    BY DEF T!Cardinality, Cardinality
  <2>5. count = place
    <3> HIDE DEF sooner, Sooner, n
    <3>1. count = [i \in D |-> Cardinality({j \in D : <<j, i>> \in sooner})]
      BY <2>3, <2>4
    <3> QED
      BY <1>1, <3>1 DEF PlacesIn
  <2>6. \A k \in D : at[k] = CHOOSE i \in D : place[i] = k - 1
    <3> HIDE DEF place, n
    <3> QED
      BY <1>1 DEF ByPlace
  <2> HIDE DEF count, place, at, sorted, new
  <2> QED
    BY <2>1, <2>5, <2>6
<1>7. \A k, l \in D : k < l => T!Before(sorted[k], sorted[l], column, direction)
  <2> HIDE DEF sooner, at, sorted, new, n
  <2> QED
    BY <1>1, <1>3, <1>5, <1>6 DEF Arranges
<1>8. \A k \in D : at[k] \in D /\ sorted[k] = new[at[k]]
  <2> HIDE DEF sooner, at, sorted, new, n
  <2> QED
    BY <1>1, <1>5, <1>6 DEF Arranges
<1>9. sorted \in Rows(table.cols) /\ Len(sorted) = n /\ DOMAIN sorted = D
  <2> HIDE DEF at, sorted, new, n
  <2>1. new \in Rows(table.cols) /\ Len(new) = n /\ DOMAIN new = 1 .. n
    BY <1>1, <1>2 DEF Draws
  <2>2. \A k \in 1 .. n : new[at[k]] \in Row(table.cols)
    BY <1>1, <1>8, <2>1, ElementOfSeq DEF Rows
  <2>3. sorted = [k \in 1 .. n |-> new[at[k]]]
    BY <1>1, <1>6
  <2> QED
    BY <1>1, <2>2, <2>3 DEF Rows
<1>10. AllNumbered(sorted) /\ \A k \in D : Place(sorted, k) = Place(new, at[k]) /\ sorted[k].cells = new[at[k]].cells
  <2> HIDE DEF at, sorted, new, n
  <2> QED
    BY <1>2, <1>8, <1>9 DEF AllNumbered, Place
<1>11. \A i \in D : \E k \in D : at[k] = i
  <2> HIDE DEF sooner, at, n
  <2> QED
    BY <1>1, <1>5 DEF Arranges
<1>12. \A k, l \in D : at[k] = at[l] => k = l
  <2> HIDE DEF sooner, at, n
  <2>1. \A k, l \in D : k < l \/ l < k \/ k = l
    BY <1>1
  <2>2. \A k, l \in D : k < l => at[k] # at[l]
    BY <1>1, <1>5, <1>4 DEF Arranges, StrictOrder
  <2> QED
    BY <2>1, <2>2
<1>13. Draws(sorted, table)
  <2> HIDE DEF at, sorted, new, n, D
  <2>1. /\ \A i \in D : Place(new, i) \in DOMAIN table.rows /\ new[i].cells = table.rows[Place(new, i)]
        /\ \A i, j \in D : Place(new, i) = Place(new, j) => i = j
        /\ \A k \in DOMAIN table.rows : \E i \in D : Place(new, i) = k
    BY <1>2 DEF Draws
  <2>2. \A k \in D : Place(sorted, k) \in DOMAIN table.rows /\ sorted[k].cells = table.rows[Place(sorted, k)]
    BY <1>8, <1>10, <2>1
  <2>3. \A k, l \in D : Place(sorted, k) = Place(sorted, l) => k = l
    BY <1>8, <1>10, <1>12, <2>1
  <2>4. \A k \in DOMAIN table.rows : \E i \in D : Place(sorted, i) = k
    <3> SUFFICES ASSUME NEW k \in DOMAIN table.rows PROVE \E i \in D : Place(sorted, i) = k
      OBVIOUS
    <3>1. PICK i \in D : Place(new, i) = k
      BY <2>1
    <3>2. PICK m \in D : at[m] = i
      BY <1>11
    <3> QED
      BY <1>10, <3>1, <3>2
  <2> QED
    BY <1>1, <1>9, <2>2, <2>3, <2>4 DEF Draws
<1>14. InOrder(sorted, column, direction)
  BY <1>7, <1>9 DEF InOrder
<1> QED
  BY <1>10, <1>13, <1>14

(***************************************************************************)
(* What is drawn, in the terms of SortKept.                                *)
(***************************************************************************)
ServedOrder(rows) == \A i, j \in DOMAIN rows : i < j => Place(rows, i) < Place(rows, j)

Ordered(rows, column, direction) ==
    \A i, j \in DOMAIN rows :
        i < j =>
            \/ IF direction = "ascending" THEN rows[i].cells[column] < rows[j].cells[column]
                                          ELSE rows[i].cells[column] > rows[j].cells[column]
            \/ rows[i].cells[column] = rows[j].cells[column] /\ Place(rows, i) < Place(rows, j)

Shown(rows, column, direction) ==
    IF direction = "none" THEN ServedOrder(rows) ELSE Ordered(rows, column, direction)

LEMMA SortBodyShows ==
  ASSUME NEW table \in Tables, NEW rows, Draws(rows, table),
         NEW column, NEW direction, Sorts(table, column, direction)
  PROVE  /\ Draws(T!sortBody(rows, column, direction), table)
         /\ Shown(T!sortBody(rows, column, direction), column, direction)
<1> DEFINE sorted == T!sortBody(rows, column, direction)
<1>1. Draws(sorted, table) /\ AllNumbered(sorted) /\ InOrder(sorted, column, direction)
  BY SortBodySorts
<1> SUFFICES Draws(sorted, table) /\ Shown(sorted, column, direction)
  OBVIOUS
<1> HIDE DEF sorted
<1>2. \A i \in DOMAIN sorted : Place(sorted, i) = sorted[i].served
  BY <1>1 DEF AllNumbered, Place
<1>3. CASE direction = "none"
  <2>1. \A p, q : T!Before(p, q, column, direction) => p.served < q.served
    BY <1>3 DEF T!Before
  <2>2. \A i, j \in DOMAIN sorted : i < j => sorted[i].served < sorted[j].served
    BY <1>1, <2>1 DEF InOrder
  <2>3. ServedOrder(sorted)
    BY <1>2, <2>2 DEF ServedOrder
  <2> QED
    BY <1>1, <1>3, <2>3 DEF Shown
<1>4. CASE direction # "none"
  <2>1. \A p, q : T!Before(p, q, column, direction) =>
           \/ IF direction = "ascending" THEN p.cells[column] < q.cells[column] ELSE p.cells[column] > q.cells[column]
           \/ p.cells[column] = q.cells[column] /\ p.served < q.served
    BY <1>4 DEF T!Before
  <2>2. \A i, j \in DOMAIN sorted : i < j =>
           \/ IF direction = "ascending" THEN sorted[i].cells[column] < sorted[j].cells[column]
                                         ELSE sorted[i].cells[column] > sorted[j].cells[column]
           \/ sorted[i].cells[column] = sorted[j].cells[column] /\ sorted[i].served < sorted[j].served
    BY <1>1, <2>1 DEF InOrder
  <2>3. Ordered(sorted, column, direction)
    BY <1>2, <2>2 DEF Ordered
  <2> QED
    BY <1>1, <1>4, <2>3 DEF Shown
<1> QED
  BY <1>3, <1>4

LEMMA FreshServed ==
  ASSUME NEW table \in Tables
  PROVE  ServedOrder(T!Fresh(table)) /\ ServedOrder(T!Numbered(T!Fresh(table)))
<1>1. \A i \in DOMAIN T!Fresh(table) : Place(T!Fresh(table), i) = i
  BY DEF Place, T!Fresh, T!Unnumbered
<1>2. Draws(T!Fresh(table), table)
  BY FreshDraws
<1> QED
  BY <1>1, <1>2, NumberedDraws DEF ServedOrder

(***************************************************************************)
(* What holds of a table in every state: the headers say the reader's sort *)
(* and the body is in its order, where its column is there.                *)
(***************************************************************************)
Choices == [column : UNION {t.cols : t \in Tables}, direction : {"ascending", "descending"}]

InUse(c) == chosen # NoValue /\ chosen.column = c

TableInv ==
    /\ site \in Tables /\ source \in Tables
    /\ fetch = "back" => answer \in Tables
    /\ chosen \in Choices \cup {NoValue} /\ kept \in Choices \cup {NoValue}
    /\ ariaSort = [c \in source.cols |-> IF InUse(c) THEN chosen.direction ELSE "none"]
    /\ Draws(body, source)
    /\ IF \E c \in source.cols : InUse(c) THEN Ordered(body, chosen.column, chosen.direction)
                                          ELSE ServedOrder(body)

LEMMA NoChoice == \A want \in Choices : want # NoValue /\ want.direction \in T!Directions \ {"none"}
  BY TablesAssumption DEF Choices, T!Directions

LEMMA TableInit == T!Init => TableInv
<1> SUFFICES ASSUME T!Init PROVE TableInv
  OBVIOUS
<1>1. /\ site \in Tables /\ source = site /\ body = T!Numbered(T!Fresh(site))
      /\ ariaSort = [c \in site.cols |-> "none"] /\ chosen = NoValue /\ kept = NoValue /\ fetch = "no"
  BY DEF T!Init, T!AllNone
<1>2. Draws(body, source) /\ ServedOrder(body)
  BY <1>1, FreshDraws, NumberedDraws, FreshServed
<1> QED
  BY <1>1, <1>2 DEF TableInv, InUse

(* Whatever is sorted, the headers say it. *)
LEMMA SortedKeeps ==
  ASSUME NEW table \in Tables, NEW rows, Draws(rows, table), NEW column, NEW direction,
         Sorts(table, column, direction),
         source' = table, body' = T!sortBody(rows, column, direction),
         ariaSort' = [T!AllNone(table.cols) EXCEPT ![column] = direction],
         chosen' \in Choices \cup {NoValue},
         IF direction = "none" THEN chosen' = NoValue \/ chosen'.column \notin table.cols
                               ELSE chosen' = [column |-> column, direction |-> direction]
  PROVE  /\ ariaSort' = [c \in source'.cols |-> IF InUse(c)' THEN chosen'.direction ELSE "none"]
         /\ Draws(body, source)'
         /\ IF \E c \in source'.cols : InUse(c)' THEN Ordered(body', chosen'.column, chosen'.direction)
                                                 ELSE ServedOrder(body)'
<1>1. Draws(body', table) /\ Shown(body', column, direction)
  BY SortBodyShows
<1>2. ariaSort' = [c \in table.cols |-> IF c = column THEN direction ELSE "none"]
  BY DEF T!AllNone
<1>3. CASE direction = "none"
  <2>1. \A c \in table.cols : ~InUse(c)'
    BY <1>3 DEF InUse
  <2>2. ariaSort' = [c \in table.cols |-> "none"]
    BY <1>2, <1>3
  <2> QED
    BY <1>1, <1>3, <2>1, <2>2 DEF Shown
<1>4. CASE direction # "none"
  <2>1. column \in table.cols /\ chosen' # NoValue
    <3>1. column \in table.cols /\ direction \in T!Directions
      BY <1>4 DEF Sorts
    <3>2. chosen' = [column |-> column, direction |-> direction]
      BY <1>4
    <3>3. chosen' \in [column : UNION {t.cols : t \in Tables}, direction : T!Directions]
      BY <3>1, <3>2
    <3> QED
      BY <3>1, <3>3, TablesAssumption
  <2>2. \A c : InUse(c)' <=> c = column
    BY <1>4, <2>1 DEF InUse
  <2>3. chosen'.column = column /\ chosen'.direction = direction
    BY <1>4
  <2> QED
    BY <1>1, <1>2, <1>4, <2>1, <2>2, <2>3 DEF Shown
<1> QED
  BY <1>3, <1>4

(* A table drawn anew, in the order the reader is left with. *)
LEMMA EnhanceKeeps ==
  ASSUME TableInv, NEW table \in Tables, T!enhance(table, chosen'), chosen' \in Choices \cup {NoValue},
         site' \in Tables, fetch' # "back", kept' \in Choices \cup {NoValue}
  PROVE  TableInv'
<1> DEFINE there == chosen' # NoValue /\ chosen'.column \in table.cols
           column == IF there THEN chosen'.column ELSE CHOOSE c \in table.cols : TRUE
           direction == IF there THEN chosen'.direction ELSE "none"
<1>1. /\ source' = table
      /\ ariaSort' = [T!AllNone(table.cols) EXCEPT ![column] = direction]
      /\ body' = T!sortBody(T!Fresh(table), column, direction)
  BY DEF T!enhance
<1>2. Sorts(table, column, direction)
  BY NoChoice DEF Sorts
<1>3. direction = "none" => chosen' = NoValue \/ chosen'.column \notin table.cols
  BY NoChoice
<1>4. direction # "none" => chosen' = [column |-> column, direction |-> direction]
  BY DEF Choices
<1>5. Draws(T!Fresh(table), table)
  BY FreshDraws
<1> HIDE DEF column, direction
<1>6. /\ ariaSort' = [c \in source'.cols |-> IF InUse(c)' THEN chosen'.direction ELSE "none"]
      /\ Draws(body, source)'
      /\ IF \E c \in source'.cols : InUse(c)' THEN Ordered(body', chosen'.column, chosen'.direction)
                                              ELSE ServedOrder(body)'
  BY <1>1, <1>2, <1>3, <1>4, <1>5, SortedKeeps
<1> QED
  BY <1>1, <1>6 DEF TableInv

(* A press of a header's button. *)
LEMMA ClickKeeps ==
  ASSUME TableInv, NEW column \in source.cols, T!Click(column)
  PROVE  TableInv'
<1> DEFINE next == T!NextDirection(ariaSort[column])
<1>1. /\ ariaSort' = [T!AllNone(source.cols) EXCEPT ![column] = next]
      /\ body' = T!sortBody(body, column, next)
      /\ chosen' = IF next = "none" THEN NoValue ELSE [column |-> column, direction |-> next]
      /\ kept' = IF storage THEN chosen' ELSE kept
      /\ UNCHANGED <<site, source, fetch, answer>>
  BY DEF T!Click, T!refresh
<1>2. next \in T!Directions
  BY DEF T!NextDirection, T!Directions
<1>3. /\ site \in Tables /\ source \in Tables /\ Draws(body, source) /\ (fetch = "back" => answer \in Tables)
      /\ kept \in Choices \cup {NoValue}
  BY DEF TableInv
<1> HIDE DEF next
<1>4. Sorts(source, column, next)
  BY <1>2 DEF Sorts
<1>5. chosen' \in Choices \cup {NoValue}
  BY <1>1, <1>2, <1>3 DEF Choices, T!Directions
<1>6. /\ ariaSort' = [c \in source'.cols |-> IF InUse(c)' THEN chosen'.direction ELSE "none"]
      /\ Draws(body, source)'
      /\ IF \E c \in source'.cols : InUse(c)' THEN Ordered(body', chosen'.column, chosen'.direction)
                                              ELSE ServedOrder(body)'
  BY <1>1, <1>3, <1>4, <1>5, SortedKeeps
<1> QED
  BY <1>1, <1>3, <1>5, <1>6 DEF TableInv

(* The switch page's rows: the headers of the table before tell the order, and they say the reader's. *)
LEMMA RowsDrawnKeeps ==
  ASSUME TableInv, T!RowsDrawn
  PROVE  TableInv'
<1>1. /\ site.cols = source.cols /\ source' = site /\ body' = T!resort(T!Fresh(site))
      /\ UNCHANGED <<site, ariaSort, chosen, kept, fetch, answer>>
  BY DEF T!RowsDrawn, T!refresh
<1>2. site \in Tables /\ (fetch = "back" => answer \in Tables)
      /\ chosen \in Choices \cup {NoValue} /\ kept \in Choices \cup {NoValue}
      /\ ariaSort = [c \in source.cols |-> IF InUse(c) THEN chosen.direction ELSE "none"]
  BY DEF TableInv
<1>3. Draws(T!Fresh(site), site) /\ ServedOrder(T!Fresh(site))
  BY <1>2, FreshDraws, FreshServed
<1>4. \A c \in source.cols : ariaSort[c] # "none" <=> InUse(c)
  BY <1>2, NoChoice DEF InUse
<1>5. CASE \E c \in source.cols : InUse(c)
  <2>1. PICK c \in source.cols : InUse(c)
    BY <1>5
  <2>2. chosen # NoValue /\ chosen.column = c /\ chosen \in Choices
    BY <1>2, <2>1 DEF InUse
  <2>3. T!Sorted(source.cols) = {c}
    BY <1>4, <2>1, <2>2 DEF T!Sorted, InUse
  <2>4. body' = T!sortBody(T!Fresh(site), c, chosen.direction)
    BY <1>1, <1>2, <2>1, <2>3 DEF T!resort
  <2>5. Sorts(site, c, chosen.direction) /\ chosen.direction # "none"
    BY <1>1, <2>1, <2>2, NoChoice DEF Sorts
  <2>6. Draws(body', site) /\ Ordered(body', c, chosen.direction)
    BY <1>2, <1>3, <2>4, <2>5, SortBodyShows DEF Shown
  <2> QED
    BY <1>1, <1>2, <1>5, <2>2, <2>6 DEF TableInv, InUse
<1>6. CASE ~(\E c \in source.cols : InUse(c))
  <2>1. T!Sorted(source.cols) = {}
    BY <1>4, <1>6 DEF T!Sorted
  <2>2. body' = T!Fresh(site)
    BY <1>1, <2>1 DEF T!resort
  <2> QED
    BY <1>1, <1>2, <1>3, <1>6, <2>2 DEF TableInv, InUse
<1> QED
  BY <1>5, <1>6

LEMMA TableStepKeeps ==
  ASSUME TableInv, [T!Next]_(T!vars)
  PROVE  TableInv'
<1>1. ASSUME NEW c \in source.cols, T!Click(c)
      PROVE  TableInv'
  BY <1>1, ClickKeeps
<1>2. CASE T!Reload
  <2>1. /\ chosen' = kept /\ T!enhance(site, chosen') /\ fetch' = "no" /\ UNCHANGED <<site, kept>>
    BY <1>2 DEF T!Reload
  <2>2. site \in Tables /\ kept \in Choices \cup {NoValue}
    BY DEF TableInv
  <2> QED
    BY <2>1, <2>2, EnhanceKeeps
<1>3. CASE T!Swapped
  <2>1. /\ fetch = "back" /\ chosen' = chosen /\ T!enhance(answer, chosen') /\ fetch' = "no"
        /\ UNCHANGED <<site, kept>>
    BY <1>3 DEF T!Swapped
  <2>2. site \in Tables /\ answer \in Tables /\ chosen \in Choices \cup {NoValue} /\ kept \in Choices \cup {NoValue}
    BY <2>1 DEF TableInv
  <2> QED
    BY <2>1, <2>2, EnhanceKeeps
<1>4. CASE T!RowsDrawn
  BY <1>4, RowsDrawnKeeps
<1>5. CASE \/ T!tick \/ T!SiteAnswers \/ T!AnswerLost \/ T!Failed
           \/ T!SiteChanges \/ T!SiteTurns \/ UNCHANGED T!vars
  <2>1. UNCHANGED <<source, body, ariaSort, chosen, kept>>
    BY <1>5 DEF T!tick, T!SiteAnswers, T!AnswerLost, T!Failed, T!SiteChanges, T!SiteTurns, T!vars, T!page
  <2>2. site' \in Tables /\ (fetch' = "back" => answer' \in Tables)
    BY <1>5 DEF TableInv, T!tick, T!SiteAnswers, T!AnswerLost, T!Failed, T!SiteChanges, T!SiteTurns, T!vars, T!refresh
  <2> QED
    BY <2>1, <2>2 DEF TableInv, InUse
<1> QED
  BY <1>1, <1>2, <1>3, <1>4, <1>5 DEF T!Next

LEMMA TableInvSorted == TableInv => SortKept
<1> SUFFICES ASSUME TableInv PROVE T!SortKept
  BY DEF SortKept
<1>1. /\ Draws(body, source) /\ source \in Tables
      /\ ariaSort = [c \in source.cols |-> IF InUse(c) THEN chosen.direction ELSE "none"]
      /\ IF \E c \in source.cols : InUse(c) THEN Ordered(body, chosen.column, chosen.direction)
                                            ELSE ServedOrder(body)
  BY DEF TableInv
<1>2. \A c : T!Chose(c) <=> InUse(c)
  BY DEF T!Chose, InUse
<1>3. \A i : T!Served(i) = Place(body, i)
  BY DEF T!Served, Place
<1>4. \A c \in source.cols : ariaSort[c] = IF T!Chose(c) THEN chosen.direction ELSE "none"
  BY <1>1, <1>2
<1>5. Len(body) = Len(source.rows) /\ \A i \in DOMAIN body : body[i].cells = source.rows[T!Served(i)]
  BY <1>1, <1>3 DEF Draws
<1>6. {T!Served(i) : i \in DOMAIN body} = DOMAIN source.rows
  BY <1>1, <1>3 DEF Draws
<1>7. \A i, j \in DOMAIN body :
         i < j =>
           IF \E c \in source.cols : T!Chose(c)
             THEN \/ IF chosen.direction = "ascending"
                       THEN body[i].cells[chosen.column] < body[j].cells[chosen.column]
                       ELSE body[i].cells[chosen.column] > body[j].cells[chosen.column]
                  \/ /\ body[i].cells[chosen.column] = body[j].cells[chosen.column]
                     /\ T!Served(i) < T!Served(j)
             ELSE T!Served(i) < T!Served(j)
  BY <1>1, <1>2, <1>3 DEF Ordered, ServedOrder
<1> QED
  BY <1>4, <1>5, <1>6, <1>7 DEF T!SortKept

(* table.js's enhance, resort and refresh: whatever the reader presses while a refresh is on its way, whatever columns
   come and go, the rows drawn are those served, each once, in the reader's order, and the headers say so. *)
THEOREM TableStaysSorted == T!Spec => []SortKept
  BY TableInit, TableStepKeeps, TableInvSorted, PTL DEF T!Spec

(***************************************************************************)
(* The pages together: each script keeps what it keeps alone.              *)
(***************************************************************************)
LEMMA PagesStep ==
  ASSUME [PagesNext]_pageVars
  PROVE  [Next]_vars /\ [GalleryNext]_galleryVars /\ [T!Next]_(T!vars) /\ [VideoNext]_videoVars
<1>1. CASE UNCHANGED pageVars
  BY <1>1 DEF pageVars, tableVars, T!vars
<1>2. CASE OnSocket(Next) \/ InGallery(GalleryNext) \/ OnTable(T!Next)
  BY <1>2 DEF tableVars, OnSocket, InGallery, OnTable, T!vars
<1>3. CASE OnVideo(LiveSteps) \/ OnBox(Box!Next)
  BY <1>3 DEF tableVars, OnVideo, OnBox, VideoNext, BoxSteps, T!vars
<1> QED
  BY <1>1, <1>2, <1>3 DEF PagesNext

THEOREM PagesKeepScripts == PagesSpec => Spec /\ GallerySpec /\ T!Spec /\ VideoSpec
<1>1. PagesInit => Init /\ GalleryInit /\ T!Init /\ VideoInit
  BY DEF PagesInit
<1> QED
  BY <1>1, PagesStep, PTL DEF PagesSpec, Spec, GallerySpec, T!Spec, VideoSpec

(* What the runs check of the scripts, of the pages together: on a board page the status socket comes back, its
   backoff holds and its queue is kept, the gallery's cache is explained and its buttons are freed, the live view is
   shown over an open connection of a running reader and never next to the box, and on a management page the table stays
   sorted. *)
THEOREM PagesKeepAll ==
    PagesSpec => /\ []ComingBack /\ BackoffHeld /\ KeepsOutbox
                 /\ []CacheTrue /\ []ButtonsFreed /\ []SortKept
                 /\ []LiveIsOpen /\ []OnlyRunningConnects /\ []OnePicture /\ []BoxIsAsked /\ KeepsBox
  BY PagesKeepScripts, AlwaysComingBack, BackoffIsHeld, SocketKeepsOutbox, CacheIsTrue, ButtonsAreFreed,
     TableStaysSorted, LiveViewIsOpen, NoLateConnection, OnePictureShown, BoxIsAskedAbout, KeepsItsBox, PTL

=============================================================================
