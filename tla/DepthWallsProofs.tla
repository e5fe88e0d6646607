--------------------------- MODULE DepthWallsProofs ---------------------------
(***************************************************************************)
(* What the wall tracker, the order book and the shadow lane promise each   *)
(* other, for every set of sizes and thresholds and every configuration of  *)
(* the clocks.                                                              *)
(*                                                                         *)
(* The argument: on its connection a valid tracker is in step with a usable *)
(* book, in size and in time, and its candidate began no earlier than the   *)
(* wall really stood (InStep).  The application has a copy of a wall only   *)
(* while such a tracker is past its reconnect warm-up, so that no message   *)
(* can empty it under the copy (Copied).                                    *)
(***************************************************************************)
EXTENDS DepthWalls, TLAPS

(* The tracker knows the book of this connection.                           *)
Tracking == dom # None /\ dom.valid /\ dom.connection = connection /\ book.ready

InStep ==
  Tracking =>
    /\ dom.size = book.size /\ dom.seen = book.at /\ book.at # None
    /\ dom.first # None => stood # None /\ stood <= dom.first

Settled(c) == c.connection = connection /\ (c.reason # "reconnect" \/ now >= c.until)

Copied ==
  wall # None =>
    /\ Tracking /\ Settled(clock)
    /\ wall.quality = "observed" => wall.remaining = book.size /\ wall.remaining > 0

(* Connections are numbered from one, and the book is used on one only.     *)
Connections ==
  /\ connected => connection > 0
  /\ ~connected => connection <= MaxFaults
  /\ book.ready => connected

(* What is said of the past lies in it.                                     *)
Past ==
  /\ stood # None => stood <= now
  /\ readySince # None => readySince <= now
  /\ traded # None => \E t \in Nat : traded = BucketOf(t)

(* The lane forgets walls from before it was ready.                         *)
Seeding ==
  /\ shadowActive => readySince # None
  /\ shadowActive /\ wall # None => wall.told >= readySince

WallInv ==
  /\ TypeOK /\ Connections /\ Past
  /\ InStep /\ Copied /\ Seeding
  /\ AnnouncedStood /\ NoSeedBeforeReady

-----------------------------------------------------------------------------
(* A multiple of b below another is below it by b at least.                 *)
LEMMA Multiples ==
  ASSUME NEW b \in Nat \ {0}, NEW q \in Nat, NEW r \in Nat, b * q < b * r
  PROVE  b * q + b <= b * r
<1>1. q < r
  <2>1. SUFFICES ASSUME r <= q PROVE FALSE
    OBVIOUS
  <2>2. PICK k \in Nat : q = r + k
    <3>1. q - r \in Nat /\ q = r + (q - r)
      BY <2>1
    <3> QED
      BY <3>1
  <2>3. b * q = b * r + b * k
    BY <2>2
  <2>4. b * k \in Nat /\ b * r \in Nat
    OBVIOUS
  <2> QED
    BY <2>3, <2>4
<1>2. PICK k \in Nat : r = q + 1 + k
  <2>1. r - q - 1 \in Nat /\ r = q + 1 + (r - q - 1)
    BY <1>1
  <2> QED
    BY <2>1
<1>3. b * r = b * q + b + b * k
  BY <1>2
<1>4. b * k \in Nat /\ b * q \in Nat
  OBVIOUS
<1> QED
  BY <1>3, <1>4

(* A bucket opens no later than the times in it, at a multiple of its       *)
(* length.                                                                  *)
LEMMA BucketIs ==
  ASSUME NEW t \in Nat
  PROVE  /\ BucketOf(t) \in 0..t /\ t < BucketOf(t) + BarLength
         /\ BucketOf(t) = BarLength * (t \div BarLength) /\ t \div BarLength \in Nat
<1>1. BarLength \in Nat \ {0}
  BY DepthAssumption
<1>2. /\ t \div BarLength \in Nat
      /\ t % BarLength \in 0..(BarLength - 1)
      /\ t = BarLength * (t \div BarLength) + (t % BarLength)
  BY <1>1
<1>3. BarLength * (t \div BarLength) \in Nat
  BY <1>1, <1>2
<1> QED
  BY <1>2, <1>3, <1>1 DEF BucketOf

LEMMA BucketNext ==
  ASSUME NEW s \in Nat, NEW t \in Nat, BucketOf(s) < BucketOf(t)
  PROVE  BucketOf(s) + BarLength <= BucketOf(t)
<1>1. BarLength \in Nat \ {0}
  BY DepthAssumption
<1>2. /\ BucketOf(s) = BarLength * (s \div BarLength) /\ s \div BarLength \in Nat
      /\ BucketOf(t) = BarLength * (t \div BarLength) /\ t \div BarLength \in Nat
  BY BucketIs
<1> QED
  BY <1>1, <1>2, Multiples

(* A footprint that a message completes closed no later than that message.  *)
LEMMA FlushedClosed ==
  ASSUME TypeOK, Past, Flushable
  PROVE  traded \in Times /\ traded + BarLength \in Times
<1>1. traded # None /\ traded \in Times /\ now \in Nat /\ now <= MaxTime /\ MaxTime \in Nat
  BY DepthAssumption DEF TypeOK, Flushable, Times
<1>2. PICK t \in Nat : traded = BucketOf(t)
  BY <1>1 DEF Past
<1>3. BucketOf(now) \in 0..now
  BY <1>1, BucketIs
<1>4. traded + BarLength <= BucketOf(now)
  BY <1>1, <1>2, BucketNext DEF Flushable
<1> QED
  BY <1>1, <1>3, <1>4, DepthAssumption DEF Times
-----------------------------------------------------------------------------
(* FeedClock.observe belongs to the connection of the message, and a clock  *)
(* past its reconnect warm-up stays past it on that connection.             *)
LEMMA Observes ==
  ASSUME TypeOK, connection > 0, NEW snapshot \in BOOLEAN
  PROVE  /\ Observing(snapshot) \in Clock
         /\ Observing(snapshot).connection = connection
         /\ ~snapshot /\ Settled(clock) => Settled(Observing(snapshot))
<1> USE DepthAssumption
<1>1. /\ now \in Times /\ now \in Nat /\ MaxTime \in Nat /\ now <= MaxTime
      /\ clock.connection \in 0..(MaxFaults + 1) /\ clock.last \in Times \cup {None}
      /\ clock.until \in 0..(MaxTime + Warmup) /\ clock.reason \in {"none", "reconnect", "gap", "snapshot"}
      /\ connection \in 0..(MaxFaults + 1)
  BY DEF TypeOK, Clock, Times
<1>2. now + Warmup \in 0..(MaxTime + Warmup)
  BY <1>1
<1>3. Observing(snapshot) \in Clock /\ Observing(snapshot).connection = connection
  BY <1>1, <1>2 DEF Observing, Clock
<1>4. ASSUME ~snapshot, Settled(clock) PROVE Settled(Observing(snapshot))
  <2>1. connection \in Nat /\ ~(clock.connection \notin {0, connection})
    BY <1>1, <1>4 DEF Settled
  <2>2. \/ Observing(snapshot).reason = "gap"
        \/ Observing(snapshot).reason = clock.reason /\ Observing(snapshot).until = clock.until
    BY <1>4, <2>1 DEF Observing
  <2> QED
    BY <1>3, <1>4, <2>2 DEF Settled
<1> QED
  BY <1>3, <1>4

(* The head of DomTracker.process: what it lets a message find is of the    *)
(* message's connection; it is invalid, or the tracker as it was and the    *)
(* clock is past its reconnect warm-up.                                     *)
LEMMA Arrives ==
  ASSUME TypeOK, connection > 0, NEW c \in Clock, c.connection = connection
  PROVE  /\ Arriving(c) \in Dom /\ Arriving(c).connection = connection
         /\ \/ ~Arriving(c).valid
            \/ Arriving(c) = dom /\ dom # None /\ Settled(c)
         /\ dom # None /\ dom.connection = connection /\ Settled(c) => Arriving(c) = dom
<1> USE DepthAssumption
<1>1. connection \in 1..(MaxFaults + 1) /\ dom \in Dom \cup {None}
  BY DEF TypeOK
<1>2. NewDom(connection) \in Dom /\ NewDom(connection).connection = connection /\ ~NewDom(connection).valid
  BY <1>1 DEF NewDom, Dom
<1>3. ReasonGiven(c) # "reconnect" <=> c.reason # "reconnect" \/ now >= c.until
  BY DEF ReasonGiven, Clock
<1>4. CASE dom = None
  BY <1>2, <1>4 DEF Arriving
<1>5. CASE dom # None
  BY <1>1, <1>2, <1>3, <1>5 DEF Arriving, Settled
<1> QED
  BY <1>4, <1>5
-----------------------------------------------------------------------------
(* What an evaluation, or none, makes of a wall w while shadow_active is    *)
(* active: it stays or goes, it stays active only with walls told since.    *)
Outcome(w, active) ==
  /\ wall' \in {w, None}
  /\ shadowActive' \in BOOLEAN /\ readySince' \in Times \cup {None}
  /\ touched' \subseteq 0..(MaxTime + BarLength)
  /\ waiting' \in [closing : Times, shape : Shape] \cup {None}
  /\ readySince' # None => readySince' <= now
  /\ shadowActive' => readySince' # None
  /\ shadowActive' /\ wall' # None => active /\ readySince' = readySince
  /\ bounced' # None => active /\ w # None /\ bounced'.told = w.told /\ readySince' = readySince

(* Without an evaluation everything stays as it is.                          *)
LEMMA UnjudgedOutcome ==
  ASSUME TypeOK, Past, NEW w, NEW active \in BOOLEAN,
         active => readySince # None, Unjudged(w, active),
         touched' \subseteq 0..(MaxTime + BarLength),
         waiting' \in [closing : Times, shape : Shape] \cup {None}
  PROVE  Outcome(w, active)
<1>1. wall' = w /\ shadowActive' = active /\ bounced' = None /\ readySince' = readySince
  BY DEF Unjudged
<1>2. /\ readySince \in Times \cup {None}
      /\ readySince # None => readySince <= now
  BY DEF TypeOK, Past
<1>3. readySince' # None => readySince' <= now
  BY <1>1, <1>2
<1>4. /\ shadowActive' => readySince' # None
      /\ shadowActive' /\ wall' # None => active /\ readySince' = readySince
      /\ shadowActive' \in BOOLEAN
  BY <1>1, Zenon
<1> QED
  BY <1>1, <1>2, <1>3, <1>4, Zenon DEF Outcome

LEMMA JudgeOutcome ==
  ASSUME TypeOK, Past, NEW w, NEW active \in BOOLEAN, NEW closing, NEW shape,
         active => readySince # None, Judge(w, active, closing, shape)
  PROVE  /\ wall' \in {w, None} /\ shadowActive' \in BOOLEAN
         /\ readySince' \in Times /\ readySince' <= now
         /\ wall' # None => active /\ readySince' = readySince
         /\ bounced' # None => active /\ w # None /\ bounced'.told = w.told /\ readySince' = readySince
<1>1. now \in Times /\ now \in Nat /\ readySince \in Times \cup {None}
  BY DepthAssumption DEF TypeOK, Times
<1>2. CASE active
  <2>1. Seeds(w, active) = w /\ readySince' = readySince
    BY <1>2 DEF Judge, Seeds
  <2> QED
    BY <1>1, <1>2, <2>1 DEF Judge, Past
<1>3. CASE ~active
  <2>1. Seeds(w, active) = None /\ readySince' = now
    BY <1>3 DEF Judge, Seeds
  <2> QED
    BY <1>1, <2>1 DEF Judge
<1> QED
  BY <1>2, <1>3

LEMMA JudgedOutcome ==
  ASSUME TypeOK, Past, NEW w, NEW active \in BOOLEAN, NEW closing, NEW shape,
         active => readySince # None, Judge(w, active, closing, shape),
         touched' \subseteq 0..(MaxTime + BarLength),
         waiting' \in [closing : Times, shape : Shape] \cup {None}
  PROVE  Outcome(w, active)
<1>1. /\ wall' \in {w, None} /\ shadowActive' \in BOOLEAN
      /\ readySince' \in Times /\ readySince' <= now
      /\ wall' # None => active /\ readySince' = readySince
      /\ bounced' # None => active /\ w # None /\ bounced'.told = w.told /\ readySince' = readySince
  BY JudgeOutcome
<1>2. readySince' # None
  BY <1>1, DepthAssumption DEF Times
<1> QED
  BY <1>1, <1>2, Zenon DEF Outcome

LEMMA CompletingOutcome ==
  ASSUME TypeOK, Past, NEW w, NEW active \in BOOLEAN, NEW kind,
         active => readySince # None, Completing(w, active, kind)
  PROVE  Outcome(w, active)
<1>1. /\ readySince \in Times \cup {None} /\ touched \subseteq 0..(MaxTime + BarLength)
      /\ waiting \in [closing : Times, shape : Shape] \cup {None}
      /\ readySince # None => readySince <= now
  BY DEF TypeOK, Past
<1>2. CASE ~Flushable
  <2>1. touched' = touched /\ Unjudged(w, active)
    BY <1>2, Zenon DEF Completing
  <2>2. waiting' = waiting \/ waiting' = None
    BY <1>2, Zenon DEF Completing
  <2> QED
    BY <1>1, <2>1, <2>2, UnjudgedOutcome
<1>3. CASE Flushable
  <2>1. traded + BarLength \in Times /\ traded + BarLength \in 0..(MaxTime + BarLength)
    <3>1. traded + BarLength \in Times
      BY <1>3, FlushedClosed
    <3> QED
      BY <3>1, DepthAssumption DEF Times
  <2>2. PICK shape \in Shape :
          /\ touched' = IF shape # "away" THEN touched \cup {traded + BarLength} ELSE touched
          /\ \/ waiting' = None /\ Unjudged(w, active)
             \/ waiting' = [closing |-> traded + BarLength, shape |-> shape] /\ Unjudged(w, active)
             \/ waiting' = None /\ Judge(w, active, traded + BarLength, shape)
    BY <1>3 DEF Completing
  <2>3. touched' \subseteq 0..(MaxTime + BarLength)
    BY <1>1, <2>1, <2>2
  <2>4. waiting' \in [closing : Times, shape : Shape] \cup {None}
    BY <2>1, <2>2
  <2>5. CASE Unjudged(w, active)
    BY <2>3, <2>4, <2>5, UnjudgedOutcome
  <2>6. CASE Judge(w, active, traded + BarLength, shape)
    BY <2>3, <2>4, <2>6, JudgedOutcome
  <2> QED
    BY <2>2, <2>5, <2>6
<1> QED
  BY <1>2, <1>3

LEMMA DeferredOutcome ==
  ASSUME TypeOK, Past, Seeding, Deferred
  PROVE  Outcome(wall, shadowActive)
<1>1. /\ readySince \in Times \cup {None} /\ touched \subseteq 0..(MaxTime + BarLength)
      /\ readySince # None => readySince <= now
      /\ shadowActive \in BOOLEAN /\ (shadowActive => readySince # None)
  BY DEF TypeOK, Past, Seeding
<1>4. /\ touched' \subseteq 0..(MaxTime + BarLength)
      /\ waiting' \in [closing : Times, shape : Shape] \cup {None}
  BY <1>1 DEF Deferred
<1>2. CASE Unjudged(wall, shadowActive)
  BY <1>1, <1>2, <1>4, UnjudgedOutcome
<1>3. CASE Judge(wall, shadowActive, waiting.closing, waiting.shape)
  BY <1>1, <1>3, <1>4, JudgedOutcome
<1> QED
  BY <1>2, <1>3 DEF Deferred
-----------------------------------------------------------------------------
LEMMA DepthInit == Init => WallInv
<1> SUFFICES ASSUME Init PROVE WallInv
  OBVIOUS
<1>1. None \notin Nat /\ 0 \in Times /\ MaxTime \in Nat
  BY DepthAssumption DEF Times
<1>2. NewClock \in Clock
  BY DepthAssumption DEF NewClock, Clock
<1>3. TypeOK
  <2>1. now \in Times /\ connection \in 0..(MaxFaults + 1) /\ touched \subseteq 0..(MaxTime + BarLength)
    BY <1>1, DepthAssumption DEF Init
  <2>2. book \in Book
    BY <1>1, DepthAssumption DEF Init, Book
  <2> QED
    BY <1>2, <2>1, <2>2 DEF Init, TypeOK
<1>4. Connections /\ Past
  BY DepthAssumption DEF Init, Connections, Past
<1>5. InStep /\ Copied /\ Seeding
  BY DEF Init, InStep, Copied, Seeding, Tracking
<1>6. AnnouncedStood /\ NoSeedBeforeReady
  BY DEF Init, AnnouncedStood, NoSeedBeforeReady
<1> QED
  BY <1>3, <1>4, <1>5, <1>6 DEF WallInv

LEMMA TickKeeps == ASSUME WallInv, Tick PROVE WallInv'
<1>1. now' = now + 1 /\ now \in Nat /\ now' \in Times
  BY DepthAssumption DEF WallInv, TypeOK, Tick, Times
<1>2. announced' = None /\ bounced' = None
  BY DEF Tick, Silent
<1>3. TypeOK'
  BY <1>1 DEF WallInv, TypeOK, Tick, Silent, stream
<1>4. Connections'
  BY DEF WallInv, Connections, Tick, stream
<1>5. Past'
  <2>1. stood' = stood /\ readySince' = readySince /\ traded' = traded
    BY DEF Tick, Silent
  <2>2. stood \in Times \cup {None} /\ readySince \in Times \cup {None}
    BY DEF WallInv, TypeOK
  <2>3. \A t \in Nat : BucketOf(t)' = BucketOf(t)
    BY DEF BucketOf
  <2> QED
    BY <1>1, <2>1, <2>2, <2>3, DepthAssumption DEF WallInv, Past, Times
<1>6. InStep'
  BY DEF WallInv, InStep, Tracking, Tick, stream
<1>7. Copied'
  <2>1. Settled(clock) => Settled(clock)'
    BY <1>1, DepthAssumption DEF WallInv, TypeOK, Clock, Settled, Tick, stream
  <2> QED
    BY <2>1 DEF WallInv, Copied, Tracking, Tick, stream
<1>8. Seeding'
  BY DEF WallInv, Seeding, Tick, Silent
<1> QED
  BY <1>2, <1>3, <1>4, <1>5, <1>6, <1>7, <1>8 DEF WallInv, AnnouncedStood, NoSeedBeforeReady

LEMMA ConnectKeeps == ASSUME WallInv, Connect PROVE WallInv'
<1>1. /\ connection \in 0..MaxFaults /\ connection \in Nat /\ connection' = connection + 1
      /\ ~book.ready /\ book' = book
  BY DepthAssumption DEF WallInv, TypeOK, Connections, Connect
<1>2. announced' = None /\ bounced' = None
  BY DEF Connect, Silent
<1>3. wall = None /\ wall' = None
  BY <1>1 DEF WallInv, Copied, Tracking, Connect
<1>4. TypeOK'
  BY <1>1, DepthAssumption DEF WallInv, TypeOK, Connect, Silent
<1>5. Connections'
  BY <1>1 DEF Connections, Connect
<1>6. Past'
  <2>1. stood' = stood /\ readySince' = readySince /\ traded' = traded /\ now' = now
    BY DEF Connect, Silent
  <2> QED
    BY <2>1 DEF WallInv, Past, BucketOf
<1>7. InStep' /\ Copied'
  BY <1>1, <1>3 DEF InStep, Copied, Tracking
<1>8. Seeding'
  BY <1>3 DEF WallInv, Seeding, Connect, Silent
<1> QED
  BY <1>2, <1>4, <1>5, <1>6, <1>7, <1>8 DEF WallInv, AnnouncedStood, NoSeedBeforeReady

LEMMA DisconnectKeeps == ASSUME WallInv, Disconnect PROVE WallInv'
<1>1. ~book'.ready /\ book' \in Book /\ wall' = None /\ shadowActive' = FALSE
  BY DEF WallInv, TypeOK, Book, Disconnect
<1>2. announced' = None /\ bounced' = None
  BY DEF Disconnect, Silent
<1>3. TypeOK'
  BY <1>1 DEF WallInv, TypeOK, Disconnect, Silent
<1>4. Connections'
  BY <1>1 DEF WallInv, Connections, Disconnect
<1>5. Past'
  <2>1. stood' = None /\ readySince' = readySince /\ traded' = traded /\ now' = now
    BY DEF Disconnect, Silent
  <2> QED
    BY <2>1 DEF WallInv, Past, BucketOf
<1>6. InStep' /\ Copied' /\ Seeding'
  BY <1>1 DEF InStep, Copied, Tracking, Seeding
<1> QED
  BY <1>2, <1>3, <1>4, <1>5, <1>6 DEF WallInv, AnnouncedStood, NoSeedBeforeReady

(* The bucket that a message leaves is one of a time.                       *)
LEMMA BucketLeft ==
  ASSUME TypeOK, Past, traded' \in {traded, None, BucketOf(now)}
  PROVE  traded' \in Times \cup {None} /\ (traded' # None => \E t \in Nat : traded' = BucketOf(t))
<1>1. now \in Nat /\ now \in Times /\ MaxTime \in Nat
  BY DepthAssumption DEF TypeOK, Times
<1>2. BucketOf(now) \in 0..now
  BY <1>1, BucketIs
<1>3. BucketOf(now) \in Times
  BY <1>1, <1>2 DEF Times
<1> QED
  BY <1>1, <1>3 DEF TypeOK, Past

(* What an outcome leaves of the lane's part of the invariant, if the wall  *)
(* it was asked of is one of this connection or is told now.                *)
LEMMA OutcomeSeeds ==
  ASSUME TypeOK, Past, Seeding, NEW w, NEW active \in BOOLEAN, Outcome(w, active),
         active => shadowActive,
         active /\ w # None => w.told = now \/ (wall # None /\ w.told = wall.told)
  PROVE  Seeding' /\ NoSeedBeforeReady'
<1>1. now \in Nat /\ readySince \in Times \cup {None}
  BY DepthAssumption DEF TypeOK, Times
<1>2. ASSUME active, w # None PROVE readySince # None /\ w.told >= readySince
  <2>0. shadowActive /\ readySince # None
    BY <1>2, Zenon DEF Seeding
  <2>1. readySince <= now /\ readySince \in Nat
    BY <1>1, <2>0, DepthAssumption DEF Past, Times
  <2>2. CASE w.told = now
    BY <1>1, <2>0, <2>1, <2>2
  <2>3. CASE wall # None /\ w.told = wall.told
    BY <2>0, <2>3, Zenon DEF Seeding
  <2> QED
    BY <1>2, <2>2, <2>3
<1>3. Seeding'
  <2>1. shadowActive' => readySince' # None
    BY DEF Outcome
  <2>2. ASSUME shadowActive', wall' # None PROVE wall'.told >= readySince'
    <3>1. active /\ wall' = w /\ w # None /\ readySince' = readySince
      BY <2>2 DEF Outcome
    <3> QED
      BY <1>2, <3>1
  <2> QED
    BY <2>1, <2>2 DEF Seeding
<1>4. NoSeedBeforeReady'
  <2>1. SUFFICES ASSUME bounced' # None PROVE readySince' # None /\ bounced'.told >= readySince'
    BY DEF NoSeedBeforeReady
  <2>2. active /\ w # None /\ bounced'.told = w.told /\ readySince' = readySince
    BY <2>1 DEF Outcome
  <2> QED
    BY <1>2, <2>2
<1> QED
  BY <1>3, <1>4
-----------------------------------------------------------------------------
(* Types of a step that leads to an outcome.                                *)
LEMMA OutcomeTyped ==
  ASSUME TypeOK, Past, NEW w \in Wall \cup {None}, NEW active, Outcome(w, active),
         UNCHANGED <<now, stream>>,
         book' \in Book, snapshotAt' \in Times \cup {None}, dom' \in Dom, clock' \in Clock,
         traded' \in Times \cup {None}, stood' \in Times \cup {None}
  PROVE  TypeOK'
BY DEF TypeOK, Outcome, stream

LEMMA OutcomePast ==
  ASSUME TypeOK, Past, NEW w, NEW active, Outcome(w, active),
         now' = now, traded' \in {traded, None, BucketOf(now)},
         stood' # None => stood' <= now
  PROVE  Past'
<1>1. traded' # None => \E t \in Nat : traded' = BucketOf(t)
  BY BucketLeft
<1>2. \A t \in Nat : BucketOf(t)' = BucketOf(t)
  BY DEF BucketOf
<1>3. readySince' # None => readySince' <= now
  BY DEF Outcome
<1> QED
  BY <1>1, <1>2, <1>3 DEF Past

LEMMA SnapshotKeeps ==
  ASSUME WallInv, NEW size \in Sizes, NEW threshold \in Thresholds, Snapshot(size, threshold)
  PROVE  WallInv'
<1> USE DepthAssumption
<1>1. /\ connected /\ connection > 0 /\ now \in Times /\ now \in Nat
      /\ UNCHANGED <<now, stream>> /\ now' = now /\ connection' = connection
  BY DEF WallInv, TypeOK, Connections, Snapshot, stream, Times
<1>2. clock' \in Clock /\ clock'.connection = connection
  BY <1>1, Observes DEF WallInv, Snapshot
<1>3. Arriving(clock') \in Dom /\ Arriving(clock').connection = connection
  BY <1>1, <1>2, Arrives DEF WallInv
<1>4. /\ dom' \in Dom /\ dom'.connection = connection /\ dom'.valid /\ dom'.size = size /\ dom'.seen = now
      /\ dom'.first = IF Large(size, threshold) THEN now ELSE None
  BY <1>1, <1>3 DEF Snapshot, Seeded, Unproven, Dom
<1>5. /\ book' = [ready |-> TRUE, at |-> now, size |-> size] /\ book' \in Book
      /\ stood' = IF Large(size, threshold) THEN now ELSE None
      /\ snapshotAt' = now /\ announced' = None
  BY <1>1 DEF Snapshot, Replaced, Book
<1>6. traded' \in {traded, None, BucketOf(now)}
  BY DEF Snapshot, Remaining
<1>7. Outcome(None, FALSE)
  BY CompletingOutcome DEF WallInv, Snapshot
<1>8. wall' = None /\ bounced' = None
  BY <1>7 DEF Outcome
<1>9. TypeOK'
  BY <1>1, <1>2, <1>4, <1>5, <1>6, <1>7, BucketLeft, OutcomeTyped DEF WallInv
<1>10. Connections'
  BY <1>1 DEF WallInv, Connections, stream
<1>11. Past'
  <2>1. stood' # None => stood' <= now
    BY <1>1, <1>5
  <2> QED
    BY <1>1, <1>6, <1>7, <2>1, OutcomePast DEF WallInv
<1>12. InStep'
  BY <1>1, <1>4, <1>5 DEF InStep
<1>13. Copied' /\ Seeding'
  BY <1>7, <1>8, Zenon DEF Copied, Seeding, Outcome
<1> QED
  BY <1>5, <1>8, <1>9, <1>10, <1>11, <1>12, <1>13 DEF WallInv, AnnouncedStood, NoSeedBeforeReady

LEMMA TradeKeeps == ASSUME WallInv, Trade PROVE WallInv'
<1> USE DepthAssumption
<1>1. /\ connected /\ connection > 0 /\ now \in Nat
      /\ UNCHANGED <<now, stream>> /\ now' = now /\ connection' = connection
      /\ book' = book /\ stood' = stood /\ snapshotAt' = snapshotAt /\ announced' = None
  BY DEF WallInv, TypeOK, Connections, Trade, stream, Times
<1>2. /\ clock' \in Clock /\ clock'.connection = connection
      /\ Settled(clock) => Settled(clock')
  BY <1>1, Observes DEF WallInv, Trade
<1>3. /\ dom' \in Dom /\ dom'.connection = connection
      /\ ~dom'.valid \/ (dom' = dom /\ dom # None)
      /\ dom # None /\ dom.connection = connection /\ Settled(clock') => dom' = dom
  BY <1>1, <1>2, Arrives DEF WallInv, Trade
<1>4. traded' \in {traded, None, BucketOf(now)}
  BY DEF Trade
<1>5. Outcome(wall, shadowActive)
  <2>1. shadowActive \in BOOLEAN /\ (shadowActive => readySince # None)
    BY DEF WallInv, TypeOK, Seeding
  <2>2. Completing(wall, shadowActive, "trade") \/ Deferred
    BY DEF Trade
  <2> QED
    BY <2>1, <2>2, CompletingOutcome, DeferredOutcome DEF WallInv
<1>6. TypeOK'
  BY <1>1, <1>2, <1>3, <1>4, <1>5, BucketLeft, OutcomeTyped DEF WallInv, TypeOK
<1>7. Connections'
  BY <1>1 DEF WallInv, Connections, stream
<1>8. Past'
  BY <1>1, <1>4, <1>5, OutcomePast DEF WallInv, Past
<1>9. InStep'
  BY <1>1, <1>3 DEF WallInv, InStep, Tracking
<1>10. Copied'
  <2>1. SUFFICES ASSUME wall' # None PROVE Copied'
    BY DEF Copied
  <2>2. wall' = wall /\ wall # None
    BY <1>5, <2>1 DEF Outcome
  <2>3. Tracking /\ Settled(clock)
    BY <2>2 DEF WallInv, Copied
  <2>4. dom' = dom /\ Settled(clock')
    BY <1>2, <1>3, <2>3 DEF Tracking
  <2>5. Settled(clock)'
    BY <1>1, <2>4 DEF Settled
  <2> QED
    BY <1>1, <2>2, <2>3, <2>4, <2>5 DEF WallInv, Copied, Tracking
<1>11. Seeding' /\ NoSeedBeforeReady'
  <2>1. shadowActive \in BOOLEAN
    BY DEF WallInv, TypeOK
  <2> QED
    BY <1>5, <2>1, OutcomeSeeds DEF WallInv
<1> QED
  BY <1>1, <1>6, <1>7, <1>8, <1>9, <1>10, <1>11 DEF WallInv, AnnouncedStood
-----------------------------------------------------------------------------
LEMMA StandingIs ==
  ASSUME TypeOK, NEW e \in Dom, NEW size, NEW threshold, NEW inside
  PROVE  Standing(e, size, threshold, inside) =
           IF ~Large(size, threshold) THEN None ELSE IF e.first = None THEN now ELSE e.first
<1>1. now # None
  BY DepthAssumption DEF TypeOK, Times
<1>2. CASE ~Large(size, threshold)
  BY <1>2 DEF Standing
<1>3. CASE Large(size, threshold)
  BY <1>1, <1>3 DEF Standing, AfterEvent
<1> QED
  BY <1>2, <1>3

(* A delta at a tracker in step: the candidate it leaves began no earlier    *)
(* than the wall has stood.                                                 *)
LEMMA CandidateStood ==
  ASSUME TypeOK, Past, InStep, Tracking, NEW size, NEW threshold, NEW inside,
         stood' = IF ~Large(size, threshold) THEN None
                  ELSE IF stood = None \/ now - book.at > MaxAge THEN now ELSE stood,
         Large(size, threshold)
  PROVE  /\ stood' \in Times /\ stood' <= now
         /\ Standing(Timely(dom), size, threshold, inside) \in Times
         /\ stood' <= Standing(Timely(dom), size, threshold, inside)
<1> USE DepthAssumption
<1>1. /\ now \in Times /\ now \in Nat /\ dom \in Dom /\ stood \in Times \cup {None}
      /\ stood # None => stood <= now
      /\ dom.seen = book.at /\ dom.seen # None
      /\ dom.first # None => stood # None /\ stood <= dom.first
  BY DEF TypeOK, Past, InStep, Tracking, Times
<1>2. dom.first \in Times \cup {None}
  BY <1>1 DEF Dom
<1>3. Timely(dom) \in Dom
  BY <1>1 DEF Timely, Unproven, Dom
<1>4. Standing(Timely(dom), size, threshold, inside) =
        IF Timely(dom).first = None THEN now ELSE Timely(dom).first
  BY <1>3, StandingIs
<1>5. CASE now - book.at > MaxAge
  <2>1. Timely(dom).first = None
    BY <1>1, <1>5 DEF Timely, Unproven, Dom
  <2> QED
    BY <1>1, <1>4, <1>5, <2>1
<1>6. CASE ~(now - book.at > MaxAge)
  <2>1. Timely(dom) = dom
    BY <1>1, <1>6 DEF Timely
  <2>2. stood' = IF stood = None THEN now ELSE stood
    BY <1>6
  <2>3. stood' \in Times /\ stood' <= now
    BY <1>1, <2>2
  <2>4. CASE dom.first = None
    BY <1>1, <1>4, <2>1, <2>3, <2>4
  <2>5. CASE dom.first # None
    BY <1>1, <1>2, <1>4, <2>1, <2>2, <2>3, <2>5
  <2> QED
    BY <2>4, <2>5
<1> QED
  BY <1>5, <1>6

(* A wall in evidence is what a delta of this size leaves of it.            *)
Left(w, size) ==
  /\ w \in Wall \cup {None}
  /\ w # None => /\ w.told = now \/ (wall # None /\ w.told = wall.told)
                 /\ w.quality = "observed" => w.remaining = size /\ size > 0

LEMMA FollowedLeft ==
  ASSUME TypeOK, InStep, Copied, Tracking, NEW size \in Sizes, NEW inside,
         NEW e \in Dom, e.size = dom.size
  PROVE  Left(Followed(e, size, inside), size)
<1>1. /\ wall \in Wall \cup {None} /\ e.size = book.size /\ e.size \in Sizes
      /\ wall # None /\ wall.quality = "observed" => wall.remaining = book.size /\ wall.remaining > 0
      /\ Sizes \subseteq Nat
  BY DepthAssumption DEF TypeOK, InStep, Copied, Dom
<1>2. CASE wall = None
  BY <1>2 DEF Followed, Left
<1>3. CASE wall # None /\ Eventful(e, size, inside)
  <2>1. Followed(e, size, inside) =
          [wall EXCEPT !.remaining = size, !.quality = IF size = 0 THEN "ambiguous" ELSE @]
    BY <1>3 DEF Followed
  <2>2. wall \in Wall
    BY <1>1, <1>3
  <2>3. /\ Followed(e, size, inside) \in Wall
        /\ Followed(e, size, inside).told = wall.told
        /\ Followed(e, size, inside).remaining = size
        /\ Followed(e, size, inside).quality = IF size = 0 THEN "ambiguous" ELSE wall.quality
    BY <2>1, <2>2 DEF Wall
  <2>4. size # 0 => size > 0
    BY <1>1
  <2> QED
    BY <1>3, <2>3, <2>4 DEF Left
<1>4. CASE wall # None /\ ~Eventful(e, size, inside)
  <2>1. Followed(e, size, inside) = wall
    BY <1>4 DEF Followed
  <2>2. wall.quality = "observed" => size = book.size /\ size > 0
    BY <1>1, <1>4 DEF Eventful
  <2> QED
    BY <1>1, <1>4, <2>1, <2>2 DEF Left
<1> QED
  BY <1>2, <1>3, <1>4

LEMMA DeltaKeeps ==
  ASSUME WallInv, NEW size \in Sizes, NEW threshold \in Thresholds, NEW inside \in BOOLEAN,
         Delta(size, threshold, inside)
  PROVE  WallInv'
<1> USE DepthAssumption
<1> DEFINE d == Arriving(clock')
           e == Timely(d)
           since == Standing(e, size, threshold, inside)
           tells == Announces(e, size, threshold, inside)
           told  == [at |-> since, initial |-> size, remaining |-> size, quality |-> "observed", told |-> now]
<1>1. /\ connected /\ connection > 0 /\ now \in Times /\ now \in Nat
      /\ UNCHANGED <<now, stream>> /\ now' = now /\ connection' = connection
      /\ snapshotAt' = snapshotAt /\ snapshotAt \in Times \cup {None}
  BY DEF WallInv, TypeOK, Connections, Delta, stream, Times
<1>2. /\ book \in Book /\ book.ready
      /\ book' = [book EXCEPT !.at = now, !.size = size]
  BY DEF WallInv, TypeOK, Delta, Changed
<1>3. book' \in Book /\ book'.ready /\ book'.at = now /\ book'.size = size
  BY <1>1, <1>2 DEF Book
<1>4. /\ clock' \in Clock /\ clock'.connection = connection
      /\ Settled(clock) => Settled(clock')
  BY <1>1, Observes DEF WallInv, Delta
<1>5. /\ d \in Dom /\ d.connection = connection
      /\ ~d.valid \/ (d = dom /\ dom # None /\ Settled(clock'))
      /\ dom # None /\ dom.connection = connection /\ Settled(clock') => d = dom
  BY <1>1, <1>4, Arrives DEF WallInv
<1>6. traded' \in {traded, None, BucketOf(now)}
  BY DEF Delta, Remaining
<1>7. stood' = IF ~Large(size, threshold) THEN None
               ELSE IF stood = None \/ now - book.at > MaxAge THEN now ELSE stood
  BY DEF Delta
<1>8. stood' \in Times \cup {None} /\ (stood' # None => stood' <= now)
  BY <1>1, <1>7 DEF WallInv, TypeOK, Past
<1>9. shadowActive \in BOOLEAN /\ (shadowActive => readySince # None)
  BY DEF WallInv, TypeOK, Seeding
<1>10. ASSUME NEW w, Left(w, size), Completing(w, shadowActive, "delta"), dom' \in Dom
       PROVE  /\ TypeOK' /\ Connections' /\ Past' /\ Seeding' /\ NoSeedBeforeReady'
              /\ wall' \in {w, None}
  <2>1. Outcome(w, shadowActive)
    BY <1>9, <1>10, CompletingOutcome DEF WallInv
  <2>2. w \in Wall \cup {None}
    BY <1>10 DEF Left
  <2>3. TypeOK'
    BY <1>1, <1>3, <1>4, <1>6, <1>8, <1>10, <2>1, <2>2, BucketLeft, OutcomeTyped DEF WallInv
  <2>4. Connections'
    BY <1>1 DEF WallInv, Connections, stream
  <2>5. Past'
    BY <1>1, <1>6, <1>8, <2>1, OutcomePast DEF WallInv
  <2>6. Seeding' /\ NoSeedBeforeReady'
    BY <1>9, <1>10, <2>1, OutcomeSeeds DEF WallInv, Left
  <2> QED
    BY <2>1, <2>3, <2>4, <2>5, <2>6 DEF Outcome
<1>11. CASE ~d.valid
  <2>1. dom' = Unproven(d) /\ Completing(wall, shadowActive, "delta") /\ announced' = None
    BY <1>5, <1>11 DEF Delta, Updated
  <2>2. dom' \in Dom /\ ~dom'.valid
    BY <1>5, <1>11, <2>1 DEF Unproven, Dom
  <2>3. wall = None
    BY <1>4, <1>5, <1>11 DEF WallInv, Copied, Tracking
  <2>4. Left(wall, size)
    BY <2>3 DEF Left
  <2>5. /\ TypeOK' /\ Connections' /\ Past' /\ Seeding' /\ NoSeedBeforeReady'
        /\ wall' = None
    BY <1>10, <2>1, <2>2, <2>3, <2>4
  <2>6. InStep' /\ Copied'
    BY <2>2, <2>5 DEF InStep, Copied, Tracking
  <2> QED
    BY <2>1, <2>5, <2>6 DEF WallInv, AnnouncedStood
<1>12. CASE d.valid
  <2>1. /\ Tracking /\ d = dom /\ dom \in Dom /\ Settled(clock')
    BY <1>2, <1>5, <1>12 DEF Tracking
  <2>2. /\ dom' = Updated(e, size, threshold, inside)
        /\ announced' = IF tells THEN [at |-> now, since |-> since, stood |-> stood'] ELSE None
        /\ \E w \in IF tells THEN Placed(told) ELSE {Followed(e, size, inside)} :
             Completing(w, shadowActive, "delta")
    BY <1>12 DEF Delta
  <2>3. e \in Dom /\ e.size = dom.size /\ e.valid /\ e.connection = connection
    BY <1>5, <1>12, <2>1 DEF Timely, Unproven, Dom
  <2>4. Large(size, threshold) => stood' \in Times /\ stood' <= now /\ since \in Times /\ stood' <= since
    BY <1>7, <2>1, CandidateStood DEF WallInv
  <2>5. ~Large(size, threshold) => since = None
    BY DEF Standing
  <2>6. since \in Times \cup {None}
    BY <2>4, <2>5
  <2>7. /\ dom' \in Dom /\ dom'.valid /\ dom'.connection = connection
        /\ dom'.size = size /\ dom'.seen = now /\ dom'.first = since
    <3>1. (size < e.size) \in BOOLEAN /\ e.reduced \in BOOLEAN
      BY <2>3 DEF Dom
    <3>2. /\ dom' = [e EXCEPT !.size = size, !.seen = now, !.reduced = dom'.reduced,
                              !.first = since, !.emitted = dom'.emitted]
          /\ dom'.reduced \in BOOLEAN /\ dom'.emitted \in BOOLEAN
      BY <2>2, <2>3, <3>1 DEF Updated, Dom
    <3> QED
      BY <1>1, <2>3, <2>6, <3>2 DEF Dom
  <2>8. PICK w \in IF tells THEN Placed(told) ELSE {Followed(e, size, inside)} :
          Completing(w, shadowActive, "delta")
    BY <2>2
  <2>9. tells => Large(size, threshold) /\ now - since >= Persistence
    BY DEF Announces
  <2>10. Left(w, size)
    <3>1. CASE tells
      <4>1. Large(size, threshold) /\ size > 0 /\ since \in Times
        BY <2>4, <2>9, <3>1 DEF Large
      <4>2. told \in Wall /\ told.told = now /\ told.remaining = size
        BY <1>1, <4>1 DEF Wall
      <4>3. w \in {told, None}
        BY <2>8, <3>1 DEF Placed
      <4> HIDE DEF told
      <4> QED
        BY <4>1, <4>2, <4>3 DEF Left
    <3>2. CASE ~tells
      BY <2>1, <2>3, <2>8, <3>2, FollowedLeft DEF WallInv
    <3> QED
      BY <3>1, <3>2
  <2>11. /\ TypeOK' /\ Connections' /\ Past' /\ Seeding' /\ NoSeedBeforeReady'
         /\ wall' \in {w, None}
    BY <1>10, <2>7, <2>8, <2>10
  <2>12. InStep'
    <3>1. book'.at # None
      BY <1>1, <1>3 DEF Times
    <3>2. dom'.first # None => stood' # None /\ stood' <= dom'.first
      BY <2>4, <2>5, <2>7 DEF Times
    <3> QED
      BY <1>3, <2>7, <3>1, <3>2 DEF InStep
  <2>13. Copied'
    <3>1. Tracking'
      <4>1. dom' # None
        BY <2>7, NoTrackerAssumption
      <4> QED
        BY <1>1, <1>3, <2>7, <4>1 DEF Tracking
    <3>2. Settled(clock)'
      BY <1>1, <2>1 DEF Settled
    <3> QED
      BY <1>3, <2>10, <2>11, <3>1, <3>2 DEF Copied, Left
  <2>14. AnnouncedStood'
    <3>1. SUFFICES ASSUME tells PROVE AnnouncedStood'
      BY <2>2 DEF AnnouncedStood
    <3>2. announced'.at = now /\ announced'.since = since /\ announced'.stood = stood'
      BY <2>2, <3>1
    <3>3. stood' # None /\ stood' <= since /\ now - since >= Persistence /\ since \in Nat
      BY <2>4, <2>9, <3>1 DEF Times
    <3>4. now >= since + Persistence
      BY <1>1, <3>3
    <3> QED
      BY <3>2, <3>3, <3>4 DEF AnnouncedStood
  <2> QED
    BY <2>11, <2>12, <2>13, <2>14 DEF WallInv
<1> QED
  BY <1>11, <1>12
-----------------------------------------------------------------------------
LEMMA DepthNext == WallInv /\ [Next]_vars => WallInv'
<1> SUFFICES ASSUME WallInv, [Next]_vars PROVE WallInv'
  OBVIOUS
<1>1. CASE Tick
  BY <1>1, TickKeeps
<1>2. CASE Connect
  BY <1>2, ConnectKeeps
<1>3. CASE Disconnect
  BY <1>3, DisconnectKeeps
<1>4. ASSUME NEW size \in Sizes, NEW threshold \in Thresholds, Snapshot(size, threshold)
      PROVE  WallInv'
  BY <1>4, SnapshotKeeps
<1>5. ASSUME NEW size \in Sizes, NEW threshold \in Thresholds, NEW inside \in BOOLEAN,
             Delta(size, threshold, inside)
      PROVE  WallInv'
  BY <1>5, DeltaKeeps
<1>6. CASE Trade
  BY <1>6, TradeKeeps
<1>7. CASE UNCHANGED vars
  BY <1>7 DEF vars, stream, lane, outputs, WallInv, TypeOK, Connections, Past, BucketOf, InStep, Copied,
              Tracking, Settled, Seeding, AnnouncedStood, NoSeedBeforeReady
<1>8. CASE \E size \in Sizes, threshold \in Thresholds :
             \E inside \in IF book.size = 0 /\ size > 0 THEN BOOLEAN ELSE {TRUE} : Delta(size, threshold, inside)
  <2>1. PICK size \in Sizes, threshold \in Thresholds, inside \in BOOLEAN : Delta(size, threshold, inside)
    BY <1>8
  <2> QED
    BY <1>5, <2>1
<1> QED
  BY <1>1, <1>2, <1>3, <1>4, <1>6, <1>7, <1>8 DEF Next

(* Tracker, book, copy and lane agree at all times, as WallInv says.        *)
THEOREM WallInvAlways == Spec => []WallInv
BY DepthInit, DepthNext, PTL DEF Spec

(* Every variable of book, tracker and lane keeps its type.                 *)
THEOREM WallsTyped == Spec => []TypeOK
BY WallInvAlways, PTL DEF WallInv

(* DomTracker announces no wall that it has not seen to stand for the       *)
(* persistence, on one connection and without a silence or a snapshot.      *)
THEOREM WallsStood == Spec => []AnnouncedStood
BY WallInvAlways, PTL DEF WallInv

(* The application's copy of a wall in evidence is what its own order book  *)
(* holds, although the copy lives on the tracker's events alone.            *)
THEOREM CopyMirrorsBook == Spec => []WallMirrorsBook
<1>1. WallInv => WallMirrorsBook
  BY DEF WallInv, Copied, Tracking, WallMirrorsBook
<1> QED
  BY <1>1, WallInvAlways, PTL

(* The lane observes no bounce of a wall announced before the evaluation    *)
(* that made it active.                                                     *)
THEOREM SeedsAreReady == Spec => []NoSeedBeforeReady
BY WallInvAlways, PTL DEF WallInv
-----------------------------------------------------------------------------
(* The walls that bounced, by the time their candidates began.              *)
Bounces == spent \cup (IF bounced = None THEN {} ELSE {bounced.at})

(* Every footprint still to be judged closes after c.                       *)
Over(c) ==
  /\ c <= BucketOf(now)
  /\ traded # None => c <= traded
  /\ waiting # None => c < waiting.closing

(* A bounce has left its touch behind, before all that is to come.          *)
ApproachInv ==
  /\ \A a \in Bounces : \E c \in touched : a <= c /\ Over(c)
  /\ waiting # None =>
       /\ waiting.closing <= BucketOf(now)
       /\ waiting.shape # "away" => waiting.closing \in touched
  /\ OneBouncePerWall

(* Buckets open in the order of time.                                       *)
LEMMA BucketsRise ==
  ASSUME NEW s \in Nat, NEW t \in Nat, s <= t
  PROVE  BucketOf(s) <= BucketOf(t)
<1>1. /\ BucketOf(s) \in 0..s /\ BucketOf(t) \in 0..t /\ t < BucketOf(t) + BarLength
  BY BucketIs
<1>2. BucketOf(t) < BucketOf(s) => BucketOf(t) + BarLength <= BucketOf(s)
  BY BucketNext
<1>3. BarLength \in Nat
  BY DepthAssumption
<1> QED
  BY <1>1, <1>2, <1>3

(* A bounce of w at closing is the first of that wall if all the touches of *)
(* the bounces before lie before it.                                        *)
LEMMA FirstBounce ==
  ASSUME NEW w, NEW active \in BOOLEAN, NEW closing \in Int, NEW shape,
         Judge(w, active, closing, shape), bounced' # None,
         touched \subseteq Int,
         \A a \in Bounces : \E c \in touched : a <= c /\ c < closing
  PROVE  bounced'.at \notin Bounces /\ bounced'.at <= closing /\ shape = "reclaim"
<1>1. /\ Bounced(Seeds(w, active), closing, shape) /\ bounced'.at = Seeds(w, active).at
  BY DEF Judge
<1>2. /\ FirstApproach(Seeds(w, active), closing)
      /\ closing >= Seeds(w, active).at /\ shape = "reclaim"
  BY <1>1 DEF Bounced
<1>3. \A t \in touched : ~(bounced'.at <= t /\ t < closing)
  BY <1>1, <1>2 DEF FirstApproach
<1> QED
  BY <1>1, <1>2, <1>3

(* A step that judges nothing and lets time stand or pass.                  *)
LEMMA NothingJudged ==
  ASSUME TypeOK, Past, ApproachInv, bounced' = None, spent' = Bounces, touched' = touched,
         now' \in {now, now + 1}, waiting' \in {waiting, None},
         traded' = traded \/ traded' = None \/ (now' = now /\ traded' = BucketOf(now))
  PROVE  ApproachInv'
<1>1. now \in Nat /\ now' \in Nat /\ now <= now' /\ touched \subseteq Int
  BY DepthAssumption DEF TypeOK, Times
<1>2. \A t \in Nat : BucketOf(t)' = BucketOf(t)
  BY DEF BucketOf
<1>3. BucketOf(now)' = BucketOf(now') /\ BucketOf(now') \in Nat /\ BucketOf(now) \in Nat
  BY <1>1, BucketIs DEF BucketOf
<1>4. BucketOf(now) <= BucketOf(now)'
  BY <1>1, <1>3, BucketsRise
<1>5. Bounces' = Bounces
  BY DEF Bounces
<1>6. ASSUME NEW c \in touched, Over(c) PROVE Over(c)'
  <2>1. c \in Int /\ c <= BucketOf(now) /\ c <= BucketOf(now)'
    BY <1>1, <1>3, <1>4, <1>6 DEF Over
  <2>2. traded' # None => c <= traded'
    BY <1>6, <2>1 DEF Over
  <2>3. waiting' # None => c < waiting'.closing
    BY <1>6 DEF Over
  <2> QED
    BY <2>1, <2>2, <2>3 DEF Over
<1>7. \A a \in Bounces' : \E c \in touched' : a <= c /\ Over(c)'
  BY <1>5, <1>6 DEF ApproachInv
<1>8. waiting' # None => waiting'.closing <= BucketOf(now)' /\ (waiting'.shape # "away" => waiting'.closing \in touched')
  <2>1. SUFFICES ASSUME waiting' # None
        PROVE waiting'.closing <= BucketOf(now)' /\ (waiting'.shape # "away" => waiting'.closing \in touched')
    OBVIOUS
  <2>2. waiting' = waiting /\ waiting # None /\ waiting.closing \in Nat
    BY <2>1, DepthAssumption DEF TypeOK, Times
  <2> QED
    BY <1>3, <1>4, <2>2 DEF ApproachInv
<1>9. OneBouncePerWall'
  BY DEF OneBouncePerWall
<1> QED
  BY <1>7, <1>8, <1>9 DEF ApproachInv

(* A footprint that closed after all touches of bounces is judged, and the  *)
(* buckets that are left open no earlier.                                   *)
LEMMA FootprintJudged ==
  ASSUME TypeOK, Past, ApproachInv, NEW w, NEW active \in BOOLEAN, NEW closing \in Int, NEW shape,
         Judge(w, active, closing, shape), now' = now, waiting' = None, spent' = Bounces,
         touched \subseteq touched', shape # "away" => closing \in touched',
         \A a \in Bounces : \E c \in touched : a <= c /\ c < closing,
         closing <= BucketOf(now), traded' \in {None, BucketOf(now)}
  PROVE  ApproachInv'
<1>1. now \in Nat /\ touched \subseteq Int /\ BucketOf(now) \in Int /\ BucketOf(now)' = BucketOf(now)
  BY BucketIs, DepthAssumption DEF TypeOK, Times, BucketOf
<1>2. ASSUME NEW c \in Int, c <= closing PROVE Over(c)'
  BY <1>1, <1>2 DEF Over
<1>3. ASSUME NEW a \in Bounces PROVE \E c \in touched' : a <= c /\ Over(c)'
  BY <1>1, <1>2
<1>4. ASSUME bounced' # None
      PROVE  bounced'.at \notin Bounces /\ \E c \in touched' : bounced'.at <= c /\ Over(c)'
  <2>1. bounced'.at \notin Bounces /\ bounced'.at <= closing /\ shape = "reclaim"
    BY <1>1, <1>4, FirstBounce
  <2> QED
    BY <1>2, <2>1
<1>5. \A a \in Bounces' : \E c \in touched' : a <= c /\ Over(c)'
  BY <1>3, <1>4 DEF Bounces
<1>6. OneBouncePerWall'
  BY <1>4 DEF OneBouncePerWall
<1> QED
  BY <1>5, <1>6 DEF ApproachInv

LEMMA CompletingApproaches ==
  ASSUME TypeOK, Past, ApproachInv, NEW w, NEW active \in BOOLEAN, NEW kind,
         Completing(w, active, kind), now' = now,
         IF Flushable THEN traded' \in {None, BucketOf(now)} ELSE traded' \in {traded, BucketOf(now)}
  PROVE  ApproachInv'
<1>1. spent' = Bounces
  BY DEF Completing, Bounces
<1>2. CASE ~Flushable
  BY <1>1, <1>2, NothingJudged DEF Completing, Unjudged
<1>3. CASE Flushable
  <2> DEFINE closing == traded + BarLength
  <2>1. /\ traded # None /\ traded \in Nat /\ closing \in Int /\ traded < closing /\ touched \subseteq Int
        /\ now \in Nat /\ BarLength \in Nat
    BY <1>3, DepthAssumption DEF TypeOK, Flushable, Times
  <2>2. closing <= BucketOf(now)
    <3>1. PICK t \in Nat : traded = BucketOf(t)
      BY <2>1 DEF Past
    <3> QED
      BY <1>3, <2>1, <3>1, BucketNext DEF Flushable
  <2>3. \A a \in Bounces : \E c \in touched : a <= c /\ c < closing
    BY <2>1 DEF ApproachInv, Over
  <2>4. PICK shape \in Shape :
          /\ touched' = IF shape # "away" THEN touched \cup {closing} ELSE touched
          /\ \/ waiting' = None /\ Unjudged(w, active)
             \/ waiting' = [closing |-> closing, shape |-> shape] /\ Unjudged(w, active)
             \/ waiting' = None /\ Judge(w, active, closing, shape)
    BY <1>3 DEF Completing
  <2>5. touched \subseteq touched' /\ (shape # "away" => closing \in touched')
    BY <2>4
  <2>6. CASE waiting' \in {None, [closing |-> closing, shape |-> shape]} /\ Unjudged(w, active)
    <3>1. bounced' = None /\ Bounces' = Bounces
      BY <1>1, <2>6 DEF Unjudged, Bounces
    <3>2. BucketOf(now)' = BucketOf(now) /\ BucketOf(now) \in Int
      BY <2>1, BucketIs DEF BucketOf
    <3>3. waiting' # None => waiting'.closing = closing /\ waiting'.shape = shape
      BY <2>6
    <3>4. traded' \in {None, BucketOf(now)}
      BY <1>3
    <3>5. ASSUME NEW c \in Int, c < closing PROVE Over(c)'
      BY <2>1, <2>2, <3>2, <3>3, <3>4, <3>5 DEF Over
    <3>6. \A a \in Bounces' : \E c \in touched' : a <= c /\ Over(c)'
      BY <2>1, <2>3, <2>5, <3>1, <3>5
    <3>7. OneBouncePerWall'
      BY <3>1 DEF OneBouncePerWall
    <3>8. waiting' # None => waiting'.closing <= BucketOf(now)' /\ (waiting'.shape # "away" => waiting'.closing \in touched')
      BY <2>2, <2>5, <3>2, <3>3
    <3> QED
      BY <3>6, <3>7, <3>8 DEF ApproachInv
  <2>7. CASE waiting' = None /\ Judge(w, active, closing, shape)
    <3> HIDE DEF closing
    <3> QED
      BY <1>1, <1>3, <2>1, <2>2, <2>3, <2>5, <2>7, FootprintJudged
  <2> QED
    BY <2>4, <2>6, <2>7
<1> QED
  BY <1>2, <1>3

LEMMA DeferredApproaches ==
  ASSUME TypeOK, Past, ApproachInv, waiting # None, Deferred, now' = now, traded' = BucketOf(now)
  PROVE  ApproachInv'
<1>1. spent' = Bounces /\ touched' = touched /\ waiting' = None
  BY DEF Deferred, Bounces
<1>2. CASE Unjudged(wall, shadowActive)
  BY <1>1, <1>2, NothingJudged DEF Unjudged
<1>3. CASE Judge(wall, shadowActive, waiting.closing, waiting.shape)
  <2>1. waiting.closing \in Int /\ shadowActive \in BOOLEAN
    BY DepthAssumption DEF TypeOK, Times
  <2>2. \A a \in Bounces : \E c \in touched : a <= c /\ c < waiting.closing
    BY DEF ApproachInv, Over
  <2>3. waiting.closing <= BucketOf(now) /\ (waiting.shape # "away" => waiting.closing \in touched')
    BY <1>1 DEF ApproachInv
  <2> QED
    BY <1>1, <1>3, <2>1, <2>2, <2>3, FootprintJudged
<1> QED
  BY <1>2, <1>3 DEF Deferred

(* density_bounce_v1 observes at most one bounce of a wall, whatever        *)
(* footprints wait, late or in vain, for their minute.                      *)
THEOREM BouncesOnce == Spec => []OneBouncePerWall
<1>1. Init => ApproachInv
  BY DEF Init, ApproachInv, Bounces, OneBouncePerWall
<1>2. WallInv /\ ApproachInv /\ [Next]_vars => ApproachInv'
  <2> SUFFICES ASSUME WallInv, ApproachInv, [Next]_vars PROVE ApproachInv'
    OBVIOUS
  <2>1. TypeOK /\ Past /\ shadowActive \in BOOLEAN /\ FALSE \in BOOLEAN
    BY DEF WallInv, TypeOK
  <2>2. CASE Tick
    BY <2>1, <2>2, NothingJudged DEF Tick, Silent, Bounces
  <2>3. CASE Connect
    BY <2>1, <2>3, NothingJudged DEF Connect, Silent, Bounces
  <2>4. CASE Disconnect
    BY <2>1, <2>4, NothingJudged DEF Disconnect, Silent, Bounces
  <2>5. ASSUME NEW size \in Sizes, NEW threshold \in Thresholds, Snapshot(size, threshold)
        PROVE  ApproachInv'
    BY <2>1, <2>5, CompletingApproaches DEF Snapshot, Remaining
  <2>6. ASSUME NEW size \in Sizes, NEW threshold \in Thresholds, NEW inside \in BOOLEAN,
               Delta(size, threshold, inside)
        PROVE  ApproachInv'
    <3>1. now' = now /\ traded' = Remaining
      BY <2>6 DEF Delta
    <3>2. PICK w : Completing(w, shadowActive, "delta")
      BY <2>6 DEF Delta
    <3> QED
      BY <2>1, <3>1, <3>2, CompletingApproaches DEF Remaining
  <2>7. CASE Trade
    BY <2>1, <2>7, CompletingApproaches, DeferredApproaches DEF Trade
  <2>8. CASE UNCHANGED vars
    BY <2>8 DEF vars, lane, outputs, ApproachInv, Bounces, Over, BucketOf, OneBouncePerWall
  <2>9. CASE \E size \in Sizes, threshold \in Thresholds :
               \E inside \in IF book.size = 0 /\ size > 0 THEN BOOLEAN ELSE {TRUE} : Delta(size, threshold, inside)
    <3>1. PICK size \in Sizes, threshold \in Thresholds, inside \in BOOLEAN : Delta(size, threshold, inside)
      BY <2>9
    <3> QED
      BY <2>6, <3>1
  <2> QED
    BY <2>2, <2>3, <2>4, <2>5, <2>7, <2>8, <2>9 DEF Next
<1>3. ApproachInv => OneBouncePerWall
  BY DEF ApproachInv
<1> QED
  BY <1>1, <1>2, <1>3, WallInvAlways, PTL DEF Spec
-----------------------------------------------------------------------------
(* When the tracker follows the book.  Only the reconnect warm-up of the     *)
(* feed clock empties a tracker under a usable book.                        *)

LEMMA SnapshotTracks ==
  ASSUME WallInv, NEW size \in Sizes, NEW threshold \in Thresholds, Snapshot(size, threshold)
  PROVE  Tracking'
<1>1. connection > 0 /\ connection' = connection /\ book'.ready
  BY DEF WallInv, Connections, Snapshot, stream, Replaced
<1>2. clock' \in Clock /\ clock'.connection = connection
  BY <1>1, Observes DEF WallInv, Snapshot
<1>3. Arriving(clock') \in Dom /\ Arriving(clock').connection = connection
  BY <1>1, <1>2, Arrives DEF WallInv
<1>4. now \in Times
  BY DEF WallInv, TypeOK
<1>5. dom' \in Dom /\ dom'.valid /\ dom'.connection = connection
  BY <1>3, <1>4 DEF Snapshot, Seeded, Unproven, Dom
<1> QED
  BY <1>1, <1>5, NoTrackerAssumption DEF Tracking

(* A delta or a trade past the reconnect warm-up leaves a tracker in place.  *)
LEMMA MessageTracks ==
  ASSUME WallInv, Tracking, connected, connection' = connection,
         clock' = Observing(FALSE), Settled(clock'), book'.ready,
         dom' = Arriving(clock') \/
           \E size \in Sizes, threshold \in Thresholds, inside \in BOOLEAN :
              dom' = Updated(Timely(Arriving(clock')), size, threshold, inside)
  PROVE  Tracking'
<1>1. connection > 0
  BY DEF WallInv, Connections
<1>2. clock' \in Clock /\ clock'.connection = connection
  BY <1>1, Observes DEF WallInv
<1>3. Arriving(clock') = dom /\ dom \in Dom
  BY <1>1, <1>2, Arrives DEF WallInv, TypeOK, Tracking
<1>4. CASE dom' = Arriving(clock')
  BY <1>3, <1>4 DEF Tracking
<1>5. CASE \E size \in Sizes, threshold \in Thresholds, inside \in BOOLEAN :
             dom' = Updated(Timely(Arriving(clock')), size, threshold, inside)
  <2>1. PICK size \in Sizes, threshold \in Thresholds, inside \in BOOLEAN :
          dom' = Updated(Timely(dom), size, threshold, inside)
    BY <1>3, <1>5
  <2>2. Timely(dom) \in Dom /\ Timely(dom).valid /\ Timely(dom).connection = dom.connection
    BY <1>3, DepthAssumption DEF Tracking, Timely, Unproven, Dom
  <2>3. dom'.valid /\ dom'.connection = dom.connection /\ dom' # None
    <3>1. now \in Times
      BY DEF WallInv, TypeOK
    <3>2. dom'.valid = Timely(dom).valid /\ dom'.connection = Timely(dom).connection
      BY <2>1, <2>2 DEF Updated, Dom
    <3>3. dom' \in Dom
      <4>1. Standing(Timely(dom), size, threshold, inside) \in Times \cup {None}
        BY <2>2, <3>1 DEF Standing, AfterEvent, Dom
      <4> QED
        BY <2>1, <2>2, <3>1, <4>1 DEF Updated, Dom
    <3> QED
      BY <2>2, <3>2, <3>3, NoTrackerAssumption
  <2> QED
    BY <2>3 DEF Tracking
<1> QED
  BY <1>4, <1>5

(* A step past the reconnect warm-up.                                       *)
LEMMA StepTracks ==
  ASSUME WallInv, WallInv', [Next]_vars, book'.ready, Settled(clock)',
         Tracking \/ \E size \in Sizes, threshold \in Thresholds : Snapshot(size, threshold)
  PROVE  Tracking'
<1>1. CASE \E size \in Sizes, threshold \in Thresholds : Snapshot(size, threshold)
  BY <1>1, SnapshotTracks
<1>2. CASE Tracking
  <2>1. CASE Tick
    BY <1>2, <2>1 DEF Tick, Tracking, stream
  <2>2. ~Connect
    BY <1>2 DEF Connect, Tracking, WallInv, Connections
  <2>3. CASE Disconnect
    BY <2>3 DEF Disconnect, WallInv, TypeOK, Book
  <2>4. ASSUME NEW size \in Sizes, NEW threshold \in Thresholds, NEW inside \in BOOLEAN,
               Delta(size, threshold, inside)
        PROVE  Tracking'
    <3>1. /\ connected /\ connection' = connection /\ now' = now /\ clock' = Observing(FALSE)
          /\ \/ ~Arriving(clock').valid
             \/ dom' = Updated(Timely(Arriving(clock')), size, threshold, inside)
      BY <2>4 DEF Delta, stream
    <3>2. Settled(clock')
      BY <3>1 DEF Settled
    <3>3. clock' \in Clock /\ clock'.connection = connection /\ connection > 0
      BY <3>1, Observes DEF WallInv, Connections
    <3>4. Arriving(clock') = dom
      BY <1>2, <3>2, <3>3, Arrives DEF WallInv, Tracking
    <3> QED
      BY <1>2, <3>1, <3>2, <3>4, MessageTracks DEF Tracking
  <2>5. CASE Trade
    <3>1. /\ connected /\ connection' = connection /\ now' = now /\ clock' = Observing(FALSE)
          /\ dom' = Arriving(clock')
      BY <2>5 DEF Trade, stream
    <3>2. Settled(clock')
      BY <3>1 DEF Settled
    <3> QED
      BY <1>2, <3>1, <3>2, MessageTracks
  <2>6. CASE UNCHANGED vars
    BY <1>2, <2>6 DEF vars, stream, Tracking
  <2>7. CASE \E size \in Sizes, threshold \in Thresholds :
               \E inside \in IF book.size = 0 /\ size > 0 THEN BOOLEAN ELSE {TRUE} : Delta(size, threshold, inside)
    <3>1. PICK size \in Sizes, threshold \in Thresholds, inside \in BOOLEAN : Delta(size, threshold, inside)
      BY <2>7
    <3> QED
      BY <2>4, <3>1
  <2> QED
    BY <1>1, <2>1, <2>2, <2>3, <2>5, <2>6, <2>7 DEF Next
<1> QED
  BY <1>1, <1>2

(* A snapshot restores the tracker, and from then on it follows the book to  *)
(* the end of the connection, whenever the clock is past the reconnect       *)
(* warm-up (DomTracker.process): neither gaps nor snapshots of the running   *)
(* connection make it lose the book.                                        *)
THEOREM TrackerKeepsUp ==
  Spec => [][(Tracking \/ \E size \in Sizes, threshold \in Thresholds : Snapshot(size, threshold))
             /\ book'.ready /\ Settled(clock)' => DomFollowsBook']_vars
<1>1. WallInv /\ WallInv' /\ [Next]_vars =>
        [(Tracking \/ \E size \in Sizes, threshold \in Thresholds : Snapshot(size, threshold))
         /\ book'.ready /\ Settled(clock)' => DomFollowsBook']_vars
  <2>1. WallInv' /\ Tracking' => DomFollowsBook'
    BY DEF WallInv, InStep, Tracking, DomFollowsBook
  <2> QED
    BY <2>1, StepTracks
<1> QED
  BY <1>1, WallInvAlways, PTL DEF Spec

(* The clock of a first connection has seen no other, and without a warm-up  *)
(* there is nothing to wait for.                                            *)
FirstOrBrief ==
  /\ connection <= 1 => clock.connection \in {0, connection} /\ clock.reason # "reconnect"
  /\ Warmup = 0 => clock.until <= now
  /\ book.ready /\ (connection = 1 \/ Warmup = 0) => Tracking

LEMMA FirstObserves ==
  ASSUME WallInv, FirstOrBrief, connected, connection' = connection, now' = now,
         NEW snapshot \in BOOLEAN, clock' = Observing(snapshot)
  PROVE  /\ connection <= 1 => clock'.connection \in {0, connection} /\ clock'.reason # "reconnect"
         /\ Warmup = 0 => clock'.until <= now
         /\ connection = 1 \/ Warmup = 0 => Settled(clock)'
<1>1. /\ connection \in Nat /\ connection > 0 /\ now \in Nat /\ clock \in Clock
  BY DepthAssumption DEF WallInv, TypeOK, Connections, Times
<1>2. clock' \in Clock /\ clock'.connection = connection
  BY <1>1, Observes DEF WallInv
<1>3. connection <= 1 => clock'.reason # "reconnect"
  BY <1>1 DEF FirstOrBrief, Observing
<1>4. Warmup = 0 => clock'.until <= now
  BY <1>1, DepthAssumption DEF FirstOrBrief, Observing
<1> QED
  BY <1>1, <1>2, <1>3, <1>4 DEF Settled, Clock

(* On the first connection, and on every one if the feed clock              *)
(* has no warm-up, the tracker follows the book at all times: what keeps it  *)
(* from following is the reconnect warm-up of DomTracker.process alone.     *)
THEOREM TrackerFollows == Spec => [](connection = 1 \/ Warmup = 0 => DomFollowsBook)
<1>1. Init => FirstOrBrief
  BY DepthAssumption DEF Init, FirstOrBrief, NewClock
<1>2. WallInv /\ WallInv' /\ FirstOrBrief /\ [Next]_vars => FirstOrBrief'
  <2> SUFFICES ASSUME WallInv, WallInv', FirstOrBrief, [Next]_vars PROVE FirstOrBrief'
    OBVIOUS
  <2>1. /\ connection \in Nat /\ now \in Nat /\ clock.until \in Nat
        /\ clock.connection \in Nat
    BY DepthAssumption DEF WallInv, TypeOK, Clock, Times
  <2>2. CASE Tick
    BY <2>1, <2>2 DEF FirstOrBrief, Tick, stream, Tracking
  <2>3. CASE Connect
    <3>1. connection' = connection + 1 /\ clock' = clock /\ now' = now /\ ~book'.ready
      BY <2>3 DEF Connect, WallInv, Connections
    <3>2. ASSUME connection' <= 1
          PROVE  clock'.connection \in {0, connection'} /\ clock'.reason # "reconnect"
      <4>1. connection = 0
        BY <2>1, <3>1, <3>2
      <4> QED
        BY <3>1, <4>1 DEF FirstOrBrief
    <3> QED
      BY <3>1, <3>2 DEF FirstOrBrief
  <2>4. CASE Disconnect
    <3>1. connection' = connection /\ clock' = clock /\ now' = now
      BY <2>4 DEF Disconnect
    <3>2. ~book'.ready
      BY <2>4 DEF Disconnect, WallInv, TypeOK, Book
    <3> QED
      BY <3>1, <3>2 DEF FirstOrBrief
  <2>5. ASSUME connected, connection' = connection, now' = now,
               NEW snapshot \in BOOLEAN, clock' = Observing(snapshot),
               book'.ready /\ (connection = 1 \/ Warmup = 0) =>
                 Tracking \/ \E size \in Sizes, threshold \in Thresholds : Snapshot(size, threshold)
        PROVE  FirstOrBrief'
    <3>1. /\ connection <= 1 => clock'.connection \in {0, connection} /\ clock'.reason # "reconnect"
          /\ Warmup = 0 => clock'.until <= now
          /\ connection = 1 \/ Warmup = 0 => Settled(clock)'
      BY <2>5, FirstObserves
    <3>2. book'.ready /\ (connection = 1 \/ Warmup = 0) => Tracking'
      BY <2>5, <3>1, StepTracks
    <3> QED
      BY <2>5, <3>1, <3>2 DEF FirstOrBrief
  <2>6. ASSUME NEW size \in Sizes, NEW threshold \in Thresholds, Snapshot(size, threshold)
        PROVE  FirstOrBrief'
    <3>1. connected /\ connection' = connection /\ now' = now /\ clock' = Observing(TRUE)
      BY <2>6 DEF Snapshot, stream
    <3> QED
      BY <2>5, <2>6, <3>1
  <2>7. ASSUME NEW size \in Sizes, NEW threshold \in Thresholds, NEW inside \in BOOLEAN,
               Delta(size, threshold, inside)
        PROVE  FirstOrBrief'
    <3>1. connected /\ book.ready /\ connection' = connection /\ now' = now /\ clock' = Observing(FALSE)
      BY <2>7 DEF Delta, stream
    <3>2. connection = 1 \/ Warmup = 0 => Tracking
      BY <3>1 DEF FirstOrBrief
    <3> QED
      BY <2>5, <3>1, <3>2
  <2>8. CASE Trade
    <3>1. connected /\ book' = book /\ connection' = connection /\ now' = now /\ clock' = Observing(FALSE)
      BY <2>8 DEF Trade, stream
    <3>2. book'.ready /\ (connection = 1 \/ Warmup = 0) => Tracking
      BY <3>1 DEF FirstOrBrief
    <3> QED
      BY <2>5, <3>1, <3>2
  <2>9. CASE UNCHANGED vars
    BY <2>9 DEF vars, stream, FirstOrBrief, Tracking
  <2>10. CASE \E size \in Sizes, threshold \in Thresholds :
                \E inside \in IF book.size = 0 /\ size > 0 THEN BOOLEAN ELSE {TRUE} : Delta(size, threshold, inside)
    <3>1. PICK size \in Sizes, threshold \in Thresholds, inside \in BOOLEAN : Delta(size, threshold, inside)
      BY <2>10
    <3> QED
      BY <2>7, <3>1
  <2> QED
    BY <2>2, <2>3, <2>4, <2>6, <2>8, <2>9, <2>10 DEF Next
<1>3. WallInv /\ FirstOrBrief => (connection = 1 \/ Warmup = 0 => DomFollowsBook)
  BY DEF FirstOrBrief, WallInv, InStep, Tracking, DomFollowsBook
<1> QED
  BY <1>1, <1>2, <1>3, WallInvAlways, PTL DEF Spec
=============================================================================
