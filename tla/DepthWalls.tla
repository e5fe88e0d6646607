------------------------------ MODULE DepthWalls ------------------------------
(***************************************************************************)
(* Depth walls at one price of one symbol: the order book that trading uses,*)
(* the DOM tracker that reads the same messages with a feed clock of its    *)
(* own, the application's copy of the wall the tracker announced, and the   *)
(* shadow lane density_bounce_v1 that judges completed footprints against   *)
(* that copy.  The connection breaks and comes back; its first message may  *)
(* be a snapshot or a trade.                                                *)
(*                                                                         *)
(* The rest of the book decides the threshold a wall has to reach (a        *)
(* multiple of the median, or the configured minimum) and whether the price *)
(* lies within the visible range: both are inputs of a book message.        *)
(***************************************************************************)
EXTENDS Integers

CONSTANTS
  Sizes,        (* sizes at the price; 0: none                              *)
  Thresholds,   (* wall thresholds the rest of the book may give            *)
  MaxAge,       (* max_age_ms between book messages                         *)
  Persistence,  (* persistence_ms of a wall, and min_wall_age_ms            *)
  Gap,          (* gap_ms of the feed clock                                 *)
  Warmup,       (* warmup_ms, of the feed clock and of the application      *)
  BarLength,    (* of a footprint                                           *)
  Minute,       (* of the bars a footprint that ends with one waits for     *)
  WallLife,     (* how long the application keeps a wall                    *)
  None,
  MaxTime,      (* bound: the clock                                         *)
  MaxFaults     (* bound: broken connections                                *)

ASSUME DepthAssumption ==
  /\ 0 \in Sizes /\ Sizes \subseteq Nat /\ Thresholds \subseteq Nat \ {0}
  /\ MaxAge \in Nat /\ Persistence \in Nat \ {0} /\ Gap \in Nat \ {0}
  /\ Warmup \in Nat /\ BarLength \in Nat \ {0} /\ Minute \in Nat \ {0} /\ WallLife \in Nat
  /\ None \notin Nat
  /\ MaxTime \in Nat /\ MaxFaults \in Nat

VARIABLES
  now,          (* receive time                                             *)
  connected,    (* stream_connected                                         *)
  connection,   (* connection_id, as a count                                *)
  book,         (* Book: ready, received_at_ms and the size at the price    *)
  snapshotAt,   (* snapshot_received_at_ms                                  *)
  dom,          (* the tracker's state of the symbol; None before a message *)
  clock,        (* that state's FeedClock                                   *)
  wall,         (* the application's density_walls                          *)
  shadowActive, (* shadow_active                                            *)
  traded,       (* the bucket of the footprint being formed                 *)
  touched,      (* closing times of the footprints that touched the price   *)
  waiting,      (* boundary_footprint                                       *)
  stood,        (* since when every message, none late, showed a wall       *)
  readySince,   (* the evaluation that set shadow_active                    *)
  announced,    (* what this message made the tracker announce              *)
  bounced,      (* the bounce it made the lane observe                      *)
  spent         (* the walls observed to bounce before it, by their time    *)

stream == <<connected, connection>>
outputs == <<announced, bounced>>
lane    == <<shadowActive, touched, waiting, readySince, spent>>
vars == <<now, stream, book, snapshotAt, dom, clock, wall, lane, traded, stood, outputs>>

Times == 0..MaxTime

Book == [ready : BOOLEAN, at : Times \cup {None}, size : Sizes]
Dom  == [connection : 1..(MaxFaults + 1), valid : BOOLEAN, size : Sizes, seen : Times \cup {None},
         first : Times \cup {None}, emitted : BOOLEAN, reduced : BOOLEAN]
Clock == [connection : 0..(MaxFaults + 1), last : Times \cup {None},
          until : 0..(MaxTime + Warmup), reason : {"none", "reconnect", "gap", "snapshot"}]
Wall == [at : Times, initial : Sizes, remaining : Sizes, quality : {"observed", "ambiguous"}, told : Times]

ASSUME NoTrackerAssumption == None \notin Dom

NewDom(id) == [connection |-> id, valid |-> FALSE, size |-> 0, seen |-> None,
               first |-> None, emitted |-> FALSE, reduced |-> FALSE]
NewClock   == [connection |-> 0, last |-> None, until |-> 0, reason |-> "none"]

Init ==
  /\ now = 0 /\ connected = FALSE /\ connection = 0
  /\ book = [ready |-> FALSE, at |-> None, size |-> 0] /\ snapshotAt = None
  /\ dom = None /\ clock = NewClock
  /\ wall = None /\ shadowActive = FALSE
  /\ traded = None /\ touched = {} /\ waiting = None
  /\ stood = None /\ readySince = None /\ announced = None /\ bounced = None /\ spent = {}
-----------------------------------------------------------------------------
(* A mutant: warm-ups add up.                                               *)
Prolonging(snapshot) ==
  LET again == snapshot \/ clock.connection \notin {0, connection}
  IN  [connection |-> connection, last |-> now,
       until  |-> IF again THEN clock.until + Warmup ELSE clock.until,
       reason |-> IF snapshot THEN "snapshot" ELSE clock.reason]

(* FeedClock.observe: a new connection, a gap or a snapshot starts a        *)
(* warm-up, and the reason stays until another takes its place.             *)
Observing(snapshot) ==
  LET reconnect == clock.connection \notin {0, connection}
      gap       == clock.last # None /\ now - clock.last > Gap
  IN  [connection |-> connection, last |-> now,
       until  |-> IF reconnect \/ gap \/ snapshot THEN now + Warmup ELSE clock.until,
       reason |-> IF reconnect THEN "reconnect" ELSE IF gap THEN "gap"
                  ELSE IF snapshot THEN "snapshot" ELSE clock.reason]

ReasonGiven(c) == IF now >= c.until THEN "none" ELSE c.reason

Unproven(d) == [d EXCEPT !.first = None, !.emitted = FALSE, !.reduced = FALSE]

(* The head of DomTracker.process: the state of a symbol is made by its     *)
(* first message and made anew when the connection is another one, or while *)
(* the feed clock says it has just been.                                    *)
Arriving(c) ==
  LET d == IF dom = None THEN NewDom(connection) ELSE dom
  IN  IF d.connection # connection \/ ReasonGiven(c) = "reconnect" THEN NewDom(connection) ELSE d

(* A mutant: evidence survives a silence of the book.                       *)
KeptEvidence(d) == d

(* _reset_evidence after a book message that came too late.                 *)
Timely(d) == IF d.seen # None /\ now - d.seen > MaxAge THEN Unproven(d) ELSE d

Large(size, threshold) == size > 0 /\ size >= threshold

(* A snapshot; it seeds the candidate.                                      *)
Seeded(d, size, threshold) ==
  [Unproven(d) EXCEPT !.valid = TRUE, !.size = size, !.seen = now,
                      !.first = IF Large(size, threshold) THEN now ELSE None]

(* Does a delta of the price make a depth event?                            *)
Eventful(d, size, inside) ==
  /\ size # d.size
  /\ d.size # 0 \/ d.reduced \/ inside

(* _event on the candidate: it starts with the first event at which the     *)
(* size is large, and a small size ends it.                                 *)
AfterEvent(d, size, threshold, inside) ==
  IF ~Eventful(d, size, inside) THEN d.first
  ELSE IF ~Large(size, threshold) THEN None
  ELSE IF d.first = None THEN now ELSE d.first

(* _persistent_events: the candidate a large size has in any case.          *)
Standing(d, size, threshold, inside) ==
  LET first == AfterEvent(d, size, threshold, inside)
  IN  IF ~Large(size, threshold) THEN None ELSE IF first = None THEN now ELSE first

Announces(d, size, threshold, inside) ==
  /\ Large(size, threshold)
  /\ now - Standing(d, size, threshold, inside) >= Persistence
  /\ ~d.emitted

(* A delta that the tracker accepts.  What was announced may be announced   *)
(* again if the candidate ended by the threshold, not by an event.          *)
Updated(d, size, threshold, inside) ==
  [d EXCEPT
     !.size = size, !.seen = now, !.reduced = d.reduced \/ size < d.size,
     !.first = Standing(d, size, threshold, inside),
     !.emitted = \/ Announces(d, size, threshold, inside)
                 \/ d.emitted /\ (Large(size, threshold) \/ AfterEvent(d, size, threshold, inside) = None)]

(* A mutant: the copy follows reductions only.                              *)
OnlyReduced(d, size, inside) ==
  IF wall # None /\ Eventful(d, size, inside) /\ size < d.size THEN [wall EXCEPT !.remaining = size] ELSE wall

(* _update_density_walls: depth events of a known wall change what remains; *)
(* a removal may be a fill or a cancellation.                               *)
Followed(d, size, inside) ==
  IF wall # None /\ Eventful(d, size, inside)
    THEN [wall EXCEPT !.remaining = size, !.quality = IF size = 0 THEN "ambiguous" ELSE @]
    ELSE wall
-----------------------------------------------------------------------------
Ready == connected /\ book'.ready /\ snapshotAt' # None /\ now >= snapshotAt' + Warmup

(* What a bar was to the wall: away from it, touching it, or a touch with a *)
(* close off it and the flow on its side.                                   *)
Shape == {"away", "touch", "reclaim"}

(* A mutant: an earlier touch does not count.                               *)
FirstAlways(w, closing) == TRUE

(* Is the price touched for the first time since the wall was seen?         *)
FirstApproach(w, closing) == \A t \in touched : ~(w.at <= t /\ t < closing)

(* density_bounce_v1 says OBSERVED of the wall w.                           *)
Bounced(w, closing, shape) ==
  /\ w.quality = "observed"
  /\ w.remaining <= w.initial
  /\ now - w.at >= Persistence
  /\ closing >= w.at
  /\ 2 * w.remaining > w.initial
  /\ FirstApproach(w, closing)
  /\ shape = "reclaim"

(* A mutant: walls seen before readiness are kept.                          *)
SeedsKept(w, active) == w

(* The first evaluation after a break drops the walls seen before it.       *)
Seeds(w, active) == IF active THEN w ELSE None

Expired(w) == now - w.at > WallLife \/ w.quality = "ambiguous"

(* _evaluate_shadow of the completed bar, on the wall w, where shadow_active *)
(* is `active'.                                                             *)
Judge(w, active, closing, shape) ==
  LET kept == Seeds(w, active)
  IN  /\ shadowActive' = TRUE
      /\ readySince' = IF active THEN readySince ELSE now
      /\ bounced' = IF kept # None /\ Bounced(kept, closing, shape)
                    THEN [at |-> kept.at, told |-> kept.told] ELSE None
      /\ wall' = IF kept = None \/ Expired(kept) THEN None ELSE kept

BucketOf(t) == t - (t % BarLength)

Flushable == traded # None /\ traded < BucketOf(now)

Unjudged(w, active) ==
  wall' = w /\ shadowActive' = active /\ bounced' = None /\ UNCHANGED readySince

(* A footprint that closes a minute.                                        *)
Boundary(closing) == closing % Minute = 0

(* A message completes the footprint of an earlier bucket.  It joins the    *)
(* bars in any case.  Unless a gate of readiness, or a fault of the         *)
(* footprint itself, keeps it from the evaluator, it is evaluated now or,   *)
(* at the end of a minute, set aside until a trade has made that minute's   *)
(* bar; the next footprint takes its place.  (That bar is missing only in   *)
(* the minute a connection begins with, which is within the warm-up.)       *)
Completing(w, active, kind) ==
  /\ spent' = IF bounced = None THEN spent ELSE spent \cup {bounced.at}
  /\ \/ /\ ~Flushable
        /\ waiting' = IF kind = "snapshot" THEN None ELSE waiting
        /\ Unjudged(w, active)
        /\ UNCHANGED touched
     \/ /\ Flushable
        /\ LET closing == traded + BarLength
               later   == Boundary(closing) /\ kind # "trade"
           IN  \E shape \in IF w = None /\ ~later THEN Shape \ {"reclaim"} ELSE Shape :
                 /\ touched' = IF shape # "away" THEN touched \cup {closing} ELSE touched
                 /\ \/ waiting' = None /\ Unjudged(w, active)
                    \/ /\ later
                       /\ waiting' = [closing |-> closing, shape |-> shape]
                       /\ Unjudged(w, active)
                    \/ /\ ~later /\ Ready
                       /\ waiting' = None
                       /\ Judge(w, active, closing, shape)

(* A trade has made the bar that a footprint waited for.                    *)
Deferred ==
  /\ waiting' = None
  /\ spent' = IF bounced = None THEN spent ELSE spent \cup {bounced.at}
  /\ Unjudged(wall, shadowActive) \/ (Ready /\ Judge(wall, shadowActive, waiting.closing, waiting.shape))
  /\ UNCHANGED touched

Remaining == IF Flushable THEN None ELSE traded

(* Nothing is announced, completed or judged.                               *)
Silent ==
  /\ announced' = None /\ bounced' = None
  /\ spent' = IF bounced = None THEN spent ELSE spent \cup {bounced.at}
  /\ UNCHANGED <<touched, readySince>>

Tick ==
  /\ now < MaxTime                                     \* bound
  /\ now' = now + 1
  /\ Silent
  /\ UNCHANGED <<stream, book, snapshotAt, dom, clock, wall, shadowActive, waiting, traded, stood>>

Connect ==
  /\ ~connected
  /\ connected' = TRUE /\ connection' = connection + 1
  /\ Silent
  /\ UNCHANGED <<now, book, snapshotAt, dom, clock, wall, shadowActive, waiting, traded, stood>>

(* The connection breaks, or a message the book refuses makes it break.     *)
Disconnect ==
  /\ connected
  /\ connection <= MaxFaults                           \* bound
  /\ connected' = FALSE
  /\ book' = [book EXCEPT !.ready = FALSE]
  /\ snapshotAt' = None /\ wall' = None /\ shadowActive' = FALSE /\ waiting' = None
  /\ stood' = None
  /\ Silent
  /\ UNCHANGED <<now, connection, dom, clock, traded>>

(* Book.apply: a snapshot replaces the book, a delta changes a ready one.    *)
Replaced(size) == [ready |-> TRUE, at |-> now, size |-> size]
Changed(size)  == [book EXCEPT !.at = now, !.size = size]

Snapshot(size, threshold) ==
  /\ connected
  /\ book' = Replaced(size)
  /\ snapshotAt' = now
  /\ clock' = Observing(TRUE)
  /\ dom' = Seeded(Arriving(clock'), size, threshold)
  /\ stood' = IF Large(size, threshold) THEN now ELSE None
  /\ traded' = Remaining
  /\ Completing(None, FALSE, "snapshot")
  /\ announced' = None
  /\ UNCHANGED <<now, stream>>

(* The walls after an announcement of w: in its place, or where another      *)
(* wall of the side has taken it, nowhere.                                  *)
Placed(w) == IF wall = None THEN {w, None} ELSE {w}

(* A delta.                                                                 *)
Delta(size, threshold, inside) ==
  /\ connected /\ book.ready
  /\ UNCHANGED <<now, stream, snapshotAt>>
  /\ book' = Changed(size)
  /\ clock' = Observing(FALSE)
  /\ traded' = Remaining
  /\ stood' = IF ~Large(size, threshold) THEN None
              ELSE IF stood = None \/ now - book.at > MaxAge THEN now ELSE stood
  /\ LET d == Arriving(clock')
         e == Timely(d)
         since == Standing(e, size, threshold, inside)
         tells == Announces(e, size, threshold, inside)
     IN  \/ /\ ~d.valid
            /\ dom' = Unproven(d)
            /\ Completing(wall, shadowActive, "delta")
            /\ announced' = None
         \/ /\ d.valid
            /\ dom' = Updated(e, size, threshold, inside)
            /\ announced' = IF tells THEN [at |-> now, since |-> since, stood |-> stood'] ELSE None
            /\ \E w \in IF tells THEN Placed([at |-> since, initial |-> size, remaining |-> size,
                                              quality |-> "observed", told |-> now])
                       ELSE {Followed(e, size, inside)} :
                 Completing(w, shadowActive, "delta")

(* A trade of the symbol: the footprint, then the tracker.                  *)
Trade ==
  /\ connected
  /\ clock' = Observing(FALSE)
  /\ dom' = Arriving(clock')
  /\ traded' = BucketOf(now)
  /\ UNCHANGED <<book, snapshotAt>>
  /\ IF waiting = None THEN Completing(wall, shadowActive, "trade") ELSE Deferred
  /\ announced' = None
  /\ UNCHANGED <<now, stream, stood>>

Next ==
  \/ Tick
  \/ Connect
  \/ Disconnect
  \/ \E size \in Sizes, threshold \in Thresholds : Snapshot(size, threshold)
  \/ \E size \in Sizes, threshold \in Thresholds :
       \E inside \in IF book.size = 0 /\ size > 0 THEN BOOLEAN ELSE {TRUE} : Delta(size, threshold, inside)
  \/ Trade

Spec == Init /\ [][Next]_vars
-----------------------------------------------------------------------------
TypeOK ==
  /\ now \in Times /\ connected \in BOOLEAN /\ connection \in 0..(MaxFaults + 1)
  /\ book \in Book /\ snapshotAt \in Times \cup {None}
  /\ dom \in Dom \cup {None} /\ clock \in Clock
  /\ wall \in Wall \cup {None} /\ shadowActive \in BOOLEAN
  /\ traded \in Times \cup {None} /\ touched \subseteq 0..(MaxTime + BarLength)
  /\ waiting \in [closing : Times, shape : Shape] \cup {None}
  /\ stood \in Times \cup {None} /\ readySince \in Times \cup {None}

(* A wall is announced for as long as it has really stood: every message    *)
(* since the time the announcement names showed it, on one connection and   *)
(* with no silence or snapshot in between.                                  *)
AnnouncedStood ==
  announced # None =>
    /\ announced.stood # None /\ announced.stood <= announced.since
    /\ announced.at >= announced.since + Persistence

(* What the application believes to be left of a wall in evidence is what   *)
(* its order book, filled by the same messages, holds at the price.         *)
WallMirrorsBook ==
  wall # None /\ wall.quality = "observed" => book.ready /\ wall.remaining = book.size

(* A wall announced before the lane was ready does not seed a bounce.       *)
NoSeedBeforeReady == bounced # None => readySince # None /\ bounced.told >= readySince

(* The first approach to a wall is the only one that may be a bounce.       *)
OneBouncePerWall == bounced # None => bounced.at \notin spent

(* Whenever the order book is usable, the tracker follows it.               *)
DomFollowsBook == book.ready => dom # None /\ dom.valid /\ dom.size = book.size
=============================================================================
