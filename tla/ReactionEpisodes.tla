--------------------------- MODULE ReactionEpisodes ---------------------------
(***************************************************************************)
(* The executable lanes of strategy v2 on one symbol: how an episode at a   *)
(* level is armed, crossed, ended and spent by live prices, how a completed *)
(* 15-second footprint is evaluated, at once or after the minute's first    *)
(* trade, and how disconnects, snapshots, incomplete footprints, levels     *)
(* that come and go and new sessions cut in.                                *)
(*                                                                         *)
(* The model is written for highs; lows mirror them, in lanes of the other  *)
(* side that share no cooldown with these.  Orderflow, risk, obstacles and  *)
(* the book's age and spread decide whether a reaction passes, and nothing  *)
(* else: a lane may find them either way at every evaluation.               *)
(***************************************************************************)
EXTENDS Integers, FiniteSets

CONSTANTS
  Levels,       (* the levels                                               *)
  PriceOf,      (* the price of a level                                     *)
  Prices,       (* prices of trades and book midpoints                      *)
  Buffer,       (* reaction_buffer_ticks, and the tick, as prices           *)
  Zone,         (* approach_zone_bp, as a distance                          *)
  Departure,    (* approach_departure_bp, as a distance                     *)
  BarLength,    (* of a footprint                                           *)
  MinuteLength, (* of a 1m bar, in the same unit                            *)
  Warmup,       (* warmup_ms after a snapshot                               *)
  Cooldown,     (* cooldown_ms of a lane                                    *)
  Ttl,          (* entry_ttl_ms                                             *)
  None,         (* no bar, no time                                          *)
  MaxTime,      (* bound: the clock                                         *)
  MaxFaults     (* bound: disconnects and new sessions                      *)

ASSUME EpisodesAssumption ==
  /\ IsFiniteSet(Levels)
  /\ PriceOf \in [Levels -> Nat]
  /\ Prices \subseteq Nat
  /\ Buffer \in Nat \ {0}
  /\ Zone \in Nat /\ Departure \in Nat /\ Zone <= Departure
  /\ BarLength \in Nat \ {0}
  /\ MinuteLength \in Nat \ {0} /\ MinuteLength % BarLength = 0
  /\ Warmup \in Nat /\ Cooldown \in Nat /\ Ttl \in Nat
  /\ None \notin Nat
  /\ MaxTime \in Nat /\ MaxFaults \in Nat

Lanes == {"failed_sweep_reclaim", "terminal_level_breakout"}

Times == 0..(MaxTime + MinuteLength)

(* An episode: armed_at_ms and crossed_at_ms.  A set-up is one of its lanes. *)
Episode == [armed : Times, crossed : Times \cup {None}]
Setup   == [lane : Lanes, level : Levels, armed : Times]
(* A footprint: its last and its highest price, and is it complete?         *)
Bar     == [open : Times, high : Prices, last : Prices, clean : BOOLEAN]

VARIABLES
  now,          (* receive time                                             *)
  faults,       (* disconnects and new sessions so far                      *)
  connected,    (* stream_connected                                         *)
  snapshotAt,   (* snapshot_received_at_ms; None: no book to use            *)
  eligible,     (* evaluation_eligible                                      *)
  bucket,       (* the footprint being formed                               *)
  phase,        (* of handle_message: is a trade message being handled?     *)
  flushed,      (* the footprint that message completed                     *)
  boundary,     (* boundary_footprint: the latest bar, if not yet evaluated *)
  minute,       (* the 1m bar being formed: its opening                     *)
  quarantined,  (* is its builder to suppress the next bar it completes?    *)
  minuteClosed, (* closing time of bars["1m"][-1]                           *)
  listed,       (* the levels in state.levels                               *)
  brokenAt,     (* their broken_at_ms; 0 stands for None                    *)
  approach,     (* _approaches                                              *)
  consumed,     (* _consumed_approaches                                     *)
  attempted,    (* _attempted                                               *)
  restored,     (* restored_setup_ids                                       *)
  cooldownUntil,(* _cooldown_until_ms                                       *)
  signals,      (* every signal so far and what it rested on                *)
  excused,      (* levels that departed or lost continuity since they signalled *)
  evidenceFrom  (* since when what happens is evidence for a signal         *)

market    == <<connected, snapshotAt, eligible, faults>>
candles   == <<minute, quarantined, minuteClosed>>
catalog   == <<listed, brokenAt>>
evaluator == <<attempted, restored, cooldownUntil, signals>>
vars == <<now, market, bucket, phase, flushed, boundary, candles, catalog,
          approach, consumed, evaluator, excused, evidenceFrom>>

NoApproaches == [l \in Levels |-> None]
NoCooldown   == [k \in Lanes |-> 0]

Init ==
  /\ now = 0 /\ faults = 0
  /\ connected = FALSE /\ snapshotAt = None /\ eligible \in BOOLEAN
  /\ bucket = None /\ phase = "idle" /\ flushed = None
  /\ boundary = None
  /\ minute = None /\ quarantined = TRUE /\ minuteClosed = 0
  /\ listed = Levels /\ brokenAt = [l \in Levels |-> 0]
  /\ approach = NoApproaches /\ consumed = {}
  /\ attempted = {} /\ restored = {} /\ cooldownUntil = NoCooldown
  /\ signals = {} /\ excused = Levels /\ evidenceFrom = 0
-----------------------------------------------------------------------------
Closing(b)   == b.open + BarLength
BucketOf(t)  == t - (t % BarLength)
MinuteOf(t)  == t - (t % MinuteLength)
Distance(l, p) == IF p > PriceOf[l] THEN p - PriceOf[l] ELSE PriceOf[l] - p
Far(p)       == {l \in Levels : Distance(l, p) > Departure}
Crossing(l, p) == p >= PriceOf[l] + Buffer

(* The canonical catalog: the listed levels that are not broken.            *)
ActiveOf(some, broken) == {l \in some : broken[l] = 0}

(* A mutant: a new episode with its two times swapped.                      *)
ObservedSwapped(l, p, traded, active, ap, spent) ==
  IF l \in active \ spent /\ ap[l] = None /\ Distance(l, p) <= Zone
    THEN [armed |-> IF traded /\ Crossing(l, p) THEN now ELSE None, crossed |-> now]
    ELSE ap[l]

(* observe_price on the episode of one level: a level that left the catalog *)
(* ends it, a trade beyond the level crosses it, and a price in the zone    *)
(* and on the valid side arms one where none is spent.                      *)
Observed(l, p, traded, active, ap, spent) ==
  LET crossing == IF traded /\ Crossing(l, p) THEN now ELSE None
  IN  CASE l \notin active -> None
        [] l \in active /\ ap[l] # None ->
             IF ap[l].crossed = None THEN [ap[l] EXCEPT !.crossed = crossing] ELSE ap[l]
        [] l \in active \ spent /\ ap[l] = None /\ Distance(l, p) <= Zone /\ p <= PriceOf[l] + Buffer ->
             [armed |-> now, crossed |-> crossing]
        [] OTHER -> None

ObservedAll(p, traded, active, ap, spent) ==
  [l \in Levels |-> Observed(l, p, traded, active, ap, spent)]

(* A consumed level is released by a price beyond the departure threshold.  *)
Unreleased(p, active, spent) == {l \in spent : l \in active => l \notin Far(p)}
-----------------------------------------------------------------------------
(* _approached_levels: episodes armed before the bar closed, at levels that  *)
(* were active when it opened.                                              *)
Approached(l, b, ap) ==
  /\ ap[l] # None
  /\ ap[l].armed < Closing(b)
  /\ l \in listed
  /\ brokenAt[l] = 0 \/ brokenAt[l] > b.open

(* The reclaim lane takes a cross that closed back for a reaction, ...      *)
Reclaims(b, ap) ==
  {l \in Levels : /\ Approached(l, b, ap)
                  /\ ap[l].crossed # None \/ Crossing(l, b.high)
                  /\ b.last < PriceOf[l]}

(* ... the breakout lane a close beyond the level.                          *)
Breakouts(b, ap) == {l \in Levels : Approached(l, b, ap) /\ Crossing(l, b.last)}

Reactions(lane, b, ap) ==
  IF lane = "failed_sweep_reclaim" THEN Reclaims(b, ap) ELSE Breakouts(b, ap)

(* _refresh_level_approaches on the episode of one level, after the lanes.  *)
Refreshed(l, b, ap, spent) ==
  LET active == ActiveOf(listed, brokenAt)
      since  == IF ap[l].crossed = None /\ Crossing(l, b.high)
                THEN [ap[l] EXCEPT !.crossed = Closing(b)] ELSE ap[l]
  IN  CASE l \notin active -> None
        [] l \in active /\ ap[l] # None ->
             IF Closing(b) <= ap[l].armed THEN ap[l] ELSE IF l \in Far(b.last) THEN None ELSE since
        [] /\ l \in active \ (spent \cup Far(b.last)) /\ ap[l] = None
           /\ b.high >= PriceOf[l] - Zone /\ b.last <= PriceOf[l] ->
             [armed |-> Closing(b), crossed |-> None]
        [] OTHER -> None

SetupOf(lane, l, ap) == [lane |-> lane, level |-> l, armed |-> ap[l].armed]

SignalOf(lane, l, b, ap) ==
  [lane |-> lane, level |-> l, armed |-> ap[l].armed, close |-> Closing(b), at |-> now, live |-> eligible]

(* A mutant: a spent episode stays.                                         *)
KeepsSpent(ap, spent) == ap

(* A signal ends its episode.                                               *)
WithoutSpent(ap, spent) == [l \in Levels |-> IF l \in spent THEN None ELSE ap[l]]

(* A mutant: signals do not consume the approach to their level.            *)
ConsumesNothing(some, used) == some

Consuming(some, used) == some \cup used

(* _resolve_candidate: a set-up is tried once, and not during the cooldown.  *)
Admitted(lane, l, ap) ==
  /\ SetupOf(lane, l, ap) \notin attempted
  /\ now >= cooldownUntil[lane]

(* The gates of _readiness that keep _evaluate_v2 from the evaluator; a     *)
(* partial day is looked at first and lets it through.                      *)
Blocked ==
  /\ eligible
  /\ ~connected \/ snapshotAt' = None \/ now < snapshotAt' + Warmup

(* Does the bar close a minute whose 1m bar is not there yet?              *)
Waits(b) == Closing(b) % MinuteLength = 0 /\ minuteClosed < Closing(b)

(* evaluate of the bar b, with the episodes ap, the consumed levels used    *)
(* and the excused ones seen: `best' is the candidate of each lane whose     *)
(* reactions all pass.                                                      *)
Lane(b, ap, used, seen, best) ==
  LET tried     == {k \in Lanes : best[k] # None /\ Admitted(k, best[k], ap)}
      triggered == {k \in tried : brokenAt[best[k]] = 0 \/ brokenAt[best[k]] >= Closing(b)}
      won       == {best[k] : k \in triggered}
      held      == Consuming(used, won) \cap ActiveOf(listed, brokenAt)
      rest      == WithoutSpent(ap, won)
  IN  /\ attempted' = attempted \cup {SetupOf(k, best[k], ap) : k \in tried}
      /\ cooldownUntil' = [k \in Lanes |-> IF k \in tried THEN Closing(b) + Cooldown ELSE cooldownUntil[k]]
      /\ signals' = signals \cup {SignalOf(k, best[k], b, ap) : k \in triggered}
      /\ consumed' = held \ Far(b.last)
      /\ approach' = [l \in Levels |-> Refreshed(l, b, rest, consumed')]
      /\ excused' = (seen \ won) \cup Far(b.last)

Evaluate(b, ap, used, seen) ==
  /\ UNCHANGED restored
  /\ \/ /\ Blocked
        /\ approach' = ap /\ consumed' = used /\ excused' = seen
        /\ UNCHANGED <<attempted, cooldownUntil, signals>>
     \/ /\ ~Blocked
        /\ \E best \in [Lanes -> Levels \cup {None}] :
             /\ \A k \in Lanes : best[k] \in Reactions(k, b, ap) \cup {None}
             /\ Lane(b, ap, used, seen, best)

-----------------------------------------------------------------------------
(* A mutant: episodes live on through a break in the data.                  *)
KeepingEpisodes(ap) == ap

(* reset_level_episodes.                                                    *)
Reset(ap) == NoApproaches

(* _complete_footprint of the bar b, or nothing if there is none and the    *)
(* one that waits goes on waiting.  An incomplete bar ends all episodes;     *)
(* one that closes a minute waits until its 1m bar is there.                *)
Complete(b, waiting, ap, used, seen) ==
  \/ /\ b = None
     /\ boundary' = waiting
     /\ approach' = ap /\ consumed' = used /\ excused' = seen
     /\ UNCHANGED evaluator
  \/ /\ b # None /\ ~b.clean
     /\ boundary' = None
     /\ approach' = Reset(ap) /\ consumed' = {} /\ excused' = Levels
     /\ UNCHANGED evaluator
  \/ /\ b # None /\ b.clean /\ Waits(b)
     /\ boundary' = b
     /\ approach' = ap /\ consumed' = used /\ excused' = seen
     /\ UNCHANGED evaluator
  \/ /\ b # None /\ b.clean /\ ~Waits(b)
     /\ boundary' = None
     /\ Evaluate(b, ap, used, seen)

Interrupting(b) == b # None /\ ~b.clean

(* The footprint that a message at this time completes, and the one left.   *)
Flushable == bucket # None /\ bucket.open < BucketOf(now)
Emitted   == IF Flushable THEN bucket ELSE None
Remaining == IF Flushable THEN None ELSE bucket

Tick ==
  /\ phase = "idle"
  /\ now < MaxTime                                     \* bound
  /\ now' = now + 1
  /\ UNCHANGED <<market, bucket, phase, flushed, boundary, candles, catalog,
                 approach, consumed, evaluator, excused, evidenceFrom>>

Connect ==
  /\ phase = "idle"
  /\ ~connected
  /\ connected' = TRUE
  /\ UNCHANGED <<now, faults, snapshotAt, eligible, bucket, phase, flushed, boundary,
                 candles, catalog, approach, consumed, evaluator, excused, evidenceFrom>>

(* The stream breaks.  The footprint learns it from the next connection's   *)
(* first message, which marks the bucket at hand incomplete.                *)
Disconnect ==
  /\ phase = "idle"
  /\ connected
  /\ faults < MaxFaults                                \* bound
  /\ faults' = faults + 1
  /\ connected' = FALSE /\ snapshotAt' = None
  /\ bucket' = IF bucket = None THEN None ELSE [bucket EXCEPT !.clean = FALSE]
  /\ boundary' = None
  /\ minute' = None /\ quarantined' = TRUE
  /\ approach' = Reset(approach) /\ consumed' = {}
  /\ excused' = Levels /\ evidenceFrom' = now
  /\ UNCHANGED <<now, eligible, phase, flushed, minuteClosed, catalog, evaluator>>

(* The deadline passes, or the process is restarted: every symbol's state   *)
(* and evaluator are made anew, with the attempts read when the process     *)
(* began.  The bootstrap takes time.                                        *)
NewSession(restart) ==
  /\ phase = "idle"
  /\ faults < MaxFaults /\ now < MaxTime               \* bounds
  /\ faults' = faults + 1 /\ now' = now + 1
  /\ connected' = FALSE /\ snapshotAt' = None /\ eligible' \in BOOLEAN
  /\ bucket' = None /\ boundary' = None
  /\ minute' = None /\ quarantined' = TRUE /\ minuteClosed' = MinuteOf(now)
  /\ restored' = IF restart THEN {[lane |-> s.lane, level |-> s.level, armed |-> s.armed] :
                                    s \in {x \in signals : x.live}}
                 ELSE restored
  /\ attempted' = restored' /\ cooldownUntil' = NoCooldown
  /\ approach' = NoApproaches /\ consumed' = {}
  /\ excused' = Levels /\ evidenceFrom' = now'
  /\ UNCHANGED <<phase, flushed, catalog, signals>>

(* A book message: the midpoint is observed before the footprint that the   *)
(* message completed is evaluated.                                          *)
Delta(mid) ==
  LET active == ActiveOf(listed, brokenAt)
  IN  /\ phase = "idle"
      /\ snapshotAt # None
      /\ UNCHANGED <<now, market, phase, flushed, candles, catalog>>
      /\ bucket' = Remaining
      /\ evidenceFrom' = IF Interrupting(Emitted) THEN now ELSE evidenceFrom
      /\ Complete(Emitted, boundary, ObservedAll(mid, FALSE, active, approach, consumed),
                  Unreleased(mid, active, consumed), excused \cup Far(mid))

(* A snapshot of the book ends all episodes first.  A footprint that it      *)
(* completes may yet be put to wait: this bar is evidence all the same.     *)
Snapshot(mid) ==
  LET active == ActiveOf(listed, brokenAt)
  IN  /\ phase = "idle"
      /\ connected
      /\ snapshotAt' = now
      /\ UNCHANGED <<now, connected, eligible, faults, phase, flushed, candles, catalog>>
      /\ bucket' = Remaining
      /\ Complete(Emitted, None, ObservedAll(mid, FALSE, active, Reset(approach), {}), {}, Levels)
      /\ evidenceFrom' = IF boundary' = None THEN now ELSE Closing(boundary')

(* A trade joins the bucket of its time; the bucket is complete if the      *)
(* footprint's warm-up is over and no gap was noticed.                      *)
Extended(b, p, gap) ==
  LET ok == ~gap /\ snapshotAt # None /\ now >= snapshotAt + Warmup
  IN  IF b = None THEN [open |-> BucketOf(now), high |-> p, last |-> p, clean |-> ok]
      ELSE [b EXCEPT !.high = IF p > @ THEN p ELSE @, !.last = p, !.clean = @ /\ ok]

(* The catalog after a refresh at the end of a minute: as it was, or a level *)
(* broke, or a grouping made it leave or return.                            *)
Refreshes ==
  {<<listed, brokenAt>>}
  \cup {<<listed, [brokenAt EXCEPT ![l] = MinuteOf(now)]>> : l \in ActiveOf(listed, brokenAt)}
  \cup {<<listed \ {l}, brokenAt>> : l \in listed}
  \cup {<<listed \cup {l}, brokenAt>> : l \in Levels \ listed}

(* One trade of a message: the bars, then the levels, then the episodes.    *)
Trade(p) ==
  LET rollover == minute # None /\ minute < MinuteOf(now)
  IN  /\ minute' = MinuteOf(now)
      /\ quarantined' = (quarantined /\ ~rollover)
      /\ minuteClosed' = IF rollover /\ ~quarantined THEN minute + MinuteLength ELSE minuteClosed
      /\ \/ /\ ~rollover \/ quarantined
            /\ UNCHANGED catalog
         \/ /\ rollover /\ ~quarantined
            /\ \E r \in Refreshes : listed' = r[1] /\ brokenAt' = r[2]
      /\ LET active == ActiveOf(listed', brokenAt')
         IN  /\ approach' = ObservedAll(p, TRUE, active, approach, consumed)
             /\ consumed' = Unreleased(p, active, consumed)
             /\ excused'  = excused \cup Far(p) \cup (Levels \ active)
      /\ UNCHANGED <<now, market, boundary, evaluator, evidenceFrom>>

(* A public trade message.  The footprint takes all of it before its first  *)
(* trade is handled; what it completed is kept for the end.                 *)
TradeMessage(p, gap) ==
  /\ phase = "idle"
  /\ connected
  /\ phase' = "trades"
  /\ flushed' = Emitted
  /\ bucket' = Extended(Remaining, p, gap)
  /\ Trade(p)

NextTrade(p) ==
  /\ phase = "trades"
  /\ bucket' = Extended(bucket, p, FALSE)
  /\ Trade(p)
  /\ UNCHANGED <<phase, flushed>>

Due == boundary # None /\ minuteClosed >= Closing(boundary)

(* After the message's last trade, the deferred footprint is evaluated if   *)
(* its minute is there, ...                                                 *)
EvaluateDeferred ==
  /\ phase = "trades"
  /\ phase' = "settling"
  /\ UNCHANGED <<now, market, bucket, flushed, candles, catalog, evidenceFrom>>
  /\ \/ /\ Due
        /\ boundary' = None
        /\ Evaluate(boundary, approach, consumed, excused)
     \/ /\ ~Due
        /\ UNCHANGED <<boundary, approach, consumed, evaluator, excused>>

(* ... and then the one this message completed.                             *)
EndMessage ==
  /\ phase = "settling"
  /\ phase' = "idle" /\ flushed' = None
  /\ UNCHANGED <<now, market, bucket, candles, catalog>>
  /\ evidenceFrom' = IF Interrupting(flushed) THEN now ELSE evidenceFrom
  /\ Complete(flushed, boundary, approach, consumed, excused)

Next ==
  \/ Tick
  \/ Connect
  \/ Disconnect
  \/ \E restart \in BOOLEAN : NewSession(restart)
  \/ \E mid \in Prices : Delta(mid) \/ Snapshot(mid)
  \/ \E p \in Prices, gap \in BOOLEAN : TradeMessage(p, gap)
  \/ \E p \in Prices : NextTrade(p)
  \/ EvaluateDeferred
  \/ EndMessage

Spec == Init /\ [][Next]_vars
-----------------------------------------------------------------------------
Signal == [lane : Lanes, level : Levels, armed : Times, close : Times, at : Times, live : BOOLEAN]

TypeOK ==
  /\ now \in 0..MaxTime /\ faults \in 0..MaxFaults
  /\ connected \in BOOLEAN /\ snapshotAt \in Times \cup {None} /\ eligible \in BOOLEAN
  /\ bucket \in Bar \cup {None} /\ phase \in {"idle", "trades", "settling"}
  /\ flushed \in Bar \cup {None} /\ boundary \in Bar \cup {None}
  /\ minute \in Times \cup {None} /\ quarantined \in BOOLEAN /\ minuteClosed \in Times
  /\ listed \subseteq Levels /\ brokenAt \in [Levels -> Times]
  /\ approach \in [Levels -> Episode \cup {None}] /\ consumed \subseteq Levels
  /\ attempted \subseteq Setup /\ restored \subseteq Setup /\ cooldownUntil \in [Lanes -> Nat]
  /\ signals \subseteq Signal /\ excused \subseteq Levels /\ evidenceFrom \in Times

(* An episode signals once, whichever lane takes it: afterwards neither the *)
(* other lane nor the same lane at a later bar, a later session or a        *)
(* restart finds it again.                                                  *)
OneSignalPerEpisode ==
  \A s, t \in signals : s.level = t.level /\ s.armed = t.armed => s = t

(* Between two signals at a level the price went beyond the departure       *)
(* threshold, or market data or the level itself was interrupted, or a new  *)
(* session began.  STRATEGY_V2.md:170-171 names the departure only; the     *)
(* code clears what is spent at every reset and builds it anew each day.    *)
SpentUntilExcused ==
  [][\A s \in signals' \ signals : s.level \in excused]_vars

(* No signal that may be executed rests on an episode begun before the last *)
(* disconnect, snapshot, incomplete footprint or session; a clean footprint *)
(* that closes a minute and that the snapshot itself completes still counts.*)
EvidenceIsContinuous ==
  [][\A s \in signals' \ signals : s.live => s.armed >= evidenceFrom]_vars

(* Executable signals of one lane keep the cooldown from the bar of the one *)
(* before, although a new session forgets it: proved, and checked by no run, *)
(* whose clocks are too short for a cooldown between two signals.           *)
LiveSignalsAreCooled ==
  \A s, t \in signals :
    s.live /\ t.live /\ s.lane = t.lane /\ s # t => s.at >= t.close + Cooldown \/ t.at >= s.close + Cooldown

(* An executable signal is given before the entry's time to live has gone   *)
(* by since its bar closed.                                                 *)
SignalsWithinTtl == \A s \in signals : s.live => s.at <= s.close + Ttl
=============================================================================
