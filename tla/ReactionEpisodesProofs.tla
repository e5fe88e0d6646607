------------------------ MODULE ReactionEpisodesProofs ------------------------
(***************************************************************************)
(* Strategy v2's episodes and signals, for any levels, prices, thresholds   *)
(* and lengths of bars.                                                     *)
(*                                                                         *)
(* The argument: bars are evaluated in the order of their closes (Queued),  *)
(* so an episode armed now or at a close is younger than every signal       *)
(* (Held); a level that may not signal has no episode and is consumed or    *)
(* broken.  What an evaluation does, or a message that brings none, is said *)
(* once, in Judged.                                                         *)
(***************************************************************************)
EXTENDS ReactionEpisodes, TLAPS

(* Signals lie in the past: episode, close, evaluation.                     *)
Past == \A s \in signals : s.armed < s.close /\ s.close <= s.at /\ s.at <= now

(* Bars that were completed are closed; the one being formed began, and     *)
(* while a message is handled has not closed.                               *)
Formed ==
  /\ minute # None => minute <= now
  /\ bucket # None => \E t \in 0..now : bucket.open = BucketOf(t)
  /\ bucket # None /\ phase # "idle" => now < Closing(bucket)
  /\ phase = "idle" => flushed = None
  /\ flushed # None => Closing(flushed) <= now
  /\ boundary # None => Closing(boundary) <= now /\ boundary.clean

(* Bars wait in the order of their closes, behind every signal.             *)
Queued ==
  /\ boundary # None /\ flushed # None => Closing(boundary) <= Closing(flushed)
  /\ boundary # None /\ bucket # None => Closing(boundary) <= Closing(bucket)
  /\ \A b \in {boundary, flushed, bucket} : b # None => \A s \in signals : s.close <= Closing(b)

(* Episodes began in the past, after every signal of their level; a level   *)
(* that is not excused has none and cannot have one.                        *)
Held(ap, used, seen) ==
  /\ \A l \in Levels : ap[l] # None => ap[l].armed <= now
  /\ \A s \in signals : ap[s.level] # None => s.armed < ap[s.level].armed
  /\ \A l \in Levels \ seen : ap[l] = None /\ l \in listed /\ (l \in used \/ brokenAt[l] # 0)

EpisodeInv ==
  /\ TypeOK /\ Formed /\ Past /\ Queued
  /\ Held(approach, consumed, excused)
  /\ OneSignalPerEpisode

New == signals' \ signals

(* What the bar b, or none, leaves of the episodes ap.                      *)
Judged(b, ap) ==
  /\ approach' \in [Levels -> Episode \cup {None}]
  /\ consumed' \subseteq Levels /\ excused' \subseteq Levels
  /\ attempted' \subseteq Setup /\ restored' = restored
  /\ cooldownUntil' \in [Lanes -> Nat]
  /\ signals \subseteq signals' /\ signals' \subseteq Signal
  /\ \A s \in New : /\ b # None /\ ~Blocked
                    /\ s.close = Closing(b) /\ s.at = now /\ s.live = eligible
                    /\ ap[s.level] # None /\ s.armed = ap[s.level].armed /\ s.armed < s.close
                    /\ now >= cooldownUntil[s.lane] /\ cooldownUntil'[s.lane] = s.close + Cooldown
  /\ \A s, t \in New : s.level = t.level \/ s.lane = t.lane => s = t
  /\ \A k \in Lanes : cooldownUntil'[k] # cooldownUntil[k] =>
                        b # None /\ cooldownUntil'[k] = Closing(b) + Cooldown
  /\ \A l \in Levels : approach'[l] # None =>
       \/ ap[l] # None /\ approach'[l].armed = ap[l].armed /\ \A s \in New : s.level # l
       \/ b # None /\ ~Blocked /\ approach'[l].armed = Closing(b)
  /\ \A l \in Levels \ excused' :
       approach'[l] = None /\ l \in listed /\ (l \in consumed' \/ brokenAt[l] # 0)

(* The same with the bar that waits.                                        *)
Leaves(b, ap, waiting) ==
  /\ Judged(b, ap)
  /\ b = None => boundary' = waiting
  /\ b # None => boundary' = None \/ (boundary' = b /\ b.clean)
  /\ Interrupting(b) => boundary' = None /\ \A l \in Levels : approach'[l] = None

-----------------------------------------------------------------------------
(* A multiple of b below another is below it by b at least.                 *)
LEMMA Multiples ==
  ASSUME NEW b \in Nat \ {0}, NEW q \in Nat, NEW r \in Nat, b * q < b * r
  PROVE  b * q + b <= b * r
<1>1. q < r
  <2>1. SUFFICES ASSUME r <= q PROVE FALSE
    OBVIOUS
  <2>2. q - r \in Nat /\ q = r + (q - r)
    BY <2>1
  <2>3. PICK k \in Nat : q = r + k
    BY <2>2
  <2>4. b * q = b * r + b * k /\ b * k \in Nat /\ b * r \in Nat
    BY <2>3
  <2> QED
    BY <2>4
<1>2. r - q - 1 \in Nat /\ r = q + 1 + (r - q - 1)
  BY <1>1
<1>3. PICK k \in Nat : r = q + 1 + k
  BY <1>2
<1>4. b * r = b * q + b + b * k /\ b * k \in Nat /\ b * q \in Nat
  BY <1>3
<1> QED
  BY <1>4

LEMMA ConstantFacts ==
  /\ BarLength \in Nat \ {0} /\ MinuteLength \in Nat \ {0} /\ BarLength <= MinuteLength
  /\ MaxTime \in Nat /\ MaxFaults \in Nat /\ Warmup \in Nat /\ Cooldown \in Nat /\ None \notin Nat
  /\ Times = 0..(MaxTime + MinuteLength) /\ Times \subseteq Nat
  /\ Prices \subseteq Nat /\ PriceOf \in [Levels -> Nat] /\ Buffer \in Nat \ {0}
<1>1. BarLength \in Nat \ {0} /\ MinuteLength \in Nat \ {0} /\ MinuteLength % BarLength = 0
  BY EpisodesAssumption
<1>2. /\ MinuteLength \div BarLength \in Nat
      /\ MinuteLength = BarLength * (MinuteLength \div BarLength) + (MinuteLength % BarLength)
  BY <1>1
<1>3. BarLength * 0 < BarLength * (MinuteLength \div BarLength)
  BY <1>1, <1>2
<1>4. BarLength * 0 + BarLength <= BarLength * (MinuteLength \div BarLength)
  BY <1>1, <1>2, <1>3, Multiples
<1>5. BarLength <= MinuteLength
  BY <1>1, <1>2, <1>4
<1> QED
  BY <1>1, <1>5, EpisodesAssumption DEF Times

(* A bucket opens no later than the times in it, at a multiple of its       *)
(* length.                                                                  *)
LEMMA BucketIs ==
  ASSUME NEW t \in Nat
  PROVE  /\ BucketOf(t) \in 0..t /\ t < BucketOf(t) + BarLength
         /\ BucketOf(t) = BarLength * (t \div BarLength) /\ t \div BarLength \in Nat
<1>1. BarLength \in Nat \ {0}
  BY EpisodesAssumption
<1>2. /\ t \div BarLength \in Nat
      /\ t % BarLength \in 0..(BarLength - 1)
      /\ t = BarLength * (t \div BarLength) + (t % BarLength)
  BY <1>1
<1>3. BarLength * (t \div BarLength) \in Nat
  BY <1>1, <1>2
<1> QED
  BY <1>1, <1>2, <1>3 DEF BucketOf

LEMMA MinuteIs ==
  ASSUME NEW t \in Nat
  PROVE  MinuteOf(t) \in 0..t
<1>1. MinuteLength \in Nat \ {0}
  BY EpisodesAssumption
<1>2. /\ t \div MinuteLength \in Nat
      /\ t % MinuteLength \in 0..(MinuteLength - 1)
      /\ t = MinuteLength * (t \div MinuteLength) + (t % MinuteLength)
  BY <1>1
<1>3. MinuteLength * (t \div MinuteLength) \in Nat
  BY <1>1, <1>2
<1> QED
  BY <1>1, <1>2, <1>3 DEF MinuteOf

LEMMA BucketNext ==
  ASSUME NEW s \in Nat, NEW t \in Nat, BucketOf(s) < BucketOf(t)
  PROVE  BucketOf(s) + BarLength <= BucketOf(t)
<1>1. BarLength \in Nat \ {0}
  BY EpisodesAssumption
<1>2. /\ BucketOf(s) = BarLength * (s \div BarLength) /\ s \div BarLength \in Nat
      /\ BucketOf(t) = BarLength * (t \div BarLength) /\ t \div BarLength \in Nat
  BY BucketIs
<1> QED
  BY <1>1, <1>2, Multiples

LEMMA Typed ==
  ASSUME TypeOK
  PROVE  /\ now \in Nat /\ now <= MaxTime /\ now \in Times
         /\ approach \in [Levels -> Episode \cup {None}]
         /\ \A b \in {bucket, flushed, boundary} : b # None =>
              b \in Bar /\ b.open \in Nat /\ b.clean \in BOOLEAN /\ Closing(b) \in Nat
BY ConstantFacts DEF TypeOK, Bar, Closing

(* What a message completes closed by now; what it leaves has not.          *)
LEMMA Flushing ==
  ASSUME EpisodeInv, phase = "idle"
  PROVE  /\ Emitted \in Bar \cup {None} /\ Remaining \in Bar \cup {None}
         /\ Emitted # None => Emitted = bucket /\ Remaining = None /\ Closing(Emitted) <= now
         /\ Remaining # None => Remaining = bucket /\ Emitted = None /\ now < Closing(Remaining)
<1>1. TypeOK /\ Formed
  BY DEF EpisodeInv
<1>2. bucket \in Bar \cup {None}
  BY <1>1 DEF TypeOK
<1>3. CASE bucket = None
  BY <1>2, <1>3 DEF Emitted, Remaining, Flushable
<1>4. CASE bucket # None
  <2>1. now \in Nat /\ BarLength \in Nat
    BY <1>1, ConstantFacts, Typed
  <2>2. PICK t \in 0..now : bucket.open = BucketOf(t)
    BY <1>1, <1>4 DEF Formed
  <2>3. t \in Nat
    BY <2>1
  <2>4. BucketOf(t) \in 0..t
    BY <2>3, BucketIs
  <2>5. BucketOf(now) \in 0..now /\ now < BucketOf(now) + BarLength
    BY <2>1, BucketIs
  <2>6. Flushable => Closing(bucket) <= BucketOf(now)
    BY <2>1, <2>2, <2>3, BucketNext DEF Flushable, Closing
  <2>7. ~Flushable => now < Closing(bucket)
    BY <1>4, <2>1, <2>2, <2>3, <2>4, <2>5 DEF Flushable, Closing
  <2>8. Closing(bucket) \in Nat
    BY <2>1, <2>2, <2>3, <2>4 DEF Closing
  <2> QED
    BY <1>2, <1>4, <2>1, <2>5, <2>6, <2>7, <2>8 DEF Emitted, Remaining, Flushable
<1> QED
  BY <1>3, <1>4
-----------------------------------------------------------------------------
(* An observed price arms episodes now, and none where a level is spent.     *)
LEMMA Observing ==
  ASSUME TypeOK, NEW l \in Levels, NEW ap \in [Levels -> Episode \cup {None}],
         NEW used \in SUBSET Levels, NEW active \in SUBSET Levels,
         NEW p \in Prices, NEW traded
  PROVE  /\ Observed(l, p, traded, active, ap, used) \in Episode \cup {None}
         /\ Observed(l, p, traded, active, ap, used) # None =>
              \/ Observed(l, p, traded, active, ap, used).armed = now
              \/ ap[l] # None /\ Observed(l, p, traded, active, ap, used).armed = ap[l].armed
         /\ ap[l] = None /\ (l \in active => l \in used) => Observed(l, p, traded, active, ap, used) = None
<1> DEFINE crossing == IF traded /\ Crossing(l, p) THEN now ELSE None
<1>1. now \in Times /\ crossing \in Times \cup {None} /\ ap[l] \in Episode \cup {None}
  BY Typed
<1>2. CASE l \notin active
  BY <1>2 DEF Observed
<1>3. CASE l \in active /\ ap[l] # None
  <2>1. Observed(l, p, traded, active, ap, used) =
          IF ap[l].crossed = None THEN [ap[l] EXCEPT !.crossed = crossing] ELSE ap[l]
    BY <1>3 DEF Observed
  <2> QED
    BY <1>1, <1>3, <2>1 DEF Episode
<1>4. CASE l \in active /\ ap[l] = None
  <2>1. \/ Observed(l, p, traded, active, ap, used) = None
        \/ /\ l \notin used
           /\ Observed(l, p, traded, active, ap, used) = [armed |-> now, crossed |-> crossing]
    BY <1>4 DEF Observed
  <2> QED
    BY <1>1, <1>4, <2>1 DEF Episode
<1> QED
  BY <1>2, <1>3, <1>4

(* A footprint arms episodes at its close, and none where a level is spent   *)
(* or gone; the others it leaves or ends.                                   *)
LEMMA Refreshing ==
  ASSUME TypeOK, NEW l \in Levels, NEW ap \in [Levels -> Episode \cup {None}],
         NEW used \in SUBSET Levels, NEW b \in Bar, Closing(b) \in Times
  PROVE  /\ Refreshed(l, b, ap, used) \in Episode \cup {None}
         /\ Refreshed(l, b, ap, used) # None =>
              \/ Refreshed(l, b, ap, used).armed = Closing(b) /\ l \notin used
              \/ ap[l] # None /\ Refreshed(l, b, ap, used).armed = ap[l].armed
         /\ l \notin ActiveOf(listed, brokenAt) => Refreshed(l, b, ap, used) = None
         /\ ap[l] = None /\ l \in used => Refreshed(l, b, ap, used) = None
<1> DEFINE active == ActiveOf(listed, brokenAt)
<1>1. ap[l] \in Episode \cup {None}
  OBVIOUS
<1>2. CASE l \notin active
  BY <1>2 DEF Refreshed
<1>3. CASE l \in active /\ ap[l] # None
  <2>1. Refreshed(l, b, ap, used) \in {None, ap[l], [ap[l] EXCEPT !.crossed = Closing(b)]}
    BY <1>3 DEF Refreshed
  <2> QED
    BY <1>1, <1>3, <2>1 DEF Episode
<1>4. CASE l \in active /\ ap[l] = None
  <2>1. \/ Refreshed(l, b, ap, used) = None
        \/ /\ l \notin used
           /\ Refreshed(l, b, ap, used) = [armed |-> Closing(b), crossed |-> None]
    BY <1>4 DEF Refreshed
  <2> QED
    BY <1>4, <2>1 DEF Episode
<1> QED
  BY <1>2, <1>3, <1>4

(* No level is a reaction of both lanes.                                    *)
LEMMA LanesDiffer ==
  ASSUME NEW l \in Levels, NEW b \in Bar, NEW ap, NEW j \in Lanes, NEW k \in Lanes,
         l \in Reactions(j, b, ap), l \in Reactions(k, b, ap)
  PROVE  j = k
<1>1. PriceOf[l] \in Nat /\ b.last \in Nat /\ Buffer \in Nat \ {0}
  BY ConstantFacts DEF Bar
<1>2. ~(l \in Reclaims(b, ap) /\ l \in Breakouts(b, ap))
  BY <1>1 DEF Reclaims, Breakouts, Crossing
<1> QED
  BY <1>2 DEF Reactions, Lanes

(* An evaluation that is not blocked.                                       *)
LEMMA LaneJudges ==
  ASSUME TypeOK, ~Blocked, restored' = restored,
         NEW b \in Bar, b # None, Closing(b) \in Times, 0 < Closing(b),
         NEW ap \in [Levels -> Episode \cup {None}],
         NEW used \in SUBSET Levels, NEW seen \in SUBSET Levels,
         \A l \in Levels \ seen : ap[l] = None /\ l \in listed /\ (l \in used \/ brokenAt[l] # 0),
         NEW best \in [Lanes -> Levels \cup {None}],
         \A k \in Lanes : best[k] \in Reactions(k, b, ap) \cup {None},
         Lane(b, ap, used, seen, best)
  PROVE  Judged(b, ap)
<1> DEFINE active == ActiveOf(listed, brokenAt)
           tried == {k \in Lanes : best[k] # None /\ Admitted(k, best[k], ap)}
           triggered == {k \in tried : brokenAt[best[k]] = 0 \/ brokenAt[best[k]] >= Closing(b)}
           won == {best[k] : k \in triggered}
           held == Consuming(used, won) \cap active
           rest == WithoutSpent(ap, won)
           new == {SignalOf(k, best[k], b, ap) : k \in triggered}
<1>1. /\ attempted' = attempted \cup {SetupOf(k, best[k], ap) : k \in tried}
      /\ cooldownUntil' = [k \in Lanes |-> IF k \in tried THEN Closing(b) + Cooldown ELSE cooldownUntil[k]]
      /\ signals' = signals \cup new
      /\ consumed' = held \ Far(b.last)
      /\ approach' = [l \in Levels |-> Refreshed(l, b, rest, consumed')]
      /\ excused' = (seen \ won) \cup Far(b.last)
  BY DEF Lane
<1>2. /\ now \in Times /\ eligible \in BOOLEAN /\ cooldownUntil \in [Lanes -> Nat]
      /\ signals \subseteq Signal /\ attempted \subseteq Setup
      /\ Closing(b) \in Nat /\ Cooldown \in Nat
  BY ConstantFacts, Typed DEF TypeOK
<1>3. \A k \in tried : /\ best[k] \in Levels /\ ap[best[k]] # None /\ ap[best[k]] \in Episode
                       /\ ap[best[k]].armed \in Times /\ ap[best[k]].armed < Closing(b)
                       /\ best[k] \in listed /\ best[k] \in Reactions(k, b, ap)
                       /\ now >= cooldownUntil[k]
  <2> SUFFICES ASSUME NEW k \in tried
               PROVE  /\ best[k] \in Levels /\ ap[best[k]] # None /\ ap[best[k]] \in Episode
                      /\ ap[best[k]].armed \in Times /\ ap[best[k]].armed < Closing(b)
                      /\ best[k] \in listed /\ best[k] \in Reactions(k, b, ap)
                      /\ now >= cooldownUntil[k]
    OBVIOUS
  <2>1. k \in Lanes /\ best[k] \in Reactions(k, b, ap) /\ now >= cooldownUntil[k]
    BY DEF Admitted
  <2>2. best[k] \in Levels /\ Approached(best[k], b, ap)
    BY <2>1 DEF Reactions, Reclaims, Breakouts
  <2> QED
    BY <2>1, <2>2 DEF Approached, Episode
<1>4. won \subseteq Levels /\ \A l \in won : \E k \in triggered : l = best[k]
  BY <1>3
<1>5. active \subseteq Levels /\ Far(b.last) \subseteq Levels /\ consumed' \subseteq Levels /\ excused' \subseteq Levels
  BY <1>1, <1>4 DEF Far, ActiveOf, Consuming, TypeOK
<1>6. rest = [l \in Levels |-> IF l \in won THEN None ELSE ap[l]] /\ rest \in [Levels -> Episode \cup {None}]
  BY DEF WithoutSpent
<1>7. \A l \in Levels : approach'[l] = Refreshed(l, b, rest, consumed')
  BY <1>1
<1>8. ASSUME NEW l \in Levels
      PROVE  /\ approach'[l] \in Episode \cup {None}
             /\ approach'[l] # None =>
                  \/ approach'[l].armed = Closing(b)
                  \/ rest[l] # None /\ approach'[l].armed = rest[l].armed
             /\ l \notin active => approach'[l] = None
             /\ rest[l] = None /\ l \in consumed' => approach'[l] = None
  <2> HIDE DEF rest
  <2>1. approach'[l] = Refreshed(l, b, rest, consumed')
    BY <1>7
  <2>2. consumed' \in SUBSET Levels
    BY <1>5
  <2> QED
    BY <1>6, <2>1, <2>2, Refreshing
<1>9. attempted' \subseteq Setup /\ cooldownUntil' \in [Lanes -> Nat]
  BY <1>1, <1>2, <1>3 DEF Setup, SetupOf
<1>10. \A s \in new : \E k \in triggered : s = SignalOf(k, best[k], b, ap)
  OBVIOUS
<1>11. \A s \in new :
         /\ s \in Signal
         /\ s.close = Closing(b) /\ s.at = now /\ s.live = eligible
         /\ ap[s.level] # None /\ s.armed = ap[s.level].armed /\ s.armed < s.close
         /\ now >= cooldownUntil[s.lane] /\ cooldownUntil'[s.lane] = s.close + Cooldown
         /\ s.level \in won
  <2> SUFFICES ASSUME NEW k \in triggered, NEW s, s = SignalOf(k, best[k], b, ap)
               PROVE  /\ s \in Signal
                      /\ s.close = Closing(b) /\ s.at = now /\ s.live = eligible
                      /\ ap[s.level] # None /\ s.armed = ap[s.level].armed /\ s.armed < s.close
                      /\ now >= cooldownUntil[s.lane] /\ cooldownUntil'[s.lane] = s.close + Cooldown
                      /\ s.level \in won
    BY <1>10
  <2>1. k \in tried /\ k \in Lanes
    OBVIOUS
  <2>2. s = [lane |-> k, level |-> best[k], armed |-> ap[best[k]].armed, close |-> Closing(b), at |-> now, live |-> eligible]
    BY DEF SignalOf
  <2>3. s.lane = k /\ s.level = best[k] /\ s.armed = ap[best[k]].armed /\ s.close = Closing(b) /\ s.at = now /\ s.live = eligible
    BY <2>2
  <2>4. s \in Signal
    BY <1>2, <1>3, <2>1, <2>2 DEF Signal
  <2>5. cooldownUntil'[k] = Closing(b) + Cooldown
    BY <1>1, <2>1
  <2> QED
    BY <1>3, <2>1, <2>3, <2>4, <2>5
<1>12. \A s, t \in new : s.level = t.level \/ s.lane = t.lane => s = t
  <2> SUFFICES ASSUME NEW j \in triggered, NEW k \in triggered, best[j] = best[k] \/ j = k
               PROVE  SignalOf(j, best[j], b, ap) = SignalOf(k, best[k], b, ap)
    BY <1>10 DEF SignalOf
  <2>1. j \in tried /\ k \in tried
    OBVIOUS
  <2>2. j = k
    BY <1>3, <2>1, LanesDiffer
  <2> QED
    BY <2>2
<1>13. New \subseteq new /\ signals \subseteq signals' /\ signals' \subseteq Signal
  BY <1>1, <1>2, <1>11 DEF New
<1>14. \A k \in Lanes : cooldownUntil'[k] # cooldownUntil[k] => cooldownUntil'[k] = Closing(b) + Cooldown
  BY <1>1
<1>15. ASSUME NEW l \in Levels, approach'[l] # None
       PROVE  \/ ap[l] # None /\ approach'[l].armed = ap[l].armed /\ \A s \in New : s.level # l
              \/ approach'[l].armed = Closing(b)
  <2>1. \/ approach'[l].armed = Closing(b)
        \/ rest[l] # None /\ approach'[l].armed = rest[l].armed
    BY <1>8, <1>15
  <2>2. rest[l] # None => l \notin won /\ rest[l] = ap[l]
    BY <1>6
  <2>3. l \notin won => \A s \in New : s.level # l
    BY <1>11, <1>13
  <2> QED
    BY <2>1, <2>2, <2>3
<1>16. ASSUME NEW l \in Levels \ excused'
       PROVE  approach'[l] = None /\ l \in listed /\ (l \in consumed' \/ brokenAt[l] # 0)
  <2>1. l \notin Far(b.last) /\ (l \in won \/ l \notin seen)
    BY <1>1, <1>16
  <2>2. rest[l] = None /\ l \in listed /\ (l \in Consuming(used, won) \/ brokenAt[l] # 0)
    <3>1. CASE l \in won
      BY <1>3, <1>4, <1>6, <3>1 DEF Consuming
    <3>2. CASE l \notin seen /\ l \notin won
      BY <1>6, <3>2 DEF Consuming
    <3> QED
      BY <2>1, <3>1, <3>2
  <2>3. CASE l \in active
    <3>1. l \in consumed'
      BY <1>1, <2>1, <2>2, <2>3 DEF ActiveOf
    <3> QED
      BY <1>8, <2>2, <3>1
  <2>4. CASE l \notin active
    <3>1. brokenAt[l] # 0
      BY <2>2, <2>4 DEF ActiveOf
    <3> QED
      BY <1>8, <2>2, <2>4, <3>1
  <2> QED
    BY <2>3, <2>4
<1>17. approach' \in [Levels -> Episode \cup {None}]
  BY <1>1, <1>8
<1> HIDE DEF active, tried, triggered, won, held, rest, new
<1> QED
  BY <1>5, <1>17, <1>9, <1>11, <1>12, <1>13, <1>14, <1>15, <1>16 DEF Judged
-----------------------------------------------------------------------------
LEMMA EvaluateJudges ==
  ASSUME TypeOK, NEW b \in Bar, b # None, Closing(b) \in Times, 0 < Closing(b),
         NEW ap \in [Levels -> Episode \cup {None}],
         NEW used \in SUBSET Levels, NEW seen \in SUBSET Levels,
         Held(ap, used, seen), Evaluate(b, ap, used, seen)
  PROVE  Judged(b, ap)
<1>1. restored' = restored
  BY DEF Evaluate
<1>2. \A l \in Levels \ seen : ap[l] = None /\ l \in listed /\ (l \in used \/ brokenAt[l] # 0)
  BY DEF Held
<1>3. CASE Blocked
  <2>1. /\ approach' = ap /\ consumed' = used /\ excused' = seen
        /\ attempted' = attempted /\ cooldownUntil' = cooldownUntil /\ signals' = signals
    BY <1>3 DEF Evaluate
  <2>2. New = {}
    BY <2>1 DEF New
  <2> QED
    BY <1>1, <1>2, <2>1, <2>2 DEF Judged, TypeOK
<1>4. CASE ~Blocked
  <2>1. PICK best \in [Lanes -> Levels \cup {None}] :
          /\ \A k \in Lanes : best[k] \in Reactions(k, b, ap) \cup {None}
          /\ Lane(b, ap, used, seen, best)
    BY <1>4 DEF Evaluate
  <2> QED
    BY <1>1, <1>2, <1>4, <2>1, LaneJudges
<1> QED
  BY <1>3, <1>4

LEMMA CompleteJudges ==
  ASSUME TypeOK, NEW b \in Bar \cup {None}, NEW waiting,
         b # None => Closing(b) \in Times /\ 0 < Closing(b),
         NEW ap \in [Levels -> Episode \cup {None}],
         NEW used \in SUBSET Levels, NEW seen \in SUBSET Levels,
         Held(ap, used, seen), Complete(b, waiting, ap, used, seen)
  PROVE  Leaves(b, ap, waiting)
<1>1. \A l \in Levels \ seen : ap[l] = None /\ l \in listed /\ (l \in used \/ brokenAt[l] # 0)
  BY DEF Held
<1>2. ASSUME UNCHANGED evaluator PROVE New = {} /\ signals' = signals /\ restored' = restored
                                        /\ attempted' = attempted /\ cooldownUntil' = cooldownUntil
  BY <1>2 DEF New, evaluator
<1>3. ASSUME UNCHANGED evaluator, approach' = ap, consumed' = used, excused' = seen
      PROVE  Judged(b, ap)
  BY <1>1, <1>2, <1>3 DEF Judged, TypeOK
<1>4. CASE b = None
  <2>1. boundary' = waiting /\ approach' = ap /\ consumed' = used /\ excused' = seen /\ UNCHANGED evaluator
    BY <1>4, Zenon DEF Complete
  <2> QED
    BY <1>3, <1>4, <2>1 DEF Leaves, Interrupting
<1>5. CASE b # None /\ ~b.clean
  <2>1. boundary' = None /\ approach' = NoApproaches /\ consumed' = {} /\ excused' = Levels /\ UNCHANGED evaluator
    BY <1>5, Zenon DEF Complete, Reset
  <2>2. Judged(b, ap)
    BY <1>2, <2>1 DEF Judged, TypeOK, NoApproaches
  <2> QED
    BY <1>5, <2>1, <2>2 DEF Leaves, NoApproaches
<1>6. CASE b # None /\ b.clean
  <2>1. \/ /\ boundary' = b /\ approach' = ap /\ consumed' = used /\ excused' = seen /\ UNCHANGED evaluator
        \/ boundary' = None /\ Evaluate(b, ap, used, seen)
    BY <1>6, Zenon DEF Complete
  <2>2. Judged(b, ap)
    BY <1>3, <1>6, <2>1, EvaluateJudges
  <2> QED
    BY <1>6, <2>1, <2>2 DEF Leaves, Interrupting
<1> QED
  BY <1>4, <1>5, <1>6

(* A bar that is not older than any signal keeps what is said of signals    *)
(* and episodes.                                                            *)
LEMMA JudgedKeeps ==
  ASSUME TypeOK, Past, OneSignalPerEpisode, now' = now, catalog' = catalog,
         NEW b \in Bar \cup {None},
         b # None => Closing(b) <= now /\ Closing(b) \in Nat /\ \A s \in signals : s.close <= Closing(b),
         NEW ap \in [Levels -> Episode \cup {None}], NEW used, NEW seen,
         Held(ap, used, seen), Judged(b, ap)
  PROVE  /\ Past' /\ OneSignalPerEpisode' /\ Held(approach, consumed, excused)'
         /\ \A s \in signals' : s \in signals \/ (b # None /\ s.close = Closing(b))
<1>1. now \in Nat /\ signals \subseteq Signal
  BY Typed DEF TypeOK
<1>2. \A s \in signals' : s \in signals \/ s \in New
  BY DEF New
<1>3. \A s \in New : /\ s \in Signal /\ b # None /\ s.close = Closing(b) /\ s.at = now
                     /\ ap[s.level] # None /\ s.armed = ap[s.level].armed /\ s.armed < s.close
  BY DEF Judged, New
<1>4. Past'
  BY <1>1, <1>2, <1>3 DEF Past
<1>5. OneSignalPerEpisode'
  <2> SUFFICES ASSUME NEW s \in signals', NEW t \in signals', s.level = t.level, s.armed = t.armed
               PROVE  s = t
    BY DEF OneSignalPerEpisode
  <2>1. \A u \in signals : ap[u.level] # None => u.armed < ap[u.level].armed
    BY DEF Held
  <2>2. s.armed \in Nat /\ t.armed \in Nat
    BY <1>1, <1>2, <1>3, ConstantFacts DEF Signal
  <2>3. CASE s \in signals /\ t \in signals
    BY <2>3 DEF OneSignalPerEpisode
  <2>4. CASE s \in New /\ t \in New
    BY <2>4 DEF Judged
  <2>5. CASE s \in signals /\ t \in New
    BY <1>3, <2>1, <2>2, <2>5
  <2>6. CASE s \in New /\ t \in signals
    BY <1>3, <2>1, <2>2, <2>6
  <2> QED
    BY <1>2, <2>3, <2>4, <2>5, <2>6
<1>6. ASSUME NEW l \in Levels, approach'[l] # None PROVE approach'[l].armed <= now
  <2>1. \/ ap[l] # None /\ approach'[l].armed = ap[l].armed
        \/ b # None /\ approach'[l].armed = Closing(b)
    BY <1>6 DEF Judged
  <2> QED
    BY <2>1 DEF Held
<1>7. ASSUME NEW s \in signals', approach'[s.level] # None PROVE s.armed < approach'[s.level].armed
  <2>1. s \in Signal /\ s.level \in Levels /\ s.armed \in Nat /\ s.close \in Nat
    BY <1>1, <1>2, <1>3, ConstantFacts DEF Signal
  <2>2. \/ /\ ap[s.level] # None /\ approach'[s.level].armed = ap[s.level].armed
           /\ s \notin New
        \/ b # None /\ approach'[s.level].armed = Closing(b)
    BY <1>7, <2>1 DEF Judged
  <2>3. CASE s \notin New
    <3>1. s \in signals
      BY <1>2, <2>3
    <3> QED
      BY <2>1, <2>2, <3>1 DEF Held, Past
  <2>4. CASE s \in New
    BY <1>3, <2>2, <2>4
  <2> QED
    BY <2>3, <2>4
<1>8. listed' = listed /\ brokenAt' = brokenAt
  BY DEF catalog
<1>9. \A l \in Levels \ excused' : approach'[l] = None /\ l \in listed /\ (l \in consumed' \/ brokenAt[l] # 0)
  BY DEF Judged
<1>10. Held(approach, consumed, excused)'
  BY <1>6, <1>7, <1>8, <1>9 DEF Held
<1> QED
  BY <1>2, <1>3, <1>4, <1>5, <1>10

LEMMA CompleteKeeps ==
  ASSUME TypeOK, Past, OneSignalPerEpisode, now' = now, catalog' = catalog,
         NEW b \in Bar \cup {None}, NEW waiting,
         b # None => Closing(b) <= now /\ \A s \in signals : s.close <= Closing(b),
         NEW ap \in [Levels -> Episode \cup {None}],
         NEW used \in SUBSET Levels, NEW seen \in SUBSET Levels,
         Held(ap, used, seen), Complete(b, waiting, ap, used, seen)
  PROVE  /\ Leaves(b, ap, waiting)
         /\ Past' /\ OneSignalPerEpisode' /\ Held(approach, consumed, excused)'
         /\ \A s \in signals' : s \in signals \/ (b # None /\ s.close = Closing(b))
<1>1. b # None => Closing(b) \in Nat /\ Closing(b) \in Times /\ 0 < Closing(b)
  BY ConstantFacts, Typed DEF Closing, Bar
<1>2. Leaves(b, ap, waiting)
  BY <1>1, CompleteJudges
<1>3. Judged(b, ap)
  BY <1>2 DEF Leaves
<1> QED
  BY <1>1, <1>2, <1>3, JudgedKeeps

(* A price that is observed, with the catalog there is then.                *)
LEMMA ObservedTypes ==
  ASSUME TypeOK, NEW p \in Prices, NEW traded,
         NEW ap \in [Levels -> Episode \cup {None}],
         NEW used \in SUBSET Levels, NEW active \in SUBSET Levels,
         NEW o, o = ObservedAll(p, traded, active, ap, used)
  PROVE  /\ o \in [Levels -> Episode \cup {None}]
         /\ \A l \in Levels : o[l] # None => o[l].armed = now \/ (ap[l] # None /\ o[l].armed = ap[l].armed)
         /\ \A l \in Levels : ap[l] = None /\ (l \in active => l \in used) => o[l] = None
<1>1. \A l \in Levels : o[l] = Observed(l, p, traded, active, ap, used)
  BY DEF ObservedAll
<1>2. ASSUME NEW l \in Levels
      PROVE  /\ o[l] \in Episode \cup {None}
             /\ o[l] # None => o[l].armed = now \/ (ap[l] # None /\ o[l].armed = ap[l].armed)
             /\ ap[l] = None /\ (l \in active => l \in used) => o[l] = None
  BY <1>1, Observing
<1>3. o \in [Levels -> Episode \cup {None}]
  BY <1>2 DEF ObservedAll
<1> QED
  BY <1>2, <1>3

LEMMA ObservedHolds ==
  ASSUME TypeOK, Past, NEW p \in Prices, NEW traded,
         NEW ap \in [Levels -> Episode \cup {None}],
         NEW used \in SUBSET Levels, NEW seen \in SUBSET Levels, NEW active \in SUBSET Levels,
         Held(ap, used, seen),
         \A l \in Levels \ seen : l \in active => brokenAt[l] = 0,
         NEW o, o = ObservedAll(p, traded, active, ap, used),
         NEW u, u = Unreleased(p, active, used),
         NEW w, w = seen \cup Far(p)
  PROVE  Held(o, u, w)
<1>2. /\ \A l \in Levels : o[l] # None => o[l].armed = now \/ (ap[l] # None /\ o[l].armed = ap[l].armed)
      /\ \A l \in Levels : ap[l] = None /\ (l \in active => l \in used) => o[l] = None
  BY ObservedTypes
<1>4. u \subseteq Levels /\ used \ Far(p) \subseteq u /\ w \subseteq Levels
  BY DEF Unreleased, Far
<1>5. now \in Nat /\ signals \subseteq Signal
  BY Typed DEF TypeOK
<1>6. \A l \in Levels : o[l] # None => o[l].armed <= now
  BY <1>2, <1>5 DEF Held
<1>7. \A s \in signals : o[s.level] # None => s.armed < o[s.level].armed
  <2> SUFFICES ASSUME NEW s \in signals, o[s.level] # None PROVE s.armed < o[s.level].armed
    OBVIOUS
  <2>1. s.level \in Levels /\ s.armed \in Nat /\ s.close \in Nat /\ s.at \in Nat
    BY <1>5, ConstantFacts DEF Signal
  <2>2. s.armed < now
    BY <1>5, <2>1 DEF Past
  <2> QED
    BY <1>2, <2>1, <2>2 DEF Held
<1>8. ASSUME NEW l \in Levels \ w
      PROVE  o[l] = None /\ l \in listed /\ (l \in u \/ brokenAt[l] # 0)
  <2>1. ap[l] = None /\ l \in listed /\ (l \in used \/ brokenAt[l] # 0)
    BY DEF Held
  <2>2. l \in active => l \in used
    BY <2>1
  <2> QED
    BY <1>2, <1>4, <2>1, <2>2
<1> QED
  BY <1>6, <1>7, <1>8 DEF Held
-----------------------------------------------------------------------------
LEMMA EpisodesInit == Init => EpisodeInv
<1> SUFFICES ASSUME Init PROVE EpisodeInv
  OBVIOUS
<1> USE ConstantFacts
<1>1. 0 \in Times /\ 0 \in 0..MaxTime /\ 0 \in 0..MaxFaults
  BY EpisodesAssumption
<1>2. TypeOK
  BY <1>1 DEF Init, TypeOK, NoApproaches, NoCooldown
<1>3. Formed /\ Past /\ Queued /\ OneSignalPerEpisode
  BY DEF Init, Formed, Past, Queued, OneSignalPerEpisode
<1>4. Held(approach, consumed, excused)
  BY DEF Init, Held, NoApproaches
<1> QED
  BY <1>2, <1>3, <1>4 DEF EpisodeInv

(* The footprint being formed began before, however late it is.             *)
LEMMA BucketKept ==
  ASSUME NEW b, NEW t \in 0..now, b.open = BucketOf(t), now \in Nat, now' \in Nat, now <= now'
  PROVE  \E u \in 0..now' : b.open = BucketOf(u)
BY DEF BucketOf

LEMMA TickKeeps == ASSUME EpisodeInv, Tick PROVE EpisodeInv'
<1> USE ConstantFacts, Typed DEF EpisodeInv
<1>1. /\ now' = now + 1 /\ now' \in 0..MaxTime /\ now \in Nat /\ now' \in Nat
      /\ phase = "idle" /\ phase' = phase /\ flushed' = flushed
      /\ minute' = minute /\ bucket' = bucket /\ boundary' = boundary
      /\ signals' = signals /\ approach' = approach /\ consumed' = consumed /\ excused' = excused
      /\ listed' = listed /\ brokenAt' = brokenAt
  BY DEF Tick, TypeOK, candles, catalog, evaluator
<1>2. TypeOK'
  BY <1>1 DEF TypeOK, Tick, market, candles, catalog, evaluator
<1>3. Past' /\ OneSignalPerEpisode'
  <2>1. \A s \in signals : s.at \in Nat
    BY DEF TypeOK, Signal
  <2> QED
    BY <1>1, <2>1 DEF Past, OneSignalPerEpisode
<1>4. Formed'
  <2>1. minute' # None => minute' <= now'
    BY <1>1 DEF Formed, TypeOK
  <2>2. bucket' # None => \E t \in 0..now' : bucket'.open = BucketOf(t)
    BY <1>1, BucketKept DEF Formed
  <2>3. \A b \in {flushed, boundary} : b # None => Closing(b) \in Nat
    OBVIOUS
  <2> QED
    BY <1>1, <2>1, <2>2, <2>3 DEF Formed, Closing, BucketOf
<1>5. Queued'
  BY <1>1 DEF Queued, Closing
<1>6. Held(approach, consumed, excused)'
  <2>1. \A l \in Levels : approach[l] # None => approach[l].armed \in Nat
    BY DEF Episode
  <2> QED
    BY <1>1, <2>1 DEF Held
<1> QED
  BY <1>2, <1>3, <1>4, <1>5, <1>6

LEMMA ConnectKeeps == ASSUME EpisodeInv, Connect PROVE EpisodeInv'
<1> USE DEF EpisodeInv
<1>1. TypeOK'
  BY DEF TypeOK, Connect, candles, catalog, evaluator
<1>2. Formed' /\ Past' /\ Queued' /\ OneSignalPerEpisode' /\ Held(approach, consumed, excused)'
  BY DEF Formed, Past, Queued, OneSignalPerEpisode, Held, Closing, BucketOf, Connect, candles, catalog, evaluator
<1> QED
  BY <1>1, <1>2

LEMMA DisconnectKeeps == ASSUME EpisodeInv, Disconnect PROVE EpisodeInv'
<1> USE ConstantFacts, Typed DEF EpisodeInv
<1>1. /\ phase = "idle" /\ phase' = phase /\ flushed = None /\ flushed' = None /\ boundary' = None
      /\ minute' = None /\ now' = now /\ signals' = signals
      /\ approach' = NoApproaches /\ consumed' = {} /\ excused' = Levels
      /\ bucket' = IF bucket = None THEN None ELSE [bucket EXCEPT !.clean = FALSE]
      /\ bucket \in Bar \cup {None}
  BY DEF Disconnect, evaluator, Reset, Formed, TypeOK
<1>2. /\ bucket' \in Bar \cup {None}
      /\ bucket' # None => bucket # None /\ bucket'.open = bucket.open
  BY <1>1 DEF Bar
<1>3. TypeOK'
  <2>1. faults' \in 0..MaxFaults
    <3>1. faults \in 0..MaxFaults
      BY DEF TypeOK
    <3>2. faults' = faults + 1 /\ faults < MaxFaults
      BY DEF Disconnect
    <3> QED
      BY <3>1, <3>2
  <2> QED
    BY <1>1, <1>2, <2>1 DEF TypeOK, NoApproaches, Disconnect, catalog, evaluator
<1>4. Formed' /\ Queued'
  BY <1>1, <1>2 DEF Formed, Queued, Closing, BucketOf
<1>5. Past' /\ OneSignalPerEpisode' /\ Held(approach, consumed, excused)'
  BY <1>1 DEF Past, OneSignalPerEpisode, Held, NoApproaches, TypeOK, Signal
<1> QED
  BY <1>3, <1>4, <1>5

LEMMA NewSessionKeeps == ASSUME EpisodeInv, NEW restart \in BOOLEAN, NewSession(restart) PROVE EpisodeInv'
<1> USE ConstantFacts, Typed DEF EpisodeInv
<1>1. /\ phase = "idle" /\ phase' = phase /\ flushed = None /\ flushed' = None /\ boundary' = None /\ bucket' = None
      /\ minute' = None /\ now' = now + 1 /\ now' \in 0..MaxTime /\ signals' = signals
      /\ approach' = NoApproaches /\ consumed' = {} /\ excused' = Levels
  BY DEF NewSession, Formed, TypeOK
<1>2. TypeOK'
  <2>1. faults' \in 0..MaxFaults
    <3>1. faults \in 0..MaxFaults
      BY DEF TypeOK
    <3>2. faults' = faults + 1 /\ faults < MaxFaults
      BY DEF NewSession
    <3> QED
      BY <3>1, <3>2
  <2>2. minuteClosed' \in Times
    BY MinuteIs DEF NewSession
  <2>3. restored' \subseteq Setup
    BY DEF NewSession, TypeOK, Setup, Signal
  <2>4. /\ connected' = FALSE /\ snapshotAt' = None /\ eligible' \in BOOLEAN /\ quarantined' = TRUE
        /\ attempted' = restored' /\ cooldownUntil' = [k \in Lanes |-> 0]
        /\ evidenceFrom' = now' /\ now' \in Times /\ listed' = listed /\ brokenAt' = brokenAt
    BY <1>1 DEF NewSession, NoCooldown, catalog
  <2>5. approach' \in [Levels -> Episode \cup {None}] /\ cooldownUntil' \in [Lanes -> Nat]
    BY <1>1, <2>4 DEF NoApproaches
  <2> QED
    BY <1>1, <2>1, <2>2, <2>3, <2>4, <2>5 DEF TypeOK
<1>3. Formed' /\ Queued'
  BY <1>1 DEF Formed, Queued
<1>4. Past' /\ OneSignalPerEpisode' /\ Held(approach, consumed, excused)'
  BY <1>1 DEF Past, OneSignalPerEpisode, Held, NoApproaches, TypeOK, Signal
<1> QED
  BY <1>2, <1>3, <1>4
-----------------------------------------------------------------------------
(* What a message with the footprint b leaves, if b was completed by it or   *)
(* waited to be looked at.                                                  *)
LEMMA JudgedTypes ==
  ASSUME TypeOK, NEW b, NEW ap, Judged(b, ap)
  PROVE  /\ approach' \in [Levels -> Episode \cup {None}] /\ consumed' \subseteq Levels
         /\ attempted' \subseteq Setup /\ restored' \subseteq Setup /\ cooldownUntil' \in [Lanes -> Nat]
         /\ signals' \subseteq Signal /\ excused' \subseteq Levels
BY DEF Judged, TypeOK

(* A completed footprint is not older than the signals.                      *)
LEMMA EmittedAfter ==
  ASSUME EpisodeInv, phase = "idle"
  PROVE  Emitted # None => Closing(Emitted) <= now /\ \A s \in signals : s.close <= Closing(Emitted)
BY Flushing DEF EpisodeInv, Queued

(* After a book message: what was completed waits or is gone.               *)
LEMMA BookMessageLeaves ==
  ASSUME EpisodeInv, phase = "idle", UNCHANGED <<now, phase, flushed, candles>>,
         bucket' = Remaining, NEW waiting \in {None, boundary},
         Emitted = None => boundary' = waiting,
         Emitted # None => boundary' = None \/ (boundary' = Emitted /\ Emitted.clean),
         \A s \in signals' : s \in signals \/ (Emitted # None /\ s.close = Closing(Emitted))
  PROVE  Formed' /\ Queued' /\ bucket' \in Bar \cup {None} /\ boundary' \in Bar \cup {None}
<1> USE DEF EpisodeInv
<1>1. /\ now' = now /\ minute' = minute /\ phase' = "idle" /\ flushed' = None
      /\ boundary \in Bar \cup {None}
  BY DEF Formed, candles, TypeOK
<1>2. bucket' \in Bar \cup {None} /\ boundary' \in Bar \cup {None}
  BY <1>1, Flushing
<1>3. CASE Emitted = None
  <2>1. /\ bucket' = None \/ bucket' = bucket
        /\ boundary' = None \/ boundary' = boundary
        /\ signals' \subseteq signals
    BY <1>3, Flushing
  <2>2. Formed'
    BY <1>1, <2>1 DEF Formed, Closing, BucketOf
  <2>3. Queued'
    BY <1>1, <2>1 DEF Queued, Closing
  <2> QED
    BY <1>2, <2>2, <2>3
<1>4. CASE Emitted # None
  <2>1. /\ bucket' = None /\ (boundary' = None \/ (boundary' = Emitted /\ Emitted.clean))
        /\ Closing(Emitted) <= now /\ Closing(Emitted) \in Nat
        /\ \A s \in signals' : s.close <= Closing(Emitted)
    <3>1. Emitted = bucket /\ bucket # None /\ bucket' = None /\ Closing(Emitted) <= now
      BY <1>4, Flushing
    <3>2. Closing(Emitted) \in Nat
      BY <3>1, Typed
    <3> QED
      BY <1>4, <3>1, <3>2, EmittedAfter
  <2> QED
    BY <1>1, <1>2, <2>1 DEF Formed, Queued, Closing, BucketOf
<1> QED
  BY <1>2, <1>3, <1>4

LEMMA DeltaKeeps ==
  ASSUME EpisodeInv, NEW mid \in Prices, Delta(mid)
  PROVE  /\ EpisodeInv'
         /\ \A s \in New : s.level \in excused
         /\ \E ap : /\ Leaves(Emitted, ap, boundary)
                   /\ \A l \in Levels : ap[l] # None =>
                        ap[l].armed = now \/ (approach[l] # None /\ ap[l].armed = approach[l].armed)
<1> DEFINE active == ActiveOf(listed, brokenAt)
           ap == ObservedAll(mid, FALSE, active, approach, consumed)
           used == Unreleased(mid, active, consumed)
           seen == excused \cup Far(mid)
<1>1. /\ phase = "idle" /\ now' = now /\ catalog' = catalog /\ bucket' = Remaining
      /\ UNCHANGED <<now, phase, flushed, candles>>
      /\ evidenceFrom' = IF Interrupting(Emitted) THEN now ELSE evidenceFrom
      /\ Complete(Emitted, boundary, ap, used, seen)
  BY DEF Delta
<1>2. TypeOK /\ Past /\ OneSignalPerEpisode /\ Held(approach, consumed, excused)
  BY DEF EpisodeInv
<1>3. /\ approach \in [Levels -> Episode \cup {None}] /\ consumed \in SUBSET Levels /\ excused \in SUBSET Levels
      /\ active \in SUBSET Levels /\ \A l \in active : brokenAt[l] = 0
  BY <1>2 DEF TypeOK, ActiveOf
<1> HIDE DEF active
<1>4. /\ ap \in [Levels -> Episode \cup {None}] /\ used \in SUBSET Levels /\ seen \in SUBSET Levels
      /\ Held(ap, used, seen)
      /\ \A l \in Levels : ap[l] # None => ap[l].armed = now \/ (approach[l] # None /\ ap[l].armed = approach[l].armed)
  <2> DEFINE traded == FALSE
  <2>1. \A l \in Levels \ excused : l \in active => brokenAt[l] = 0
    BY <1>3
  <2>2. ap = ObservedAll(mid, traded, active, approach, consumed)
        /\ used = Unreleased(mid, active, consumed) /\ seen = excused \cup Far(mid)
    OBVIOUS
  <2>3. used \subseteq Levels /\ seen \subseteq Levels
    BY <1>3 DEF Unreleased, Far
  <2> HIDE DEF ap, used, seen, traded
  <2>4. Held(ap, used, seen)
    BY <1>2, <1>3, <2>1, <2>2, ObservedHolds
  <2> QED
    BY <1>2, <1>3, <2>2, <2>3, <2>4, ObservedTypes
<1>5. Emitted \in Bar \cup {None} /\ (Emitted # None => Closing(Emitted) <= now /\ \A s \in signals : s.close <= Closing(Emitted))
  BY <1>1, Flushing, EmittedAfter
<1> HIDE DEF ap, used, seen
<1>6. /\ Leaves(Emitted, ap, boundary) /\ Judged(Emitted, ap)
      /\ Past' /\ OneSignalPerEpisode' /\ Held(approach, consumed, excused)'
      /\ \A s \in signals' : s \in signals \/ (Emitted # None /\ s.close = Closing(Emitted))
  BY <1>1, <1>2, <1>4, <1>5, CompleteKeeps DEF Leaves
<1>7. Formed' /\ Queued' /\ bucket' \in Bar \cup {None} /\ boundary' \in Bar \cup {None}
  BY <1>1, <1>6, BookMessageLeaves DEF Leaves
<1>8. TypeOK'
  <2>1. evidenceFrom' \in Times
    BY <1>1, <1>2, Typed DEF TypeOK
  <2>2. /\ approach' \in [Levels -> Episode \cup {None}] /\ consumed' \subseteq Levels
        /\ attempted' \subseteq Setup /\ restored' \subseteq Setup /\ cooldownUntil' \in [Lanes -> Nat]
        /\ signals' \subseteq Signal /\ excused' \subseteq Levels
    BY <1>2, <1>6, JudgedTypes
  <2> QED
    BY <1>2, <1>7, <2>1, <2>2 DEF TypeOK, Delta, market, candles, catalog
<1>9. ASSUME NEW s \in New PROVE s.level \in excused
  <2>1. /\ Emitted # None /\ s.close = Closing(Emitted) /\ ap[s.level] # None
        /\ s.armed = ap[s.level].armed /\ s.armed < s.close
        /\ s \in Signal
    BY <1>6 DEF Judged, New
  <2>2. s.level \in Levels /\ s.armed \in Nat /\ s.close \in Nat /\ s.armed # now
    BY <1>2, <1>5, <2>1, Typed, ConstantFacts DEF Signal
  <2>3. approach[s.level] # None
    BY <1>4, <2>1, <2>2
  <2> QED
    BY <1>2, <2>2, <2>3 DEF Held
<1>10. EpisodeInv'
  BY <1>6, <1>7, <1>8 DEF EpisodeInv
<1> QED
  BY <1>4, <1>6, <1>9, <1>10

LEMMA SnapshotKeeps ==
  ASSUME EpisodeInv, NEW mid \in Prices, Snapshot(mid)
  PROVE  /\ EpisodeInv' /\ New = {}
         /\ \E ap : /\ Leaves(Emitted, ap, None)
                   /\ \A l \in Levels : ap[l] # None => ap[l].armed = now
<1> DEFINE active == ActiveOf(listed, brokenAt)
           ap == ObservedAll(mid, FALSE, active, Reset(approach), {})
<1>1. /\ phase = "idle" /\ now' = now /\ catalog' = catalog /\ bucket' = Remaining
      /\ UNCHANGED <<now, phase, flushed, candles>>
      /\ evidenceFrom' = IF boundary' = None THEN now ELSE Closing(boundary')
      /\ Complete(Emitted, None, ap, {}, Levels)
  BY DEF Snapshot
<1>2. TypeOK /\ Past /\ OneSignalPerEpisode
  BY DEF EpisodeInv
<1>3. /\ Reset(approach) \in [Levels -> Episode \cup {None}] /\ {} \in SUBSET Levels /\ Levels \in SUBSET Levels
      /\ \A l \in Levels : Reset(approach)[l] = None
      /\ active \in SUBSET Levels /\ \A l \in active : brokenAt[l] = 0
  BY <1>2 DEF TypeOK, ActiveOf, Reset, NoApproaches
<1>4. Held(Reset(approach), {}, Levels)
  BY <1>2, <1>3 DEF Held, TypeOK, Signal
<1> HIDE DEF active
<1>5. /\ ap \in [Levels -> Episode \cup {None}] /\ Held(ap, Unreleased(mid, active, {}), Levels \cup Far(mid))
      /\ \A l \in Levels : ap[l] # None => ap[l].armed = now
  <2> DEFINE traded == FALSE
             none == Reset(approach)
             empty == {}
             used == Unreleased(mid, active, empty)
             seen == Levels \cup Far(mid)
  <2>1. \A l \in Levels \ Levels : l \in active => brokenAt[l] = 0
    OBVIOUS
  <2>2. ap = ObservedAll(mid, traded, active, none, empty)
        /\ used = Unreleased(mid, active, empty) /\ seen = Levels \cup Far(mid)
    OBVIOUS
  <2>3. /\ none \in [Levels -> Episode \cup {None}] /\ \A l \in Levels : none[l] = None
        /\ Held(none, empty, Levels) /\ empty \in SUBSET Levels
    BY <1>3, <1>4
  <2> HIDE DEF ap, used, seen, none, traded, empty
  <2>4. Held(ap, used, seen)
    BY <1>2, <1>3, <2>1, <2>2, <2>3, ObservedHolds
  <2>5. /\ ap \in [Levels -> Episode \cup {None}]
        /\ \A l \in Levels : ap[l] # None => ap[l].armed = now \/ (none[l] # None /\ ap[l].armed = none[l].armed)
    BY <1>2, <1>3, <2>2, <2>3, ObservedTypes
  <2> QED
    BY <2>3, <2>4, <2>5 DEF used, seen, empty
<1>6. Held(ap, {}, Levels)
  BY <1>5 DEF Held
<1>7. Emitted \in Bar \cup {None} /\ (Emitted # None => Closing(Emitted) <= now /\ \A s \in signals : s.close <= Closing(Emitted))
  BY <1>1, Flushing, EmittedAfter
<1> HIDE DEF ap
<1>8. /\ Leaves(Emitted, ap, None) /\ Judged(Emitted, ap)
      /\ Past' /\ OneSignalPerEpisode' /\ Held(approach, consumed, excused)'
      /\ \A s \in signals' : s \in signals \/ (Emitted # None /\ s.close = Closing(Emitted))
  BY <1>1, <1>2, <1>3, <1>5, <1>6, <1>7, CompleteKeeps DEF Leaves
<1>9. Formed' /\ Queued' /\ bucket' \in Bar \cup {None} /\ boundary' \in Bar \cup {None}
  BY <1>1, <1>8, BookMessageLeaves DEF Leaves
<1>10. TypeOK'
  <2>1. evidenceFrom' \in Times /\ snapshotAt' \in Times
    <3>1. now \in Times /\ now \in Nat
      BY <1>2, Typed
    <3>2. boundary' # None => Closing(boundary') \in Nat /\ Closing(boundary') <= now
      BY <1>7, <1>8, ConstantFacts DEF Leaves, Bar, Closing
    <3>3. boundary' # None => Closing(boundary') \in Times
      BY <3>1, <3>2, ConstantFacts
    <3> QED
      BY <1>1, <3>1, <3>3 DEF Snapshot
  <2>2. /\ approach' \in [Levels -> Episode \cup {None}] /\ consumed' \subseteq Levels
        /\ attempted' \subseteq Setup /\ restored' \subseteq Setup /\ cooldownUntil' \in [Lanes -> Nat]
        /\ signals' \subseteq Signal /\ excused' \subseteq Levels
    BY <1>2, <1>8, JudgedTypes
  <2> QED
    BY <1>2, <1>9, <2>1, <2>2 DEF TypeOK, Snapshot, candles, catalog
<1>11. ASSUME NEW s \in New PROVE FALSE
  <2>1. /\ Emitted # None /\ s.close = Closing(Emitted) /\ ap[s.level] # None
        /\ s.armed = ap[s.level].armed /\ s.armed < s.close
        /\ s \in Signal
    BY <1>8 DEF Judged, New
  <2>2. s.level \in Levels /\ s.armed \in Nat /\ s.close \in Nat /\ s.armed # now
    BY <1>2, <1>7, <2>1, Typed, ConstantFacts DEF Signal
  <2> QED
    BY <1>5, <2>1, <2>2
<1>12. EpisodeInv'
  BY <1>8, <1>9, <1>10 DEF EpisodeInv
<1> QED
  BY <1>5, <1>8, <1>11, <1>12
-----------------------------------------------------------------------------
LEMMA EvaluateDeferredKeeps ==
  ASSUME EpisodeInv, EvaluateDeferred
  PROVE  /\ EpisodeInv'
         /\ \A s \in New : s.level \in excused
         /\ \/ UNCHANGED <<boundary, approach, consumed, evaluator, excused>>
            \/ boundary # None /\ boundary' = None /\ Judged(boundary, approach)
<1>1. /\ phase = "trades" /\ phase' = "settling" /\ now' = now /\ catalog' = catalog
      /\ bucket' = bucket /\ flushed' = flushed /\ minute' = minute
  BY DEF EvaluateDeferred, candles
<1>2. TypeOK /\ Past /\ OneSignalPerEpisode /\ Formed /\ Queued /\ Held(approach, consumed, excused)
  BY DEF EpisodeInv
<1>3. CASE ~Due
  <2>1. UNCHANGED <<boundary, approach, consumed, evaluator, excused>>
    BY <1>3 DEF EvaluateDeferred
  <2>2. TypeOK'
    BY <1>2, <2>1 DEF TypeOK, EvaluateDeferred, market, candles, catalog, evaluator
  <2>3. signals' = signals /\ New = {} /\ approach' = approach /\ consumed' = consumed /\ excused' = excused
        /\ boundary' = boundary /\ listed' = listed /\ brokenAt' = brokenAt
    BY <1>1, <2>1 DEF evaluator, New, catalog
  <2>4. Past' /\ OneSignalPerEpisode' /\ Formed' /\ Queued' /\ Held(approach, consumed, excused)'
    BY <1>1, <1>2, <2>3 DEF Past, OneSignalPerEpisode, Formed, Queued, Held, Closing, BucketOf
  <2> QED
    BY <2>1, <2>2, <2>3, <2>4 DEF EpisodeInv
<1>4. CASE Due
  <2>1. boundary # None /\ boundary' = None /\ Evaluate(boundary, approach, consumed, excused)
    BY <1>4 DEF EvaluateDeferred, Due
  <2>2. /\ boundary \in Bar /\ Closing(boundary) <= now /\ Closing(boundary) \in Nat
        /\ \A s \in signals : s.close <= Closing(boundary)
    BY <1>2, <2>1, Typed DEF Formed, Queued, TypeOK
  <2>3. Closing(boundary) \in Times /\ 0 < Closing(boundary)
    BY <1>2, <2>2, Typed, ConstantFacts DEF Closing, Bar
  <2>4. /\ approach \in [Levels -> Episode \cup {None}] /\ consumed \in SUBSET Levels /\ excused \in SUBSET Levels
    BY <1>2 DEF TypeOK
  <2>5. Judged(boundary, approach)
    BY <1>2, <2>1, <2>2, <2>3, <2>4, EvaluateJudges
  <2>6. /\ Past' /\ OneSignalPerEpisode' /\ Held(approach, consumed, excused)'
        /\ \A s \in signals' : s \in signals \/ s.close = Closing(boundary)
    BY <1>1, <1>2, <2>2, <2>4, <2>5, JudgedKeeps
  <2>7. Formed'
    BY <1>1, <1>2, <2>1 DEF Formed, Closing, BucketOf
  <2>8. Queued'
    BY <1>1, <1>2, <2>1, <2>2, <2>6 DEF Queued, Closing
  <2>9. TypeOK'
    <3>1. /\ approach' \in [Levels -> Episode \cup {None}] /\ consumed' \subseteq Levels
          /\ attempted' \subseteq Setup /\ restored' \subseteq Setup /\ cooldownUntil' \in [Lanes -> Nat]
          /\ signals' \subseteq Signal /\ excused' \subseteq Levels
      BY <1>2, <2>5, JudgedTypes
    <3> QED
      BY <1>1, <1>2, <2>1, <3>1 DEF TypeOK, EvaluateDeferred, market, candles, catalog
  <2>10. \A s \in New : s.level \in excused
    <3>1. \A s \in New : approach[s.level] # None /\ s \in Signal
      BY <2>5 DEF Judged, New
    <3> QED
      BY <1>2, <3>1 DEF Held, Signal
  <2> QED
    BY <2>1, <2>5, <2>6, <2>7, <2>8, <2>9, <2>10 DEF EpisodeInv
<1> QED
  BY <1>3, <1>4

LEMMA EndMessageKeeps ==
  ASSUME EpisodeInv, EndMessage
  PROVE  /\ EpisodeInv'
         /\ \A s \in New : s.level \in excused
         /\ Leaves(flushed, approach, boundary)
<1>1. /\ phase = "settling" /\ phase' = "idle" /\ now' = now /\ catalog' = catalog
      /\ bucket' = bucket /\ flushed' = None /\ minute' = minute
      /\ evidenceFrom' = IF Interrupting(flushed) THEN now ELSE evidenceFrom
      /\ Complete(flushed, boundary, approach, consumed, excused)
  BY DEF EndMessage, candles
<1>2. TypeOK /\ Past /\ OneSignalPerEpisode /\ Formed /\ Queued /\ Held(approach, consumed, excused)
  BY DEF EpisodeInv
<1>3. /\ flushed \in Bar \cup {None}
      /\ flushed # None => Closing(flushed) <= now /\ Closing(flushed) \in Nat /\ \A s \in signals : s.close <= Closing(flushed)
  BY <1>2, Typed DEF TypeOK, Formed, Queued
<1>4. /\ approach \in [Levels -> Episode \cup {None}] /\ consumed \in SUBSET Levels /\ excused \in SUBSET Levels
  BY <1>2 DEF TypeOK
<1>5. /\ Leaves(flushed, approach, boundary) /\ Judged(flushed, approach)
      /\ Past' /\ OneSignalPerEpisode' /\ Held(approach, consumed, excused)'
      /\ \A s \in signals' : s \in signals \/ (flushed # None /\ s.close = Closing(flushed))
      /\ flushed = None => boundary' = boundary
      /\ flushed # None => boundary' = None \/ (boundary' = flushed /\ flushed.clean)
  BY <1>1, <1>2, <1>3, <1>4, CompleteKeeps DEF Leaves
<1>6. Formed'
  BY <1>1, <1>2, <1>3, <1>5 DEF Formed, Closing, BucketOf
<1>7. bucket # None => now < Closing(bucket) /\ Closing(bucket) \in Nat /\ now \in Nat
  BY <1>1, <1>2, Typed DEF Formed
<1>8. Queued'
  <2>1. CASE flushed = None
    <3>1. boundary' = boundary /\ signals' \subseteq signals
      BY <1>5, <2>1
    <3> QED
      BY <1>1, <1>2, <3>1 DEF Queued, Closing
  <2>2. CASE flushed # None
    <3>1. \A s \in signals' : s.close <= Closing(flushed)
      BY <1>3, <1>5, <2>2
    <3>2. bucket # None => Closing(flushed) <= Closing(bucket) /\ \A s \in signals' : s.close <= Closing(bucket)
      <4>1. \A s \in signals' : s.close \in Nat
        BY <1>2, <1>5, JudgedTypes, ConstantFacts DEF Signal
      <4> QED
        BY <1>3, <1>7, <2>2, <3>1, <4>1
    <3>3. boundary' = None \/ boundary' = flushed
      BY <1>5, <2>2
    <3> QED
      BY <1>1, <3>1, <3>2, <3>3 DEF Queued, Closing
  <2> QED
    BY <2>1, <2>2
<1>9. TypeOK'
  <2>1. boundary' \in Bar \cup {None} /\ evidenceFrom' \in Times
    BY <1>1, <1>2, <1>3, <1>5, Typed DEF TypeOK
  <2>2. /\ approach' \in [Levels -> Episode \cup {None}] /\ consumed' \subseteq Levels
        /\ attempted' \subseteq Setup /\ restored' \subseteq Setup /\ cooldownUntil' \in [Lanes -> Nat]
        /\ signals' \subseteq Signal /\ excused' \subseteq Levels
    BY <1>2, <1>5, JudgedTypes
  <2> QED
    BY <1>1, <1>2, <2>1, <2>2 DEF TypeOK, EndMessage, market, candles, catalog
<1>10. \A s \in New : s.level \in excused
  <2>1. \A s \in New : approach[s.level] # None /\ s \in Signal
    BY <1>5 DEF Judged, New
  <2> QED
    BY <1>2, <2>1 DEF Held, Signal
<1> QED
  BY <1>5, <1>6, <1>8, <1>9, <1>10 DEF EpisodeInv
-----------------------------------------------------------------------------
(* A trade's bar is one of the present.                                     *)
LEMMA ExtendedBar ==
  ASSUME TypeOK, NEW b \in Bar \cup {None}, NEW p \in Prices, NEW gap,
         b # None => now < Closing(b) /\ \E t \in 0..now : b.open = BucketOf(t)
  PROVE  /\ Extended(b, p, gap) \in Bar
         /\ now < Closing(Extended(b, p, gap))
         /\ \E t \in 0..now : Extended(b, p, gap).open = BucketOf(t)
         /\ b # None => Extended(b, p, gap).open = b.open /\ (Extended(b, p, gap).clean => b.clean)
<1> DEFINE ok == ~gap /\ snapshotAt # None /\ now >= snapshotAt + Warmup
<1>1. now \in Nat /\ now \in Times /\ ok \in BOOLEAN
  BY Typed
<1>2. CASE b = None
  <2>1. Extended(b, p, gap) = [open |-> BucketOf(now), high |-> p, last |-> p, clean |-> ok]
    BY <1>2 DEF Extended
  <2>2. BucketOf(now) \in 0..now /\ now < BucketOf(now) + BarLength
    BY <1>1, BucketIs
  <2>3. BucketOf(now) \in Times
    BY <1>1, <2>2, ConstantFacts
  <2> HIDE DEF ok
  <2> QED
    BY <1>1, <1>2, <2>1, <2>2, <2>3 DEF Bar, Closing
<1>3. CASE b # None
  <2>1. Extended(b, p, gap) = [b EXCEPT !.high = IF p > b.high THEN p ELSE b.high, !.last = p, !.clean = b.clean /\ ok]
    BY <1>3 DEF Extended
  <2>2. (b.clean /\ ok) \in BOOLEAN /\ ((b.clean /\ ok) => b.clean)
    OBVIOUS
  <2> DEFINE c == b.clean /\ ok
  <2> HIDE DEF c
  <2>3. Extended(b, p, gap) = [b EXCEPT !.high = IF p > b.high THEN p ELSE b.high, !.last = p, !.clean = c]
    BY <2>1 DEF c
  <2>4. c \in BOOLEAN /\ (c => b.clean)
    BY <2>2 DEF c
  <2>5. /\ Extended(b, p, gap) \in Bar /\ Extended(b, p, gap).open = b.open
        /\ Extended(b, p, gap).clean = c
    BY <1>3, <2>3, <2>4 DEF Bar
  <2> QED
    BY <1>3, <2>4, <2>5 DEF Closing
<1> QED
  BY <1>2, <1>3

(* The catalog a minute's end leaves: no broken level is whole again.       *)
LEMMA TradeCatalog ==
  ASSUME EpisodeInv, NEW p \in Prices, Trade(p)
  PROVE  /\ listed' \subseteq Levels /\ brokenAt' \in [Levels -> Times]
         /\ \A l \in Levels : brokenAt[l] # 0 => brokenAt'[l] # 0
<1>1. listed \subseteq Levels /\ brokenAt \in [Levels -> Times] /\ now \in Nat /\ now \in Times
  BY Typed DEF EpisodeInv, TypeOK
<1>2. MinuteOf(now) \in Times
  BY <1>1, MinuteIs, ConstantFacts
<1>3. CASE UNCHANGED catalog
  BY <1>1, <1>3 DEF catalog
<1>4. CASE \E r \in Refreshes : listed' = r[1] /\ brokenAt' = r[2]
  <2>1. PICK r \in Refreshes : listed' = r[1] /\ brokenAt' = r[2]
    BY <1>4
  <2>2. \/ r = <<listed, brokenAt>>
        \/ \E l \in ActiveOf(listed, brokenAt) : r = <<listed, [brokenAt EXCEPT ![l] = MinuteOf(now)]>>
        \/ \E l \in listed : r = <<listed \ {l}, brokenAt>>
        \/ \E l \in Levels \ listed : r = <<listed \cup {l}, brokenAt>>
    BY DEF Refreshes
  <2> QED
    BY <1>1, <1>2, <2>1, <2>2 DEF ActiveOf
<1> QED
  BY <1>3, <1>4 DEF Trade

LEMMA TradeKeeps ==
  ASSUME EpisodeInv, NEW p \in Prices, Trade(p)
  PROVE  /\ now' = now /\ boundary' = boundary /\ evidenceFrom' = evidenceFrom
         /\ signals' = signals /\ cooldownUntil' = cooldownUntil /\ restored' = restored /\ attempted' = attempted
         /\ UNCHANGED market
         /\ minute' \in Times /\ minute' <= now /\ quarantined' \in BOOLEAN /\ minuteClosed' \in Times
         /\ listed' \subseteq Levels /\ brokenAt' \in [Levels -> Times]
         /\ approach' \in [Levels -> Episode \cup {None}] /\ consumed' \subseteq Levels /\ excused' \subseteq Levels
         /\ Held(approach, consumed, excused)'
         /\ \A l \in Levels : approach'[l] # None =>
              approach'[l].armed = now \/ (approach[l] # None /\ approach'[l].armed = approach[l].armed)
<1> DEFINE active == ActiveOf(listed', brokenAt')
           traded == TRUE
<1>1. TypeOK /\ Formed /\ Past /\ Held(approach, consumed, excused)
  BY DEF EpisodeInv
<1>2. /\ now \in Nat /\ now \in Times /\ approach \in [Levels -> Episode \cup {None}]
      /\ consumed \in SUBSET Levels /\ excused \in SUBSET Levels /\ signals \subseteq Signal
      /\ minuteClosed \in Times /\ quarantined \in BOOLEAN /\ minute \in Times \cup {None}
  BY <1>1, Typed DEF TypeOK
<1>3. /\ now' = now /\ boundary' = boundary /\ evidenceFrom' = evidenceFrom
      /\ signals' = signals /\ cooldownUntil' = cooldownUntil /\ restored' = restored /\ attempted' = attempted
      /\ UNCHANGED market
  BY DEF Trade, evaluator
<1>4. /\ approach' = ObservedAll(p, traded, active, approach, consumed)
      /\ consumed' = Unreleased(p, active, consumed)
      /\ excused'  = excused \cup Far(p) \cup (Levels \ active)
  BY DEF Trade
<1>5. listed' \subseteq Levels /\ brokenAt' \in [Levels -> Times] /\ \A l \in Levels : brokenAt[l] # 0 => brokenAt'[l] # 0
  BY TradeCatalog
<1>6. minute' \in Times /\ minute' <= now /\ quarantined' \in BOOLEAN /\ minuteClosed' \in Times
  <2>1. MinuteOf(now) \in 0..now /\ MinuteOf(now) \in Times
    BY <1>2, MinuteIs, ConstantFacts
  <2>2. minute # None => minute + MinuteLength \in Times
    BY <1>1, <1>2, Typed, ConstantFacts DEF Formed
  <2>3. minute' = MinuteOf(now) /\ minuteClosed' \in Times
    BY <1>2, <2>2 DEF Trade
  <2>4. quarantined' \in BOOLEAN
    BY DEF Trade
  <2> QED
    BY <1>2, <2>1, <2>3, <2>4, ConstantFacts
<1>7. active \in SUBSET Levels /\ \A l \in active : l \in listed' /\ brokenAt'[l] = 0
  BY <1>5 DEF ActiveOf
<1> HIDE DEF active, traded
<1>8. /\ approach' \in [Levels -> Episode \cup {None}]
      /\ \A l \in Levels : approach'[l] # None =>
           approach'[l].armed = now \/ (approach[l] # None /\ approach'[l].armed = approach[l].armed)
      /\ \A l \in Levels : approach[l] = None /\ (l \in active => l \in consumed) => approach'[l] = None
  BY <1>1, <1>2, <1>4, <1>7, ObservedTypes
<1>9. consumed' \subseteq Levels /\ excused' \subseteq Levels /\ consumed \ Far(p) \subseteq consumed'
  BY <1>2, <1>4 DEF Unreleased, Far
<1>10. Held(approach, consumed, excused)'
  <2>1. \A l \in Levels : approach'[l] # None => approach'[l].armed <= now
    BY <1>1, <1>2, <1>8 DEF Held
  <2>2. \A s \in signals : approach'[s.level] # None => s.armed < approach'[s.level].armed
    <3> SUFFICES ASSUME NEW s \in signals, approach'[s.level] # None PROVE s.armed < approach'[s.level].armed
      OBVIOUS
    <3>1. s.level \in Levels /\ s.armed \in Nat /\ s.close \in Nat /\ s.at \in Nat
      BY <1>2, ConstantFacts DEF Signal
    <3>2. s.armed < now
      BY <1>1, <1>2, <3>1 DEF Past
    <3> QED
      BY <1>1, <1>8, <3>1, <3>2 DEF Held
  <2>3. ASSUME NEW l \in Levels \ excused'
        PROVE  approach'[l] = None /\ l \in listed' /\ (l \in consumed' \/ brokenAt'[l] # 0)
    <3>1. l \in active /\ l \notin excused /\ l \notin Far(p)
      BY <1>4
    <3>2. approach[l] = None /\ l \in consumed
      BY <1>1, <1>5, <1>7, <3>1 DEF Held
    <3> QED
      BY <1>7, <1>8, <1>9, <3>1, <3>2
  <2> QED
    BY <1>3, <2>1, <2>2, <2>3 DEF Held
<1> QED
  BY <1>3, <1>5, <1>6, <1>8, <1>9, <1>10

LEMMA TradeMessageKeeps ==
  ASSUME EpisodeInv, NEW p \in Prices, NEW gap \in BOOLEAN, TradeMessage(p, gap)
  PROVE  EpisodeInv' /\ New = {}
<1>1. /\ phase = "idle" /\ phase' = "trades" /\ flushed' = Emitted
      /\ bucket' = Extended(Remaining, p, gap) /\ Trade(p)
  BY DEF TradeMessage
<1>2. TypeOK /\ Formed /\ Past /\ Queued /\ OneSignalPerEpisode
  BY DEF EpisodeInv
<1>3. /\ Emitted \in Bar \cup {None} /\ Remaining \in Bar \cup {None}
      /\ Emitted # None => Emitted = bucket /\ Remaining = None /\ Closing(Emitted) <= now /\ Closing(Emitted) \in Nat
      /\ Remaining # None => Remaining = bucket /\ Emitted = None /\ now < Closing(Remaining)
  BY <1>1, <1>2, Flushing, Typed
<1>4. /\ bucket' \in Bar /\ now < Closing(bucket') /\ \E t \in 0..now : bucket'.open = BucketOf(t)
  BY <1>1, <1>2, <1>3, ExtendedBar DEF Formed
<1>5. /\ now' = now /\ boundary' = boundary /\ signals' = signals /\ minute' \in Times /\ minute' <= now
      /\ Held(approach, consumed, excused)'
  BY <1>1, TradeKeeps
<1>6. TypeOK'
  BY <1>1, <1>2, <1>3, <1>4, TradeKeeps DEF TypeOK, market
<1>7. Past' /\ OneSignalPerEpisode'
  BY <1>2, <1>5 DEF Past, OneSignalPerEpisode
<1>8. Formed'
  BY <1>1, <1>2, <1>3, <1>4, <1>5 DEF Formed, Closing, BucketOf
<1>9. Queued'
  <2>1. /\ boundary # None => Closing(boundary) <= now /\ Closing(boundary) \in Nat
        /\ now \in Nat /\ Closing(bucket') \in Nat
    BY <1>2, <1>4, Typed, ConstantFacts DEF Formed, Bar, Closing
  <2>2. \A s \in signals : s.close \in Nat /\ s.at \in Nat /\ s.close <= now
    BY <1>2, <2>1, ConstantFacts DEF Past, TypeOK, Signal
  <2>3. \A s \in signals : s.close <= Closing(bucket')
    BY <1>4, <2>1, <2>2
  <2>4. boundary # None => Closing(boundary) <= Closing(bucket')
    BY <1>4, <2>1
  <2>5. flushed' # None => flushed' = bucket /\ bucket # None
    BY <1>1, <1>3
  <2> QED
    BY <1>2, <1>5, <2>3, <2>4, <2>5 DEF Queued, Closing
<1> QED
  BY <1>5, <1>6, <1>7, <1>8, <1>9 DEF EpisodeInv, New

LEMMA NextTradeKeeps ==
  ASSUME EpisodeInv, NEW p \in Prices, NextTrade(p)
  PROVE  EpisodeInv' /\ New = {}
<1>1. /\ phase = "trades" /\ phase' = "trades" /\ flushed' = flushed
      /\ bucket' = Extended(bucket, p, FALSE) /\ Trade(p)
  BY DEF NextTrade
<1>2. TypeOK /\ Formed /\ Past /\ Queued /\ OneSignalPerEpisode
  BY DEF EpisodeInv
<1>3. /\ bucket' \in Bar /\ now < Closing(bucket') /\ \E t \in 0..now : bucket'.open = BucketOf(t)
  <2>1. bucket \in Bar \cup {None} /\ (bucket # None => now < Closing(bucket) /\ \E t \in 0..now : bucket.open = BucketOf(t))
    BY <1>1, <1>2 DEF Formed, TypeOK
  <2> DEFINE gap == FALSE
  <2>2. bucket' = Extended(bucket, p, gap)
    BY <1>1
  <2> HIDE DEF gap
  <2> QED
    BY <1>2, <2>1, <2>2, ExtendedBar
<1>4. /\ now' = now /\ boundary' = boundary /\ signals' = signals /\ minute' \in Times /\ minute' <= now
      /\ Held(approach, consumed, excused)'
  BY <1>1, TradeKeeps
<1>5. TypeOK'
  BY <1>1, <1>2, <1>3, TradeKeeps DEF TypeOK, market
<1>6. Past' /\ OneSignalPerEpisode'
  BY <1>2, <1>4 DEF Past, OneSignalPerEpisode
<1>7. Formed'
  BY <1>1, <1>2, <1>3, <1>4 DEF Formed, Closing, BucketOf
<1>8. Queued'
  <2>1. /\ boundary # None => Closing(boundary) <= now /\ Closing(boundary) \in Nat
        /\ now \in Nat /\ Closing(bucket') \in Nat
    BY <1>2, <1>3, Typed, ConstantFacts DEF Formed, Bar, Closing
  <2>2. \A s \in signals : s.close \in Nat /\ s.at \in Nat /\ s.close <= now
    BY <1>2, <2>1, ConstantFacts DEF Past, TypeOK, Signal
  <2>3. \A s \in signals : s.close <= Closing(bucket')
    BY <1>3, <2>1, <2>2
  <2>4. boundary # None => Closing(boundary) <= Closing(bucket')
    BY <1>3, <2>1
  <2> QED
    BY <1>1, <1>2, <1>4, <2>3, <2>4 DEF Queued, Closing
<1> QED
  BY <1>4, <1>5, <1>6, <1>7, <1>8 DEF EpisodeInv, New
-----------------------------------------------------------------------------
(* Every step keeps the invariant, and signals at excused levels alone.     *)
LEMMA StepKeeps ==
  ASSUME EpisodeInv, [Next]_vars
  PROVE  EpisodeInv' /\ \A s \in New : s.level \in excused
<1>1. CASE Tick
  <2>1. New = {}
    BY <1>1 DEF Tick, New, evaluator
  <2> QED
    BY <1>1, <2>1, TickKeeps
<1>2. CASE Connect
  <2>1. New = {}
    BY <1>2 DEF Connect, New, evaluator
  <2> QED
    BY <1>2, <2>1, ConnectKeeps
<1>3. CASE Disconnect
  <2>1. New = {}
    BY <1>3 DEF Disconnect, New, evaluator
  <2> QED
    BY <1>3, <2>1, DisconnectKeeps
<1>4. ASSUME NEW restart \in BOOLEAN, NewSession(restart)
      PROVE  EpisodeInv' /\ \A s \in New : s.level \in excused
  <2>1. New = {}
    BY <1>4 DEF NewSession, New
  <2>2. EpisodeInv'
    BY <1>4, NewSessionKeeps
  <2> QED
    BY <2>1, <2>2
<1>5. ASSUME NEW mid \in Prices, Delta(mid)
      PROVE  EpisodeInv' /\ \A s \in New : s.level \in excused
  BY <1>5, DeltaKeeps
<1>6. ASSUME NEW mid \in Prices, Snapshot(mid)
      PROVE  EpisodeInv' /\ \A s \in New : s.level \in excused
  BY <1>6, SnapshotKeeps
<1>7. ASSUME NEW p \in Prices, NEW gap \in BOOLEAN, TradeMessage(p, gap)
      PROVE  EpisodeInv' /\ \A s \in New : s.level \in excused
  BY <1>7, TradeMessageKeeps
<1>8. ASSUME NEW p \in Prices, NextTrade(p)
      PROVE  EpisodeInv' /\ \A s \in New : s.level \in excused
  BY <1>8, NextTradeKeeps
<1>9. CASE EvaluateDeferred
  BY <1>9, EvaluateDeferredKeeps
<1>10. CASE EndMessage
  BY <1>10, EndMessageKeeps
<1>11. CASE UNCHANGED vars
  <2>1. /\ now' = now /\ UNCHANGED market /\ bucket' = bucket /\ phase' = phase /\ flushed' = flushed
        /\ boundary' = boundary /\ UNCHANGED candles /\ UNCHANGED catalog /\ approach' = approach
        /\ consumed' = consumed /\ UNCHANGED evaluator /\ excused' = excused /\ evidenceFrom' = evidenceFrom
    BY <1>11 DEF vars
  <2>2. EpisodeInv'
    BY <2>1 DEF EpisodeInv, TypeOK, Formed, Past, Queued, Held, OneSignalPerEpisode, Closing, BucketOf,
                market, candles, catalog, evaluator
  <2>3. New = {}
    BY <2>1 DEF New, evaluator
  <2> QED
    BY <2>2, <2>3
<1> QED
  BY <1>1, <1>2, <1>3, <1>4, <1>5, <1>6, <1>7, <1>8, <1>9, <1>10, <1>11 DEF Next

THEOREM EpisodesInvariant == Spec => []EpisodeInv
<1>1. EpisodeInv /\ [Next]_vars => EpisodeInv'
  BY StepKeeps
<1> QED
  BY EpisodesInit, <1>1, PTL DEF Spec

(* TypeOK: whatever is armed, formed or waits keeps its type; no bar closes *)
(* later than a minute after the last instant.                              *)
THEOREM EpisodesTyped == Spec => []TypeOK
<1>1. EpisodeInv => TypeOK
  BY DEF EpisodeInv
<1> QED
  BY EpisodesInvariant, <1>1, PTL

(* OneSignalPerEpisode: an episode of a level signals once (strategy_v2.py   *)
(* lines 877-883), through sessions and restarts.                           *)
THEOREM SignalsOnce == Spec => []OneSignalPerEpisode
<1>1. EpisodeInv => OneSignalPerEpisode
  BY DEF EpisodeInv
<1> QED
  BY EpisodesInvariant, <1>1, PTL

(* SpentUntilExcused: a level that signalled does so again only after a     *)
(* departure or an interruption (strategy_v2.py lines 494-515).             *)
THEOREM SpentStays == Spec => SpentUntilExcused
<1>1. EpisodeInv /\ [Next]_vars => [\A s \in signals' \ signals : s.level \in excused]_vars
  BY StepKeeps DEF New
<1> QED
  BY EpisodesInvariant, <1>1, PTL DEF Spec, SpentUntilExcused
-----------------------------------------------------------------------------
(* Whatever an executable signal may rest on came after the interruption.   *)
EvidenceInv ==
  /\ evidenceFrom <= now
  /\ eligible => \A l \in Levels : approach[l] # None => evidenceFrom <= approach[l].armed
  /\ \A b \in {bucket, flushed} : b # None /\ b.clean => evidenceFrom <= Closing(b)
  /\ boundary # None => evidenceFrom <= Closing(boundary)

(* A bar that interrupts nothing leaves no older episode than it found.     *)
LEMMA JudgedEvidence ==
  ASSUME TypeOK, NEW b \in Bar \cup {None}, NEW ap, Judged(b, ap),
         \A l \in Levels : ap[l] # None => evidenceFrom <= ap[l].armed,
         b # None => evidenceFrom <= Closing(b)
  PROVE  /\ \A l \in Levels : approach'[l] # None => evidenceFrom <= approach'[l].armed
         /\ \A s \in New : evidenceFrom <= s.armed
<1>1. \A l \in Levels : approach'[l] # None =>
        \/ ap[l] # None /\ approach'[l].armed = ap[l].armed
        \/ b # None /\ approach'[l].armed = Closing(b)
  BY DEF Judged
<1>2. \A s \in New : s.level \in Levels /\ ap[s.level] # None /\ s.armed = ap[s.level].armed
  BY DEF Judged, New, Signal
<1> QED
  BY <1>1, <1>2

LEMMA EvidenceInit == Init => EvidenceInv
BY DEF Init, EvidenceInv, NoApproaches

LEMMA DeltaEvidence ==
  ASSUME EpisodeInv, EvidenceInv, NEW mid \in Prices, Delta(mid)
  PROVE  EvidenceInv' /\ \A s \in New : s.live => evidenceFrom <= s.armed
<1>1. /\ phase = "idle" /\ now' = now /\ flushed' = flushed /\ bucket' = Remaining /\ eligible' = eligible
      /\ evidenceFrom' = IF Interrupting(Emitted) THEN now ELSE evidenceFrom
  BY DEF Delta, market
<1>2. PICK ap : /\ Leaves(Emitted, ap, boundary)
                /\ \A l \in Levels : ap[l] # None =>
                     ap[l].armed = now \/ (approach[l] # None /\ ap[l].armed = approach[l].armed)
  BY DeltaKeeps
<1>3. /\ TypeOK /\ flushed = None /\ now \in Nat /\ evidenceFrom \in Nat /\ evidenceFrom <= now
      /\ Emitted \in Bar \cup {None}
      /\ Emitted # None => Emitted = bucket /\ bucket' = None
      /\ bucket' # None => bucket' = bucket
  BY <1>1, Flushing, Typed, ConstantFacts DEF EpisodeInv, Formed, EvidenceInv, TypeOK
<1>4. \A s \in New : /\ Emitted # None /\ s.live = eligible /\ ap[s.level] # None /\ s.armed = ap[s.level].armed
                     /\ s.level \in Levels
  BY <1>2 DEF Leaves, Judged, New, Signal
<1>5. CASE Interrupting(Emitted)
  <2>1. boundary' = None /\ bucket' = None /\ flushed' = None /\ evidenceFrom' = now
        /\ \A l \in Levels : approach'[l] = None
    BY <1>1, <1>2, <1>3, <1>5 DEF Leaves, Interrupting
  <2>2. \A s \in New : s.live => evidenceFrom <= s.armed
    BY <1>2, <1>3, <1>4 DEF EvidenceInv
  <2> QED
    BY <1>1, <1>3, <2>1, <2>2 DEF EvidenceInv
<1>6. CASE ~Interrupting(Emitted)
  <2>1. Emitted # None => evidenceFrom <= Closing(Emitted)
    BY <1>3, <1>6 DEF EvidenceInv, Interrupting
  <2>2. eligible => /\ \A l \in Levels : approach'[l] # None => evidenceFrom <= approach'[l].armed
                    /\ \A s \in New : evidenceFrom <= s.armed
    <3>1. ASSUME eligible PROVE \A l \in Levels : ap[l] # None => evidenceFrom <= ap[l].armed
      BY <1>2, <1>3, <3>1 DEF EvidenceInv
    <3>2. Judged(Emitted, ap)
      BY <1>2 DEF Leaves
    <3> QED
      BY <1>3, <2>1, <3>1, <3>2, JudgedEvidence
  <2>3. boundary' # None => evidenceFrom <= Closing(boundary')
    BY <1>2, <2>1 DEF Leaves, EvidenceInv
  <2>4. EvidenceInv'
    BY <1>1, <1>3, <1>6, <2>2, <2>3 DEF EvidenceInv, Closing
  <2> QED
    BY <1>4, <2>2, <2>4
<1> QED
  BY <1>5, <1>6

(* A snapshot evaluates nothing for an eligible session: its warm-up begins.*)
LEMMA SnapshotEvidence ==
  ASSUME Warmup > 0, EpisodeInv, EvidenceInv, NEW mid \in Prices, Snapshot(mid)
  PROVE  EvidenceInv'
<1>1. /\ phase = "idle" /\ now' = now /\ flushed' = flushed /\ bucket' = Remaining /\ eligible' = eligible
      /\ snapshotAt' = now
      /\ evidenceFrom' = IF boundary' = None THEN now ELSE Closing(boundary')
  BY DEF Snapshot
<1>2. PICK ap : /\ Leaves(Emitted, ap, None)
                /\ \A l \in Levels : ap[l] # None => ap[l].armed = now
  BY SnapshotKeeps
<1>3. /\ TypeOK /\ flushed = None /\ now \in Nat /\ Warmup \in Nat
      /\ Emitted \in Bar \cup {None}
      /\ Emitted # None => Closing(Emitted) <= now /\ Closing(Emitted) \in Nat /\ bucket' = None
      /\ bucket' # None => now < Closing(bucket') /\ Closing(bucket') \in Nat
  BY <1>1, Flushing, Typed, ConstantFacts DEF EpisodeInv, Formed
<1>4. eligible => Blocked
  BY <1>1, <1>3 DEF Blocked
<1>5. boundary' = None \/ (boundary' = Emitted /\ Emitted # None)
  BY <1>2 DEF Leaves
<1>6. evidenceFrom' <= now /\ evidenceFrom' \in Nat
  BY <1>1, <1>3, <1>5
<1>7. ASSUME eligible, NEW l \in Levels, approach'[l] # None PROVE evidenceFrom' <= approach'[l].armed
  <2>1. ap[l] # None /\ approach'[l].armed = ap[l].armed
    BY <1>2, <1>4, <1>7 DEF Leaves, Judged
  <2> QED
    BY <1>2, <1>6, <2>1
<1>8. bucket' # None => evidenceFrom' <= Closing(bucket')
  BY <1>3, <1>6
<1>9. boundary' # None => evidenceFrom' <= Closing(boundary')
  BY <1>1, <1>3, <1>5
<1> QED
  BY <1>1, <1>3, <1>6, <1>7, <1>8, <1>9 DEF EvidenceInv, Closing

LEMMA EvaluateDeferredEvidence ==
  ASSUME EpisodeInv, EvidenceInv, EvaluateDeferred
  PROVE  EvidenceInv' /\ \A s \in New : s.live => evidenceFrom <= s.armed
<1>1. /\ now' = now /\ flushed' = flushed /\ bucket' = bucket /\ eligible' = eligible /\ evidenceFrom' = evidenceFrom
      /\ TypeOK /\ boundary \in Bar \cup {None}
  BY DEF EvaluateDeferred, market, EpisodeInv, TypeOK
<1>2. CASE UNCHANGED <<boundary, approach, consumed, evaluator, excused>>
  <2>1. New = {} /\ boundary' = boundary /\ approach' = approach
    BY <1>2 DEF New, evaluator
  <2> QED
    BY <1>1, <2>1 DEF EvidenceInv, Closing
<1>3. CASE boundary # None /\ boundary' = None /\ Judged(boundary, approach)
  <2>1. eligible => /\ \A l \in Levels : approach'[l] # None => evidenceFrom <= approach'[l].armed
                    /\ \A s \in New : evidenceFrom <= s.armed
    BY <1>1, <1>3, JudgedEvidence DEF EvidenceInv
  <2>2. \A s \in New : s.live = eligible
    BY <1>3 DEF Judged
  <2> QED
    BY <1>1, <1>3, <2>1, <2>2 DEF EvidenceInv, Closing
<1> QED
  BY <1>2, <1>3, EvaluateDeferredKeeps

LEMMA EndMessageEvidence ==
  ASSUME EpisodeInv, EvidenceInv, EndMessage
  PROVE  EvidenceInv' /\ \A s \in New : s.live => evidenceFrom <= s.armed
<1>1. /\ phase = "settling" /\ now' = now /\ flushed' = None /\ bucket' = bucket /\ eligible' = eligible
      /\ evidenceFrom' = IF Interrupting(flushed) THEN now ELSE evidenceFrom
  BY DEF EndMessage, market
<1>2. Leaves(flushed, approach, boundary)
  BY EndMessageKeeps
<1>3. /\ TypeOK /\ now \in Nat /\ evidenceFrom \in Nat /\ flushed \in Bar \cup {None}
      /\ bucket # None => now < Closing(bucket) /\ Closing(bucket) \in Nat
  BY <1>1, Typed, ConstantFacts DEF EpisodeInv, Formed, TypeOK
<1>4. \A s \in New : /\ s.live = eligible /\ approach[s.level] # None /\ s.armed = approach[s.level].armed
                     /\ s.level \in Levels
  BY <1>2 DEF Leaves, Judged, New, Signal
<1>5. \A s \in New : s.live => evidenceFrom <= s.armed
  BY <1>4 DEF EvidenceInv
<1>6. CASE Interrupting(flushed)
  <2>1. boundary' = None /\ evidenceFrom' = now /\ \A l \in Levels : approach'[l] = None
    BY <1>1, <1>2, <1>6 DEF Leaves
  <2> QED
    BY <1>1, <1>3, <1>5, <2>1 DEF EvidenceInv, Closing
<1>7. CASE ~Interrupting(flushed)
  <2>1. flushed # None => evidenceFrom <= Closing(flushed)
    BY <1>7 DEF EvidenceInv, Interrupting
  <2>2. eligible => \A l \in Levels : approach'[l] # None => evidenceFrom <= approach'[l].armed
    <3>1. Judged(flushed, approach)
      BY <1>2 DEF Leaves
    <3> QED
      BY <1>3, <2>1, <3>1, JudgedEvidence DEF EvidenceInv
  <2>3. boundary' # None => evidenceFrom <= Closing(boundary')
    BY <1>2, <2>1 DEF Leaves, EvidenceInv
  <2> QED
    BY <1>1, <1>3, <1>5, <1>7, <2>2, <2>3 DEF EvidenceInv, Closing
<1> QED
  BY <1>6, <1>7

LEMMA TradeEvidence ==
  ASSUME EpisodeInv, EvidenceInv, NEW p \in Prices,
         NextTrade(p) \/ \E gap \in BOOLEAN : TradeMessage(p, gap)
  PROVE  EvidenceInv'
<1>1. /\ TypeOK /\ Trade(p) /\ now \in Nat /\ evidenceFrom \in Nat
  BY Typed, ConstantFacts DEF EpisodeInv, TypeOK, NextTrade, TradeMessage
<1>2. /\ now' = now /\ boundary' = boundary /\ evidenceFrom' = evidenceFrom /\ eligible' = eligible
      /\ \A l \in Levels : approach'[l] # None =>
           approach'[l].armed = now \/ (approach[l] # None /\ approach'[l].armed = approach[l].armed)
  BY <1>1, TradeKeeps DEF market
<1>3. EpisodeInv' /\ phase' = "trades"
  <2>1. CASE NextTrade(p)
    BY <2>1, NextTradeKeeps DEF NextTrade
  <2>2. CASE \E gap \in BOOLEAN : TradeMessage(p, gap)
    BY <2>2, TradeMessageKeeps DEF TradeMessage
  <2> QED
    BY <2>1, <2>2
<1>4. bucket' # None => evidenceFrom <= Closing(bucket')
  <2>1. bucket' # None => now < Closing(bucket') /\ Closing(bucket') \in Nat
    <3>1. bucket' # None => now' < Closing(bucket') /\ bucket' \in Bar
      BY <1>3 DEF EpisodeInv, Formed, TypeOK, Closing
    <3> QED
      BY <1>2, <3>1, ConstantFacts DEF Bar, Closing
  <2> QED
    BY <1>1, <2>1 DEF EvidenceInv
<1>5. flushed' # None /\ flushed'.clean => evidenceFrom <= Closing(flushed')
  <2>1. CASE NextTrade(p)
    BY <2>1 DEF NextTrade, EvidenceInv
  <2>2. CASE \E gap \in BOOLEAN : TradeMessage(p, gap)
    <3>1. phase = "idle" /\ flushed' = Emitted
      BY <2>2 DEF TradeMessage
    <3> QED
      BY <3>1, Flushing DEF EvidenceInv
  <2> QED
    BY <2>1, <2>2
<1>6. eligible => \A l \in Levels : approach'[l] # None => evidenceFrom <= approach'[l].armed
  BY <1>1, <1>2 DEF EvidenceInv
<1> QED
  BY <1>1, <1>2, <1>4, <1>5, <1>6 DEF EvidenceInv, Closing

LEMMA EvidenceStep ==
  ASSUME Warmup > 0, EpisodeInv, EvidenceInv, [Next]_vars
  PROVE  EvidenceInv' /\ \A s \in New : s.live => evidenceFrom <= s.armed
<1>1. /\ now \in Nat /\ evidenceFrom \in Nat /\ bucket \in Bar \cup {None}
      /\ phase = "idle" => flushed = None
      /\ \A l \in Levels : approach[l] # None => approach[l].armed \in Nat
  BY Typed, ConstantFacts DEF EpisodeInv, Formed, TypeOK, Episode
<1>2. CASE Tick
  <2>1. /\ now' = now + 1 /\ evidenceFrom' = evidenceFrom /\ eligible' = eligible /\ approach' = approach
        /\ bucket' = bucket /\ flushed' = flushed /\ boundary' = boundary /\ signals' = signals
    BY <1>2 DEF Tick, market, evaluator
  <2> QED
    BY <1>1, <2>1 DEF EvidenceInv, New, Closing
<1>3. CASE Connect
  BY <1>3 DEF Connect, EvidenceInv, New, Closing, evaluator
<1>4. CASE Disconnect
  <2>1. /\ now' = now /\ evidenceFrom' = now /\ phase = "idle" /\ flushed' = flushed /\ boundary' = None
        /\ approach' = NoApproaches /\ signals' = signals
        /\ bucket' = IF bucket = None THEN None ELSE [bucket EXCEPT !.clean = FALSE]
    BY <1>4 DEF Disconnect, Reset, evaluator
  <2>2. bucket' # None => ~bucket'.clean
    BY <1>1, <2>1 DEF Bar
  <2> QED
    BY <1>1, <2>1, <2>2 DEF EvidenceInv, New, NoApproaches
<1>5. ASSUME NEW restart \in BOOLEAN, NewSession(restart)
      PROVE  EvidenceInv' /\ \A s \in New : s.live => evidenceFrom <= s.armed
  <2>1. /\ evidenceFrom' = now' /\ now' = now + 1 /\ phase = "idle" /\ flushed' = flushed /\ boundary' = None
        /\ bucket' = None /\ approach' = NoApproaches /\ signals' = signals
    BY <1>5 DEF NewSession
  <2> QED
    BY <1>1, <2>1 DEF EvidenceInv, New, NoApproaches
<1>6. ASSUME NEW mid \in Prices, Delta(mid)
      PROVE  EvidenceInv' /\ \A s \in New : s.live => evidenceFrom <= s.armed
  BY <1>6, DeltaEvidence
<1>7. ASSUME NEW mid \in Prices, Snapshot(mid)
      PROVE  EvidenceInv' /\ \A s \in New : s.live => evidenceFrom <= s.armed
  BY <1>7, SnapshotEvidence, SnapshotKeeps
<1>8. ASSUME NEW p \in Prices, NEW gap \in BOOLEAN, TradeMessage(p, gap)
      PROVE  EvidenceInv' /\ \A s \in New : s.live => evidenceFrom <= s.armed
  BY <1>8, TradeEvidence, TradeMessageKeeps
<1>9. ASSUME NEW p \in Prices, NextTrade(p)
      PROVE  EvidenceInv' /\ \A s \in New : s.live => evidenceFrom <= s.armed
  BY <1>9, TradeEvidence, NextTradeKeeps
<1>10. CASE EvaluateDeferred
  BY <1>10, EvaluateDeferredEvidence
<1>11. CASE EndMessage
  BY <1>11, EndMessageEvidence
<1>12. CASE UNCHANGED vars
  BY <1>12 DEF vars, market, evaluator, EvidenceInv, New, Closing
<1> QED
  BY <1>2, <1>3, <1>4, <1>5, <1>6, <1>7, <1>8, <1>9, <1>10, <1>11, <1>12 DEF Next

(* EvidenceIsContinuous: if there is a warm-up, nothing executable rests on  *)
(* an episode from before the last interruption (app.py lines 466-484).     *)
THEOREM EvidenceContinues ==
  ASSUME Warmup > 0
  PROVE  Spec => EvidenceIsContinuous
<1>1. EpisodeInv /\ EvidenceInv /\ [Next]_vars => EvidenceInv'
  BY EvidenceStep
<1>2. EpisodeInv /\ EvidenceInv /\ [Next]_vars =>
        [\A s \in signals' \ signals : s.live => s.armed >= evidenceFrom]_vars
  <2> SUFFICES ASSUME EpisodeInv, EvidenceInv, [Next]_vars, NEW s \in signals' \ signals, s.live
               PROVE  s.armed >= evidenceFrom
    OBVIOUS
  <2>1. evidenceFrom <= s.armed
    BY EvidenceStep DEF New
  <2>2. EpisodeInv' /\ s \in signals'
    BY StepKeeps
  <2>3. s.armed \in Nat /\ evidenceFrom \in Nat
    BY <2>2, ConstantFacts DEF EpisodeInv, TypeOK, Signal
  <2> QED
    BY <2>1, <2>3
<1> QED
  BY EpisodesInvariant, EvidenceInit, <1>1, <1>2, PTL DEF Spec, EvidenceIsContinuous
-----------------------------------------------------------------------------
(* The cooldown is remembered, or forgotten before the warm-up that follows *)
(* outlasts it.                                                             *)
Cooling ==
  \A t \in signals : t.live =>
    \/ cooldownUntil[t.lane] >= t.close + Cooldown
    \/ now > t.close /\ (snapshotAt # None => snapshotAt > t.close)

CoolInv == Cooling /\ LiveSignalsAreCooled

LEMMA CoolInit == Init => CoolInv
BY DEF Init, CoolInv, Cooling, LiveSignalsAreCooled

(* What changes no signal and no cooldown.                                  *)
LEMMA Rests ==
  ASSUME EpisodeInv, CoolInv, now' \in Nat, now <= now', signals' = signals, cooldownUntil' = cooldownUntil,
         snapshotAt' = snapshotAt \/ snapshotAt' = None
  PROVE  CoolInv'
<1>1. now \in Nat /\ signals \subseteq Signal
  BY Typed DEF EpisodeInv, TypeOK
<1>2. \A t \in signals : t.close \in Nat
  BY <1>1, ConstantFacts DEF Signal
<1> QED
  BY <1>1, <1>2 DEF CoolInv, Cooling, LiveSignalsAreCooled

(* A bar that is not older than any signal; the warm-up is that of the      *)
(* snapshot that was there.                                                 *)
LEMMA JudgedCools ==
  ASSUME Cooldown <= Warmup + 1, EpisodeInv, CoolInv, now' = now, snapshotAt' = snapshotAt,
         NEW b \in Bar \cup {None}, b # None => \A s \in signals : s.close <= Closing(b),
         NEW ap, Judged(b, ap)
  PROVE  CoolInv'
<1>1. /\ now \in Nat /\ signals \subseteq Signal /\ snapshotAt \in Nat \cup {None}
      /\ Warmup \in Nat /\ Cooldown \in Nat /\ cooldownUntil \in [Lanes -> Nat]
      /\ b # None => Closing(b) \in Nat
  <2>1. b # None => Closing(b) \in Nat
    BY ConstantFacts DEF Bar, Closing
  <2>2. /\ now \in Nat /\ signals \subseteq Signal /\ snapshotAt \in Times \cup {None} /\ cooldownUntil \in [Lanes -> Nat]
    BY Typed DEF EpisodeInv, TypeOK
  <2> QED
    BY <2>1, <2>2, ConstantFacts
<1>2. \A t \in signals : t.close \in Nat /\ t.at \in Nat /\ t.lane \in Lanes /\ t.close <= t.at /\ t.at <= now
  BY <1>1, ConstantFacts DEF Signal, EpisodeInv, Past
<1>3. \A s \in New : /\ b # None /\ ~Blocked /\ s.close = Closing(b) /\ s.at = now /\ s.live = eligible
                     /\ now >= cooldownUntil[s.lane] /\ cooldownUntil'[s.lane] = s.close + Cooldown
                     /\ s.lane \in Lanes
  BY DEF Judged, New, Signal
<1>4. \A s \in signals' : s \in signals \/ s \in New
  BY DEF New
<1>5. Cooling'
  <2> SUFFICES ASSUME NEW t \in signals', t.live
               PROVE  \/ cooldownUntil'[t.lane] >= t.close + Cooldown
                      \/ now > t.close /\ (snapshotAt # None => snapshotAt > t.close)
    BY DEF Cooling
  <2>1. CASE t \in New
    BY <1>1, <1>3, <2>1
  <2>2. CASE t \in signals /\ cooldownUntil'[t.lane] = cooldownUntil[t.lane]
    BY <2>2 DEF CoolInv, Cooling
  <2>3. CASE t \in signals /\ cooldownUntil'[t.lane] # cooldownUntil[t.lane]
    <3>1. b # None /\ cooldownUntil'[t.lane] = Closing(b) + Cooldown
      BY <1>2, <2>3 DEF Judged
    <3> QED
      BY <1>1, <1>2, <2>3, <3>1
  <2> QED
    BY <1>4, <2>1, <2>2, <2>3
<1>6. ASSUME NEW s \in New, NEW t \in signals, s.live, t.live, s.lane = t.lane
      PROVE  s.at >= t.close + Cooldown
  <2>1. /\ eligible /\ ~Blocked /\ s.at = now /\ now >= cooldownUntil[t.lane]
        /\ cooldownUntil[t.lane] \in Nat /\ t.close \in Nat
    BY <1>1, <1>2, <1>3, <1>6
  <2>2. snapshotAt # None /\ now >= snapshotAt + Warmup /\ snapshotAt \in Nat
    BY <1>1, <2>1 DEF Blocked
  <2>3. CASE cooldownUntil[t.lane] >= t.close + Cooldown
    BY <1>1, <2>1, <2>3
  <2>4. CASE snapshotAt > t.close
    BY <1>1, <2>1, <2>2, <2>4
  <2> QED
    BY <1>6, <2>2, <2>3, <2>4 DEF CoolInv, Cooling
<1>7. LiveSignalsAreCooled'
  <2> SUFFICES ASSUME NEW s \in signals', NEW t \in signals', s.live, t.live, s.lane = t.lane, s # t
               PROVE  s.at >= t.close + Cooldown \/ t.at >= s.close + Cooldown
    BY DEF LiveSignalsAreCooled
  <2>1. CASE s \in New /\ t \in New
    BY <2>1 DEF Judged
  <2>2. CASE s \in signals /\ t \in signals
    BY <2>2 DEF CoolInv, LiveSignalsAreCooled
  <2>3. CASE s \in New /\ t \in signals
    BY <1>6, <2>3
  <2>4. CASE s \in signals /\ t \in New
    BY <1>6, <2>4
  <2> QED
    BY <1>4, <2>1, <2>2, <2>3, <2>4
<1> QED
  BY <1>5, <1>7 DEF CoolInv

(* A snapshot begins a warm-up after every signal it makes forgotten.        *)
LEMMA SnapshotCools ==
  ASSUME EpisodeInv, CoolInv, NEW mid \in Prices, Snapshot(mid)
  PROVE  CoolInv'
<1>1. phase = "idle" /\ now' = now /\ snapshotAt' = now /\ New = {}
  BY SnapshotKeeps DEF Snapshot
<1>2. PICK ap : Judged(Emitted, ap)
  BY SnapshotKeeps DEF Leaves
<1>3. signals' = signals
  BY <1>1, <1>2 DEF Judged, New
<1>4. /\ now \in Nat /\ Cooldown \in Nat /\ signals \subseteq Signal /\ cooldownUntil \in [Lanes -> Nat]
      /\ Emitted # None => Closing(Emitted) \in Nat /\ \A s \in signals : s.close <= Closing(Emitted)
  BY <1>1, Flushing, EmittedAfter, Typed, ConstantFacts DEF EpisodeInv, TypeOK
<1>5. \A t \in signals : t.close \in Nat /\ t.lane \in Lanes
  BY <1>4, ConstantFacts DEF Signal
<1>6. ASSUME NEW t \in signals, t.live
      PROVE  cooldownUntil'[t.lane] >= t.close + Cooldown \/ now > t.close
  <2>1. CASE cooldownUntil'[t.lane] = cooldownUntil[t.lane]
    BY <1>6, <2>1 DEF CoolInv, Cooling
  <2>2. CASE cooldownUntil'[t.lane] # cooldownUntil[t.lane]
    <3>1. Emitted # None /\ cooldownUntil'[t.lane] = Closing(Emitted) + Cooldown
      BY <1>2, <1>5, <2>2 DEF Judged
    <3> QED
      BY <1>4, <1>5, <3>1
  <2> QED
    BY <2>1, <2>2
<1> QED
  BY <1>1, <1>3, <1>6 DEF CoolInv, Cooling, LiveSignalsAreCooled

LEMMA NewSessionCools ==
  ASSUME EpisodeInv, CoolInv, NEW restart \in BOOLEAN, NewSession(restart)
  PROVE  CoolInv'
<1>1. now' = now + 1 /\ snapshotAt' = None /\ signals' = signals
  BY DEF NewSession
<1>2. \A t \in signals : t.close \in Nat /\ t.close <= t.at /\ t.at <= now /\ t.at \in Nat
  BY ConstantFacts DEF EpisodeInv, Past, TypeOK, Signal
<1>3. now \in Nat
  BY Typed DEF EpisodeInv
<1> QED
  BY <1>1, <1>2, <1>3 DEF CoolInv, Cooling, LiveSignalsAreCooled

LEMMA CoolStep ==
  ASSUME Cooldown <= Warmup + 1, EpisodeInv, CoolInv, [Next]_vars
  PROVE  CoolInv'
<1>1. TypeOK /\ now \in Nat
  BY Typed DEF EpisodeInv
<1>2. ASSUME Tick \/ Connect \/ Disconnect \/ UNCHANGED vars PROVE CoolInv'
  <2>1. /\ now' = now \/ now' = now + 1
        /\ signals' = signals /\ cooldownUntil' = cooldownUntil
        /\ snapshotAt' = snapshotAt \/ snapshotAt' = None
    BY <1>2 DEF Tick, Connect, Disconnect, vars, evaluator, market
  <2> QED
    BY <1>1, <2>1, Rests
<1>3. ASSUME NEW p \in Prices, NextTrade(p) \/ \E gap \in BOOLEAN : TradeMessage(p, gap) PROVE CoolInv'
  <2>1. Trade(p)
    BY <1>3 DEF NextTrade, TradeMessage
  <2>2. now' = now /\ signals' = signals /\ cooldownUntil' = cooldownUntil /\ snapshotAt' = snapshotAt
    BY <2>1, TradeKeeps DEF market
  <2> QED
    BY <1>1, <2>2, Rests
<1>4. ASSUME NEW restart \in BOOLEAN, NewSession(restart) PROVE CoolInv'
  BY <1>4, NewSessionCools
<1>5. ASSUME NEW mid \in Prices, Snapshot(mid) PROVE CoolInv'
  BY <1>5, SnapshotCools
<1>6. ASSUME NEW mid \in Prices, Delta(mid) PROVE CoolInv'
  <2>1. phase = "idle" /\ now' = now /\ snapshotAt' = snapshotAt
    BY <1>6 DEF Delta, market
  <2>2. PICK ap : Judged(Emitted, ap)
    BY <1>6, DeltaKeeps DEF Leaves
  <2>3. Emitted \in Bar \cup {None} /\ (Emitted # None => \A s \in signals : s.close <= Closing(Emitted))
    BY <2>1, Flushing, EmittedAfter
  <2> QED
    BY <2>1, <2>2, <2>3, JudgedCools
<1>7. CASE EvaluateDeferred
  <2>1. now' = now /\ snapshotAt' = snapshotAt
    BY <1>7 DEF EvaluateDeferred, market
  <2>2. CASE UNCHANGED <<boundary, approach, consumed, evaluator, excused>>
    <3>1. signals' = signals /\ cooldownUntil' = cooldownUntil
      BY <2>2 DEF evaluator
    <3> QED
      BY <1>1, <2>1, <3>1, Rests
  <2>3. CASE boundary # None /\ Judged(boundary, approach)
    <3>1. boundary \in Bar \cup {None} /\ \A s \in signals : s.close <= Closing(boundary)
      BY <2>3 DEF EpisodeInv, TypeOK, Queued
    <3> QED
      BY <2>1, <2>3, <3>1, JudgedCools
  <2> QED
    BY <1>7, <2>2, <2>3, EvaluateDeferredKeeps
<1>8. CASE EndMessage
  <2>1. now' = now /\ snapshotAt' = snapshotAt
    BY <1>8 DEF EndMessage, market
  <2>2. Judged(flushed, approach)
    BY <1>8, EndMessageKeeps DEF Leaves
  <2>3. flushed \in Bar \cup {None} /\ (flushed # None => \A s \in signals : s.close <= Closing(flushed))
    BY DEF EpisodeInv, TypeOK, Queued
  <2> QED
    BY <2>1, <2>2, <2>3, JudgedCools
<1> QED
  BY <1>2, <1>3, <1>4, <1>5, <1>6, <1>7, <1>8 DEF Next

(* LiveSignalsAreCooled: if the warm-up is hardly shorter than the cooldown, *)
(* or longer, a session that forgets the cooldown (app.py lines 303-315)    *)
(* cannot break it.                                                         *)
THEOREM SignalsCool ==
  ASSUME Cooldown <= Warmup + 1
  PROVE  Spec => []LiveSignalsAreCooled
<1>1. EpisodeInv /\ CoolInv /\ [Next]_vars => CoolInv'
  BY CoolStep
<1>2. CoolInv => LiveSignalsAreCooled
  BY DEF CoolInv
<1> QED
  BY EpisodesInvariant, CoolInit, <1>1, <1>2, PTL DEF Spec
=============================================================================
