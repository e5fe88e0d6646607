------------------------------ MODULE LevelStore ------------------------------
(***************************************************************************)
(* The horizontal levels of one symbol, timeframe and side: what the        *)
(* detector makes of the completed bars, how a confirmed close breaks a     *)
(* level, and how the levels in memory and in the journal's table go        *)
(* through recalculations, missed bars, ended sessions, kills and start-up. *)
(* Levels of other symbols, timeframes and sides never meet these.          *)
(*                                                                         *)
(* The model is written for highs; lows mirror them.  A bar is its close,   *)
(* and bar t closes at time t.  The timeframe is the fastest one, whose     *)
(* levels break by their own bars alone.                                   *)
(***************************************************************************)
EXTENDS Integers, Sequences, FiniteSetsExt, Functions

CONSTANTS
  Pivots,           (* the extrema of the market                            *)
  PriceOf,          (* the price of a pivot                                 *)
  OriginOf,         (* the bar it is the extremum of                        *)
  HalfLeft,         (* bars before it that its window needs                 *)
  RightExclusion,   (* bars after it that confirm it                        *)
  MinBars,          (* bars below which nothing is detected                 *)
  Tolerance,        (* how far apart two pivots of one level may be         *)
  ConfirmingCloses, (* consecutive closes beyond a level that break it      *)
  HistoryLimit,     (* bars kept in memory, and fetched at start-up         *)
  Closes,           (* closes a bar may have                                *)
  None,             (* no such level                                        *)
  MaxBars           (* bound: bars of the market                            *)

ASSUME LevelAssumption ==
  /\ IsFiniteSet(Pivots)
  /\ PriceOf \in [Pivots -> Nat]
  /\ OriginOf \in [Pivots -> Nat \ {0}]
  /\ HalfLeft \in Nat
  /\ RightExclusion \in Nat
  /\ MinBars \in Nat
  /\ Tolerance \in Nat
  /\ ConfirmingCloses \in Nat \ {0}
  /\ HistoryLimit \in Nat \ {0}
  /\ Closes \subseteq Nat
  /\ None \notin Nat
  /\ MaxBars \in Nat

(* level_id: the hash of one pivot, kept once it is broken, or of the        *)
(* pivots that make up one level.                                           *)
PivotId(p)   == [kind |-> "pivot", of |-> {p}]
ClusterId(g) == [kind |-> "cluster", of |-> g]

Ids == {PivotId(p) : p \in Pivots} \cup {ClusterId(g) : g \in (SUBSET Pivots) \ {{}}}

(* broken_at_ms of a level; 0 stands for NULL.                              *)
Rows == [Ids -> Nat \cup {None}]

VARIABLES
  closes,     (* the market: the close of every bar so far                  *)
  up,         (* is the symbol's session running?                           *)
  quarantined,(* is the builder to suppress the next bar it completes?      *)
  bars,       (* memory: the completed bars, a partial function of time     *)
  levels,     (* memory: state.levels                                       *)
  table       (* the journal: the levels table                              *)

vars == <<closes, up, quarantined, bars, levels, table>>

NoLevels == [i \in Ids |-> None]
NoBars   == [t \in {} |-> 0]

Init ==
  /\ closes = <<>>
  /\ up = FALSE
  /\ quarantined = FALSE
  /\ bars = NoBars
  /\ levels = NoLevels
  /\ table = NoLevels
-----------------------------------------------------------------------------
(* The retained window: the latest HistoryLimit of the bars at hand.        *)
Latest(b) ==
  Restrict(b, {t \in DOMAIN b : Cardinality({u \in DOMAIN b : u >= t}) <= HistoryLimit})

Confirmation(p) == OriginOf[p] + RightExclusion

(* A level is as low as its lowest pivot, and confirmed with its last.       *)
Beyond(i, close)        == \E p \in i.of : close > PriceOf[p]
AfterConfirmation(i, t) == \A p \in i.of : t > Confirmation(p)

(* A mutant: a run of closes goes on across a missing bar.                  *)
BridgingGaps(i, b) ==
  LET after == {t \in DOMAIN b : AfterConfirmation(i, t)}
  IN  {t \in after : \E run \in SUBSET after :
         /\ Cardinality(run) = ConfirmingCloses /\ t = Max(run)
         /\ \A u \in after : u \in Min(run)..t => u \in run
         /\ \A u \in run : Beyond(i, b[u])}

(* A mutant: one close more than asked for.                                 *)
OneCloseMore(i, b) ==
  {t \in DOMAIN b : \A u \in (t - ConfirmingCloses)..t :
     u \in DOMAIN b /\ AfterConfirmation(i, u) /\ Beyond(i, b[u])}

(* Bars that complete a run of closes beyond the level, uninterrupted by a   *)
(* missing bar and wholly after its confirmation.                           *)
BreakingBars(i, b) ==
  {t \in DOMAIN b : \A u \in (t - ConfirmingCloses + 1)..t :
     u \in DOMAIN b /\ AfterConfirmation(i, u) /\ Beyond(i, b[u])}

(* _first_close_break; 0 if there is none.                                  *)
FirstBreak(i, b) == IF BreakingBars(i, b) = {} THEN 0 ELSE Min(BreakingBars(i, b))

(* The break that _merge_level keeps of a stored and an incoming one.        *)
Merged(old, new) ==
  IF old \in {None, 0} THEN new ELSE IF new = 0 THEN old ELSE Min({old, new})

Active(rows) == {i \in Ids : rows[i] = 0}
Broken(rows) == {i \in Ids : rows[i] \notin {None, 0}}

(* A mutant: breaks are looked for again where one is known.                *)
BreakingAnew(rows, b) == {i \in Active(rows) \cup Broken(rows) : FirstBreak(i, b) # 0}

(* The levels a lifecycle refresh finds broken.                             *)
Breaking(rows, b) == {i \in Active(rows) : FirstBreak(i, b) # 0}

(* mark_level_broken for the levels of `some', one commit each.             *)
Marked(rows, some, b) ==
  [i \in Ids |-> IF i \in some THEN Merged(rows[i], FirstBreak(i, b)) ELSE rows[i]]
-----------------------------------------------------------------------------
(* A pivot is found when its whole window is at hand and no close in it is   *)
(* beyond the pivot.                                                        *)
Candidates(b) ==
  {p \in Pivots : \A u \in (OriginOf[p] - HalfLeft)..Confirmation(p) :
     u \in DOMAIN b /\ b[u] <= PriceOf[p]}

(* A mutant: the pivots a broken level consumed are free again.             *)
NothingConsumed(rows) == {}

(* A mutant: every level blocks its pivots, broken or not.                  *)
AllConsumed(rows) ==
  UNION {i.of : i \in {j \in Active(rows) \cup Broken(rows) : j.kind = "cluster"}}

(* Tombstones: a broken level blocks the pivots it was made of.             *)
Consumed(rows) == UNION {i.of : i \in {j \in Broken(rows) : j.kind = "cluster"}}

(* The break of a single pivot: the one on record, or the first in sight.    *)
PivotBreak(p, rows, b) ==
  IF PivotId(p) \in Broken(rows) THEN rows[PivotId(p)] ELSE FirstBreak(PivotId(p), b)

(* _merge_candidates: from the lowest pivot up, those within its tolerance.  *)
Groups[S \in SUBSET Pivots] ==
  IF S = {} THEN {}
  ELSE LET low   == CHOOSE p \in S : \A q \in S : PriceOf[p] <= PriceOf[q]
           group == {q \in S : PriceOf[q] <= PriceOf[low] + Tolerance}
       IN  {group} \cup Groups[S \ group]

(* build_reference_levels: every known break, the pivots that broke on their *)
(* own, and the levels the others make up.                                  *)
Detected(rows, b) ==
  LET free == IF Cardinality(DOMAIN b) < MinBars THEN {} ELSE Candidates(b) \ Consumed(rows)
      lost == {p \in free : PivotBreak(p, rows, b) # 0}
      made == {ClusterId(g) : g \in (SUBSET (free \ lost)) \cap Groups[free \ lost]}
  IN  [i \in Ids |->
         IF \E p \in lost : i = PivotId(p)
         THEN PivotBreak(CHOOSE p \in lost : i = PivotId(p), rows, b)
         ELSE IF i \in Broken(rows) THEN rows[i]
         ELSE IF i \in made THEN 0
         ELSE None]

(* upsert_levels with what was detected.                                    *)
Upserted(rows, found) ==
  [i \in Ids |-> IF found[i] = None THEN rows[i] ELSE Merged(rows[i], found[i])]

(* state.levels afterwards: what was detected, as stored, and broken levels. *)
Retained(rows, stored, found) ==
  [i \in Ids |-> IF found[i] # None THEN stored[i]
                 ELSE IF i \in Broken(rows) THEN rows[i] ELSE None]

(* _refresh_digash_levels and _refresh_level_lifecycle on the bars b, with   *)
(* `old' in memory and `rows' in the table: break, detect, store, break      *)
(* again.                                                                   *)
Refreshed(old, rows, b) ==
  LET some    == Breaking(old, b)
      journal == Marked(rows, some, b)
      memory  == [i \in Ids |-> IF i \in some THEN journal[i] ELSE old[i]]
      found   == Detected(memory, b)
      stored  == Upserted(journal, found)
      kept    == Retained(memory, stored, found)
      late    == Breaking(kept, b)
      final   == Marked(stored, late, b)
  IN  [table  |-> final,
       levels |-> [i \in Ids |-> IF i \in late THEN final[i] ELSE kept[i]]]

Refresh(old, b) ==
  LET new == Refreshed(old, table, b)
  IN  table' = new.table /\ levels' = new.levels

(* The process is stopped after some of the commits of a refresh.           *)
TornRefresh(old, b) ==
  \/ \E some \in SUBSET Breaking(old, b) : table' = Marked(table, some, b)
  \/ table' = Refreshed(old, table, b).table

SessionOver ==
  /\ up' = FALSE
  /\ quarantined' = FALSE
  /\ bars' = NoBars
  /\ levels' = NoLevels
-----------------------------------------------------------------------------
MarketMoves(close) ==
  /\ Len(closes) < MaxBars                             \* bound
  /\ closes' = Append(closes, close)

(* A mutant: the bar is taken for the one after the last that was seen.     *)
BarAfterTheLast(close) ==
  LET next == 1 + Max(DOMAIN bars \cup {0})
  IN  Latest([t \in DOMAIN bars \cup {next} |->
                IF t \in DOMAIN bars THEN bars[t] ELSE close])

WithBar(close) ==
  Latest([t \in DOMAIN bars \cup {Len(closes) + 1} |->
            IF t \in DOMAIN bars THEN bars[t] ELSE close])

(* The first trade of a later bucket completes a bar.                       *)
Bar(close) ==
  /\ up /\ ~quarantined
  /\ MarketMoves(close)
  /\ bars' = WithBar(close)
  /\ Refresh(levels, WithBar(close))
  /\ UNCHANGED <<up, quarantined>>

(* A bar the session does not get: its bucket was quarantined, the feed went *)
(* down in it, or nothing traded in it.  The next one may be quarantined.    *)
MissedBar(close) ==
  /\ up
  /\ MarketMoves(close)
  /\ quarantined' \in BOOLEAN
  /\ UNCHANGED <<up, bars, levels, table>>

BarWhileDown(close) ==
  /\ ~up
  /\ MarketMoves(close)
  /\ UNCHANGED <<up, quarantined, bars, levels, table>>

(* Killed, or failed by SQLite, while a bar is dealt with.                  *)
TornBar(close) ==
  /\ up /\ ~quarantined
  /\ MarketMoves(close)
  /\ TornRefresh(levels, WithBar(close))
  /\ SessionOver

(* What the exchange answers a request for history.                         *)
History == Latest(closes)

(* A session begins: levels from the table, bars from the exchange, and the  *)
(* bucket in progress quarantined.                                          *)
Bootstrap ==
  /\ ~up
  /\ up' = TRUE
  /\ quarantined' = TRUE
  /\ bars' = History
  /\ Refresh(table, History)
  /\ UNCHANGED closes

TornBootstrap ==
  /\ ~up
  /\ TornRefresh(table, History)
  /\ UNCHANGED <<closes, up, quarantined, bars, levels>>

(* The day ends, the session fails, or the process is killed.               *)
Stop ==
  /\ up
  /\ SessionOver
  /\ UNCHANGED <<closes, table>>

Next ==
  \/ \E close \in Closes :
       Bar(close) \/ MissedBar(close) \/ BarWhileDown(close) \/ TornBar(close)
  \/ Bootstrap \/ TornBootstrap
  \/ Stop

Spec == Init /\ [][Next]_vars
-----------------------------------------------------------------------------
TypeOK ==
  /\ closes \in Seq(Closes)
  /\ up \in BOOLEAN
  /\ quarantined \in BOOLEAN
  /\ DOMAIN bars \subseteq 1..Len(closes)
  /\ \A t \in DOMAIN bars : bars[t] = closes[t]
  /\ levels \in Rows
  /\ table \in Rows

(* Broken levels do not come back through another level: nothing the         *)
(* strategy may use holds a pivot that a level on record was broken with.   *)
NoRevival ==
  \A i \in Active(levels), j \in Broken(table) : i.of \cap j.of = {}

(* The break of a level, once on record, is never moved or cleared.         *)
BreaksStand == [][\A i \in Broken(table) : table'[i] = table[i]]_table

(* What the strategy may use was not broken by any bar at hand.             *)
ActiveAreUnbroken ==
  \A i \in Active(levels), t \in DOMAIN bars :
    AfterConfirmation(i, t) => \E u \in (t - ConfirmingCloses + 1)..t :
      u \notin DOMAIN bars \/ ~AfterConfirmation(i, u) \/ ~Beyond(i, bars[u])

(* A break on record happened: that many closes beyond the level, all after  *)
(* it was confirmed.                                                        *)
BreaksHappened ==
  \A i \in Broken(table) : \A u \in (table[i] - ConfirmingCloses + 1)..table[i] :
    u \in DOMAIN closes /\ AfterConfirmation(i, u) /\ Beyond(i, closes[u])

PivotsOf(rows) == UNION {i.of : i \in Active(rows)}

(* A pivot of a usable level stays in one while the session runs, unless a   *)
(* break took it or its window has left the history that is kept.           *)
NothingElseEndsALevel ==
  [][up /\ up' => \A p \in PivotsOf(levels) :
       \/ p \in PivotsOf(levels')
       \/ \E j \in Broken(levels') : p \in j.of
       \/ \E u \in (OriginOf[p] - HalfLeft)..Confirmation(p) : u \notin DOMAIN bars']_vars

(* Building the levels again, from the journal and over the same bars, finds *)
(* the levels in use.                                                       *)
RestartFindsTheSame ==
  up => Active(Refreshed(table, table, bars).levels) = Active(levels)
=============================================================================
