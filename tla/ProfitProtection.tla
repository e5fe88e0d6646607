--------------------------- MODULE ProfitProtection ---------------------------
(***************************************************************************)
(* The counterfactual exits of one paper position: a guard in memory that   *)
(* follows the quotes and footprints of the position's symbol, beside the   *)
(* executor that closes the position in earnest, and the decisions both     *)
(* write to the journal; across broken streams, days in which the symbol is *)
(* not selected, and kills between two commits.                             *)
(*                                                                         *)
(* Results are per unit of quantity after costs: partial fills scale the    *)
(* guard's amounts with the quantity at an unchanged entry price, which     *)
(* leaves them as they are here.                                            *)
(***************************************************************************)
EXTENDS Integers, FiniteSets

CONSTANTS
  Nets,         (* results an exit at a quote may have                      *)
  Stop, Target, (* results at which the executor closes                     *)
  Activation,   (* activation_r times the risk                              *)
  Giveback,     (* giveback_r times the risk                                *)
  MinFloor,     (* min_floor_r times the risk                               *)
  Baseline,     (* delta_baseline_count                                     *)
  HistoryLimit, (* the limit of profit_shadow_history                       *)
  None,
  MaxMessages,  (* bound: messages and footprints                           *)
  MaxKills,     (* bound: kills                                             *)
  MaxBreaks     (* bound: broken streams and ended days                     *)

ASSUME ProtectionAssumption ==
  /\ Nets \subseteq Int
  /\ Stop \in Int /\ Target \in Int
  /\ Activation \in Nat \ {0} /\ Giveback \in Nat /\ MinFloor \in Nat
  /\ Baseline \in Nat \ {0} /\ HistoryLimit \in Nat \ {0}
  /\ None \notin Int
  /\ MaxMessages \in Nat /\ MaxKills \in Nat /\ MaxBreaks \in Nat

Modes == {"price_only", "price_plus_orderflow"}
Final == {"SHADOW_EXIT", "BASELINE_EXIT"}

VARIABLES
  clock,        (* messages so far, as receive time                         *)
  kills, breaks,
  listed,       (* is the symbol in the universe of the day?                *)
  quote,        (* the result at the book's quote; None: book not ready     *)
  position,     (* "open" or "closed", as in memory and in the journal      *)
  mfe,          (* the position's mfe_bp, as a result                       *)
  guard,        (* profit_protection                                        *)
  events,       (* the profit_shadow_events of the position                 *)
  best,         (* the best quote of the position anyone saw                *)
  cut           (* was the process killed between a close and its rows?     *)

vars == <<clock, kills, breaks, listed, quote, position, mfe, guard, events, best, cut>>

Guard == [peak : Nat, floor : Nat, active : BOOLEAN, healthy : 0..Baseline, terminal : SUBSET Modes]
Row   == [at : 1..MaxMessages, mode : Modes, decision : Final \cup {"WAIT_ORDERFLOW"}, net : Nets]

Init ==
  /\ clock = 0 /\ kills = 0 /\ breaks = 0
  /\ listed = TRUE /\ quote = None
  /\ position = "open" /\ mfe = 0
  /\ guard = None /\ events = {} /\ best = 0 /\ cut = FALSE
-----------------------------------------------------------------------------
Higher(a, b) == IF a >= b THEN a ELSE b

FloorAt(peak) == Higher(MinFloor, peak - Giveback)

(* The rows that profit_shadow_history returns: the latest, and any of one  *)
(* time where the limit cuts through them.                                  *)
Latest(rows) ==
  IF Cardinality(rows) <= HistoryLimit THEN {rows}
  ELSE {some \in SUBSET rows :
          /\ Cardinality(some) = HistoryLimit
          /\ \A r \in some, s \in rows \ some : s.at <= r.at}

(* A mutant: a new guard knows nothing of what was decided.                 *)
NothingDecided(rows) == {}

(* The modes that have exited according to those rows.                      *)
Decided(rows) == {r.mode : r \in {x \in rows : x.decision = "SHADOW_EXIT"}}

(* A mutant: a new guard starts from nothing.                               *)
FromNothing(terminal) ==
  [peak |-> 0, floor |-> 0, active |-> FALSE, healthy |-> 0, terminal |-> terminal]

(* ProfitProtection.__init__: the best of the position so far is its peak.  *)
Fresh(terminal) ==
  LET peak == Higher(0, mfe)
  IN  [peak |-> peak, active |-> peak >= Activation,
       floor |-> IF peak >= Activation THEN FloorAt(peak) ELSE 0,
       healthy |-> 0, terminal |-> terminal]

(* The guard a quote meets: the one at hand, or a new one.                  *)
Met == IF guard # None THEN {guard} ELSE {Fresh(Decided(rows)) : rows \in Latest(events)}

(* A mutant: the peak follows the last quote.                               *)
LastNet(g, n) == [g EXCEPT !.peak = n]

(* A mutant: the floor is the giveback below the activation.                *)
FixedFloor(g, n) ==
  [g EXCEPT !.peak = Higher(g.peak, n), !.active = g.active \/ n >= Activation,
            !.floor = IF g.active \/ n >= Activation THEN FloorAt(Activation + 2 * Giveback) ELSE g.floor]

(* _base: the peak, the activation, and a floor that never falls.           *)
Raised(g, n) ==
  LET peak   == Higher(g.peak, n)
      active == g.active \/ n >= Activation
  IN  [g EXCEPT !.peak = peak, !.active = active,
                !.floor = IF active THEN Higher(g.floor, FloorAt(peak)) ELSE g.floor]

Breached(g, n) == g.active /\ n <= g.floor

(* on_quote of the guard: what it records and what becomes of it.           *)
QuoteRows(g, n) ==
  IF Breached(Raised(g, n), n) /\ "price_only" \notin g.terminal
    THEN {[at |-> clock', mode |-> "price_only", decision |-> "SHADOW_EXIT", net |-> n]}
    ELSE {}

AfterQuote(g, n) ==
  IF Breached(Raised(g, n), n) THEN [Raised(g, n) EXCEPT !.terminal = @ \cup {"price_only"}]
  ELSE Raised(g, n)

(* A mutant: the modes that are still running are left without a result.    *)
NoBaseline(g, n) == {}

(* on_baseline_close: the variants still running end with the position.     *)
BaselineRows(g, n) ==
  {[at |-> clock', mode |-> m, decision |-> "BASELINE_EXIT", net |-> n] : m \in Modes \ g.terminal}

(* on_footprint, for the orderflow variant: the floor it looks at is the    *)
(* one before the quote, and it needs a baseline of earlier footprints.     *)
FootprintRows(g, n, adverse) ==
  IF Breached(g, n) /\ "price_plus_orderflow" \notin g.terminal
    THEN {[at |-> clock', mode |-> "price_plus_orderflow", net |-> n,
           decision |-> IF g.healthy = Baseline /\ adverse THEN "SHADOW_EXIT" ELSE "WAIT_ORDERFLOW"]}
    ELSE {}

AfterFootprint(g, n, adverse) ==
  LET h == IF g.healthy = Baseline THEN Baseline ELSE g.healthy + 1
      ends == {m \in Modes : \E r \in FootprintRows(g, n, adverse) : r.mode = m /\ r.decision = "SHADOW_EXIT"}
  IN  [AfterQuote(g, n) EXCEPT !.healthy = h, !.terminal = @ \cup ends]

Closes(n) == n <= Stop \/ n >= Target
-----------------------------------------------------------------------------
(* A book message of the symbol: the guard, then the executor, then the     *)
(* rows of the variants that a close ends.                                  *)
Quote(n) ==
  /\ clock < MaxMessages                               \* bound
  /\ listed /\ position = "open"
  /\ clock' = clock + 1
  /\ quote' = n
  /\ best' = Higher(best, n)
  /\ \E g \in Met :
       IF Closes(n)
         THEN /\ position' = "closed" /\ mfe' = mfe
              /\ guard' = None
              /\ events' = events \cup QuoteRows(g, n) \cup BaselineRows(AfterQuote(g, n), n)
         ELSE /\ guard' = AfterQuote(g, n)
              /\ mfe' = Higher(mfe, n)
              /\ events' = events \cup QuoteRows(g, n)
              /\ UNCHANGED position
  /\ UNCHANGED <<kills, breaks, listed, cut>>

(* The same message, killed after some of its commits: before the executor, *)
(* after the excursion, or after a close and with only some rows of it.     *)
QuoteKilled(n) ==
  /\ clock < MaxMessages /\ kills < MaxKills           \* bounds
  /\ listed /\ position = "open"
  /\ clock' = clock + 1 /\ kills' = kills + 1
  /\ quote' = None /\ guard' = None
  /\ best' = Higher(best, n)
  /\ \E g \in Met :
       \/ /\ events' = events \cup QuoteRows(g, n)
          /\ UNCHANGED <<position, mfe, cut>>
       \/ /\ ~Closes(n)
          /\ events' = events \cup QuoteRows(g, n)
          /\ mfe' = Higher(mfe, n)
          /\ UNCHANGED <<position, cut>>
       \/ /\ Closes(n)
          /\ position' = "closed" /\ cut' = TRUE
          /\ \E some \in SUBSET BaselineRows(AfterQuote(g, n), n) :
               events' = events \cup QuoteRows(g, n) \cup some
          /\ UNCHANGED mfe
  /\ UNCHANGED <<breaks, listed>>

(* A complete footprint of the symbol, out of warm-up, at the book's quote; *)
(* "adverse": its delta and its close are both against the position.        *)
Footprint(adverse) ==
  /\ clock < MaxMessages                               \* bound
  /\ guard # None /\ quote # None /\ listed
  /\ clock' = clock + 1
  /\ guard' = AfterFootprint(guard, quote, adverse)
  /\ events' = events \cup QuoteRows(guard, quote) \cup FootprintRows(guard, quote, adverse)
  /\ UNCHANGED <<kills, breaks, listed, quote, position, mfe, best, cut>>

(* The stream breaks: no quote until the next snapshot.                     *)
Disconnect ==
  /\ quote # None /\ breaks < MaxBreaks                \* bound
  /\ breaks' = breaks + 1 /\ quote' = None
  /\ UNCHANGED <<clock, kills, listed, position, mfe, guard, events, best, cut>>

(* The day ends.  The new universe may do without the symbol; the executor  *)
(* and the guard stay.                                                      *)
NewDay ==
  /\ breaks < MaxBreaks                                \* bound
  /\ breaks' = breaks + 1
  /\ listed' \in BOOLEAN /\ quote' = None
  /\ UNCHANGED <<clock, kills, position, mfe, guard, events, best, cut>>

(* The process is killed between messages and started again.                *)
Kill ==
  /\ kills < MaxKills                                  \* bound
  /\ kills' = kills + 1
  /\ quote' = None /\ guard' = None
  /\ UNCHANGED <<clock, breaks, listed, position, mfe, events, best, cut>>

Next ==
  \/ \E n \in Nets : Quote(n) \/ QuoteKilled(n)
  \/ \E adverse \in BOOLEAN : Footprint(adverse)
  \/ Disconnect
  \/ NewDay
  \/ Kill

Spec == Init /\ [][Next]_vars
-----------------------------------------------------------------------------
TypeOK ==
  /\ clock \in 0..MaxMessages /\ kills \in 0..MaxKills /\ breaks \in 0..MaxBreaks
  /\ listed \in BOOLEAN /\ quote \in Nets \cup {None}
  /\ position \in {"open", "closed"} /\ mfe \in Nat
  /\ guard \in Guard \cup {None} /\ events \subseteq Row
  /\ best \in Nat /\ cut \in BOOLEAN

(* The guard and the executor each keep the best quote of the position, one *)
(* in memory and one in the positions table; between messages they agree.   *)
GuardMatchesExcursion == guard # None => position = "open" /\ guard.peak = mfe

(* An exit of the guard gives back at least the configured part of the best *)
(* quote anyone saw, after that quote had earned the activation, whatever   *)
(* restarts lay between.                                                    *)
ExitsGiveBack ==
  \A r \in events : r.decision = "SHADOW_EXIT" => best >= Activation /\ r.net <= FloorAt(best)

(* A mode exits once, unless a restart had to read past its exit: as many   *)
(* later rows of the position as the history returns.                       *)
ExitsOnceInHistory ==
  \A e, f \in {r \in events : r.decision = "SHADOW_EXIT"} :
    e.mode = f.mode /\ e.at < f.at =>
      Cardinality({r \in events \ {e} : e.at <= r.at /\ r.at < f.at}) >= HistoryLimit

(* When the position is closed each mode has its result, except where the   *)
(* process was killed between the close and its rows.                       *)
EveryModeSettles ==
  position = "closed" /\ ~cut => \A m \in Modes : \E r \in events : r.mode = m /\ r.decision \in Final
=============================================================================
