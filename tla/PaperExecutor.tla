---------------------------- MODULE PaperExecutor ----------------------------
(***************************************************************************)
(* paper.py's PaperExecutor with the journal it writes: one strict-queue   *)
(* post-only entry and one position for the whole portfolio, driven by the *)
(* book and trade messages PaperApp hands it, killed and restarted at any  *)
(* point.                                                                  *)
(*                                                                         *)
(* `pending', `position' and `equity' are the process's memory; `signals', *)
(* `orders' and `positions' are the tables that survive it.  A handler is  *)
(* one action: asyncio runs it to its end before the next message.  Most   *)
(* handlers commit several transactions, and may be stopped before any of  *)
(* them: by a kill, which takes the memory with it, or by an SQLite error, *)
(* which run_forever catches (app.py:179), so that the memory the handler  *)
(* had already changed lives on beside rows it never wrote.  The Torn...   *)
(* actions are those prefixes, and the constant Torn says which handlers a *)
(* run lets stop halfway.  One such error is left out: in the cancellation *)
(* a disconnect asks for, where stream.py:87 suppresses it and the stream  *)
(* comes back after one second instead of run_forever's fifteen.           *)
(***************************************************************************)
EXTENDS Journal

CONSTANTS
  Prices,         (* prices a quote or a trade may show                     *)
  Latency,        (* ticks between a submission and its arrival (latency_ms)*)
  Ttl,            (* ticks an arrived entry may wait (entry_ttl_ms)         *)
  InitialEquity,  (* equity the portfolio starts with                       *)
  LossLimit,      (* daily_loss_fraction of it                              *)
  Torn,           (* handlers that may stop between two of their writes     *)
  None,           (* no pending entry, or no position                       *)
  MaxLots,        (* bound: largest order, in lots of qty_step              *)
  MaxShown,       (* bound: largest displayed size                          *)
  MaxQueue,       (* bound: longest queue ahead of an entry                 *)
  MaxTime,        (* bound: last clock tick                                 *)
  MaxCrashes      (* bound: times a handler or the process is stopped       *)

TornHandlers == {"decision", "cancel", "quote", "close", "fill"}

MemoryOrder ==
  [sig: Signals, status: OrderStatus, created: Nat, entry: Nat, qty: Nat,
   filled: Nat, queue: Nat, displayed: Nat]

MemoryPosition == [sig: Signals, entry: Nat, qty: Nat, best: Nat, worst: Nat]

ASSUME ExecutorAssumption ==
  /\ Prices \subseteq Nat
  /\ Latency \in Nat
  /\ Ttl \in Nat \ {0}
  /\ InitialEquity \in Nat \ {0}
  /\ LossLimit \in Nat \ {0}
  /\ Torn \subseteq TornHandlers
  /\ None \notin MemoryOrder
  /\ None \notin MemoryPosition
  /\ MaxLots \in Nat \ {0}
  /\ MaxShown \in Nat
  /\ MaxQueue \in Nat
  /\ MaxTime \in Nat
  /\ MaxCrashes \in Nat

VARIABLES
  now,        (* receive time of the latest message                         *)
  up,         (* is the process running?                                    *)
  signals,    (* the journal: status of every signal                        *)
  orders,     (* the journal: paper_orders row of every signal              *)
  positions,  (* the journal: positions row of every signal                 *)
  pending,    (* memory: the entry in flight, or None                       *)
  position,   (* memory: the open position, or None                         *)
  equity,     (* memory: equity the next order is sized with                *)
  listed,     (* symbols the day's universe subscribes to                   *)
  failed,     (* signals a write about which failed in the running process  *)
  crashes,    (* how often a handler or the process was stopped             *)
  tape        (* history of the entry in flight, for the properties: the    *)
              (* queue shown on arrival, matching volume traded since       *)

journal == <<signals, orders, positions>>
memory  == <<pending, position, equity>>
vars    == <<now, up, journal, memory, listed, failed, crashes, tape>>

(* A day subscribes to some symbols; a selection of none is tried again.    *)
Universes == SUBSET Symbols \ {{}}

FreshTape == [arrival |-> 0, traded |-> 0]

Init ==
  /\ now = 0
  /\ up = TRUE
  /\ signals = EmptySignals
  /\ orders = EmptyOrders
  /\ positions = EmptyPositions
  /\ pending = None
  /\ position = None
  /\ equity = InitialEquity
  /\ listed = Symbols
  /\ failed = {}
  /\ crashes = 0
  /\ tape = FreshTape
-----------------------------------------------------------------------------
(* Quotes and trades.  `shown' is what the book displays at the price of    *)
(* the pending entry, on its own side.                                      *)
Quotes == {q \in [bid: Prices, ask: Prices, shown: 0..MaxShown] : q.bid < q.ask}
Trades == [taker: {"Buy", "Sell"}, price: Prices, qty: 1..(MaxShown + MaxLots)]

Executable(s, q) == IF SideOf[s] = "LONG" THEN q.bid ELSE q.ask

InBracket(s, price) ==
  IF SideOf[s] = "LONG"
  THEN StopOf[s] < price /\ price < TargetOf[s]
  ELSE TargetOf[s] < price /\ price < StopOf[s]

Mine(sym)  == pending # None /\ SymbolOf[pending.sig] = sym
Holds(sym) == position # None /\ SymbolOf[position.sig] = sym

(* A book displays nothing on the far side of its best price, and always    *)
(* something at the best price itself.                                      *)
Displays(sym, q) ==
  IF Mine(sym)
  THEN LET best == Executable(pending.sig, q)
       IN  IF best = pending.entry
           THEN q.shown > 0
           ELSE Direction(pending.sig) * (best - pending.entry) < 0 => q.shown = 0
  ELSE q.shown = 0
-----------------------------------------------------------------------------
(* The entry in flight: PendingPaperOrder.                                  *)
Activation(o) == o.created + Latency
Expiry(o)     == o.created + Latency + Ttl
Remaining(o)  == o.qty - o.filled
Live(o)       == o # None /\ o.status \in LiveStatus

PostOnly(o, q) ==
  IF SideOf[o.sig] = "LONG" THEN o.entry < q.ask ELSE o.entry > q.bid

Cancelled(o) ==
  [o EXCEPT !.status = IF o.filled > 0 THEN "CANCELLED" ELSE "MISSED"]

Arrived(o, q) == [o EXCEPT !.status = "ACTIVE", !.queue = q.shown, !.displayed = q.shown]

(* A mutant: a cancellation at the price shortens the queue.                *)
RequeuedOnCancel(o, shown) ==
  [o EXCEPT !.queue = IF shown < @ THEN shown ELSE @, !.displayed = shown]

(* Size added at the price joins the queue; size cancelled never leaves it. *)
Requeued(o, shown) ==
  [o EXCEPT !.queue = @ + (IF shown > o.displayed THEN shown - o.displayed ELSE 0),
            !.displayed = shown]

(* A mutant: the time to live is not looked at.                             *)
AdvancedWithoutTtl(o, q) ==
  CASE o.status = "PENDING" /\ now >= Activation(o) ->
         IF PostOnly(o, q) /\ q.shown > 0 THEN Arrived(o, q) ELSE Cancelled(o)
    [] o.status \in {"ACTIVE", "PARTIAL"} -> Requeued(o, q.shown)
    [] OTHER -> o

(* _advance_pending: what a quote makes of the entry.                       *)
Advanced(o, q) ==
  IF now >= Expiry(o) THEN Cancelled(o)
  ELSE CASE o.status = "PENDING" /\ now >= Activation(o) ->
              IF PostOnly(o, q) /\ q.shown > 0 THEN Arrived(o, q) ELSE Cancelled(o)
         [] o.status \in {"ACTIVE", "PARTIAL"} -> Requeued(o, q.shown)
         [] OTHER -> o

(* update_paper_order and cancel_pending raise when the entry has no row.   *)
Recorded == pending # None => orders[pending.sig].status # "NONE"

(* After a failed write the next message comes fifteen seconds later, long  *)
(* after any entry in flight expired.                                       *)
Receives ==
  up /\ (pending # None /\ pending.sig \in failed => now >= Expiry(pending))

AfterQuote(sym, q) == IF Mine(sym) THEN Advanced(pending, q) ELSE pending

(* A mutant: the queue is not written back.                                 *)
OrderRowAfterStatusOnly(row, o) == [row EXCEPT !.status = o.status]

(* update_paper_order as cancellation, arrival and queue growth call it; a  *)
(* cancellation does not write the queue, which an ended row has no use for.*)
OrderRowAfter(row, o) == [row EXCEPT !.status = o.status, !.queue = o.queue]

(* The row of the entry in flight, once that became o.                      *)
OrderRowsAfter(o) ==
  IF o = pending THEN orders
  ELSE [orders EXCEPT ![o.sig] = OrderRowAfter(@, o)]

(* An entry that ended is dropped.                                          *)
InFlight(o) == IF o = pending \/ Live(o) THEN o ELSE None

(* The entry becomes o: its row is written, and it is dropped once ended.   *)
SettleOrder(o) == orders' = OrderRowsAfter(o) /\ pending' = InFlight(o)

(* A mutant: an entry cancelled before it filled leaves its signal alone.   *)
SignalsKept(table, o) == table

(* cancel_pending: only an unfilled entry makes its signal MISSED.          *)
SignalsAfterCancel(table, o) ==
  IF o # None /\ o.status = "MISSED" THEN [table EXCEPT ![o.sig] = "MISSED"] ELSE table
-----------------------------------------------------------------------------
(* The position: OpenPaperPosition.                                         *)
Better(s, a, b) == IF Direction(s) * (a - b) >= 0 THEN a ELSE b
Worse(s, a, b)  == IF Direction(s) * (a - b) >= 0 THEN b ELSE a

(* A mutant: the excursion is left alone.                                   *)
UnmarkedAt(p, price) == p

MarkedAt(p, price) ==
  [p EXCEPT !.best = Better(p.sig, @, price), !.worst = Worse(p.sig, @, price)]

StopHit(s, price)   == Direction(s) * (price - StopOf[s]) <= 0
TargetHit(s, price) == Direction(s) * (price - TargetOf[s]) >= 0
Exits(s, price)     == StopHit(s, price) \/ TargetHit(s, price)

(* update_excursion writes open rows only, and does not mind finding none.   *)
PositionRowMarked(row, p) ==
  IF row.status = "OPEN" THEN [row EXCEPT !.best = p.best, !.worst = p.worst] ELSE row

(* close_position: what _close books for position p when it leaves at price. *)
PositionRowClosed(row, p, price) ==
  [row EXCEPT !.status = "CLOSED", !.exit = Slipped(p.sig, price),
              !.pnl = NetPnl(p, Slipped(p.sig, price)), !.closed = now]
-----------------------------------------------------------------------------
(* PaperApp's decisions: _record_decision with submission_blocker and submit. *)
PortfolioBusy == pending # None \/ position # None

(* A mutant: only an open position, not an entry in flight, is busy.        *)
BlockedByPositionOnly ==
  \/ position # None
  \/ DailyRealizedPnl(positions, now \div DayLength) <= -LossLimit

(* A mutant: the day's losses are not looked at.                            *)
BlockedByBusyOnly == PortfolioBusy

SubmissionBlocked ==
  \/ PortfolioBusy
  \/ DailyRealizedPnl(positions, now \div DayLength) <= -LossLimit

(* A post-only entry at the signal-time best price of its own side.         *)
NewOrder(s, entry, lots) ==
  [sig |-> s, status |-> "PENDING", created |-> now, entry |-> entry,
   qty |-> lots, filled |-> 0, queue |-> 0, displayed |-> 0]

NewOrderRow(o) ==
  [status |-> o.status, created |-> o.created, entry |-> o.entry,
   qty |-> o.qty, filled |-> o.filled, queue |-> o.queue]

Fresh(s) == signals[s] = "NONE"

(* Bound: an entry is only submitted while the clock can reach its expiry.  *)
TimeToExpire == now + Latency + Ttl <= MaxTime

Malformed(s, reference, entry) == ~InBracket(s, reference) \/ ~InBracket(s, entry)

Submits(s, reference, entry, lots) ==
  ~Malformed(s, reference, entry) /\ ~SubmissionBlocked /\ lots > 0

Decides(s) == Receives /\ SymbolOf[s] \in listed /\ Fresh(s) /\ TimeToExpire

(* The strategy triggers signal s; `reference' is the price it evaluated    *)
(* at and `lots' what sizing makes of equity, risk and qty_step (0 when     *)
(* that is below min_order_qty).                                            *)
Decide(s, q, reference, lots) ==
  LET entry == Executable(s, q)
  IN  /\ Decides(s)
      /\ signals' = [signals EXCEPT ![s] =
                       CASE Malformed(s, reference, entry)     -> "REJECTED"
                         [] Submits(s, reference, entry, lots) -> "TRIGGERED"
                         [] OTHER                              -> "MISSED"]
      /\ IF Submits(s, reference, entry, lots)
         THEN /\ pending' = NewOrder(s, entry, lots)
              /\ orders' = [orders EXCEPT ![s] = NewOrderRow(NewOrder(s, entry, lots))]
              /\ tape' = FreshTape
         ELSE UNCHANGED <<pending, orders, tape>>
      /\ UNCHANGED <<now, up, positions, position, equity, listed, failed, crashes>>
-----------------------------------------------------------------------------
(* on_quote: the entry first, then the position, which the quote may close. *)
TapeAfterQuote(o, q) ==
  CASE pending' = None                                   -> FreshTape
    [] Live(o) /\ pending.status = "PENDING" /\ o.status = "ACTIVE" ->
         [arrival |-> q.shown, traded |-> 0]
    [] OTHER                                             -> tape

QuoteAdvances(o) ==
  /\ SettleOrder(o)
  /\ signals' = SignalsAfterCancel(signals, o)
  /\ UNCHANGED <<position, positions, equity>>

RowsMarked(price) ==
  [positions EXCEPT ![position.sig] = PositionRowMarked(@, MarkedAt(position, price))]

QuoteMarks(o, price) ==
  /\ SettleOrder(o)
  /\ signals' = SignalsAfterCancel(signals, o)
  /\ position' = MarkedAt(position, price)
  /\ positions' = RowsMarked(price)
  /\ UNCHANGED equity

(* A mutant: the exit leaves the rest of the entry in the book.             *)
RemainderLeft(o) == o

(* The position's exit cancels what is left of the entry first.             *)
RemainderCancelled(o) == IF Live(o) THEN Cancelled(o) ELSE o

RowsAfterExit(price) ==
  [positions EXCEPT ![position.sig] =
    PositionRowClosed(PositionRowMarked(@, MarkedAt(position, price)), position, price)]

(* A mutant: memory books the result before slippage.                       *)
EquityAtQuote(price) == equity + NetPnl(position, price)

EquityAfterExit(price) == equity + NetPnl(position, Slipped(position.sig, price))

QuoteCloses(o, price) ==
  LET r == RemainderCancelled(o)
  IN  /\ SettleOrder(r)
      /\ signals' = [SignalsAfterCancel(signals, r) EXCEPT ![position.sig] = "CLOSED"]
      /\ positions' = RowsAfterExit(price)
      /\ equity' = EquityAfterExit(price)
      /\ position' = None

Hears(sym, q) == Receives /\ sym \in listed /\ Displays(sym, q)

(* The first write about an entry without a row raises, and so does the     *)
(* cancellation handle_message answers it with: nothing changes.            *)
QuoteRaises(sym, q) ==
  /\ Hears(sym, q) /\ Mine(sym) /\ ~Recorded
  /\ UNCHANGED vars

Quoted(sym, q) ==
  /\ Hears(sym, q)
  /\ Mine(sym) => Recorded
  /\ Live(AfterQuote(sym, q)) => AfterQuote(sym, q).queue <= MaxQueue    \* bound

RowOpen == positions[position.sig].status = "OPEN"

(* An exit of a position whose row is not open raises before it closes.     *)
OnQuote(sym, q) ==
  LET o     == AfterQuote(sym, q)
      price == Executable(position.sig, q)
  IN  /\ Quoted(sym, q)
      /\ \/ ~Holds(sym) /\ QuoteAdvances(o)
         \/ Holds(sym) /\ ~Exits(position.sig, price) /\ QuoteMarks(o, price)
         \/ Holds(sym) /\ Exits(position.sig, price) /\ RowOpen /\ QuoteCloses(o, price)
         \/ /\ Holds(sym) /\ Exits(position.sig, price) /\ ~RowOpen
            /\ QuoteMarks(RemainderCancelled(o), price)
      /\ tape' = TapeAfterQuote(o, q)
      /\ UNCHANGED <<now, up, listed, failed, crashes>>
-----------------------------------------------------------------------------
(* on_trade: only opposing trades at exactly the entry's price count, and   *)
(* the queue ahead takes its share first.                                   *)
Working(sym) ==
  Receives /\ sym \in listed /\ Mine(sym) /\ pending.status \in {"ACTIVE", "PARTIAL"}

Matches(t) ==
  /\ t.taker = (IF SideOf[pending.sig] = "LONG" THEN "Sell" ELSE "Buy")
  /\ t.price = pending.entry

Lesser(a, b) == IF a <= b THEN a ELSE b

(* A mutant: the whole trade is taken off the queue, however short it is.   *)
ConsumedUncapped(o, t) == t.qty

Consumed(o, t) == Lesser(o.queue, t.qty)

FillOf(o, t) == Lesser(Remaining(o), t.qty - Consumed(o, t))

(* Queue and fill as the trade leaves them, the status being as before it.   *)
Served(o, t) == [o EXCEPT !.filled = @ + FillOf(o, t), !.queue = @ - Consumed(o, t)]

TradeExpires(sym) ==
  /\ Working(sym)
  /\ now >= Expiry(pending)
  /\ SettleOrder(Cancelled(pending))
  /\ signals' = SignalsAfterCancel(signals, Cancelled(pending))
  /\ tape' = FreshTape
  /\ UNCHANGED <<now, up, positions, position, equity, listed, failed, crashes>>

(* Bound: volume beyond the shown queue and the whole entry is not counted. *)
TapeAfterTrade(t) ==
  [tape EXCEPT !.traded = Lesser(@ + t.qty, tape.arrival + pending.qty)]

TradeConsumesQueue(sym, t) ==
  /\ Working(sym)
  /\ now < Expiry(pending)
  /\ Matches(t)
  /\ FillOf(pending, t) = 0
  /\ SettleOrder(Served(pending, t))
  /\ tape' = TapeAfterTrade(t)
  /\ UNCHANGED <<now, up, signals, positions, position, equity, listed, failed, crashes>>

(* _fill: memory and rows of order and position after a fill of n lots.     *)
Filled(o, t) ==
  [Served(o, t) EXCEPT !.status = IF o.filled + FillOf(o, t) = o.qty THEN "FILLED" ELSE "PARTIAL"]

PositionAfterFill(o, n) ==
  IF position = None
  THEN [sig |-> o.sig, entry |-> o.entry, qty |-> n, best |-> o.entry, worst |-> o.entry]
  ELSE [position EXCEPT !.qty = @ + n]

NewPositionRow(p) ==
  [status |-> "OPEN", entry |-> p.entry, qty |-> p.qty, best |-> p.best,
   worst |-> p.worst, exit |-> 0, pnl |-> 0, closed |-> 0]

(* A mutant: a second fill opens no position and grows none.                *)
PositionRowsWithFirstFillOnly(o, n) ==
  IF position = None
  THEN [positions EXCEPT ![o.sig] = NewPositionRow(PositionAfterFill(o, n))]
  ELSE positions

(* open_position on the first fill, update_open_position on the others.     *)
PositionRowsAfterFill(o, n) ==
  IF position = None
  THEN [positions EXCEPT ![o.sig] = NewPositionRow(PositionAfterFill(o, n))]
  ELSE [positions EXCEPT ![position.sig].qty = position.qty + n]

SignalsAfterFill(o) ==
  IF position = None THEN [signals EXCEPT ![o.sig] = "OPEN"] ELSE signals

OrderRowFilled(row, o) ==
  [row EXCEPT !.status = o.status, !.filled = o.filled, !.queue = o.queue]

TradeFills(sym, t) ==
  /\ Working(sym)
  /\ now < Expiry(pending)
  /\ Matches(t)
  /\ FillOf(pending, t) > 0
  /\ LET o == Filled(pending, t)
         n == FillOf(pending, t)
     IN  /\ position' = PositionAfterFill(pending, n)
         /\ positions' = PositionRowsAfterFill(pending, n)
         /\ signals' = SignalsAfterFill(pending)
         /\ orders' = [orders EXCEPT ![o.sig] = OrderRowFilled(@, o)]
         /\ pending' = IF o.status = "FILLED" THEN None ELSE o
         /\ tape' = IF o.status = "FILLED" THEN FreshTape ELSE TapeAfterTrade(t)
  /\ UNCHANGED <<now, up, equity, listed, failed, crashes>>

OnTrade(sym, t) ==
  TradeExpires(sym) \/ TradeConsumesQueue(sym, t) \/ TradeFills(sym, t)

(* cancel_pending as PaperApp calls it: the stream broke, or the book of    *)
(* any symbol, not only of the entry's, could not be applied.               *)
StreamBreak ==
  /\ Receives
  /\ pending # None /\ Recorded
  /\ SettleOrder(Cancelled(pending))
  /\ signals' = SignalsAfterCancel(signals, Cancelled(pending))
  /\ tape' = FreshTape
  /\ UNCHANGED <<now, up, positions, position, equity, listed, failed, crashes>>
-----------------------------------------------------------------------------
(* The process is killed: memory is gone, the journal stays.                *)
Stops == up /\ crashes < MaxCrashes                                     \* bound

Tears(handler) == handler \in Torn /\ Stops

Killed ==
  /\ Stops
  /\ crashes' = crashes + 1
  /\ up' = FALSE
  /\ pending' = None
  /\ position' = None
  /\ equity' = InitialEquity
  /\ failed' = {}
  /\ UNCHANGED <<now, listed, tape>>

(* A write about signal s is refused and the exception leaves the handler:  *)
(* o and p are what it had made of memory by then.                          *)
Survives(s, o, p, history) ==
  /\ Stops
  /\ crashes' = crashes + 1
  /\ pending' = o
  /\ position' = p
  /\ failed' = failed \cup {s}
  /\ tape' = history
  /\ UNCHANGED <<now, up, equity, listed>>

Interrupted(s, o, p, history) == Killed \/ Survives(s, o, p, history)

Crash == Killed /\ UNCHANGED journal

(* _record_decision stops after record_signal, before any verdict on it.    *)
TornDecide(s) ==
  /\ Tears("decision")
  /\ Decides(s)
  /\ signals' = [signals EXCEPT ![s] = "TRIGGERED"]
  /\ UNCHANGED <<orders, positions>>
  /\ Interrupted(s, pending, position, tape)

(* submit sets the entry in memory before its row, which is refused.        *)
TornSubmit(s, q, reference, lots) ==
  LET entry == Executable(s, q)
  IN  /\ Tears("decision")
      /\ Decides(s) /\ Submits(s, reference, entry, lots)
      /\ signals' = [signals EXCEPT ![s] = "TRIGGERED"]
      /\ UNCHANGED <<orders, positions>>
      /\ Survives(s, NewOrder(s, entry, lots), position, FreshTape)

(* cancel_pending stops after the entry's row and before its signal's; only *)
(* an unfilled entry has the second write to refuse.                        *)
TornCancel ==
  /\ Tears("cancel")
  /\ Receives /\ pending # None /\ Recorded
  /\ orders' = OrderRowsAfter(Cancelled(pending))
  /\ UNCHANGED <<signals, positions>>
  /\ \/ Killed
     \/ pending.filled = 0 /\ Survives(pending.sig, pending, position, tape)

(* on_quote stops at the entry's own row: memory has already moved on.      *)
TornAdvance(sym, q) ==
  LET o == AfterQuote(sym, q)
  IN  /\ Tears("quote")
      /\ Quoted(sym, q) /\ Live(o) /\ o # pending
      /\ UNCHANGED journal
      /\ Survives(o.sig, o, position, TapeAfterQuote(o, q))

(* The position's excursion is not written, memory being marked already, or *)
(* the quote exits and what comes before or after the remainder's rows is.  *)
MarkStops(sym, q) ==
  LET o     == AfterQuote(sym, q)
      price == Executable(position.sig, q)
  IN  /\ Quoted(sym, q) /\ Holds(sym)
      /\ \E r \in {o, RemainderCancelled(o)} :
           /\ orders' = OrderRowsAfter(r)
           /\ signals' = SignalsAfterCancel(signals, r)
           /\ \/ r = o /\ positions' = positions
              \/ Exits(position.sig, price) /\ positions' = RowsMarked(price)
           /\ Interrupted(position.sig, InFlight(r), MarkedAt(position, price),
                          TapeAfterQuote(r, q))

(* The cancellation of an exit is itself cut short, as in TornCancel.  Only *)
(* a fill that stopped before left a position beside an unfilled entry.     *)
RemainderStops(sym, q) ==
  LET o     == AfterQuote(sym, q)
      price == Executable(position.sig, q)
  IN  /\ Quoted(sym, q) /\ Holds(sym) /\ Exits(position.sig, price)
      /\ Live(o) /\ o.filled = 0
      /\ orders' = OrderRowsAfter(Cancelled(o))
      /\ signals' = signals
      /\ positions' = RowsMarked(price)
      /\ Interrupted(position.sig, o, MarkedAt(position, price), TapeAfterQuote(o, q))

(* on_quote stops at one of its writes about a position.                    *)
TornQuote(sym, q) == Tears("quote") /\ (MarkStops(sym, q) \/ RemainderStops(sym, q))

(* _close stops after the position's row and before its signal's.           *)
TornClose(sym, q) ==
  LET r     == RemainderCancelled(AfterQuote(sym, q))
      price == Executable(position.sig, q)
  IN  /\ Tears("close")
      /\ Quoted(sym, q) /\ Holds(sym) /\ Exits(position.sig, price) /\ RowOpen
      /\ orders' = OrderRowsAfter(r)
      /\ signals' = SignalsAfterCancel(signals, r)
      /\ positions' = RowsAfterExit(price)
      /\ Interrupted(position.sig, InFlight(r), MarkedAt(position, price), FreshTape)

(* on_trade stops at the entry's row: the queue is served in memory only.   *)
TornConsume(sym, t) ==
  /\ Tears("fill")
  /\ Working(sym) /\ now < Expiry(pending) /\ Matches(t)
  /\ FillOf(pending, t) = 0
  /\ UNCHANGED journal
  /\ Survives(pending.sig, Served(pending, t), position, TapeAfterTrade(t))

(* _fill stops at the position's row, at its signal's, or at the entry's,   *)
(* which still shows it as it was before the trade.                         *)
TornFill(sym, t) ==
  LET p == PositionAfterFill(pending, FillOf(pending, t))
  IN  /\ Tears("fill")
      /\ Working(sym) /\ now < Expiry(pending) /\ Matches(t)
      /\ FillOf(pending, t) > 0
      /\ UNCHANGED orders
      /\ \/ /\ UNCHANGED <<signals, positions>>
            /\ Survives(pending.sig, Served(pending, t), p, TapeAfterTrade(t))
         \/ /\ positions' = PositionRowsAfterFill(pending, FillOf(pending, t))
            /\ \/ /\ signals' = signals /\ position = None
                  /\ Interrupted(pending.sig, Served(pending, t), p, TapeAfterTrade(t))
               \/ /\ signals' = SignalsAfterFill(pending)
                  /\ Interrupted(pending.sig, Filled(pending, t), p, TapeAfterTrade(t))

(* restore: memory as the rows tell it; the last display is not in them.    *)
RestoredOrder ==
  IF LiveOrders(orders) = {} THEN None
  ELSE LET s == LatestLiveOrder(orders)
           r == orders[s]
       IN  [sig |-> s, status |-> r.status, created |-> r.created, entry |-> r.entry,
            qty |-> r.qty, filled |-> r.filled, queue |-> r.queue, displayed |-> r.queue]

RestoredPosition ==
  IF OpenPositions(positions) = {} THEN None
  ELSE LET s == CHOOSE t \in OpenPositions(positions) : TRUE
           r == positions[s]
       IN  [sig |-> s, entry |-> r.entry, qty |-> r.qty, best |-> r.best, worst |-> r.worst]

(* PaperApp.__init__: reconcile the triggers, then rebuild the executor.    *)
(* open_position_row raises when the journal holds two open positions.      *)
Restart ==
  /\ ~up
  /\ Cardinality(OpenPositions(positions)) <= 1
  /\ up' = TRUE
  /\ signals' = Reconciled(signals, orders, positions)
  /\ equity' = InitialEquity + RealizedPnl(positions)
  /\ pending' = RestoredOrder
  /\ position' = RestoredPosition
  /\ UNCHANGED <<now, orders, positions, listed, failed, crashes, tape>>

(* The clock; a new day subscribes to the universe chosen for it.           *)
Tick ==
  /\ now < MaxTime                                     \* bound
  /\ now' = now + 1
  /\ IF now' \div DayLength = now \div DayLength
     THEN UNCHANGED listed
     ELSE listed' \in Universes
  /\ UNCHANGED <<up, journal, memory, failed, crashes, tape>>

Next ==
  \/ \E s \in Signals, q \in Quotes, reference \in Prices, lots \in 0..MaxLots :
        Decide(s, q, reference, lots) \/ TornSubmit(s, q, reference, lots)
  \/ \E sym \in Symbols, q \in Quotes : OnQuote(sym, q) \/ QuoteRaises(sym, q)
  \/ \E sym \in Symbols, t \in Trades : OnTrade(sym, t)
  \/ StreamBreak
  \/ Tick
  \/ Crash
  \/ \E s \in Signals : TornDecide(s)
  \/ TornCancel
  \/ \E sym \in Symbols, q \in Quotes :
        \/ TornAdvance(sym, q)
        \/ TornQuote(sym, q)
        \/ TornClose(sym, q)
  \/ \E sym \in Symbols, t \in Trades : TornConsume(sym, t) \/ TornFill(sym, t)
  \/ Restart

Spec == Init /\ [][Next]_vars

(* What the deployment keeps doing: the clock runs, a killed service is     *)
(* started again (compose restarts it), and a symbol that stays in the      *)
(* universe keeps being quoted: weak fairness asks nothing of a symbol that *)
(* some later day does not list.                                            *)
Fairness ==
  /\ WF_vars(Tick)
  /\ WF_vars(Restart)
  /\ \A sym \in Symbols : WF_vars(\E q \in Quotes : OnQuote(sym, q))

FairSpec == Spec /\ Fairness
-----------------------------------------------------------------------------
(* Every variable keeps its type.                                           *)
TypeOK ==
  /\ now \in Nat
  /\ up \in BOOLEAN
  /\ signals \in [Signals -> SignalStatus]
  /\ orders \in [Signals -> OrderRow]
  /\ positions \in [Signals -> PositionRow]
  /\ pending \in MemoryOrder \cup {None}
  /\ position \in MemoryPosition \cup {None}
  /\ listed \subseteq Symbols
  /\ failed \subseteq Signals
  /\ crashes \in Nat
  /\ tape \in [arrival: Nat, traded: Nat]

Busy(s) == s \in LiveOrders(orders) \/ s \in OpenPositions(positions)

(* The journal never holds an entry or position of two signals at once,     *)
(* although only memory is asked before an entry is submitted.              *)
SingleSlot == \A s, t \in Signals : Busy(s) /\ Busy(t) => s = t

(* A write about the entry or the position in memory failed, so that memory *)
(* may be ahead of its rows for as long as the process holds it.            *)
Astray ==
  \E s \in failed :
    (pending # None /\ pending.sig = s) \/ (position # None /\ position.sig = s)

(* Whenever the process runs, killing it and starting it again would give   *)
(* it back the entry and the position it has, up to the last display,       *)
(* unless a write about just these failed.                                  *)
DurableMemory ==
  up /\ ~Astray =>
    /\ position = RestoredPosition
    /\ pending = IF RestoredOrder = None \/ pending = None THEN RestoredOrder
                 ELSE [RestoredOrder EXCEPT !.displayed = pending.displayed]

(* README: REJECTED and MISSED are non-trades.                              *)
MissedAreNonTrades ==
  \A s \in Signals : signals[s] \in {"REJECTED", "MISSED"} => positions[s].status = "NONE"

(* The three tables agree on what became of a signal, also between a kill   *)
(* and the restart and after a failed write: a position's signal says so,   *)
(* its size is what its entry filled, and an entry's status tells how much  *)
(* of it filled.  Only a MISSED entry's signal may lag, until the restart.  *)
TablesAgree ==
  \A s \in Signals :
    LET o == orders[s]
        p == positions[s]
    IN  /\ signals[s] = "OPEN"   <=> p.status = "OPEN"
        /\ signals[s] = "CLOSED" <=> p.status = "CLOSED"
        /\ p.status = "NONE" <=> o.filled = 0
        /\ p.status # "NONE" => p.qty = o.filled
        /\ o.status \in {"PARTIAL", "CANCELLED"} => o.filled \in 1..(o.qty - 1)
        /\ o.status = "FILLED" => o.filled = o.qty
        /\ o.status \in LiveStatus /\ o.filled = 0 => signals[s] = "TRIGGERED"
        /\ o.status = "MISSED" /\ up /\ s \notin failed => signals[s] = "MISSED"

(* A TRIGGERED signal of a running process has its entry in flight: no      *)
(* decision is left hanging by a kill, and one a failed write left hanging  *)
(* no longer than the process runs.                                         *)
NoOrphanedTrigger ==
  up => \A s \in Signals \ failed : signals[s] = "TRIGGERED" => s \in LiveOrders(orders)

(* No lot fills before the market traded through the whole queue shown on   *)
(* arrival: what was traded at the price since then covers both.            *)
FillsBehindQueue ==
  pending # None /\ pending.filled > 0 => tape.traded >= tape.arrival + pending.filled

(* Equity used for sizing is the initial equity and the journalled results; *)
(* a process whose _close failed halfway lacks one, and sizes nothing.      *)
EquityIsBooked == up /\ ~Astray => equity = InitialEquity + RealizedPnl(positions)

(* The excursion journalled for a closed trade covers the quote it left at, *)
(* which is the recorded exit before slippage, and that quote is an exit.   *)
ExitWithinExcursion ==
  \A s \in ClosedPositions(positions) :
    LET r     == positions[s]
        quote == r.exit + Direction(s) * Slippage
    IN  /\ Direction(s) * (r.best - quote) >= 0
        /\ Direction(s) * (quote - r.worst) >= 0
        /\ Exits(s, quote)

(* No trade closes on a day whose results had reached the limit before: the *)
(* one in the slot when they reach it is the last, also across midnight.    *)
NoTradePastDailyLimit ==
  [][\A s \in Signals :
       positions[s].status = "OPEN" /\ positions'[s].status = "CLOSED" =>
         DailyRealizedPnl(positions, now \div DayLength) > -LossLimit]_positions

(* Through kills, restarts and refused writes an entry in flight is settled *)
(* in the end, unless a later day's universe lacks its symbol.              *)
EntrySettles ==
  \A s \in Signals :
    s \in LiveOrders(orders) ~> s \notin LiveOrders(orders) \/ SymbolOf[s] \notin listed

(* The lifecycle a signal shows in the journal.                             *)
StageOf(s) ==
  IF positions[s].status = "CLOSED" THEN "done"
  ELSE IF positions[s].status = "OPEN" THEN "held"
  ELSE IF s \in LiveOrders(orders) THEN "working"
  ELSE IF orders[s].status \in {"MISSED", "CANCELLED"} \/ signals[s] = "MISSED" THEN "missed"
  ELSE IF signals[s] = "REJECTED" THEN "rejected"
  ELSE IF signals[s] = "TRIGGERED" THEN "triggered"
  ELSE "new"

Lifecycle == INSTANCE TradeLifecycle WITH stage <- [s \in Signals |-> StageOf(s)]

(* Paper execution implements the lifecycle, wherever a handler stops.      *)
ImplementsLifecycle == Lifecycle!Spec
=============================================================================
