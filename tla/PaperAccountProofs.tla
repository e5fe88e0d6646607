-------------------------- MODULE PaperAccountProofs --------------------------
(***************************************************************************)
(* What PaperExecutor accounts for, wherever its process dies and whichever *)
(* of its writes is refused.                                               *)
(*                                                                         *)
(* The queue: what the market traded at the entry's price since its        *)
(* arrival always pays for the queue it found there before it pays for a   *)
(* single filled lot, whatever joins the queue.                            *)
(*                                                                         *)
(* The money: equity is the initial equity and the results the journal     *)
(* holds, added up one by one while the process runs and by a query when   *)
(* it starts; and no trade closes on a day whose losses, which the same    *)
(* query asks for before the slot is taken, had reached the limit.  The    *)
(* queries are folds over sets, so what a fold sums to is proved first.    *)
(***************************************************************************)
EXTENDS PaperExecutorProofs, FiniteSetTheorems


(* A lot ahead of the entry is either still queued or was traded; the first *)
(* filled lot proves that the whole queue was.                              *)
PaidFor(row) ==
  /\ row.status \in {"ACTIVE", "PARTIAL"} =>
       /\ tape.traded + row.queue >= tape.arrival + row.filled
       /\ row.filled > 0 => tape.traded >= tape.arrival + row.filled
  /\ row.status = "PENDING" => row.filled = 0

(* Every live row is paid for, an entry that has not arrived holds no       *)
(* position, and memory, which may be ahead of its row, is paid for too.    *)
QueueInv ==
  /\ \A s \in Signals : orders[s].status \in LiveStatus =>
       /\ PaidFor(orders[s])
       /\ orders[s].status = "PENDING" => positions[s].status = "NONE"
  /\ FillsBehindQueue

(* Nothing is live in an empty journal.                                     *)
LEMMA InitQueue == Init => QueueInv
  BY DEF Init, QueueInv, EmptyOrders, NoOrderRow, LiveStatus, FillsBehindQueue

(* With nothing live there is only the memory to account for.               *)
LEMMA NothingLive ==
  ASSUME \A s \in Signals : orders'[s].status \notin LiveStatus,
         \/ pending' = None
         \/ pending'.filled = 0
         \/ QueueInv /\ tape' = tape /\ pending # None /\ pending'.filled = pending.filled
  PROVE  QueueInv'
  BY DEF QueueInv, FillsBehindQueue

(* Live rows and tape left alone stay paid for.                             *)
LEMMA SameEntries ==
  ASSUME QueueInv, tape' = tape,
         \A s \in Signals : orders'[s].status \in LiveStatus =>
           /\ orders'[s] = orders[s]
           /\ orders[s].status = "PENDING" => positions'[s].status = positions[s].status,
         \/ pending' = None
         \/ pending'.filled = 0
         \/ pending # None /\ pending'.filled = pending.filled
  PROVE  QueueInv'
  BY DEF QueueInv, PaidFor, FillsBehindQueue

(* Nothing is live once the entry in flight has ended, or was none.         *)
LEMMA EndedNothingLive ==
  ASSUME Sound, up, NEW o, Moves(o), orders' = OrderRowsAfter(o),
         pending = None \/ (o # pending /\ ~Live(o))
  PROVE  /\ \A s \in Signals : orders'[s].status \notin LiveStatus
         /\ InFlight(o) = None
<1>1. InFlight(o) = None
  BY MovedLive DEF InFlight
<1>2. ASSUME NEW s \in Signals, orders'[s].status \in LiveStatus
      PROVE  FALSE
  <2>1. pending # None /\ o # None /\ (o.status \in LiveStatus \/ o = pending)
    BY <1>2, WrittenLive
  <2> QED
    BY <2>1 DEF Live
<1> QED
  BY <1>1, <1>2

(* A quote that leaves the entry alive but changed finds memory a mirror,   *)
(* and moves a waiting entry back in its queue, never forward.              *)
LEMMA QuoteQueues ==
  ASSUME IInv, Receives, NEW sym, NEW q \in Quotes, pending # None,
         Live(AfterQuote(sym, q)), AfterQuote(sym, q) # pending
  PROVE  LET o == AfterQuote(sym, q)
         IN  /\ Mirrored /\ orders[pending.sig] = NewOrderRow(pending)
             /\ pending.status \in LiveStatus /\ pending.sig \in Signals
             /\ pending.filled \in Nat /\ pending.queue \in Nat
             /\ pending.status \in {"ACTIVE", "PARTIAL"} => o.status = pending.status /\ o.queue >= pending.queue
             /\ pending.status = "PENDING" => o.status = "ACTIVE" /\ o.queue = q.shown
             /\ o.queue \in Nat /\ o.filled = pending.filled /\ q.shown \in Nat
<1> DEFINE o == AfterQuote(sym, q)
<1>1. Sound /\ pending \in MemoryOrder /\ pending.sig \in Signals
  BY MemoryTypes DEF IInv
<1>2. q.shown \in Nat
  BY ExecutorAssumption DEF Quotes
<1>3. ~Live(Cancelled(pending))
  BY <1>1, CancelledMoves
<1>4. o = Advanced(pending, q)
  BY DEF AfterQuote
<1>5. ~(now >= Expiry(pending))
  BY <1>3, <1>4 DEF Advanced
<1>6. Mirrored
  BY <1>5, UnexpiredMirrors
<1>7. pending.status \in LiveStatus /\ orders[pending.sig] = NewOrderRow(pending)
  BY <1>6 DEF Mirrored
<1>8. CASE pending.status = "PENDING"
  <2>1. o = Arrived(pending, q)
    BY <1>3, <1>4, <1>5, <1>8 DEF Advanced
  <2>2. /\ Arrived(pending, q).status = "ACTIVE" /\ Arrived(pending, q).queue = q.shown
        /\ Arrived(pending, q).filled = pending.filled
    BY <1>1 DEF Arrived, MemoryOrder
  <2>3. pending.filled \in Nat /\ pending.queue \in Nat
    BY <1>1 DEF MemoryOrder
  <2> QED
    BY <1>1, <1>2, <1>6, <1>7, <1>8, <2>1, <2>2, <2>3
<1>9. CASE pending.status \in {"ACTIVE", "PARTIAL"}
  <2>1. o = Requeued(pending, q.shown)
    BY <1>4, <1>5, <1>9 DEF Advanced
  <2> DEFINE added == IF q.shown > pending.displayed THEN q.shown - pending.displayed ELSE 0
  <2>2. added \in Nat
    BY <1>1, <1>2 DEF MemoryOrder
  <2> HIDE DEF added
  <2>3. Requeued(pending, q.shown) =
          [pending EXCEPT !.queue = pending.queue + added, !.displayed = q.shown]
    BY DEF Requeued, added
  <2>4. /\ Requeued(pending, q.shown).status = pending.status
        /\ Requeued(pending, q.shown).queue = pending.queue + added
        /\ Requeued(pending, q.shown).filled = pending.filled
    BY <1>1, <2>3 DEF MemoryOrder
  <2>5. pending.queue \in Nat /\ pending.filled \in Nat
    BY <1>1 DEF MemoryOrder
  <2>6. pending.queue + added \in Nat /\ pending.queue + added >= pending.queue
    BY <2>2, <2>5
  <2> QED
    BY <1>1, <1>2, <1>6, <1>7, <1>9, <2>1, <2>4, <2>5, <2>6
<1> QED
  BY <1>7, <1>8, <1>9 DEF LiveStatus

(* One live row that is paid for, and an entry in memory, make an account.  *)
LEMMA OnePaid ==
  ASSUME NEW s0 \in Signals, PaidFor(orders[s0])', orders'[s0].status # "PENDING",
         \A s \in Signals : orders'[s].status \in LiveStatus => s = s0,
         FillsBehindQueue'
  PROVE  QueueInv'
  BY DEF QueueInv

(* What such a quote makes of tape and row is paid for.                     *)
LEMMA MovedPaid ==
  ASSUME IInv, QueueInv, Receives, NEW sym, NEW q \in Quotes, pending # None,
         Live(AfterQuote(sym, q)), AfterQuote(sym, q) # pending,
         orders' = OrderRowsAfter(AfterQuote(sym, q)),
         \A s \in Signals : positions'[s].status = positions[s].status,
         pending' \in {None, AfterQuote(sym, q)},
         tape' = IF pending.status = "PENDING" THEN [arrival |-> q.shown, traded |-> 0] ELSE tape
  PROVE  QueueInv'
<1> DEFINE o == AfterQuote(sym, q)
<1>1. /\ Mirrored /\ orders[pending.sig] = NewOrderRow(pending)
      /\ pending.status \in LiveStatus /\ pending.sig \in Signals
      /\ pending.filled \in Nat /\ pending.queue \in Nat
      /\ pending.status \in {"ACTIVE", "PARTIAL"} => o.status = pending.status /\ o.queue >= pending.queue
      /\ pending.status = "PENDING" => o.status = "ACTIVE" /\ o.queue = q.shown
      /\ o.queue \in Nat /\ o.filled = pending.filled /\ q.shown \in Nat
  BY QuoteQueues
<1>2. Moves(o) /\ Sound /\ up /\ tape \in [arrival: Nat, traded: Nat]
  BY QuoteMoves DEF IInv, Receives, Sound, TypeOK
<1> HIDE DEF o
<1>3. orders'[pending.sig] = NewOrderRow(o)
  BY <1>1, <1>2, WrittenRows DEF o
<1>4. /\ orders'[pending.sig].status = o.status /\ orders'[pending.sig].filled = pending.filled
      /\ orders'[pending.sig].queue = o.queue
      /\ orders[pending.sig].status = pending.status /\ orders[pending.sig].filled = pending.filled
      /\ orders[pending.sig].queue = pending.queue
  BY <1>1, <1>3 DEF NewOrderRow
<1>5. /\ PaidFor(orders[pending.sig])
      /\ pending.status = "PENDING" => positions[pending.sig].status = "NONE"
  BY <1>1, <1>4 DEF QueueInv
<1>6. ASSUME NEW s \in Signals, orders'[s].status \in LiveStatus
      PROVE  s = pending.sig
  BY <1>2, <1>6, WrittenLive DEF o
<1>q. PICK s0 \in Signals : s0 = pending.sig
  BY <1>1
<1>7. CASE pending.status \in {"ACTIVE", "PARTIAL"}
  <2>1. tape' = tape
    BY <1>7
  <2>2. /\ tape.traded + pending.queue >= tape.arrival + pending.filled
        /\ pending.filled > 0 => tape.traded >= tape.arrival + pending.filled
    BY <1>4, <1>5, <1>7 DEF PaidFor
  <2>3. tape.traded + o.queue >= tape.arrival + pending.filled
    BY <1>1, <1>2, <1>7, <2>2
  <2>4. PaidFor(orders[s0])' /\ orders'[s0].status # "PENDING"
    BY <1>1, <1>4, <1>7, <1>q, <2>1, <2>2, <2>3 DEF PaidFor
  <2>5. FillsBehindQueue'
    BY <1>1, <2>1, <2>2 DEF FillsBehindQueue, o
  <2> QED
    BY <1>6, <1>q, <2>4, <2>5, OnePaid
<1>8. CASE pending.status = "PENDING"
  <2>1. pending.filled = 0 /\ o.status = "ACTIVE" /\ o.queue = q.shown
    BY <1>1, <1>4, <1>5, <1>8 DEF PaidFor
  <2>2. tape'.traded = 0 /\ tape'.arrival = q.shown
    BY <1>8
  <2>3. tape'.traded + o.queue >= tape'.arrival + 0
    BY <1>1, <2>1, <2>2
  <2>4. PaidFor(orders[s0])' /\ orders'[s0].status # "PENDING"
    BY <1>4, <1>q, <2>1, <2>3 DEF PaidFor
  <2>5. FillsBehindQueue'
    BY <1>1, <2>1 DEF FillsBehindQueue, o
  <2> QED
    BY <1>6, <1>q, <2>4, <2>5, OnePaid
<1> QED
  BY <1>1, <1>7, <1>8 DEF LiveStatus

(* The tape after a quote of an entry that stays in memory.                 *)
LEMMA TapeMoved ==
  ASSUME Sound, NEW o, NEW q, pending # None, pending' = o, o # None,
         pending.status = "PENDING" /\ o # pending => o.status = "ACTIVE",
         pending.status # "PENDING" => o.status = pending.status \/ o = pending,
         Live(o) \/ o = pending
  PROVE  TapeAfterQuote(o, q) = IF pending.status = "PENDING" /\ o # pending
                                THEN [arrival |-> q.shown, traded |-> 0] ELSE tape
<1>1. pending' # None
  OBVIOUS
<1> QED
  BY <1>1 DEF TapeAfterQuote

(* A quote that leaves the entry alone, ends it, arrives it or requeues it. *)
LEMMA AdvancesQueue ==
  ASSUME IInv, QueueInv, Receives, NEW sym, NEW q \in Quotes, SettleOrder(AfterQuote(sym, q)),
         \A s \in Signals : positions'[s].status = positions[s].status,
         tape' = TapeAfterQuote(AfterQuote(sym, q), q)
  PROVE  QueueInv'
<1> DEFINE o == AfterQuote(sym, q)
<1>1. /\ Sound /\ up /\ Moves(o)
      /\ orders' = OrderRowsAfter(o) /\ pending' = InFlight(o)
  BY QuoteMoves DEF IInv, Receives, SettleOrder
<1>2. CASE pending = None \/ (o # pending /\ ~Live(o))
  <2> HIDE DEF o
  <2> QED
    BY <1>1, <1>2, EndedNothingLive, NothingLive
<1>3. CASE pending # None /\ o = pending
  <2>1. /\ orders' = orders /\ pending' = pending
    BY <1>1, <1>3 DEF OrderRowsAfter, InFlight
  <2>2. TapeAfterQuote(pending, q) = tape
    BY <1>1, <1>3, <2>1, TapeMoved
  <2> QED
    BY <1>3, <2>1, <2>2, SameEntries
<1>4. CASE pending # None /\ o # pending /\ Live(o)
  <2>1. pending' = o /\ o # None
    BY <1>1, <1>4 DEF InFlight, Live
  <2>2. /\ pending.status \in {"ACTIVE", "PARTIAL"} => o.status = pending.status
        /\ pending.status = "PENDING" => o.status = "ACTIVE"
        /\ pending.status \in LiveStatus
    BY <1>4, QuoteQueues
  <2> HIDE DEF o
  <2>3. tape' = IF pending.status = "PENDING" THEN [arrival |-> q.shown, traded |-> 0] ELSE tape
    BY <1>1, <1>4, <2>1, <2>2, TapeMoved DEF LiveStatus, o
  <2> QED
    BY <1>1, <1>4, <2>1, <2>3, MovedPaid DEF o
<1> QED
  BY <1>2, <1>3, <1>4

(* A quote keeps the account.                                               *)
LEMMA OnQuoteQueue ==
  ASSUME IInv, QueueInv, NEW sym, NEW q \in Quotes, OnQuote(sym, q)
  PROVE  QueueInv'
<1> DEFINE o     == AfterQuote(sym, q)
           price == Executable(position.sig, q)
           r     == RemainderCancelled(o)
<1>1. /\ Receives /\ up /\ tape' = TapeAfterQuote(o, q) /\ Sound
      /\ \/ ~Holds(sym) /\ QuoteAdvances(o)
         \/ Holds(sym) /\ QuoteMarks(o, price)
         \/ Holds(sym) /\ QuoteCloses(o, price)
         \/ Holds(sym) /\ QuoteMarks(r, price)
  BY DEF OnQuote, Quoted, Hears, Receives, IInv
<1>2. price \in Nat
  BY ExecutablePrice
<1>3. CASE QuoteAdvances(o)
  <2>1. SettleOrder(o) /\ positions' = positions
    BY <1>3 DEF QuoteAdvances
  <2> QED
    BY <1>1, <2>1, AdvancesQueue
<1>4. CASE Holds(sym) /\ QuoteMarks(o, price)
  <2>1. SettleOrder(o) /\ positions' = RowsMarked(price)
    BY <1>4 DEF QuoteMarks
  <2> HIDE DEF price
  <2>2. \A s \in Signals : positions'[s].status = positions[s].status
    BY <1>1, <1>2, <1>4, <2>1, MarkedRows DEF Holds
  <2> QED
    BY <1>1, <2>1, <2>2, AdvancesQueue
<1>5. CASE Holds(sym) /\ SettleOrder(r)
  <2>1. Moves(r) /\ Ended(r) /\ ~Live(r)
    BY <1>1, <1>5, HeldEnds
  <2>2. orders' = OrderRowsAfter(r) /\ pending' = InFlight(r)
    BY <1>5 DEF SettleOrder
  <2> HIDE DEF r
  <2>3. pending # None => r # pending
    BY <1>1, <2>1 DEF Ended, Sound, SlotMemory, LiveStatus
  <2> QED
    BY <1>1, <2>1, <2>2, <2>3, EndedNothingLive, NothingLive
<1> QED
  BY <1>1, <1>3, <1>4, <1>5 DEF QuoteCloses, QuoteMarks

(* A cancelled entry needs no account.                                      *)
LEMMA BreakQueue ==
  ASSUME IInv, up, pending # None, orders' = OrderRowsAfter(Cancelled(pending)),
         \/ pending' = None
         \/ pending'.filled = 0
  PROVE  QueueInv'
<1>1. Sound /\ Moves(Cancelled(pending)) /\ ~Live(Cancelled(pending)) /\ Cancelled(pending) # pending
  BY CancelledMoves DEF IInv
<1> QED
  BY <1>1, EndedNothingLive, NothingLive

(* A broken stream, an expired entry and a cancellation cut short.          *)
LEMMA CancelQueue ==
  ASSUME IInv, NEW sym, StreamBreak \/ TradeExpires(sym) \/ TornCancel
  PROVE  QueueInv'
<1>1. /\ up /\ pending # None
      /\ orders' = OrderRowsAfter(Cancelled(pending))
  BY DEF StreamBreak, TradeExpires, TornCancel, Working, Mine, Receives, SettleOrder
<1>2. pending' = None \/ pending'.filled = 0
  <2>1. CASE StreamBreak \/ TradeExpires(sym)
    <3>1. pending' = InFlight(Cancelled(pending))
      BY <2>1 DEF StreamBreak, TradeExpires, SettleOrder
    <3> QED
      BY <1>1, <3>1, CancelledMoves DEF InFlight, IInv
  <2>2. CASE TornCancel
    BY <2>2 DEF TornCancel, Killed, Survives
  <2> QED
    BY <2>1, <2>2
<1> QED
  BY <1>1, <1>2, BreakQueue

(* What a trade at the entry's price pays for: the queue, then the fill.    *)
LEMMA TradePays ==
  ASSUME IInv, QueueInv, NEW sym, NEW t \in Trades, Working(sym), now < Expiry(pending)
  PROVE  LET c == Consumed(pending, t)
             n == FillOf(pending, t)
             h == TapeAfterTrade(t)
         IN  /\ c \in Nat /\ n \in Nat /\ pending.queue - c \in Nat /\ pending.filled \in Nat
             /\ h.arrival \in Nat /\ h.traded \in Nat
             /\ h.traded + (pending.queue - c) >= h.arrival + pending.filled
             /\ h.traded + pending.queue >= h.arrival + pending.filled
             /\ pending.filled > 0 => h.traded >= h.arrival + pending.filled
             /\ n > 0 => h.traded >= h.arrival + (pending.filled + n)
<1> DEFINE c == Consumed(pending, t)
           n == FillOf(pending, t)
           h == TapeAfterTrade(t)
<1>1. /\ Sound /\ up /\ pending # None /\ pending.filled <= pending.qty
      /\ pending \in MemoryOrder /\ pending.sig \in Signals
      /\ orders[pending.sig] = NewOrderRow(pending)
      /\ pending.status \in {"ACTIVE", "PARTIAL"}
  BY ServedMirrors
<1>2. /\ t.qty \in Nat /\ c \in Nat /\ c <= pending.queue /\ n \in Nat
      /\ pending.filled + n <= pending.qty /\ c + n <= t.qty
      /\ n > 0 => c = pending.queue
  BY <1>1, FillArithmetic
<1>3. /\ pending.queue \in Nat /\ pending.filled \in Nat /\ pending.qty \in Nat
      /\ tape \in [arrival: Nat, traded: Nat]
  BY <1>1 DEF MemoryOrder, Sound, TypeOK
<1>4. /\ h.arrival = tape.arrival
      /\ h.traded = Lesser(tape.traded + t.qty, tape.arrival + pending.qty)
  BY <1>3 DEF TapeAfterTrade
<1> HIDE DEF c, n, h
<1>5. /\ orders[pending.sig].status = pending.status /\ orders[pending.sig].filled = pending.filled
      /\ orders[pending.sig].queue = pending.queue
  BY <1>1 DEF NewOrderRow
<1>6. /\ tape.traded + pending.queue >= tape.arrival + pending.filled
      /\ pending.filled > 0 => tape.traded >= tape.arrival + pending.filled
  BY <1>1, <1>5 DEF QueueInv, PaidFor, LiveStatus
<1>7. CASE h.traded = tape.traded + t.qty
  BY <1>2, <1>3, <1>4, <1>6, <1>7 DEF c, n, h
<1>8. CASE h.traded = tape.arrival + pending.qty
  BY <1>1, <1>2, <1>3, <1>4, <1>6, <1>8 DEF c, n, h
<1> QED
  BY <1>4, <1>7, <1>8 DEF Lesser

(* What a trade takes off the queue goes on the tape.                       *)
LEMMA ConsumesQueue ==
  ASSUME IInv, QueueInv, NEW sym, NEW t \in Trades, TradeConsumesQueue(sym, t) \/ TornConsume(sym, t)
  PROVE  QueueInv'
<1> DEFINE v == Served(pending, t)
           c == Consumed(pending, t)
           h == TapeAfterTrade(t)
<1>1. Working(sym) /\ now < Expiry(pending) /\ FillOf(pending, t) = 0 /\ positions' = positions
  BY DEF TradeConsumesQueue, TornConsume, journal
<1>2. /\ Mirrored /\ Sound /\ up /\ pending # None /\ pending.filled <= pending.qty
      /\ pending \in MemoryOrder /\ pending.sig \in Signals
      /\ orders[pending.sig] = NewOrderRow(pending)
      /\ pending.status \in {"ACTIVE", "PARTIAL"}
  BY <1>1, ServedMirrors
<1>3. /\ v \in MemoryOrder /\ v.sig = pending.sig /\ v.status = pending.status
      /\ v.created = pending.created /\ v.entry = pending.entry /\ v.qty = pending.qty
      /\ v.filled = pending.filled + FillOf(pending, t) /\ v.queue = pending.queue - c
  BY <1>2, ServedFacts
<1>4. /\ pending.queue - c \in Nat /\ pending.filled \in Nat
      /\ h.traded + (pending.queue - c) >= h.arrival + pending.filled
      /\ h.traded + pending.queue >= h.arrival + pending.filled
      /\ pending.filled > 0 => h.traded >= h.arrival + pending.filled
  BY <1>1, TradePays
<1> HIDE DEF v, c, h
<1>5. v.filled = pending.filled
  BY <1>1, <1>3, <1>4
<1>6. /\ orders[pending.sig].status = pending.status /\ orders[pending.sig].filled = pending.filled
      /\ orders[pending.sig].queue = pending.queue
  BY <1>2 DEF NewOrderRow
<1>7. \A s \in Signals : orders[s].status \in LiveStatus => s = pending.sig
  BY <1>2 DEF Sound, SlotMemory
<1>q. PICK s0 \in Signals : s0 = pending.sig
  BY <1>2
<1>8. CASE TradeConsumesQueue(sym, t)
  <2>1. orders' = OrderRowsAfter(v) /\ pending' = InFlight(v) /\ tape' = h
    BY <1>8 DEF TradeConsumesQueue, SettleOrder, v, h
  <2>2. orders[pending.sig].status \in LiveStatus
    BY <1>2, <1>6 DEF LiveStatus
  <2>3. Moves(v)
    BY <1>2, <1>3, <1>5, <2>2 DEF Moves, LiveStatus
  <2>4. orders'[pending.sig] = NewOrderRow(v)
    BY <1>2, <2>1, <2>3, WrittenRows
  <2>5. /\ orders'[pending.sig].status = pending.status /\ orders'[pending.sig].filled = pending.filled
        /\ orders'[pending.sig].queue = pending.queue - c
    BY <1>3, <1>5, <2>4 DEF NewOrderRow
  <2>6. \A s \in Signals : orders'[s].status \in LiveStatus => s = pending.sig
    BY <1>2, <2>1, <2>3, WrittenLive
  <2>7. PaidFor(orders[s0])' /\ orders'[s0].status # "PENDING"
    BY <1>2, <1>4, <1>q, <2>1, <2>5 DEF PaidFor
  <2>8. pending' = None \/ pending'.filled = pending.filled
    BY <1>2, <1>5, <2>1, <2>3, MovedLive
  <2>9. FillsBehindQueue'
    BY <1>4, <2>1, <2>8 DEF FillsBehindQueue
  <2> QED
    BY <1>q, <2>6, <2>7, <2>9, OnePaid
<1>9. CASE TornConsume(sym, t)
  <2>1. orders' = orders /\ pending' = v /\ tape' = h
    BY <1>9 DEF TornConsume, Survives, journal, v, h
  <2>2. PaidFor(orders[s0])' /\ orders'[s0].status # "PENDING"
    BY <1>2, <1>4, <1>6, <1>q, <2>1 DEF PaidFor
  <2>3. FillsBehindQueue'
    BY <1>4, <1>5, <2>1 DEF FillsBehindQueue
  <2> QED
    BY <1>7, <1>q, <2>1, <2>2, <2>3, OnePaid
<1> QED
  BY <1>8, <1>9

(* A fill happens only when the queue is used up; one cut short leaves the  *)
(* row as it was, and the tape already counts the trade.                    *)
LEMMA FillsQueue ==
  ASSUME IInv, QueueInv, NEW sym, NEW t \in Trades, TradeFills(sym, t) \/ TornFill(sym, t)
  PROVE  QueueInv'
<1> DEFINE c == Consumed(pending, t)
           n == FillOf(pending, t)
           o == Filled(pending, t)
           v == Served(pending, t)
           h == TapeAfterTrade(t)
<1>1. Working(sym) /\ now < Expiry(pending) /\ n > 0
  BY DEF TradeFills, TornFill
<1>2. /\ Sound /\ up /\ pending # None /\ pending.filled <= pending.qty
      /\ pending \in MemoryOrder /\ pending.sig \in Signals
      /\ orders[pending.sig] = NewOrderRow(pending)
      /\ pending.status \in {"ACTIVE", "PARTIAL"}
  BY <1>1, ServedMirrors
<1>3. /\ o \in MemoryOrder /\ o.sig = pending.sig /\ o.status \in {"PARTIAL", "FILLED"}
      /\ o.filled = pending.filled + n
      /\ OrderRowFilled(orders[pending.sig], o) = NewOrderRow(o)
  BY <1>1, FillFacts
<1>4. v.filled = pending.filled + n
  BY <1>2, ServedFacts
<1>5. /\ n \in Nat /\ pending.filled \in Nat /\ h.arrival \in Nat /\ h.traded \in Nat
      /\ h.traded + pending.queue >= h.arrival + pending.filled
      /\ pending.filled > 0 => h.traded >= h.arrival + pending.filled
      /\ n > 0 => h.traded >= h.arrival + (pending.filled + n)
  BY <1>1, TradePays
<1>6. \A s \in Signals : orders[s].status \in LiveStatus => s = pending.sig
  BY <1>2 DEF Sound, SlotMemory
<1>7. o.queue \in Nat
  BY <1>3 DEF MemoryOrder
<1>q. PICK s0 \in Signals : s0 = pending.sig
  BY <1>2
<1>8. CASE TradeFills(sym, t)
  <2>1. /\ orders' = [orders EXCEPT ![o.sig] = OrderRowFilled(@, o)]
        /\ pending' = IF o.status = "FILLED" THEN None ELSE o
        /\ tape' = IF o.status = "FILLED" THEN FreshTape ELSE h
    BY <1>8 DEF TradeFills
  <2> HIDE DEF c, n, o, v, h
  <2>2. /\ orders'[pending.sig] = NewOrderRow(o)
        /\ \A s \in Signals : s # pending.sig => orders'[s] = orders[s]
    BY <1>2, <1>3, <2>1 DEF Sound, TypeOK
  <2>3. /\ orders'[pending.sig].status = o.status /\ orders'[pending.sig].filled = pending.filled + n
        /\ orders'[pending.sig].queue = o.queue
    BY <1>3, <2>2 DEF NewOrderRow
  <2>4. \A s \in Signals : orders'[s].status \in LiveStatus => s = pending.sig
    BY <1>6, <2>2
  <2>5. CASE o.status = "FILLED"
    <3>1. \A s \in Signals : orders'[s].status \notin LiveStatus
      BY <2>3, <2>4, <2>5 DEF LiveStatus
    <3> QED
      BY <2>1, <2>5, <3>1, NothingLive
  <2>6. CASE o.status = "PARTIAL"
    <3>1. tape' = h /\ pending' = o
      BY <2>1, <2>6
    <3>2. h.traded + o.queue >= h.arrival + (pending.filled + n)
      BY <1>1, <1>5, <1>7
    <3>3. PaidFor(orders[s0])' /\ orders'[s0].status # "PENDING"
      BY <1>1, <1>5, <1>q, <2>3, <2>6, <3>1, <3>2 DEF PaidFor
    <3>4. FillsBehindQueue'
      BY <1>1, <1>3, <1>5, <3>1 DEF FillsBehindQueue
    <3> QED
      BY <1>q, <2>4, <3>3, <3>4, OnePaid
  <2> QED
    BY <1>3, <2>5, <2>6
<1>9. CASE TornFill(sym, t)
  <2>1. /\ orders' = orders
        /\ \/ pending' = None /\ tape' = tape
           \/ pending' \in {v, o} /\ tape' = h
    BY <1>9 DEF TornFill, Interrupted, Killed, Survives
  <2> HIDE DEF c, n, o, v, h
  <2>2. /\ orders[pending.sig].status = pending.status /\ orders[pending.sig].filled = pending.filled
        /\ orders[pending.sig].queue = pending.queue
    BY <1>2 DEF NewOrderRow
  <2>3. CASE pending' = None /\ tape' = tape
    <3>1. \A s \in Signals : orders'[s].status \in LiveStatus =>
            orders'[s] = orders[s] /\ orders[s].status # "PENDING"
      BY <1>2, <1>6, <2>1, <2>2
    <3> QED
      BY <2>3, <3>1, SameEntries
  <2>4. CASE pending' \in {v, o} /\ tape' = h
    <3>1. PaidFor(orders[s0])' /\ orders'[s0].status # "PENDING"
      BY <1>2, <1>5, <1>q, <2>1, <2>2, <2>4 DEF PaidFor
    <3>2. pending'.filled = pending.filled + n
      BY <1>3, <1>4, <2>4
    <3>3. FillsBehindQueue'
      BY <1>1, <1>5, <2>4, <3>2 DEF FillsBehindQueue
    <3> QED
      BY <1>6, <1>q, <2>1, <3>1, <3>3, OnePaid
  <2> QED
    BY <2>1, <2>3, <2>4
<1> QED
  BY <1>8, <1>9

(* A decision, whole or cut short: a new entry has filled nothing.          *)
LEMMA DecideQueue ==
  ASSUME IInv, QueueInv, NEW s \in Signals, NEW q \in Quotes, NEW reference \in Prices,
         NEW lots \in 0..MaxLots,
         Decide(s, q, reference, lots) \/ TornSubmit(s, q, reference, lots) \/ TornDecide(s)
  PROVE  QueueInv'
<1> DEFINE entry     == Executable(s, q)
           submitted == Submits(s, reference, entry, lots)
           o         == NewOrder(s, entry, lots)
<1>1. Sound /\ up /\ Fresh(s) /\ positions' = positions
  BY DEF Decide, TornSubmit, TornDecide, Decides, Receives, IInv
<1>2. submitted => pending = None
  BY DEF Submits, SubmissionBlocked, PortfolioBusy
<1>3. /\ NewOrderRow(o).status = "PENDING" /\ NewOrderRow(o).filled = 0
      /\ o.filled = 0
  BY DEF NewOrderRow, NewOrder
<1>4. positions[s].status = "NONE"
  BY <1>1 DEF Sound, RowsFollowSignals, RowsFollow, Fresh
<1>5. submitted => \A t \in Signals : orders[t].status \notin LiveStatus
  BY <1>1, <1>2 DEF Sound, SlotMemory
<1>6. CASE Decide(s, q, reference, lots)
  <2>1. IF submitted
        THEN orders' = [orders EXCEPT ![s] = NewOrderRow(o)] /\ tape' = FreshTape /\ pending' = o
        ELSE UNCHANGED <<pending, orders, tape>>
    BY <1>6 DEF Decide
  <2> HIDE DEF entry, submitted, o
  <2>2. CASE submitted
    <3>1. orders'[s] = NewOrderRow(o) /\ \A t \in Signals : t # s => orders'[t] = orders[t]
      BY <1>1, <2>1, <2>2 DEF Sound, TypeOK
    <3> QED
      BY <1>1, <1>3, <1>4, <1>5, <2>1, <2>2, <3>1 DEF QueueInv, PaidFor, FillsBehindQueue
  <2>3. CASE ~submitted
    BY <1>1, <2>1, <2>3, SameEntries
  <2> QED
    BY <2>2, <2>3
<1>7. CASE TornSubmit(s, q, reference, lots)
  <2>1. submitted /\ orders' = orders /\ pending' = o
    BY <1>7 DEF TornSubmit, Survives
  <2> QED
    BY <1>3, <1>5, <2>1, NothingLive
<1>8. CASE TornDecide(s)
  <2>1. orders' = orders /\ tape' = tape /\ (pending' = None \/ pending' = pending)
    BY <1>8 DEF TornDecide, Interrupted, Killed, Survives
  <2> QED
    BY <1>1, <2>1, SameEntries
<1> QED
  BY <1>6, <1>7, <1>8

(* A quote's first write refused: memory alone has moved.                   *)
LEMMA TornAdvanceQueue ==
  ASSUME IInv, QueueInv, NEW sym, NEW q \in Quotes, TornAdvance(sym, q)
  PROVE  QueueInv'
<1> DEFINE o == AfterQuote(sym, q)
<1>1. /\ Receives /\ up /\ Live(o) /\ o # pending /\ orders' = orders /\ positions' = positions
      /\ pending' = o /\ tape' = TapeAfterQuote(o, q) /\ Sound
  BY DEF TornAdvance, Quoted, Hears, Receives, Survives, journal, IInv
<1>2. pending # None /\ o # None
  BY <1>1, QuoteMoves, MovedLive DEF Live
<1>3. /\ orders[pending.sig] = NewOrderRow(pending)
      /\ pending.status \in LiveStatus /\ pending.sig \in Signals
      /\ pending.status \in {"ACTIVE", "PARTIAL"} => o.status = pending.status
      /\ pending.status = "PENDING" => o.status = "ACTIVE"
      /\ o.filled = pending.filled
  BY <1>1, <1>2, QuoteQueues
<1> HIDE DEF o
<1>4. tape' = IF pending.status = "PENDING" THEN [arrival |-> q.shown, traded |-> 0] ELSE tape
  BY <1>1, <1>2, <1>3, TapeMoved DEF LiveStatus
<1>5. CASE pending.status # "PENDING"
  BY <1>1, <1>2, <1>3, <1>4, <1>5, SameEntries
<1>6. CASE pending.status = "PENDING"
  <2>1. orders[pending.sig].status = "PENDING" /\ orders[pending.sig].filled = pending.filled
    BY <1>3, <1>6 DEF NewOrderRow
  <2>2. pending.filled = 0 /\ positions[pending.sig].status = "NONE"
    BY <1>3, <2>1 DEF QueueInv, PaidFor, LiveStatus
  <2>3. \A s \in Signals : orders[s].status \in LiveStatus => s = pending.sig
    BY <1>1 DEF Sound, SlotMemory
  <2> QED
    BY <1>1, <1>3, <2>1, <2>2, <2>3 DEF QueueInv, PaidFor, FillsBehindQueue
<1> QED
  BY <1>5, <1>6

(* A quote stopped at the position's excursion or around the exit's         *)
(* cancellation: no entry arrives beside a position.                        *)
LEMMA MarkStopsQueue ==
  ASSUME IInv, QueueInv, NEW sym, NEW q \in Quotes, MarkStops(sym, q)
  PROVE  QueueInv'
<1> DEFINE o     == AfterQuote(sym, q)
           price == Executable(position.sig, q)
<1>1. Receives /\ up /\ Holds(sym) /\ Sound
  BY DEF MarkStops, Quoted, Hears, Receives, IInv
<1>2. PICK r \in {o, RemainderCancelled(o)} :
        /\ orders' = OrderRowsAfter(r)
        /\ positions' = positions \/ positions' = RowsMarked(price)
        /\ \/ pending' = None /\ tape' = tape
           \/ pending' = InFlight(r) /\ tape' = TapeAfterQuote(r, q)
  BY DEF MarkStops, Interrupted, Killed, Survives
<1>3. Moves(r) /\ Moves(o)
  BY <1>1, <1>2, QuoteMoves, RemainderMoves
<1>4. price \in Nat
  BY ExecutablePrice
<1>5. \A s \in Signals : positions'[s].status = positions[s].status
  <2> HIDE DEF price
  <2> QED
    BY <1>1, <1>2, <1>4, MarkedRows DEF Holds
<1>6. CASE pending = None \/ (r # pending /\ ~Live(r))
  BY <1>1, <1>2, <1>3, <1>6, EndedNothingLive, NothingLive
<1>7. CASE pending # None /\ r = pending
  <2>1. orders' = orders /\ (pending' = None \/ pending' = pending)
    BY <1>2, <1>7 DEF OrderRowsAfter, InFlight
  <2>2. pending' = pending => TapeAfterQuote(pending, q) = tape
    BY <1>1, <1>7, TapeMoved
  <2>3. tape' = tape
    BY <1>2, <1>7, <2>2 DEF InFlight
  <2> QED
    BY <1>5, <1>7, <2>1, <2>3, SameEntries
<1>8. CASE pending # None /\ r # pending /\ Live(r)
  <2>1. r = o /\ o # None
    BY <1>1, <1>2, <1>3, <1>8, RemainderMoves DEF Live
  <2>2. /\ Mirrored /\ orders[pending.sig] = NewOrderRow(pending)
        /\ pending.status \in LiveStatus /\ pending.sig \in Signals
        /\ pending.status \in {"ACTIVE", "PARTIAL"} => o.status = pending.status
        /\ pending.status = "PENDING" => o.status = "ACTIVE"
    BY <1>1, <1>8, <2>1, QuoteQueues
  <2>3. pending.status # "PENDING"
    <3>1. position.sig = pending.sig /\ positions[position.sig] = NewPositionRow(position)
      BY <1>1, <1>8, <2>2 DEF Holds, Sound, SlotMemory, Mirrored
    <3>2. positions[pending.sig].status = "OPEN"
      BY <3>1 DEF NewPositionRow
    <3>3. orders[pending.sig].status = pending.status
      BY <2>2 DEF NewOrderRow
    <3> QED
      BY <2>2, <3>2, <3>3 DEF QueueInv
  <2> HIDE DEF o
  <2>4. InFlight(r) = o
    BY <1>8, <2>1 DEF InFlight
  <2>5. pending' = o => TapeAfterQuote(o, q) = tape
    BY <1>1, <1>8, <2>1, <2>2, <2>3, TapeMoved DEF LiveStatus
  <2>6. tape' = tape /\ pending' \in {None, o}
    BY <1>2, <2>1, <2>4, <2>5
  <2> QED
    BY <1>1, <1>2, <1>5, <1>8, <2>1, <2>3, <2>6, MovedPaid DEF o
<1> QED
  BY <1>6, <1>7, <1>8

(* A quote stopped inside the exit's cancellation, or inside _close.        *)
LEMMA TornExitQueue ==
  ASSUME IInv, QueueInv, NEW sym, NEW q \in Quotes, RemainderStops(sym, q) \/ TornClose(sym, q)
  PROVE  QueueInv'
<1> DEFINE o == AfterQuote(sym, q)
           r == RemainderCancelled(o)
<1>1. Receives /\ up /\ Holds(sym) /\ Sound
  BY DEF RemainderStops, TornClose, Quoted, Hears, Receives, IInv
<1>2. Moves(o) /\ Moves(r) /\ Ended(r) /\ ~Live(r)
  BY <1>1, QuoteMoves, HeldEnds
<1>3. CASE RemainderStops(sym, q)
  <2>1. /\ Live(o) /\ orders' = OrderRowsAfter(Cancelled(o)) /\ o.filled = 0
        /\ pending' = None \/ pending' = o
    BY <1>3 DEF RemainderStops, Interrupted, Killed, Survives
  <2>2. Moves(Cancelled(o)) /\ ~Live(Cancelled(o)) /\ Cancelled(o) # pending
    BY <1>1, <1>2, <2>1, CancelledMove
  <2> HIDE DEF o
  <2> QED
    BY <1>1, <2>1, <2>2, EndedNothingLive, NothingLive
<1>4. CASE TornClose(sym, q)
  <2>1. orders' = OrderRowsAfter(r) /\ (pending' = None \/ pending' = InFlight(r))
    BY <1>4 DEF TornClose, Interrupted, Killed, Survives
  <2> HIDE DEF r
  <2>2. pending # None => r # pending
    BY <1>1, <1>2 DEF Ended, Sound, SlotMemory, LiveStatus
  <2> QED
    BY <1>1, <1>2, <2>1, <2>2, EndedNothingLive, NothingLive
<1> QED
  BY <1>3, <1>4

(* Start-up rebuilds the entry its row pays for.                            *)
LEMMA RestartQueue ==
  ASSUME IInv, QueueInv, Restart
  PROVE  QueueInv'
<1>1. Sound /\ orders' = orders /\ positions' = positions /\ tape' = tape /\ pending' = RestoredOrder
  BY DEF Restart, IInv
<1>2. ASSUME RestoredOrder # None, RestoredOrder.filled > 0
      PROVE  tape.traded >= tape.arrival + RestoredOrder.filled
  <2>1. /\ RestoredOrder.sig \in Signals /\ orders[RestoredOrder.sig].status \in LiveStatus
        /\ orders[RestoredOrder.sig] = NewOrderRow(RestoredOrder)
    BY <1>1, <1>2, RestoredFacts DEF Sound, LiveOrders
  <2>2. PaidFor(orders[RestoredOrder.sig])
    BY <2>1 DEF QueueInv
  <2>3. orders[RestoredOrder.sig].filled = RestoredOrder.filled
    BY <2>1 DEF NewOrderRow
  <2>4. RestoredOrder.filled # 0
    BY <1>2
  <2> QED
    BY <1>2, <2>1, <2>2, <2>3, <2>4 DEF PaidFor, LiveStatus
<1> QED
  BY <1>1, <1>2 DEF QueueInv, PaidFor, FillsBehindQueue

(* Every step keeps the account.                                            *)
LEMMA StepQueue ==
  ASSUME IInv, QueueInv, [Next]_vars
  PROVE  QueueInv'
<1>1. ASSUME NEW s \in Signals, NEW q \in Quotes, NEW reference \in Prices, NEW lots \in 0..MaxLots,
             Decide(s, q, reference, lots) \/ TornSubmit(s, q, reference, lots)
      PROVE  QueueInv'
  BY <1>1, DecideQueue
<1>2. ASSUME NEW sym \in Symbols, NEW q \in Quotes, OnQuote(sym, q)
      PROVE  QueueInv'
  BY <1>2, OnQuoteQueue
<1>3. ASSUME NEW sym \in Symbols, NEW t \in Trades, OnTrade(sym, t)
      PROVE  QueueInv'
  BY <1>3, CancelQueue, ConsumesQueue, FillsQueue DEF OnTrade
<1>4. CASE StreamBreak \/ TornCancel
  BY <1>4, CancelQueue
<1>5. ASSUME NEW s \in Signals, TornDecide(s)
      PROVE  QueueInv'
  <2>1. orders' = orders /\ positions' = positions /\ tape' = tape /\ (pending' = None \/ pending' = pending)
    BY <1>5 DEF TornDecide, Interrupted, Killed, Survives
  <2> QED
    BY <2>1, SameEntries
<1>6. ASSUME NEW sym \in Symbols, NEW q \in Quotes,
             \/ TornAdvance(sym, q)
             \/ TornQuote(sym, q)
             \/ TornClose(sym, q)
      PROVE  QueueInv'
  BY <1>6, TornAdvanceQueue, MarkStopsQueue, TornExitQueue DEF TornQuote
<1>7. ASSUME NEW sym \in Symbols, NEW t \in Trades, TornConsume(sym, t) \/ TornFill(sym, t)
      PROVE  QueueInv'
  BY <1>7, ConsumesQueue, FillsQueue
<1>8. CASE Tick \/ Crash \/ UNCHANGED vars
  <2>1. orders' = orders /\ positions' = positions /\ tape' = tape /\ (pending' = None \/ pending' = pending)
    BY <1>8 DEF Tick, Crash, Killed, vars, journal, memory
  <2> QED
    BY <2>1, SameEntries
<1>9. ASSUME NEW sym \in Symbols, NEW q \in Quotes, QuoteRaises(sym, q)
      PROVE  UNCHANGED vars
  BY <1>9 DEF QuoteRaises
<1> QED
  BY <1>1, <1>2, <1>3, <1>4, <1>5, <1>6, <1>7, <1>8, <1>9, RestartQueue DEF Next

(* No lot of an entry fills before the market traded through the whole      *)
(* queue shown on its arrival, whatever is quoted, cancelled, restarted or  *)
(* refused by the journal.                                                  *)
THEOREM QueueRespected == Spec => []FillsBehindQueue
<1>1. IInv /\ QueueInv /\ [Next]_vars => QueueInv'
  BY StepQueue
<1>2. QueueInv => FillsBehindQueue
  BY DEF QueueInv
<1> QED
  BY <1>1, <1>2, InitQueue, Invariance, PTL DEF Spec
-----------------------------------------------------------------------------
(* What a fold of the community modules sums to.  FiniteSetsExt defines it   *)
(* as a recursive function on the subsets, chosen to satisfy its equation:  *)
(* that such a function exists, and that the order in which elements are    *)
(* picked does not matter, is shown here by smallest counterexamples.       *)

(* The element the fold picks next.                                         *)
Picked(S) == CHOOSE x \in S : TRUE

(* h holds the sum of v over every subset of U.                             *)
Totals(h, v, U) ==
  \A S \in SUBSET U : h[S] = IF S = {} THEN 0 ELSE v[Picked(S)] + h[S \ {Picked(S)}]

(* The same for the subsets of at most n elements.                          *)
TotalsUpTo(h, v, U, n) ==
  \A S \in SUBSET U : Cardinality(S) <= n =>
    h[S] = IF S = {} THEN 0 ELSE v[Picked(S)] + h[S \ {Picked(S)}]

(* The equation FiniteSetsExt chooses a solution of.                        *)
Solves(h, v, U) ==
  h = [S \in SUBSET U |-> IF S = {} THEN 0 ELSE v[Picked(S)] + h[S \ {Picked(S)}]]

(* What is picked of a set is one of its elements.                          *)
LEMMA PickedIn ==
  ASSUME NEW S, S # {}
  PROVE  Picked(S) \in S
  BY DEF Picked

(* Every nonempty set of naturals has a least element.                      *)
LEMMA LeastNumber ==
  ASSUME NEW T \in SUBSET Nat, T # {}
  PROVE  \E n \in T : \A m \in T : n <= m
<1> DEFINE Below == {ss \in Nat \X Nat : ss[1] < ss[2]}
<1>1. IsWellFoundedOn(Below, Nat)
  BY NatLessThanWellFounded, Zenon DEF OpToRel
<1> HIDE DEF Below
<1>2. PICK n \in T : \A m \in T : ~(<<m, n>> \in Below)
  BY <1>1, WFMin
<1>3. ASSUME NEW m \in T
      PROVE  n <= m
  <2>1. m \in Nat /\ n \in Nat /\ ~(m < n)
    BY <1>2 DEF Below
  <2> QED
    BY <2>1
<1> QED
  BY <1>3

(* Hence every nonempty set of finite sets has a smallest member.           *)
LEMMA SmallestSubset ==
  ASSUME NEW U, IsFiniteSet(U), NEW Bad \in SUBSET (SUBSET U), Bad # {}
  PROVE  \E S \in Bad : \A R \in SUBSET U : Cardinality(R) < Cardinality(S) => R \notin Bad
<1> DEFINE sizes == {Cardinality(S) : S \in Bad}
<1>1. \A R \in SUBSET U : Cardinality(R) \in Nat
  BY FS_Subset, FS_CardinalityType
<1>2. PICK n \in sizes : \A m \in sizes : n <= m
  <2>1. sizes \in SUBSET Nat /\ sizes # {}
    BY <1>1
  <2> QED
    BY <2>1, LeastNumber
<1>3. PICK S \in Bad : n = Cardinality(S)
  BY <1>2
<1>4. ASSUME NEW R \in SUBSET U, Cardinality(R) < Cardinality(S)
      PROVE  R \notin Bad
  BY <1>1, <1>2, <1>3, <1>4
<1> QED
  BY <1>4

(* Taking an element away makes a subset smaller.                           *)
LEMMA SmallerRest ==
  ASSUME NEW U, IsFiniteSet(U), NEW S \in SUBSET U, NEW x \in S
  PROVE  /\ S \ {x} \in SUBSET U
         /\ Cardinality(S) \in Nat /\ Cardinality(S \ {x}) \in Nat
         /\ Cardinality(S \ {x}) = Cardinality(S) - 1
<1>1. IsFiniteSet(S)
  BY FS_Subset
<1> QED
  BY <1>1, FS_RemoveElement, FS_CardinalityType

(* Sums over small subsets exist, one element more at a time.               *)
LEMMA PartialTotals ==
  ASSUME NEW U, IsFiniteSet(U), NEW v, NEW n \in Nat
  PROVE  \E h : TotalsUpTo(h, v, U, n)
<1> DEFINE Bad == {k \in Nat : \A h : ~TotalsUpTo(h, v, U, k)}
<1> SUFFICES ASSUME Bad # {}
             PROVE  FALSE
  OBVIOUS
<1>1. PICK k \in Bad : \A m \in Bad : k <= m
  BY LeastNumber
<1>2. k # 0
  <2> DEFINE zero == [S \in SUBSET U |-> 0]
  <2>1. ASSUME NEW S \in SUBSET U, Cardinality(S) <= 0
        PROVE  S = {}
    BY <2>1, FS_Subset, FS_EmptySet, FS_CardinalityType
  <2>2. TotalsUpTo(zero, v, U, 0)
    BY <2>1 DEF TotalsUpTo
  <2> QED
    BY <1>1, <2>2
<1>3. PICK g : TotalsUpTo(g, v, U, k - 1)
  <2>1. k - 1 \in Nat /\ k - 1 \notin Bad
    BY <1>1, <1>2
  <2> QED
    BY <2>1
<1> DEFINE h == [S \in SUBSET U |-> IF S = {} THEN 0 ELSE v[Picked(S)] + g[S \ {Picked(S)}]]
<1>4. ASSUME NEW S \in SUBSET U, Cardinality(S) <= k, S # {}
      PROVE  h[S] = v[Picked(S)] + h[S \ {Picked(S)}]
  <2> DEFINE R == S \ {Picked(S)}
  <2>1. R \in SUBSET U /\ Cardinality(R) <= k - 1
    BY <1>1, <1>4, PickedIn, SmallerRest
  <2>2. g[R] = h[R]
    BY <1>3, <2>1 DEF TotalsUpTo
  <2> QED
    BY <1>4, <2>2
<1>5. h[{}] = 0
  OBVIOUS
<1> HIDE DEF h
<1>6. TotalsUpTo(h, v, U, k)
  BY <1>4, <1>5 DEF TotalsUpTo
<1> QED
  BY <1>1, <1>6

(* The equation of the fold has a solution.                                 *)
LEMMA TotalsExist ==
  ASSUME NEW U, IsFiniteSet(U), NEW v
  PROVE  \E h : Solves(h, v, U)
<1>1. PICK g : TotalsUpTo(g, v, U, Cardinality(U))
  BY FS_CardinalityType, PartialTotals
<1> DEFINE h == [S \in SUBSET U |-> g[S]]
<1>2. ASSUME NEW S \in SUBSET U
      PROVE  h[S] = IF S = {} THEN 0 ELSE v[Picked(S)] + h[S \ {Picked(S)}]
  <2>1. Cardinality(S) <= Cardinality(U)
    BY FS_Subset
  <2>2. h[S] = g[S] /\ h[S \ {Picked(S)}] = g[S \ {Picked(S)}]
    OBVIOUS
  <2> QED
    BY <1>1, <2>1, <2>2 DEF TotalsUpTo
<1>3. h = [S \in SUBSET U |-> h[S]]
  OBVIOUS
<1> HIDE DEF h
<1> QED
  BY <1>2, <1>3 DEF Solves

(* Integers sum to an integer, whichever element is taken out first.        *)
LEMMA TotalsCommute ==
  ASSUME NEW U, IsFiniteSet(U), NEW v, \A x \in U : v[x] \in Int, NEW h, Totals(h, v, U),
         NEW S \in SUBSET U
  PROVE  h[S] \in Int /\ \A x \in S : h[S] = v[x] + h[S \ {x}]
<1> DEFINE Good(T) == h[T] \in Int /\ \A x \in T : h[T] = v[x] + h[T \ {x}]
           Bad     == {T \in SUBSET U : ~Good(T)}
<1> SUFFICES ASSUME Bad # {}
             PROVE  FALSE
  OBVIOUS
<1>1. PICK T \in Bad : \A R \in SUBSET U : Cardinality(R) < Cardinality(T) => R \notin Bad
  <2>1. Bad \in SUBSET (SUBSET U)
    OBVIOUS
  <2> HIDE DEF Bad
  <2> QED
    BY <2>1, SmallestSubset
<1>2. \A R \in SUBSET U : R \notin Bad => Good(R)
  OBVIOUS
<1>3. T \in SUBSET U /\ ~Good(T)
  OBVIOUS
<1> HIDE DEF Good, Bad
<1>4. ASSUME NEW x \in T
      PROVE  T \ {x} \in SUBSET U /\ Good(T \ {x})
  <2>1. T \ {x} \in SUBSET U /\ Cardinality(T \ {x}) < Cardinality(T)
    BY <1>3, SmallerRest
  <2> QED
    BY <1>1, <1>2, <2>1
<1>5. T # {}
  <2> SUFFICES ASSUME T = {}
               PROVE  FALSE
    OBVIOUS
  <2>1. h[T] = 0
    BY <1>3 DEF Totals
  <2> QED
    BY <1>3, <2>1 DEF Good
<1> DEFINE a == Picked(T)
<1>6. a \in T /\ v[a] \in Int /\ h[T] = v[a] + h[T \ {a}]
  BY <1>3, <1>5, PickedIn DEF Totals
<1> HIDE DEF a
<1>7. h[T] \in Int
  <2>1. h[T \ {a}] \in Int
    BY <1>4, <1>6 DEF Good
  <2> QED
    BY <1>6, <2>1
<1>8. ASSUME NEW x \in T, x # a
      PROVE  h[T] = v[x] + h[T \ {x}]
  <2> DEFINE both == h[(T \ {a}) \ {x}]
  <2>1. h[T \ {a}] = v[x] + both
    BY <1>4, <1>6, <1>8 DEF Good
  <2>2. h[T \ {x}] = v[a] + h[(T \ {x}) \ {a}]
    BY <1>4, <1>6, <1>8 DEF Good
  <2>3. (T \ {x}) \ {a} = (T \ {a}) \ {x}
    OBVIOUS
  <2>4. both \in Int
    <3>1. T \ {a} \in SUBSET U /\ x \in T \ {a}
      BY <1>4, <1>6, <1>8
    <3>2. (T \ {a}) \ {x} \in SUBSET U /\ Cardinality((T \ {a}) \ {x}) < Cardinality(T \ {a})
      BY <3>1, SmallerRest
    <3>3. Cardinality(T \ {a}) < Cardinality(T) /\ Cardinality(T) \in Nat /\ Cardinality(T \ {a}) \in Nat
      BY <1>3, <1>6, SmallerRest
    <3>4. Cardinality((T \ {a}) \ {x}) \in Nat
      <4>1. IsFiniteSet((T \ {a}) \ {x})
        BY <3>2, FS_Subset
      <4> QED
        BY <4>1, FS_CardinalityType
    <3>5. Good((T \ {a}) \ {x})
      BY <1>1, <1>2, <3>2, <3>3, <3>4
    <3> QED
      BY <3>5 DEF Good
  <2>5. v[x] \in Int /\ v[a] \in Int
    BY <1>3, <1>6
  <2> HIDE DEF both
  <2>6. h[T \ {x}] = v[a] + both
    BY <2>2, <2>3 DEF both
  <2> QED
    BY <1>6, <2>1, <2>4, <2>5, <2>6
<1> QED
  BY <1>3, <1>6, <1>7, <1>8 DEF Good

(* In particular the sum over everything.                                   *)
LEMMA WholeCommutes ==
  ASSUME NEW U, IsFiniteSet(U), NEW v, \A x \in U : v[x] \in Int, NEW h, Totals(h, v, U)
  PROVE  h[U] \in Int /\ \A x \in U : h[U] = v[x] + h[U \ {x}]
<1>1. \A S \in SUBSET U : h[S] \in Int /\ \A x \in S : h[S] = v[x] + h[S \ {x}]
  BY TotalsCommute
<1> QED
  BY <1>1

(* Sums depend on what is summed and on nothing else.                       *)
LEMMA TotalsAgree ==
  ASSUME NEW U, IsFiniteSet(U), NEW v, NEW h, Totals(h, v, U),
         NEW W, NEW w, NEW g, Totals(g, w, W),
         NEW S \in SUBSET U, S \subseteq W, \A x \in S : v[x] = w[x]
  PROVE  h[S] = g[S]
<1> DEFINE Bad == {T \in SUBSET S : h[T] # g[T]}
<1> SUFFICES ASSUME Bad # {}
             PROVE  FALSE
  OBVIOUS
<1>1. IsFiniteSet(S)
  BY FS_Subset
<1>2. PICK T \in Bad : \A R \in SUBSET S : Cardinality(R) < Cardinality(T) => R \notin Bad
  <2>1. Bad \in SUBSET (SUBSET S)
    OBVIOUS
  <2> HIDE DEF Bad
  <2> QED
    BY <1>1, <2>1, SmallestSubset
<1>3. T # {}
  BY <1>2 DEF Totals
<1>4. Picked(T) \in T
  BY <1>3, PickedIn
<1>5. h[T \ {Picked(T)}] = g[T \ {Picked(T)}]
  <2>1. T \ {Picked(T)} \in SUBSET S /\ Cardinality(T \ {Picked(T)}) < Cardinality(T)
    BY <1>1, <1>4, SmallerRest
  <2> QED
    BY <1>2, <2>1
<1>6. h[T] = v[Picked(T)] + h[T \ {Picked(T)}] /\ g[T] = w[Picked(T)] + g[T \ {Picked(T)}]
  BY <1>2, <1>3 DEF Totals
<1> QED
  BY <1>2, <1>4, <1>5, <1>6
-----------------------------------------------------------------------------
(* The sums the journal's queries make: net results of the trades in C.     *)
Profit(P, C) == MapThenSumSet(LAMBDA s : P[s].pnl, C)

Nets(P) == [s \in Signals |-> P[s].pnl]

(* The query's fold over C is a sum of net results.                         *)
LEMMA ProfitTotals ==
  ASSUME NEW P, NEW C \in SUBSET Signals
  PROVE  \E h : Totals(h, Nets(P), C) /\ Profit(P, C) = h[C]
<1> DEFINE Eq(h) == h = [S \in SUBSET C |-> IF S = {} THEN 0
                                    ELSE P[Picked(S)].pnl + h[S \ {Picked(S)}]]
           fold  == CHOOSE h : Eq(h)
<1>1. Profit(P, C) = fold[C]
  BY Zenon DEF Profit, MapThenSumSet, MapThenFoldSet, Picked
<1>2. \A S \in SUBSET C : S # {} => Nets(P)[Picked(S)] = P[Picked(S)].pnl
  <2>1. \A S \in SUBSET C : S # {} => Picked(S) \in Signals
    BY PickedIn
  <2> QED
    BY <2>1 DEF Nets
<1>3. \E h : Eq(h)
  <2>1. IsFiniteSet(C)
    BY JournalAssumption, FS_Subset
  <2> DEFINE v == Nets(P)
  <2> HIDE DEF v
  <2>2. PICK h : Solves(h, v, C)
    BY <2>1, TotalsExist
  <2>3. \A S \in SUBSET C : (IF S = {} THEN 0 ELSE v[Picked(S)] + h[S \ {Picked(S)}])
                          = (IF S = {} THEN 0 ELSE P[Picked(S)].pnl + h[S \ {Picked(S)}])
    BY <1>2 DEF v
  <2>4. Eq(h)
    BY <2>2, <2>3 DEF Solves
  <2> QED
    BY <2>4
<1>4. Eq(fold)
  <2> HIDE DEF Eq
  <2> QED
    BY <1>3, Zenon
<1> HIDE DEF fold
<1>5. Totals(fold, Nets(P), C)
  <2> SUFFICES ASSUME NEW S \in SUBSET C
               PROVE  fold[S] = IF S = {} THEN 0 ELSE Nets(P)[Picked(S)] + fold[S \ {Picked(S)}]
    BY DEF Totals
  <2>1. fold[S] = IF S = {} THEN 0 ELSE P[Picked(S)].pnl + fold[S \ {Picked(S)}]
    BY <1>4
  <2> QED
    BY <1>2, <2>1
<1> QED
  BY <1>1, <1>5

(* No trade, no result; and each trade's result can be taken out of the sum. *)
LEMMA ProfitOfRest ==
  ASSUME NEW P \in [Signals -> PositionRow], NEW C \in SUBSET Signals
  PROVE  /\ Profit(P, {}) = 0
         /\ Profit(P, C) \in Int
         /\ \A s \in C : Profit(P, C) = P[s].pnl + Profit(P, C \ {s})
<1>1. \A s \in Signals : Nets(P)[s] = P[s].pnl /\ Nets(P)[s] \in Int
  BY DEF Nets, PositionRow
<1>2. Profit(P, {}) = 0
  <2>1. PICK h : Totals(h, Nets(P), {}) /\ Profit(P, {}) = h[{}]
    BY ProfitTotals
  <2> QED
    BY <2>1 DEF Totals
<1>3. IsFiniteSet(C)
  BY JournalAssumption, FS_Subset
<1> DEFINE v == Nets(P)
<1>4. \A x \in C : v[x] \in Int
  BY <1>1
<1> HIDE DEF v
<1>5. PICK h : Totals(h, v, C) /\ Profit(P, C) = h[C]
  BY ProfitTotals DEF v
<1>6. h[C] \in Int /\ \A x \in C : h[C] = v[x] + h[C \ {x}]
  <2>1. Totals(h, v, C)
    BY <1>5
  <2>2. \A x \in C : v[x] \in Int
    BY <1>4
  <2> QED
    BY <1>3, <2>1, <2>2, WholeCommutes
<1>7. ASSUME NEW s \in C
      PROVE  Profit(P, C \ {s}) = h[C \ {s}]
  <2>1. PICK g : Totals(g, v, C \ {s}) /\ Profit(P, C \ {s}) = g[C \ {s}]
    BY ProfitTotals DEF v
  <2>2. IsFiniteSet(C \ {s})
    BY <1>3, FS_Subset
  <2>3. g[C \ {s}] = h[C \ {s}]
    BY <1>5, <2>1, <2>2, TotalsAgree
  <2> QED
    BY <2>1, <2>3
<1> QED
  BY <1>1, <1>2, <1>5, <1>6, <1>7 DEF v

(* Rows left alone have the profit they had.                                *)
LEMMA SameProfit ==
  ASSUME NEW P, NEW Q, NEW C \in SUBSET Signals, \A s \in C : P[s] = Q[s]
  PROVE  Profit(P, C) = Profit(Q, C)
<1>1. IsFiniteSet(C)
  BY JournalAssumption, FS_Subset
<1>2. \A s \in C : Nets(P)[s] = Nets(Q)[s]
  BY DEF Nets
<1> DEFINE v == Nets(P)
           w == Nets(Q)
<1> HIDE DEF v, w
<1>3. PICK h : Totals(h, v, C) /\ Profit(P, C) = h[C]
  BY ProfitTotals DEF v
<1>4. PICK g : Totals(g, w, C) /\ Profit(Q, C) = g[C]
  BY ProfitTotals DEF w
<1>5. h[C] = g[C]
  BY <1>1, <1>2, <1>3, <1>4, TotalsAgree DEF v, w
<1> QED
  BY <1>3, <1>4, <1>5

(* The journal's two queries are such sums.                                 *)
LEMMA QueriesAreProfits ==
  ASSUME NEW P, NEW day
  PROVE  /\ RealizedPnl(P) = Profit(P, ClosedPositions(P))
         /\ DailyRealizedPnl(P, day) = Profit(P, ClosedOnDay(P, day))
  BY Zenon DEF RealizedPnl, DailyRealizedPnl, Profit
-----------------------------------------------------------------------------
(* What the portfolio is accounted for: its equity is what it started with   *)
(* and what the journal says it made, and while a slot is taken the day's   *)
(* losses have not reached the limit, because that is when it was taken.    *)

Today == now \div DayLength

(* The position in memory is one whose row _close has already closed.       *)
Stranded == position # None /\ positions[position.sig].status = "CLOSED"

AccountInv ==
  /\ up /\ ~Stranded => equity = InitialEquity + RealizedPnl(positions)
  /\ ExitWithinExcursion
  /\ \A s \in ClosedPositions(positions) : positions[s].closed <= now
  /\ (\E s \in Signals : Busy(s)) => DailyRealizedPnl(positions, Today) > -LossLimit

(* A step that closes the position: memory books its result, or is gone, or *)
(* is left stranded; and nothing holds the slot any more.                   *)
Closing ==
  \E price \in Nat :
    /\ up /\ position # None /\ RowOpen
    /\ Exits(position.sig, price)
    /\ positions' = RowsAfterExit(price)
    /\ up' => (position' = None /\ equity' = EquityAfterExit(price)) \/ Stranded'
    /\ now' = now
    /\ \A s \in Signals : orders'[s].status \notin LiveStatus

(* Any other step: closed rows and equity stay, or equity is added up anew,  *)
(* and the slot is only taken while the day's losses allow it.              *)
Keeping ==
  /\ \A s \in Signals : positions'[s].status = "CLOSED" \/ positions[s].status = "CLOSED" =>
       positions'[s] = positions[s]
  /\ up' => \/ up /\ equity' = equity /\ (Stranded => Stranded')
            \/ equity' = InitialEquity + RealizedPnl(positions')
  /\ now' \in Nat /\ now <= now'
  /\ (\E s \in Signals : Busy(s))' =>
       \/ \E s \in Signals : Busy(s)
       \/ now' = now /\ ~(DailyRealizedPnl(positions, Today) <= -LossLimit)

(* The day of a later tick is no earlier day.                               *)
LEMMA DaysPass ==
  ASSUME NEW a \in Nat, NEW b \in Nat, a <= b
  PROVE  a \div DayLength <= b \div DayLength
<1> DEFINE d == DayLength
           x == a \div d
           y == b \div d
<1>1. d \in Nat /\ d > 0
  BY JournalAssumption
<1>2. x \in Nat /\ y \in Nat /\ d * x <= a /\ b < d * y + d
  BY <1>1
<1> HIDE DEF x, y, d
<1>3. ASSUME x > y
      PROVE  FALSE
  <2>1. PICK k \in Nat : x = y + 1 + k
    <3>1. x - y - 1 \in Nat /\ x = y + 1 + (x - y - 1)
      BY <1>2, <1>3
    <3> QED
      BY <3>1
  <2>2. d * x = d * y + d + d * k
    BY <1>1, <1>2, <2>1
  <2>3. d * k \in Nat /\ d * y \in Nat
    BY <1>1, <1>2, <2>1
  <2> QED
    BY <1>1, <1>2, <2>2, <2>3
<1> QED
  BY <1>2, <1>3 DEF x, y, d

(* Rows, clock and memory's position left alone are kept, and so is what a  *)
(* dead process leaves or start-up adds up anew.                            *)
LEMMA QuietAccount ==
  ASSUME orders' = orders, positions' = positions, now' \in Nat, now <= now',
         up' => \/ up /\ equity' = equity /\ position' = position
                \/ equity' = InitialEquity + RealizedPnl(positions)
  PROVE  Keeping
<1>1. RealizedPnl(positions') = RealizedPnl(positions)
  OBVIOUS
<1>2. (\E s \in Signals : Busy(s))' => \E s \in Signals : Busy(s)
  BY DEF Busy, LiveOrders, OpenPositions
<1>3. position' = position => (Stranded => Stranded')
  BY DEF Stranded
<1> QED
  BY <1>1, <1>2, <1>3 DEF Keeping

(* A decision, whole or cut short, takes the slot only on a day whose       *)
(* losses allow it.                                                         *)
LEMMA DecideAccount ==
  ASSUME IInv, NEW s \in Signals, NEW q \in Quotes, NEW reference \in Prices,
         NEW lots \in 0..MaxLots, Decide(s, q, reference, lots)
  PROVE  Keeping
<1> DEFINE submitted == Submits(s, reference, Executable(s, q), lots)
<1>1. /\ up /\ UNCHANGED <<now, up, positions, position, equity>> /\ now \in Nat
      /\ ~submitted => UNCHANGED orders
  BY DEF Decide, Decides, Receives, IInv, Sound, TypeOK
<1>2. submitted => ~(DailyRealizedPnl(positions, Today) <= -LossLimit)
  BY DEF Submits, SubmissionBlocked, Today
<1> HIDE DEF submitted
<1>3. ~submitted => ((\E t \in Signals : Busy(t))' => \E t \in Signals : Busy(t))
  BY <1>1 DEF Busy, LiveOrders, OpenPositions
<1>4. Stranded => Stranded'
  BY <1>1 DEF Stranded
<1> QED
  BY <1>1, <1>2, <1>3, <1>4 DEF Keeping

(* Settling the entry in flight takes no slot.                              *)
LEMMA SettleTakesNoSlot ==
  ASSUME Sound, up, NEW o, Moves(o), orders' = OrderRowsAfter(o),
         \A s \in Signals : positions'[s].status = positions[s].status
  PROVE  (\E s \in Signals : Busy(s))' => \E s \in Signals : Busy(s)
<1> SUFFICES ASSUME NEW s \in Signals, Busy(s)'
             PROVE  \E t \in Signals : Busy(t)
  OBVIOUS
<1>1. CASE positions'[s].status = "OPEN"
  BY <1>1 DEF Busy, OpenPositions
<1>2. CASE orders'[s].status \in LiveStatus
  BY <1>2, WrittenLive DEF Busy, LiveOrders
<1> QED
  BY <1>1, <1>2 DEF Busy, LiveOrders, OpenPositions

(* Whatever moves only the entry, and marks the position or leaves it.      *)
LEMMA SettlingAccount ==
  ASSUME Sound, up, NEW o, Moves(o), orders' = OrderRowsAfter(o), now' = now,
         up' => /\ equity' = equity
                /\ position # None => position' # None /\ position'.sig = position.sig,
         \/ positions' = positions
         \/ position # None /\ \E price \in Nat : positions' = RowsMarked(price)
  PROVE  Keeping
<1>1. /\ \A s \in Signals : positions'[s].status = positions[s].status
      /\ \A s \in Signals : positions[s].status = "CLOSED" => positions'[s] = positions[s]
  <2>1. CASE positions' = positions
    BY <2>1
  <2>2. CASE position # None /\ \E price \in Nat : positions' = RowsMarked(price)
    <3>1. PICK price \in Nat : positions' = RowsMarked(price)
      BY <2>2
    <3> QED
      BY <2>2, <3>1, MarkedRows
  <2> QED
    BY <2>1, <2>2
<1>2. (\E s \in Signals : Busy(s))' => \E s \in Signals : Busy(s)
  BY <1>1, SettleTakesNoSlot
<1>3. now' \in Nat /\ now <= now'
  BY DEF Sound, TypeOK
<1>4. up' => (Stranded => Stranded')
  BY <1>1, MemoryTypes DEF Stranded
<1> QED
  BY <1>1, <1>2, <1>3, <1>4 DEF Keeping

(* A quote closes the position with everything, or takes nothing.           *)
LEMMA OnQuoteAccount ==
  ASSUME IInv, NEW sym, NEW q \in Quotes, OnQuote(sym, q)
  PROVE  Closing \/ Keeping
<1> DEFINE o     == AfterQuote(sym, q)
           price == Executable(position.sig, q)
           r     == RemainderCancelled(o)
<1>1. /\ Receives /\ up /\ now' = now /\ up' = up /\ Sound
      /\ \/ ~Holds(sym) /\ QuoteAdvances(o)
         \/ Holds(sym) /\ QuoteMarks(o, price)
         \/ Holds(sym) /\ Exits(position.sig, price) /\ RowOpen /\ QuoteCloses(o, price)
         \/ Holds(sym) /\ QuoteMarks(r, price)
  BY DEF OnQuote, Quoted, Hears, Receives, IInv
<1>2. price \in Nat /\ Moves(o) /\ Moves(r)
  BY <1>1, ExecutablePrice, QuoteMoves, RemainderMoves
<1>3. CASE QuoteAdvances(o)
  <2>1. orders' = OrderRowsAfter(o) /\ UNCHANGED <<position, positions, equity>>
    BY <1>3 DEF QuoteAdvances, SettleOrder
  <2> HIDE DEF o
  <2> QED
    BY <1>1, <1>2, <2>1, SettlingAccount
<1>4. ASSUME NEW v \in {o, r}, Holds(sym), QuoteMarks(v, price)
      PROVE  Keeping
  <2>1. /\ orders' = OrderRowsAfter(v) /\ equity' = equity /\ position # None
        /\ positions' = RowsMarked(price) /\ position' = MarkedAt(position, price)
    BY <1>4 DEF QuoteMarks, SettleOrder, Holds
  <2> HIDE DEF o, price, r
  <2>2. position' # None /\ position'.sig = position.sig
    BY <1>1, <1>2, <1>4, <2>1, MarkedMemory
  <2> QED
    BY <1>1, <1>2, <1>4, <2>1, <2>2, SettlingAccount
<1>5. CASE Holds(sym) /\ Exits(position.sig, price) /\ RowOpen /\ QuoteCloses(o, price)
  <2>1. /\ orders' = OrderRowsAfter(r) /\ position # None /\ position' = None
        /\ positions' = RowsAfterExit(price) /\ equity' = EquityAfterExit(price)
    BY <1>5 DEF QuoteCloses, SettleOrder, Holds
  <2>2. Ended(r) /\ ~Live(r)
    BY <1>1, <1>5, HeldEnds
  <2> HIDE DEF o, price, r
  <2>3. pending # None => r # pending
    BY <1>1, <2>2 DEF Ended, Sound, SlotMemory, LiveStatus
  <2>4. \A s \in Signals : orders'[s].status \notin LiveStatus
    BY <1>1, <1>2, <2>1, <2>2, <2>3, EndedNothingLive
  <2> QED
    BY <1>1, <1>2, <1>5, <2>1, <2>4 DEF Closing
<1> QED
  BY <1>1, <1>3, <1>4, <1>5

(* A trade opens or grows the position of the signal that has the slot, and *)
(* closes nothing; so does one cut short.                                   *)
LEMMA ServingAccount ==
  ASSUME IInv, NEW sym, NEW t \in Trades,
         \/ TradeConsumesQueue(sym, t) \/ TornConsume(sym, t)
         \/ TradeFills(sym, t) \/ TornFill(sym, t)
  PROVE  Keeping
<1>1. /\ Working(sym) /\ now < Expiry(pending) /\ now' = now /\ (up' => up /\ equity' = equity)
      /\ \/ positions' = positions
         \/ FillOf(pending, t) > 0 /\ positions' = PositionRowsAfterFill(pending, FillOf(pending, t))
  BY DEF TradeConsumesQueue, TornConsume, TradeFills, TornFill, Interrupted, Killed, Survives, journal
<1>2. /\ Mirrored /\ Sound /\ pending.sig \in Signals /\ orders[pending.sig] = NewOrderRow(pending)
      /\ pending.status \in {"ACTIVE", "PARTIAL"}
  BY <1>1, ServedMirrors
<1>3. orders[pending.sig].status \in LiveStatus
  BY <1>2 DEF NewOrderRow, LiveStatus
<1>4. \E s \in Signals : Busy(s)
  BY <1>2, <1>3 DEF Busy, LiveOrders
<1>5. positions[pending.sig].status # "CLOSED"
  BY <1>2, <1>3 DEF Sound, RowsFollowSignals, RowsFollow
<1>6. \A s \in Signals : positions'[s].status = "CLOSED" \/ positions[s].status = "CLOSED" =>
        positions'[s] = positions[s]
  <2>1. CASE positions' = positions
    BY <2>1
  <2>2. CASE FillOf(pending, t) > 0 /\ positions' = PositionRowsAfterFill(pending, FillOf(pending, t))
    <3>1. /\ positions'[pending.sig].status = "OPEN"
          /\ \A s \in Signals : s # pending.sig => positions'[s] = positions[s]
      BY <1>1, <2>2, FillRows
    <3> QED
      BY <1>5, <3>1
  <2> QED
    BY <1>1, <2>1, <2>2
<1>7. ~Stranded
  BY <1>2 DEF Mirrored, NewPositionRow, Stranded
<1>8. now' \in Nat /\ now <= now'
  BY <1>1, <1>2 DEF Sound, TypeOK
<1> QED
  BY <1>1, <1>4, <1>6, <1>7, <1>8 DEF Keeping

(* A cancelled entry, its rows written or not, closes nothing.              *)
LEMMA CancelAccount ==
  ASSUME IInv, NEW sym, StreamBreak \/ TradeExpires(sym) \/ TornCancel
  PROVE  Keeping
<1>1. /\ up /\ pending # None /\ now' = now /\ positions' = positions /\ Sound
      /\ orders' = OrderRowsAfter(Cancelled(pending))
      /\ up' => equity' = equity /\ position' = position
  BY DEF StreamBreak, TradeExpires, TornCancel, Working, Mine, Receives, SettleOrder,
         Killed, Survives, IInv
<1>2. Moves(Cancelled(pending))
  BY <1>1, CancelledMoves
<1> QED
  BY <1>1, <1>2, SettlingAccount

(* A quote cut short before _close has closed nothing.                      *)
LEMMA QuoteStopsAccount ==
  ASSUME IInv, NEW sym, NEW q \in Quotes, MarkStops(sym, q) \/ RemainderStops(sym, q)
  PROVE  Keeping
<1> DEFINE o     == AfterQuote(sym, q)
           price == Executable(position.sig, q)
<1>1. /\ Receives /\ up /\ Holds(sym) /\ Sound /\ now' = now
      /\ up' => equity' = equity /\ position' = MarkedAt(position, price)
      /\ positions' = positions \/ positions' = RowsMarked(price)
  BY DEF MarkStops, RemainderStops, Quoted, Hears, Receives, Interrupted, Killed, Survives, IInv
<1>2. PICK r \in {o, RemainderCancelled(o), Cancelled(o)} :
        /\ orders' = OrderRowsAfter(r)
        /\ r = Cancelled(o) => Live(o) \/ r \in {o, RemainderCancelled(o)}
  BY DEF MarkStops, RemainderStops
<1>3. price \in Nat /\ Moves(o)
  BY <1>1, ExecutablePrice, QuoteMoves
<1> HIDE DEF o, price
<1>4. Moves(r)
  BY <1>1, <1>2, <1>3, RemainderMoves, CancelledMove
<1>5. position # None /\ MarkedAt(position, price) # None /\ MarkedAt(position, price).sig = position.sig
  BY <1>1, <1>3, MarkedMemory
<1> QED
  BY <1>1, <1>2, <1>3, <1>4, <1>5, SettlingAccount

(* One cut short inside _close has closed the row; its result is added up   *)
(* by the next start-up.                                                    *)
LEMMA TornCloseAccount ==
  ASSUME IInv, NEW sym, NEW q \in Quotes, TornClose(sym, q)
  PROVE  Closing
<1> DEFINE r     == RemainderCancelled(AfterQuote(sym, q))
           price == Executable(position.sig, q)
<1>1. /\ Receives /\ up /\ Holds(sym) /\ Sound /\ now' = now
      /\ Exits(position.sig, price) /\ RowOpen
      /\ orders' = OrderRowsAfter(r)
      /\ positions' = RowsAfterExit(price)
      /\ up' => position' = MarkedAt(position, price)
  BY DEF TornClose, Quoted, Hears, Receives, Interrupted, Killed, Survives, IInv
<1>2. price \in Nat /\ Moves(r) /\ Ended(r) /\ ~Live(r)
  BY <1>1, ExecutablePrice, HeldEnds
<1> HIDE DEF r, price
<1>3. pending # None => r # pending
  BY <1>1, <1>2 DEF Ended, Sound, SlotMemory, LiveStatus
<1>4. \A s \in Signals : orders'[s].status \notin LiveStatus
  BY <1>1, <1>2, <1>3, EndedNothingLive
<1>5. position # None /\ MarkedAt(position, price) # None /\ MarkedAt(position, price).sig = position.sig
  BY <1>1, <1>2, MarkedMemory
<1>6. positions'[position.sig].status = "CLOSED"
  BY <1>1, <1>2, <1>5, ExitColumns
<1>7. up' => Stranded'
  BY <1>1, <1>5, <1>6 DEF Stranded
<1> QED
  BY <1>1, <1>2, <1>4, <1>5, <1>7 DEF Closing

(* The clock, a kill, start-up, a decision without an entry's row, a quote   *)
(* whose first write is refused or that raises, and idling leave the rows   *)
(* alone.                                                                   *)
LEMMA IdleAccount ==
  ASSUME IInv, \/ Tick \/ Crash \/ Restart \/ UNCHANGED vars
               \/ \E s \in Signals : TornDecide(s)
               \/ \E s \in Signals, q \in Quotes, reference \in Prices, lots \in 0..MaxLots :
                    TornSubmit(s, q, reference, lots)
               \/ \E sym \in Symbols, q \in Quotes : TornAdvance(sym, q) \/ QuoteRaises(sym, q)
  PROVE  Keeping
<1>1. now \in Nat
  BY DEF IInv, Sound, TypeOK
<1>2. /\ orders' = orders /\ positions' = positions /\ (now' = now \/ now' = now + 1)
      /\ up' => \/ up /\ equity' = equity /\ position' = position
                \/ equity' = InitialEquity + RealizedPnl(positions)
  <2>1. CASE Tick \/ Crash \/ Restart \/ UNCHANGED vars
    BY <2>1 DEF Tick, Crash, Killed, Restart, vars, memory, journal
  <2>2. CASE \E s \in Signals : TornDecide(s)
    BY <2>2 DEF TornDecide, Interrupted, Killed, Survives, Stops
  <2>3. CASE \E s \in Signals, q \in Quotes, reference \in Prices, lots \in 0..MaxLots :
               TornSubmit(s, q, reference, lots)
    BY <2>3 DEF TornSubmit, Survives, Stops
  <2>4. CASE \E sym \in Symbols, q \in Quotes : TornAdvance(sym, q) \/ QuoteRaises(sym, q)
    BY <2>4 DEF TornAdvance, QuoteRaises, Survives, Stops, vars, memory, journal
  <2> QED
    BY <2>1, <2>2, <2>3, <2>4
<1> QED
  BY <1>1, <1>2, QuietAccount

(* Every step closes the one position or keeps what is closed.              *)
LEMMA StepCloses ==
  ASSUME IInv, [Next]_vars
  PROVE  Closing \/ Keeping
<1>1. ASSUME NEW s \in Signals, NEW q \in Quotes, NEW reference \in Prices, NEW lots \in 0..MaxLots,
             Decide(s, q, reference, lots) \/ TornSubmit(s, q, reference, lots)
      PROVE  Keeping
  BY <1>1, DecideAccount, IdleAccount
<1>2. ASSUME NEW sym \in Symbols, NEW q \in Quotes, OnQuote(sym, q) \/ QuoteRaises(sym, q)
      PROVE  Closing \/ Keeping
  BY <1>2, OnQuoteAccount, IdleAccount
<1>3. ASSUME NEW sym \in Symbols, NEW t \in Trades, OnTrade(sym, t)
      PROVE  Keeping
  BY <1>3, CancelAccount, ServingAccount DEF OnTrade
<1>4. CASE StreamBreak \/ TornCancel
  BY <1>4, CancelAccount
<1>5. ASSUME NEW sym \in Symbols, NEW q \in Quotes,
             \/ TornAdvance(sym, q)
             \/ TornQuote(sym, q)
             \/ TornClose(sym, q)
      PROVE  Closing \/ Keeping
  BY <1>5, IdleAccount, QuoteStopsAccount, TornCloseAccount DEF TornQuote
<1>6. ASSUME NEW sym \in Symbols, NEW t \in Trades, TornConsume(sym, t) \/ TornFill(sym, t)
      PROVE  Keeping
  BY <1>6, ServingAccount
<1>7. CASE Tick \/ Crash \/ Restart \/ UNCHANGED vars \/ \E s \in Signals : TornDecide(s)
  BY <1>7, IdleAccount
<1> QED
  BY <1>1, <1>2, <1>3, <1>4, <1>5, <1>6, <1>7 DEF Next

(* Nothing is booked in an empty journal, and nothing holds the slot.       *)
LEMMA InitAccount == Init => AccountInv
<1> SUFFICES ASSUME Init
             PROVE  AccountInv
  OBVIOUS
<1>1. /\ positions \in [Signals -> PositionRow] /\ equity = InitialEquity
      /\ \A s \in Signals : positions[s].status = "NONE" /\ orders[s].status = "NONE"
  BY InitIInv DEF Init, IInv, Sound, TypeOK, EmptyPositions, EmptyOrders, NoPositionRow, NoOrderRow
<1>2. ClosedPositions(positions) = {}
  BY <1>1 DEF ClosedPositions
<1>3. \A s \in Signals : ~Busy(s)
  BY <1>1 DEF Busy, LiveOrders, OpenPositions, LiveStatus
<1>4. RealizedPnl(positions) = 0
  BY <1>1, <1>2, QueriesAreProfits, ProfitOfRest
<1>5. equity = InitialEquity + RealizedPnl(positions)
  BY <1>1, <1>4, ExecutorAssumption
<1> QED
  BY <1>2, <1>3, <1>5 DEF AccountInv, ExitWithinExcursion

(* Closed rows left alone make what they made, in all and on every day.     *)
LEMMA SameAccounts ==
  ASSUME Keeping
  PROVE  /\ ClosedPositions(positions') = ClosedPositions(positions)
         /\ \A s \in ClosedPositions(positions) : positions'[s] = positions[s]
         /\ \A day : ClosedOnDay(positions', day) = ClosedOnDay(positions, day)
         /\ RealizedPnl(positions') = RealizedPnl(positions)
         /\ \A day : DailyRealizedPnl(positions', day) = DailyRealizedPnl(positions, day)
<1>1. /\ ClosedPositions(positions') = ClosedPositions(positions)
      /\ \A s \in ClosedPositions(positions) : positions'[s] = positions[s]
  BY DEF Keeping, ClosedPositions
<1>2. \A day : ClosedOnDay(positions', day) = ClosedOnDay(positions, day)
  BY <1>1 DEF ClosedOnDay
<1> DEFINE P == positions
           Q == positions'
<1>3. /\ ClosedPositions(P) \in SUBSET Signals
      /\ \A day : ClosedOnDay(P, day) \in SUBSET ClosedPositions(P)
  BY DEF ClosedPositions, ClosedOnDay
<1> HIDE DEF P, Q
<1>4. ASSUME NEW C \in SUBSET ClosedPositions(P)
      PROVE  Profit(Q, C) = Profit(P, C)
  <2>1. C \in SUBSET Signals /\ \A s \in C : P[s] = Q[s]
    BY <1>1, <1>3 DEF P, Q
  <2> QED
    BY <2>1, SameProfit
<1>5. RealizedPnl(Q) = RealizedPnl(P)
  BY <1>1, <1>4, QueriesAreProfits DEF P, Q
<1>6. ASSUME NEW day
      PROVE  DailyRealizedPnl(Q, day) = DailyRealizedPnl(P, day)
  <2>1. /\ DailyRealizedPnl(Q, day) = Profit(Q, ClosedOnDay(Q, day))
        /\ DailyRealizedPnl(P, day) = Profit(P, ClosedOnDay(P, day))
    BY QueriesAreProfits
  <2>2. ClosedOnDay(Q, day) = ClosedOnDay(P, day) /\ ClosedOnDay(P, day) \in SUBSET ClosedPositions(P)
    BY <1>2, <1>3 DEF P, Q
  <2> QED
    BY <1>4, <2>1, <2>2
<1> QED
  BY <1>1, <1>2, <1>5, <1>6 DEF P, Q

(* A day's result is an integer, and a day nothing closed on lost nothing.  *)
LEMMA DayIsBooked ==
  ASSUME positions \in [Signals -> PositionRow], NEW day
  PROVE  /\ DailyRealizedPnl(positions, day) \in Int
         /\ ClosedOnDay(positions, day) = {} => DailyRealizedPnl(positions, day) > -LossLimit
<1>1. ClosedOnDay(positions, day) \in SUBSET Signals
  BY DEF ClosedOnDay, ClosedPositions
<1>2. DailyRealizedPnl(positions, day) = Profit(positions, ClosedOnDay(positions, day))
  BY QueriesAreProfits
<1>3. Profit(positions, ClosedOnDay(positions, day)) \in Int /\ Profit(positions, {}) = 0
  BY <1>1, ProfitOfRest
<1> QED
  BY <1>2, <1>3, ExecutorAssumption

(* A step that closes nothing keeps the account; past midnight the day's    *)
(* losses start from nothing.                                               *)
LEMMA KeepingAccount ==
  ASSUME IInv, AccountInv, Keeping
  PROVE  AccountInv'
<1> USE SameAccounts
<1>1. (up /\ ~Stranded => equity = InitialEquity + RealizedPnl(positions))'
  BY DEF AccountInv, Keeping
<1>2. ExitWithinExcursion'
  BY DEF ExitWithinExcursion, AccountInv, Exits, StopHit, TargetHit
<1>3. now \in Nat /\ now' \in Nat /\ now <= now' /\ positions \in [Signals -> PositionRow]
  BY DEF Keeping, IInv, Sound, TypeOK
<1>4. \A s \in ClosedPositions(positions') : positions'[s].closed <= now'
  <2> SUFFICES ASSUME NEW s \in ClosedPositions(positions)
               PROVE  positions'[s].closed <= now'
    OBVIOUS
  <2>1. positions'[s].closed \in Nat /\ positions'[s].closed <= now
    BY <1>3 DEF AccountInv, PositionRow, ClosedPositions
  <2> QED
    BY <1>3, <2>1
<1>5. (\E s \in Signals : Busy(s))' => (DailyRealizedPnl(positions, Today) > -LossLimit)'
  <2> SUFFICES ASSUME (\E s \in Signals : Busy(s))'
               PROVE  DailyRealizedPnl(positions, Today') > -LossLimit
    OBVIOUS
  <2>1. DailyRealizedPnl(positions, Today) > -LossLimit
    <3>1. DailyRealizedPnl(positions, Today) \in Int /\ LossLimit \in Nat
      BY <1>3, DayIsBooked, ExecutorAssumption
    <3> QED
      BY <3>1 DEF Keeping, AccountInv
  <2>2. CASE Today' = Today
    BY <2>1, <2>2
  <2>3. CASE Today' # Today
    <3>1. ASSUME NEW s \in ClosedPositions(positions), positions[s].closed \div DayLength = Today'
          PROVE  FALSE
      <4>1. positions[s].closed \in Nat /\ positions[s].closed <= now
        BY <1>3 DEF AccountInv, PositionRow, ClosedPositions
      <4>2. positions[s].closed \div DayLength <= Today /\ Today <= Today'
        BY <1>3, <4>1, DaysPass DEF Today
      <4>3. Today \in Int /\ Today' \in Int
        BY <1>3, JournalAssumption DEF Today
      <4> QED
        BY <2>3, <3>1, <4>2, <4>3
    <3>2. ClosedOnDay(positions, Today') = {}
      BY <3>1 DEF ClosedOnDay
    <3> QED
      BY <1>3, <3>2, DayIsBooked
  <2> QED
    BY <2>2, <2>3
<1> QED
  BY <1>1, <1>2, <1>4, <1>5 DEF AccountInv

(* The one row an exit closes is added to what was closed before.           *)
LEMMA ClosedRowBooked ==
  ASSUME Sound, up, position # None, RowOpen, NEW price \in Nat, positions' = RowsAfterExit(price)
  PROVE  LET s == position.sig
         IN  /\ ClosedPositions(positions') = ClosedPositions(positions) \cup {s}
             /\ \A t \in ClosedPositions(positions) : t # s /\ positions'[t] = positions[t]
             /\ positions'[s].pnl \in Int /\ RealizedPnl(positions) \in Int
             /\ RealizedPnl(positions') = positions'[s].pnl + RealizedPnl(positions)
<1> DEFINE s == position.sig
           C == ClosedPositions(positions)
           P == positions
           Q == positions'
           E == C \cup {s}
<1>1. /\ s \in Signals /\ positions[s].status = "OPEN"
      /\ \A t \in Signals : t # s => positions'[t] = positions[t]
      /\ positions'[s].status = "CLOSED"
      /\ P \in [Signals -> PositionRow] /\ Q \in [Signals -> PositionRow]
  BY ExitColumns DEF Sound, TypeOK
<1>2. s \notin C /\ ClosedPositions(positions') = E
  BY <1>1 DEF ClosedPositions
<1>3. \A t \in C : t # s /\ P[t] = Q[t]
  BY <1>1, <1>2 DEF ClosedPositions
<1>4. C \in SUBSET Signals
  BY DEF ClosedPositions
<1>5. RealizedPnl(P) = Profit(P, C) /\ RealizedPnl(Q) = Profit(Q, E)
  BY <1>2, QueriesAreProfits
<1>6. E \in SUBSET Signals /\ s \in E /\ E \ {s} = C
  BY <1>1, <1>2, <1>4
<1>7. Q[s].pnl \in Int
  BY <1>1 DEF PositionRow
<1> HIDE DEF C, P, Q, E, s
<1>8. Profit(P, C) = Profit(Q, C)
  BY <1>3, <1>4, SameProfit
<1>9. Profit(P, C) \in Int
  BY <1>1, <1>4, ProfitOfRest
<1>10. Profit(Q, E) = Q[s].pnl + Profit(Q, E \ {s})
  BY <1>1, <1>6, ProfitOfRest
<1>11. Profit(Q, E) = Q[s].pnl + Profit(P, C)
  BY <1>6, <1>8, <1>10
<1> QED
  BY <1>2, <1>3, <1>5, <1>7, <1>9, <1>11 DEF C, P, Q, E, s

(* The excursion an exit writes covers the quote it leaves at, which is     *)
(* what the row books before slippage.                                      *)
LEMMA ExitCovered ==
  ASSUME Sound, up, position # None, RowOpen, NEW price \in Nat, Exits(position.sig, price),
         positions' = RowsAfterExit(price)
  PROVE  LET s     == position.sig
             r     == positions'[s]
             quote == r.exit + Direction(s) * Slippage
         IN  /\ Direction(s) * (r.best - quote) >= 0
             /\ Direction(s) * (quote - r.worst) >= 0
             /\ Exits(s, quote)
<1> DEFINE s     == position.sig
           r     == positions'[s]
           quote == r.exit + Direction(s) * Slippage
<1>1. /\ position.best \in Nat /\ position.worst \in Nat
      /\ r.exit = Slipped(s, price)
      /\ r.best = Better(s, position.best, price) /\ r.worst = Worse(s, position.worst, price)
  BY ExitColumns DEF MemoryPosition
<1>2. Direction(s) = 1 \/ Direction(s) = -1
  BY DEF Direction
<1>3. quote = price
  <2> DEFINE m == Direction(s) * Slippage
  <2>1. m \in Int
    BY <1>2, JournalAssumption
  <2>2. r.exit = price - m /\ quote = r.exit + m
    BY <1>1 DEF Slipped
  <2> HIDE DEF m, quote
  <2> QED
    BY <2>1, <2>2
<1> HIDE DEF quote, r
<1>4. Direction(s) * (r.best - quote) >= 0
  BY <1>1, <1>2, <1>3 DEF Better
<1>5. Direction(s) * (quote - r.worst) >= 0
  BY <1>1, <1>2, <1>3 DEF Worse
<1> QED
  BY <1>3, <1>4, <1>5 DEF quote, r

(* Closing books the trade, and nothing holds the slot any more: this was   *)
(* the last trade of a day whose losses reach the limit by it.              *)
LEMMA ClosingAccount ==
  ASSUME IInv, AccountInv, Closing
  PROVE  AccountInv'
<1>1. PICK price \in Nat :
        /\ up /\ position # None /\ RowOpen /\ Exits(position.sig, price)
        /\ positions' = RowsAfterExit(price)
        /\ up' => (position' = None /\ equity' = EquityAfterExit(price)) \/ Stranded'
        /\ now' = now
        /\ \A s \in Signals : orders'[s].status \notin LiveStatus
  BY DEF Closing
<1>2. Sound
  BY DEF IInv
<1>3. PICK s \in Signals : s = position.sig
  BY <1>1, <1>2, MemoryTypes
<1> DEFINE r == positions'[s]
           C == ClosedPositions(positions)
<1>4. /\ positions[s].status = "OPEN"
      /\ \A t \in Signals : t # s => positions'[t] = positions[t] /\ positions[t].status # "OPEN"
      /\ r.status = "CLOSED" /\ r.closed = now
      /\ r.pnl = NetPnl(position, Slipped(s, price))
  BY <1>1, <1>2, <1>3, ExitColumns
<1>5. /\ ClosedPositions(positions') = C \cup {s}
      /\ \A t \in C : t # s /\ positions'[t] = positions[t]
      /\ r.pnl \in Int /\ RealizedPnl(positions) \in Int
      /\ RealizedPnl(positions') = r.pnl + RealizedPnl(positions)
  BY <1>1, <1>2, <1>3, ClosedRowBooked
<1>6. ~(\E t \in Signals : Busy(t))'
  <2> SUFFICES ASSUME NEW t \in Signals, Busy(t)'
               PROVE  FALSE
    OBVIOUS
  <2>1. positions'[t].status = "OPEN"
    BY <1>1 DEF Busy, LiveOrders, OpenPositions
  <2> QED
    BY <1>4, <2>1
<1>7. (up /\ ~Stranded => equity = InitialEquity + RealizedPnl(positions))'
  <2> SUFFICES ASSUME up', ~Stranded'
               PROVE  equity' = InitialEquity + RealizedPnl(positions')
    OBVIOUS
  <2>1. equity' = equity + r.pnl
    BY <1>1, <1>3, <1>4 DEF EquityAfterExit
  <2>2. equity = InitialEquity + RealizedPnl(positions) /\ InitialEquity \in Nat
    BY <1>1, ExecutorAssumption DEF AccountInv, Stranded, RowOpen
  <2> HIDE DEF r
  <2> QED
    BY <1>5, <2>1, <2>2
<1>8. ExitWithinExcursion'
  <2> SUFFICES ASSUME NEW t \in ClosedPositions(positions')
               PROVE  LET x     == positions'[t]
                          quote == x.exit + Direction(t) * Slippage
                      IN  /\ Direction(t) * (x.best - quote) >= 0
                          /\ Direction(t) * (quote - x.worst) >= 0
                          /\ Exits(t, quote)
    BY DEF ExitWithinExcursion, Exits, StopHit, TargetHit
  <2>1. CASE t = s
    BY <1>1, <1>2, <1>3, <2>1, ExitCovered
  <2>2. CASE t \in C
    BY <1>5, <2>2 DEF AccountInv, ExitWithinExcursion
  <2> QED
    BY <1>5, <2>1, <2>2
<1>9. \A t \in ClosedPositions(positions') : positions'[t].closed <= now'
  <2> SUFFICES ASSUME NEW t \in ClosedPositions(positions')
               PROVE  positions'[t].closed <= now
    BY <1>1
  <2>1. CASE t = s
    BY <1>2, <1>4, <2>1 DEF Sound, TypeOK
  <2>2. CASE t \in C
    BY <1>5, <2>2 DEF AccountInv
  <2> QED
    BY <1>5, <2>1, <2>2
<1> QED
  BY <1>6, <1>7, <1>8, <1>9 DEF AccountInv

(* Every step keeps the account.                                            *)
LEMMA StepAccount ==
  ASSUME IInv, AccountInv, [Next]_vars
  PROVE  AccountInv'
  BY StepCloses, ClosingAccount, KeepingAccount

(* The account holds in every reachable state.                              *)
LEMMA Accounted == Spec => []AccountInv
<1>1. IInv /\ AccountInv /\ [Next]_vars => AccountInv'
  BY StepAccount
<1> QED
  BY <1>1, InitAccount, Invariance, PTL DEF Spec

(* The equity orders are sized with is the initial equity and every result  *)
(* in the journal, each counted once, through kills and restarts; only a    *)
(* process a write about whose position was refused may lack one.           *)
THEOREM EquityBooked == Spec => []EquityIsBooked
<1>1. IInv /\ AccountInv => EquityIsBooked
  <2> SUFFICES ASSUME IInv, AccountInv, up, ~Astray
               PROVE  equity = InitialEquity + RealizedPnl(positions)
    BY DEF EquityIsBooked
  <2>1. ~Stranded
    BY DEF IInv, Mirrored, NewPositionRow, Stranded
  <2> QED
    BY <2>1 DEF AccountInv
<1> QED
  BY <1>1, Accounted, Invariance, PTL

(* The excursion journalled for a closed trade covers the quote it left at, *)
(* which is the recorded exit before slippage, and that quote is an exit.   *)
THEOREM ExcursionsCover == Spec => []ExitWithinExcursion
<1>1. AccountInv => ExitWithinExcursion
  BY DEF AccountInv
<1> QED
  BY <1>1, Accounted, PTL

(* No trade closes on a day whose results had reached the loss limit before *)
(* it: the one in the slot when they reach it is the last of that day, also *)
(* when it was opened the day before, and whatever start-up restores.       *)
THEOREM DailyLimitHolds == Spec => NoTradePastDailyLimit
<1> DEFINE Step == \A s \in Signals :
                     positions[s].status = "OPEN" /\ positions'[s].status = "CLOSED" =>
                       DailyRealizedPnl(positions, now \div DayLength) > -LossLimit
<1>1. AccountInv => [Step]_positions
  <2> SUFFICES ASSUME AccountInv, NEW s \in Signals, positions[s].status = "OPEN"
               PROVE  DailyRealizedPnl(positions, now \div DayLength) > -LossLimit
    OBVIOUS
  <2>1. Busy(s)
    BY DEF Busy, OpenPositions
  <2> QED
    BY <2>1 DEF AccountInv, Today
<1> QED
  BY <1>1, Accounted, PTL DEF NoTradePastDailyLimit
=============================================================================
