------------------------ MODULE PaperLifecycleProofs ------------------------
(***************************************************************************)
(* What the journal shows of a signal.                                     *)
(*                                                                         *)
(* PaperExecutor implements TradeLifecycle: a signal starts as "new", and  *)
(* every step of the executor, wherever its process dies or one of its     *)
(* writes is refused, moves at most one signal one legal step forward, or  *)
(* is start-up giving up what was announced and never submitted.           *)
(*                                                                         *)
(* The three tables agree on it, as long as no handler stops between two   *)
(* writes of a fill: one such stop is all it takes to make them disagree.  *)
(***************************************************************************)
EXTENDS PaperExecutorProofs

(* Only an entry that never arrived can be without a row.                   *)
RowedOnceActive ==
  pending # None /\ pending.status # "PENDING" => orders[pending.sig].status # "NONE"

(* A step that makes o of the entry in flight and closes no position: its   *)
(* row says so, and its signal's row does, unless the process stopped.      *)
Settling(o) ==
  /\ Moves(o)
  /\ o # pending => orders[pending.sig].status # "NONE"
  /\ orders' = OrderRowsAfter(o)
  /\ \/ signals' = SignalsAfterCancel(signals, o)
     \/ signals' = signals /\ (~up' \/ (pending # None /\ pending.sig \in failed'))
  /\ \A s \in Signals :
       positions'[s].status = positions[s].status /\ positions'[s].qty = positions[s].qty
  /\ \/ pending' = None
     \/ /\ pending # None /\ pending'.sig = pending.sig /\ pending'.filled = pending.filled
        /\ pending'.status = "PARTIAL" => pending.status = "PARTIAL"
        /\ pending' = pending \/ orders'[pending.sig].status # "NONE"
  /\ up' => up /\ failed \subseteq failed'

(* A step that closes the position's row and ends its entry with it.        *)
Closing(o) ==
  /\ Moves(o) /\ Ended(o)
  /\ position # None /\ RowOpen
  /\ orders' = OrderRowsAfter(o)
  /\ \/ signals' = [SignalsAfterCancel(signals, o) EXCEPT ![position.sig] = "CLOSED"]
     \/ "close" \in Torn /\ signals' = SignalsAfterCancel(signals, o)
  /\ \A s \in Signals :
       /\ positions'[s].status = IF s = position.sig THEN "CLOSED" ELSE positions[s].status
       /\ positions'[s].qty = positions[s].qty
  /\ pending' = None
  /\ up' => up /\ failed \subseteq failed'

(* A decision that stopped after its signal's row.                          *)
Announces(s) ==
  /\ signals[s] = "NONE"
  /\ signals' = [signals EXCEPT ![s] = "TRIGGERED"]
  /\ UNCHANGED <<orders, positions>>
  /\ up' => up /\ failed \subseteq failed' /\ s \in failed'
  /\ \/ pending' = None \/ pending' = pending
     \/ pending'.sig = s /\ pending'.status = "PENDING" /\ pending'.filled = 0

(* What moved and is still in flight has a row, or did not move.            *)
LEMMA MovedInFlight ==
  ASSUME Sound, NEW o, Moves(o), orders' = OrderRowsAfter(o), pending' = InFlight(o)
  PROVE  \/ pending' = None
         \/ /\ pending # None /\ pending'.sig = pending.sig /\ pending'.filled = pending.filled
            /\ pending'.status = "PARTIAL" => pending.status = "PARTIAL"
            /\ pending' = pending \/ orders'[pending.sig].status # "NONE"
<1> SUFFICES ASSUME pending' # None
             PROVE  /\ pending # None /\ pending'.sig = pending.sig /\ pending'.filled = pending.filled
                    /\ pending'.status = "PARTIAL" => pending.status = "PARTIAL"
                    /\ pending' = pending \/ orders'[pending.sig].status # "NONE"
  OBVIOUS
<1>1. pending' = o /\ pending # None /\ o.sig = pending.sig /\ o.filled = pending.filled
  BY MovedLive
<1>2. o.status = "PARTIAL" => pending.status = "PARTIAL"
  BY <1>1 DEF Moves
<1>3. o # pending => orders'[pending.sig].status = o.status /\ o.status # "NONE"
  BY WrittenRows DEF Moves, LiveStatus
<1> QED
  BY <1>1, <1>2, <1>3

(* An entry left alone.                                                     *)
LEMMA LeftAlone ==
  ASSUME Sound
  PROVE  /\ Moves(pending) /\ OrderRowsAfter(pending) = orders
         /\ SignalsAfterCancel(signals, pending) = signals
  BY DEF Moves, OrderRowsAfter, SignalsAfterCancel, Sound, SlotMemory, LiveStatus

(* A stopped handler never brings the process up.                           *)
LEMMA InterruptedOnward ==
  ASSUME NEW s, NEW o, NEW p, NEW h, Interrupted(s, o, p, h)
  PROVE  /\ up' => up /\ failed \subseteq failed' /\ s \in failed'
         /\ pending' = None \/ pending' = o
  BY DEF Interrupted, Killed, Survives, Stops

(* Marking the position changes neither a status nor a size.                *)
LEMMA MarkingKeeps ==
  ASSUME Sound, NEW sym, Holds(sym), NEW price \in Nat,
         positions' = positions \/ positions' = RowsMarked(price)
  PROVE  \A s \in Signals :
           positions'[s].status = positions[s].status /\ positions'[s].qty = positions[s].qty
  BY MarkedRows DEF Holds

(* The entry a quote moves has a row, and is the held position's.           *)
LEMMA QuotedRow ==
  ASSUME Sound, NEW sym, NEW q, Quoted(sym, q)
  PROVE  /\ AfterQuote(sym, q) # pending => orders[pending.sig].status # "NONE"
         /\ Holds(sym) /\ pending # None => orders[pending.sig].status # "NONE"
  BY DEF Sound, SlotMemory, Quoted, Recorded, AfterQuote, Mine, Holds

(* on_quote settles the entry, or closes the position with it.              *)
LEMMA OnQuoteKind ==
  ASSUME IInv, NEW sym, NEW q \in Quotes, OnQuote(sym, q)
  PROVE  \E o : Settling(o) \/ Closing(o)
<1> DEFINE o     == AfterQuote(sym, q)
           price == Executable(position.sig, q)
           r     == RemainderCancelled(o)
<1>1. /\ Receives /\ up /\ up' = up /\ failed' = failed /\ Quoted(sym, q)
      /\ \/ ~Holds(sym) /\ QuoteAdvances(o)
         \/ Holds(sym) /\ QuoteMarks(o, price)
         \/ Holds(sym) /\ RowOpen /\ QuoteCloses(o, price)
         \/ Holds(sym) /\ QuoteMarks(r, price)
  BY DEF OnQuote, Quoted, Hears, Receives
<1>2. Moves(o) /\ Sound /\ Moves(r)
  BY <1>1, QuoteMoves, RemainderMoves DEF IInv
<1>3. price \in Nat
  BY ExecutablePrice
<1>4. Holds(sym) => position # None /\ Ended(r)
  BY <1>1, HeldEnds DEF Holds
<1>5. /\ o # pending => orders[pending.sig].status # "NONE"
      /\ Holds(sym) /\ pending # None => orders[pending.sig].status # "NONE"
  BY <1>1, <1>2, QuotedRow
<1>6. QuoteCloses(o, price) =>
        /\ SettleOrder(r)
        /\ signals' = [SignalsAfterCancel(signals, r) EXCEPT ![position.sig] = "CLOSED"]
        /\ positions' = RowsAfterExit(price)
  BY DEF QuoteCloses
<1>7. r # pending => pending # None
  BY <1>2, MovedLive
<1> HIDE DEF o, price, r
<1>8. CASE QuoteAdvances(o)
  <2>1. /\ orders' = OrderRowsAfter(o) /\ pending' = InFlight(o)
        /\ signals' = SignalsAfterCancel(signals, o) /\ positions' = positions
    BY <1>8 DEF QuoteAdvances, SettleOrder
  <2>2. Settling(o)
    BY <1>1, <1>2, <1>5, <2>1, MovedInFlight DEF Settling
  <2> QED
    BY <2>2
<1>9. ASSUME NEW x, x = o \/ x = r, Holds(sym), QuoteMarks(x, price)
      PROVE  Settling(x)
  <2>1. /\ orders' = OrderRowsAfter(x) /\ pending' = InFlight(x)
        /\ signals' = SignalsAfterCancel(signals, x) /\ positions' = RowsMarked(price)
    BY <1>9 DEF QuoteMarks, SettleOrder
  <2>2. \A s \in Signals :
          positions'[s].status = positions[s].status /\ positions'[s].qty = positions[s].qty
    BY <1>2, <1>3, <1>9, <2>1, MarkingKeeps
  <2>3. Moves(x) /\ (x # pending => orders[pending.sig].status # "NONE")
    BY <1>2, <1>5, <1>7, <1>9
  <2> QED
    BY <1>1, <1>2, <2>1, <2>2, <2>3, MovedInFlight DEF Settling
<1>10. CASE Holds(sym) /\ RowOpen /\ QuoteCloses(o, price)
  <2>1. /\ orders' = OrderRowsAfter(r) /\ pending' = InFlight(r)
        /\ signals' = [SignalsAfterCancel(signals, r) EXCEPT ![position.sig] = "CLOSED"]
        /\ positions' = RowsAfterExit(price) /\ Ended(r) /\ position # None
    BY <1>4, <1>6, <1>10 DEF SettleOrder
  <2>2. pending' = None
    <3>1. pending # None => r # pending /\ ~Live(r)
      BY <1>2, <2>1 DEF Ended, Sound, SlotMemory, LiveStatus, Live
    <3>2. pending = None => r = None
      BY <1>2, MovedLive
    <3> QED
      BY <2>1, <3>1, <3>2 DEF InFlight
  <2>3. \A s \in Signals :
          /\ positions'[s].status = IF s = position.sig THEN "CLOSED" ELSE positions[s].status
          /\ positions'[s].qty = positions[s].qty
    BY <1>1, <1>2, <1>3, <1>10, <2>1, ExitRows
  <2>4. Closing(r)
    BY <1>1, <1>2, <1>10, <2>1, <2>2, <2>3 DEF Closing
  <2> QED
    BY <2>4
<1> QED
  BY <1>1, <1>8, <1>9, <1>10

(* A trade settles the entry, or fills it.                                  *)
LEMMA OnTradeKind ==
  ASSUME IInv, RowedOnceActive, NEW sym, NEW t \in Trades, OnTrade(sym, t)
  PROVE  (\E o : Settling(o)) \/ TradeFills(sym, t)
<1>1. CASE TradeExpires(sym)
  <2>1. /\ up /\ up' = up /\ failed' = failed /\ pending # None /\ Sound
        /\ pending.status \in {"ACTIVE", "PARTIAL"}
        /\ orders' = OrderRowsAfter(Cancelled(pending)) /\ pending' = InFlight(Cancelled(pending))
        /\ signals' = SignalsAfterCancel(signals, Cancelled(pending)) /\ positions' = positions
    BY <1>1 DEF TradeExpires, Working, Mine, Receives, SettleOrder, IInv
  <2>2. Moves(Cancelled(pending)) /\ orders[pending.sig].status # "NONE"
    BY <2>1, CancelledMoves DEF RowedOnceActive
  <2>3. Settling(Cancelled(pending))
    BY <2>1, <2>2, MovedInFlight DEF Settling
  <2> QED
    BY <2>3
<1>2. CASE TradeConsumesQueue(sym, t)
  <2> DEFINE o == Served(pending, t)
  <2>1. /\ Working(sym) /\ now < Expiry(pending) /\ FillOf(pending, t) = 0
        /\ orders' = OrderRowsAfter(o) /\ pending' = InFlight(o)
        /\ UNCHANGED <<up, signals, positions, failed>>
    BY <1>2 DEF TradeConsumesQueue, SettleOrder
  <2>2. /\ Mirrored /\ Sound /\ up /\ pending # None /\ pending.filled <= pending.qty
        /\ pending \in MemoryOrder /\ orders[pending.sig] = NewOrderRow(pending)
        /\ pending.status \in {"ACTIVE", "PARTIAL"}
    BY <2>1, ServedMirrors
  <2>3. /\ o \in MemoryOrder /\ o.sig = pending.sig /\ o.status = pending.status
        /\ o.created = pending.created /\ o.entry = pending.entry /\ o.qty = pending.qty
        /\ o.filled = pending.filled + FillOf(pending, t)
    BY <2>2, ServedFacts
  <2> HIDE DEF o
  <2>4. o.filled = pending.filled
    BY <2>1, <2>2, <2>3 DEF MemoryOrder
  <2>5. orders[pending.sig].status \in LiveStatus /\ o.status \in LiveStatus
    BY <2>2, <2>3 DEF NewOrderRow, LiveStatus
  <2>6. Moves(o)
    BY <2>2, <2>3, <2>4, <2>5 DEF Moves
  <2>7. signals' = SignalsAfterCancel(signals, o)
    BY <2>1, <2>5 DEF SignalsAfterCancel, LiveStatus
  <2>8. Settling(o)
    BY <2>1, <2>2, <2>5, <2>6, <2>7, MovedInFlight DEF Settling, LiveStatus
  <2> QED
    BY <2>8
<1> QED
  BY <1>1, <1>2 DEF OnTrade

(* A broken stream settles the entry.                                       *)
LEMMA StreamBreakKind ==
  ASSUME IInv, StreamBreak
  PROVE  \E o : Settling(o)
<1>1. /\ up /\ up' = up /\ failed' = failed /\ pending # None /\ Sound
      /\ orders[pending.sig].status # "NONE"
      /\ orders' = OrderRowsAfter(Cancelled(pending)) /\ pending' = InFlight(Cancelled(pending))
      /\ signals' = SignalsAfterCancel(signals, Cancelled(pending)) /\ positions' = positions
  BY DEF StreamBreak, Receives, Recorded, SettleOrder, IInv
<1>2. Moves(Cancelled(pending))
  BY <1>1, CancelledMoves
<1>3. Settling(Cancelled(pending))
  BY <1>1, <1>2, MovedInFlight DEF Settling
<1> QED
  BY <1>3

(* So does a cancellation cut short before its signal's row.                *)
LEMMA TornCancelKind ==
  ASSUME IInv, TornCancel
  PROVE  \E o : Settling(o)
<1>1. /\ pending # None /\ Sound /\ orders[pending.sig].status # "NONE"
      /\ orders' = OrderRowsAfter(Cancelled(pending)) /\ UNCHANGED <<signals, positions>>
      /\ Interrupted(pending.sig, pending, position, tape)
  BY DEF TornCancel, Recorded, Interrupted, IInv
<1>2. Moves(Cancelled(pending)) /\ Cancelled(pending) # pending
  BY <1>1, CancelledMoves
<1>3. orders'[pending.sig].status # "NONE"
  BY <1>1, <1>2, WrittenRows DEF Moves, LiveStatus
<1>4. /\ up' => up /\ failed \subseteq failed' /\ pending.sig \in failed'
      /\ pending' = None \/ pending' = pending
  BY <1>1, InterruptedOnward
<1>5. Settling(Cancelled(pending))
  BY <1>1, <1>2, <1>3, <1>4 DEF Settling
<1> QED
  BY <1>5

(* A quote's write of an arrival or of a grown queue, refused.              *)
LEMMA TornAdvanceKind ==
  ASSUME IInv, NEW sym, NEW q \in Quotes, TornAdvance(sym, q)
  PROVE  \E o : Settling(o)
<1> DEFINE o == AfterQuote(sym, q)
<1>1. /\ Receives /\ Live(o) /\ o # pending /\ UNCHANGED <<signals, orders, positions>> /\ Sound
      /\ Interrupted(o.sig, o, position, TapeAfterQuote(o, q))
  BY DEF TornAdvance, Quoted, Hears, journal, Interrupted, IInv
<1>2. Moves(o)
  BY <1>1, QuoteMoves
<1> HIDE DEF o
<1>3. /\ pending # None /\ o.sig = pending.sig /\ o.filled = pending.filled
      /\ o.status = "PARTIAL" => pending.status = "PARTIAL"
      /\ orders[pending.sig].status # "NONE"
  BY <1>1, <1>2 DEF Moves, Live, LiveStatus
<1>4. /\ up' => up /\ failed \subseteq failed'
      /\ pending' = None \/ pending' = o
  BY <1>1, InterruptedOnward
<1>5. /\ Moves(pending) /\ orders' = OrderRowsAfter(pending)
      /\ signals' = SignalsAfterCancel(signals, pending)
  BY <1>1, LeftAlone
<1>6. Settling(pending)
  BY <1>1, <1>3, <1>4, <1>5 DEF Settling
<1> QED
  BY <1>6

(* A trade's write of a shortened queue, refused.                           *)
LEMMA TornConsumeKind ==
  ASSUME IInv, NEW sym, NEW t \in Trades, TornConsume(sym, t)
  PROVE  \E o : Settling(o)
<1> DEFINE v == Served(pending, t)
<1>1. /\ Working(sym) /\ now < Expiry(pending) /\ FillOf(pending, t) = 0
      /\ UNCHANGED <<signals, orders, positions>>
      /\ Interrupted(pending.sig, v, position, TapeAfterTrade(t))
  BY DEF TornConsume, journal, Interrupted
<1>2. /\ Sound /\ pending # None /\ pending.filled <= pending.qty /\ pending \in MemoryOrder
      /\ orders[pending.sig] = NewOrderRow(pending) /\ pending.status \in {"ACTIVE", "PARTIAL"}
  BY <1>1, ServedMirrors
<1>3. v.sig = pending.sig /\ v.status = pending.status /\ v.filled = pending.filled + FillOf(pending, t)
  BY <1>2, ServedFacts
<1> HIDE DEF v
<1>4. v.filled = pending.filled
  BY <1>1, <1>2, <1>3 DEF MemoryOrder
<1>5. orders[pending.sig].status # "NONE"
  BY <1>2 DEF NewOrderRow
<1>6. /\ up' => up /\ failed \subseteq failed'
      /\ pending' = None \/ pending' = v
  BY <1>1, InterruptedOnward
<1>7. /\ Moves(pending) /\ orders' = OrderRowsAfter(pending)
      /\ signals' = SignalsAfterCancel(signals, pending)
  BY <1>1, <1>2, LeftAlone
<1>8. Settling(pending)
  BY <1>1, <1>2, <1>3, <1>4, <1>5, <1>6, <1>7 DEF Settling
<1> QED
  BY <1>8

(* A quote stopped before or after the exit's cancellation.                 *)
LEMMA MarkStopsKind ==
  ASSUME IInv, NEW sym, NEW q \in Quotes, MarkStops(sym, q)
  PROVE  \E o : Settling(o)
<1> DEFINE o     == AfterQuote(sym, q)
           price == Executable(position.sig, q)
<1>1. Receives /\ Holds(sym) /\ Sound /\ Quoted(sym, q)
  BY DEF MarkStops, Quoted, Hears, IInv
<1>2. Moves(o) /\ Moves(RemainderCancelled(o))
  BY <1>1, QuoteMoves, RemainderMoves
<1>3. price \in Nat
  BY ExecutablePrice
<1>4. PICK r \in {o, RemainderCancelled(o)} :
        /\ orders' = OrderRowsAfter(r)
        /\ signals' = SignalsAfterCancel(signals, r)
        /\ positions' = positions \/ positions' = RowsMarked(price)
        /\ Interrupted(position.sig, InFlight(r), MarkedAt(position, price), TapeAfterQuote(r, q))
  BY DEF MarkStops
<1>5. pending # None => orders[pending.sig].status # "NONE"
  BY <1>1, QuotedRow
<1> HIDE DEF o, price
<1>6. Moves(r) /\ (r # pending => orders[pending.sig].status # "NONE")
  BY <1>1, <1>2, <1>4, <1>5, MovedLive
<1>7. \A s \in Signals :
        positions'[s].status = positions[s].status /\ positions'[s].qty = positions[s].qty
  BY <1>1, <1>3, <1>4, MarkingKeeps
<1>8. /\ up' => up /\ failed \subseteq failed'
      /\ pending' = None \/ pending' = InFlight(r)
  BY <1>4, InterruptedOnward
<1>9. Settling(r)
  BY <1>1, <1>4, <1>6, <1>7, <1>8, MovedInFlight DEF Settling
<1> QED
  BY <1>9

(* A quote stopped inside the exit's cancellation.                          *)
LEMMA RemainderStopsKind ==
  ASSUME IInv, NEW sym, NEW q \in Quotes, RemainderStops(sym, q)
  PROVE  \E o : Settling(o)
<1> DEFINE o     == AfterQuote(sym, q)
           price == Executable(position.sig, q)
<1>1. /\ Receives /\ Holds(sym) /\ Sound /\ Quoted(sym, q) /\ Live(o)
      /\ orders' = OrderRowsAfter(Cancelled(o)) /\ signals' = signals
      /\ positions' = RowsMarked(price)
      /\ Interrupted(position.sig, o, MarkedAt(position, price), TapeAfterQuote(o, q))
  BY DEF RemainderStops, Quoted, Hears, IInv
<1>2. Moves(o) /\ Moves(Cancelled(o)) /\ Cancelled(o) # pending
  BY <1>1, QuoteMoves, CancelledMove
<1>3. price \in Nat
  BY ExecutablePrice
<1>4. pending # None => orders[pending.sig].status # "NONE"
  BY <1>1, QuotedRow
<1> HIDE DEF o, price
<1>5. /\ pending # None /\ o.sig = pending.sig /\ o.filled = pending.filled
      /\ o.status = "PARTIAL" => pending.status = "PARTIAL"
      /\ position # None /\ position.sig = pending.sig
  BY <1>1, <1>2, MovedLive DEF Moves, Live, Holds, Sound, SlotMemory
<1>6. orders'[pending.sig].status # "NONE"
  BY <1>1, <1>2, WrittenRows DEF Moves, LiveStatus
<1>7. \A s \in Signals :
        positions'[s].status = positions[s].status /\ positions'[s].qty = positions[s].qty
  BY <1>1, <1>3, MarkingKeeps
<1>8. /\ up' => up /\ failed \subseteq failed' /\ pending.sig \in failed'
      /\ pending' = None \/ pending' = o
  BY <1>1, <1>5, InterruptedOnward
<1>9. Settling(Cancelled(o))
  BY <1>1, <1>2, <1>4, <1>5, <1>6, <1>7, <1>8 DEF Settling
<1> QED
  BY <1>9

(* _close stopped before its signal's row closes the position all the same. *)
LEMMA TornCloseKind ==
  ASSUME IInv, NEW sym, NEW q \in Quotes, TornClose(sym, q)
  PROVE  \E o : Closing(o)
<1> DEFINE r     == RemainderCancelled(AfterQuote(sym, q))
           price == Executable(position.sig, q)
<1>1. /\ Receives /\ up /\ Holds(sym) /\ Sound /\ RowOpen /\ "close" \in Torn
      /\ orders' = OrderRowsAfter(r)
      /\ signals' = SignalsAfterCancel(signals, r)
      /\ positions' = RowsAfterExit(price)
      /\ Interrupted(position.sig, InFlight(r), MarkedAt(position, price), FreshTape)
  BY DEF TornClose, Tears, Quoted, Hears, Receives, IInv
<1>2. Moves(r) /\ Ended(r)
  BY <1>1, HeldEnds
<1>3. price \in Nat /\ position # None
  BY <1>1, ExecutablePrice DEF Holds
<1>4. /\ up' => up /\ failed \subseteq failed'
      /\ pending' = None \/ pending' = InFlight(r)
  BY <1>1, InterruptedOnward
<1> HIDE DEF r, price
<1>5. InFlight(r) = None
  <2>1. pending # None => r # pending /\ ~Live(r)
    BY <1>1, <1>2 DEF Ended, Sound, SlotMemory, LiveStatus, Live
  <2>2. pending = None => r = None
    BY <1>1, <1>2, MovedLive
  <2> QED
    BY <2>1, <2>2 DEF InFlight
<1>6. \A s \in Signals :
        /\ positions'[s].status = IF s = position.sig THEN "CLOSED" ELSE positions[s].status
        /\ positions'[s].qty = positions[s].qty
  BY <1>1, <1>3, ExitRows
<1>7. Closing(r)
  BY <1>1, <1>2, <1>3, <1>4, <1>5, <1>6 DEF Closing
<1> QED
  BY <1>7

(* A decision stopped with or without its entry in memory announces it.     *)
LEMMA TornDecisionKind ==
  ASSUME IInv, NEW s \in Signals,
         \/ TornDecide(s)
         \/ \E q \in Quotes, reference \in Prices, lots \in 0..MaxLots : TornSubmit(s, q, reference, lots)
  PROVE  Announces(s)
<1>1. CASE TornDecide(s)
  <2>1. /\ signals[s] = "NONE" /\ signals' = [signals EXCEPT ![s] = "TRIGGERED"]
        /\ UNCHANGED <<orders, positions>> /\ Interrupted(s, pending, position, tape)
    BY <1>1 DEF TornDecide, Decides, Fresh
  <2> QED
    BY <2>1, InterruptedOnward DEF Announces
<1>2. ASSUME NEW q \in Quotes, NEW reference \in Prices, NEW lots \in 0..MaxLots,
             TornSubmit(s, q, reference, lots)
      PROVE  Announces(s)
  <2> DEFINE o == NewOrder(s, Executable(s, q), lots)
  <2>1. /\ signals[s] = "NONE" /\ signals' = [signals EXCEPT ![s] = "TRIGGERED"]
        /\ UNCHANGED <<orders, positions>> /\ Interrupted(s, o, position, FreshTape)
    BY <1>2 DEF TornSubmit, Decides, Fresh, Interrupted
  <2>2. o.sig = s /\ o.status = "PENDING" /\ o.filled = 0
    BY DEF NewOrder
  <2> HIDE DEF o
  <2> QED
    BY <2>1, <2>2, InterruptedOnward DEF Announces
<1> QED
  BY <1>1, <1>2

(* Whatever leaves the journal and the entry alone settles nothing.         *)
LEMMA QuietKind ==
  ASSUME Sound, UNCHANGED journal, pending' = pending \/ pending' = None,
         up' => up /\ failed \subseteq failed'
  PROVE  Settling(pending)
  BY LeftAlone DEF Settling, journal

(* Every step is one of these kinds.                                        *)
LEMMA StepKind ==
  ASSUME IInv, RowedOnceActive, [Next]_vars
  PROVE  \/ \E o : Settling(o)
         \/ \E o : Closing(o)
         \/ \E s \in Signals : Announces(s)
         \/ \E s \in Signals, q \in Quotes, reference \in Prices, lots \in 0..MaxLots :
              Decide(s, q, reference, lots)
         \/ \E sym \in Symbols, t \in Trades : TradeFills(sym, t) \/ TornFill(sym, t)
         \/ Restart
<1>0. Sound
  BY DEF IInv
<1>1. ASSUME NEW sym \in Symbols, NEW q \in Quotes, OnQuote(sym, q)
      PROVE  \E o : Settling(o) \/ Closing(o)
  BY <1>1, OnQuoteKind
<1>2. CASE UNCHANGED vars
  <2>1. Settling(pending)
    BY <1>0, <1>2, QuietKind DEF vars, memory
  <2> QED
    BY <2>1
<1>3. CASE Tick
  <2>1. Settling(pending)
    BY <1>0, <1>3, QuietKind DEF Tick, memory
  <2> QED
    BY <2>1
<1>4. CASE Crash
  <2>1. Settling(pending)
    BY <1>0, <1>4, QuietKind DEF Crash, Killed
  <2> QED
    BY <2>1
<1>5. ASSUME NEW sym \in Symbols, NEW q \in Quotes, QuoteRaises(sym, q)
      PROVE  UNCHANGED vars
  BY <1>5 DEF QuoteRaises
<1>6. ASSUME NEW sym \in Symbols, NEW t \in Trades, OnTrade(sym, t)
      PROVE  (\E o : Settling(o)) \/ TradeFills(sym, t)
  BY <1>6, OnTradeKind
<1>7. ASSUME NEW s \in Signals, TornDecide(s)
      PROVE  Announces(s)
  BY <1>7, TornDecisionKind
<1>8. ASSUME NEW s \in Signals, NEW q \in Quotes, NEW reference \in Prices, NEW lots \in 0..MaxLots,
             TornSubmit(s, q, reference, lots)
      PROVE  Announces(s)
  BY <1>8, TornDecisionKind
<1>9. ASSUME NEW sym \in Symbols, NEW q \in Quotes,
             \/ TornAdvance(sym, q)
             \/ TornQuote(sym, q)
             \/ TornClose(sym, q)
      PROVE  \E o : Settling(o) \/ Closing(o)
  BY <1>9, TornAdvanceKind, MarkStopsKind, RemainderStopsKind, TornCloseKind DEF TornQuote
<1>10. ASSUME NEW sym \in Symbols, NEW t \in Trades, TornConsume(sym, t)
       PROVE  \E o : Settling(o)
  BY <1>10, TornConsumeKind
<1> QED
  BY <1>1, <1>2, <1>3, <1>4, <1>5, <1>6, <1>7, <1>8, <1>9, <1>10, StreamBreakKind, TornCancelKind DEF Next

(* A fill, whole or cut short, leaves no entry without a row.               *)
LEMMA FillRowed ==
  ASSUME IInv, NEW sym, NEW t \in Trades, TradeFills(sym, t) \/ TornFill(sym, t)
  PROVE  RowedOnceActive'
<1>1. Working(sym) /\ now < Expiry(pending) /\ FillOf(pending, t) > 0
  BY DEF TradeFills, TornFill
<1>2. /\ orders[pending.sig].status \in {"ACTIVE", "PARTIAL"} /\ pending.sig \in Signals
      /\ orders \in [Signals -> OrderRow]
  BY <1>1, ServedMirrors DEF NewOrderRow, Sound, TypeOK
<1> DEFINE o == Filled(pending, t)
<1>3. /\ o.sig = pending.sig /\ o.status \in {"PARTIAL", "FILLED"}
      /\ OrderRowFilled(orders[pending.sig], o) = NewOrderRow(o)
      /\ Served(pending, t).sig = pending.sig
  BY <1>1, FillFacts, ServedMirrors, ServedFacts
<1>4. CASE TradeFills(sym, t)
  <2>1. /\ pending' = (IF o.status = "FILLED" THEN None ELSE o)
        /\ orders' = [orders EXCEPT ![o.sig] = OrderRowFilled(@, o)]
    BY <1>4 DEF TradeFills
  <2> HIDE DEF o
  <2>2. orders'[pending.sig].status = o.status
    BY <1>2, <1>3, <2>1 DEF NewOrderRow
  <2> QED
    BY <1>3, <2>1, <2>2 DEF RowedOnceActive
<1>5. CASE TornFill(sym, t)
  <2>1. orders' = orders /\ pending' \in {None, Served(pending, t), o}
    BY <1>5 DEF TornFill, Interrupted, Killed, Survives
  <2> HIDE DEF o
  <2> QED
    BY <1>2, <1>3, <2>1 DEF RowedOnceActive
<1> QED
  BY <1>4, <1>5

(* An entry that arrived has a row after every step.                        *)
LEMMA StepRowed ==
  ASSUME IInv, RowedOnceActive, [Next]_vars
  PROVE  RowedOnceActive'
<1>0. Sound
  BY DEF IInv
<1>1. ASSUME NEW o, Settling(o)
      PROVE  RowedOnceActive'
  <2>1. Moves(o) /\ orders' = OrderRowsAfter(o)
    BY <1>1 DEF Settling
  <2>2. \/ pending' = None
        \/ /\ pending # None /\ pending'.sig = pending.sig
           /\ pending' = pending \/ orders'[pending.sig].status # "NONE"
    BY <1>1 DEF Settling
  <2>3. o = pending => orders' = orders
    BY <2>1 DEF OrderRowsAfter
  <2>4. o # pending => orders'[pending.sig].status = o.status /\ o.status # "NONE"
    BY <1>0, <2>1, WrittenRows DEF Moves, LiveStatus
  <2> QED
    BY <2>2, <2>3, <2>4 DEF RowedOnceActive
<1>2. ASSUME NEW o, Closing(o)
      PROVE  RowedOnceActive'
  BY <1>2 DEF Closing, RowedOnceActive
<1>3. ASSUME NEW s \in Signals, Announces(s)
      PROVE  RowedOnceActive'
  BY <1>3 DEF Announces, RowedOnceActive
<1>4. ASSUME NEW s \in Signals, NEW q \in Quotes, NEW reference \in Prices, NEW lots \in 0..MaxLots,
             Decide(s, q, reference, lots)
      PROVE  RowedOnceActive'
  <2>1. \/ pending' = NewOrder(s, Executable(s, q), lots)
        \/ pending' = pending /\ orders' = orders
    BY <1>4 DEF Decide
  <2> QED
    BY <2>1 DEF RowedOnceActive, NewOrder
<1>5. CASE Restart
  <2>1. pending' = RestoredOrder /\ orders' = orders
    BY <1>5 DEF Restart
  <2>2. RestoredOrder # None => orders[RestoredOrder.sig].status \in LiveStatus
    BY <1>0, RestoredFacts DEF Sound, LiveOrders
  <2> QED
    BY <2>1, <2>2 DEF RowedOnceActive, LiveStatus
<1> QED
  BY <1>1, <1>2, <1>3, <1>4, <1>5, StepKind, FillRowed

(* Both hold throughout.                                                    *)
LEMMA RowedInvariance == Spec => [](IInv /\ RowedOnceActive)
<1>1. Init => IInv /\ RowedOnceActive
  BY InitIInv DEF Init, RowedOnceActive
<1>2. IInv /\ RowedOnceActive /\ [Next]_vars => (IInv /\ RowedOnceActive)'
  BY StepKeeps, StepRowed
<1> QED
  BY <1>1, <1>2, PTL DEF Spec

(* One signal's stage moved and no other did.                               *)
LEMMA MoveStage ==
  ASSUME NEW s \in Signals, NEW to, StageOf(s)' = to,
         \A t \in Signals : t # s => StageOf(t)' = StageOf(t)
  PROVE  Lifecycle!Move(s, to)
  BY DEF Lifecycle!Move

(* No stage moved.                                                          *)
LEMMA KeepStages ==
  ASSUME \A t \in Signals : StageOf(t)' = StageOf(t)
  PROVE  UNCHANGED [s \in Signals |-> StageOf(s)]
  OBVIOUS

(* A stage is a function of three columns of the journal.                   *)
LEMMA SameRowsSameStage ==
  ASSUME NEW s \in Signals, positions'[s].status = positions[s].status,
         orders'[s].status = orders[s].status, signals'[s] = signals[s]
  PROVE  StageOf(s)' = StageOf(s)
  BY DEF StageOf, LiveOrders

(* An empty journal shows every signal as new.                              *)
LEMMA InitStages == Init => Lifecycle!Init
<1> SUFFICES ASSUME Init
             PROVE  [s \in Signals |-> StageOf(s)] = [s \in Signals |-> "new"]
  BY DEF Lifecycle!Init
<1>1. ASSUME NEW s \in Signals
      PROVE  StageOf(s) = "new"
  BY DEF Init, EmptySignals, EmptyOrders, EmptyPositions, NoOrderRow, NoPositionRow, StageOf,
         LiveOrders, LiveStatus
<1> QED
  BY <1>1

(* Settling the entry in flight leaves every stage alone, unless it ends    *)
(* while its signal shows it working and holds no position: then the signal *)
(* is missed.                                                               *)
LEMMA SettleStages ==
  ASSUME Sound, NEW o, Settling(o)
  PROVE  Lifecycle!Next \/ UNCHANGED [s \in Signals |-> StageOf(s)]
<1>1. /\ Moves(o) /\ orders' = OrderRowsAfter(o)
      /\ signals' = SignalsAfterCancel(signals, o) \/ signals' = signals
      /\ \A s \in Signals : positions'[s].status = positions[s].status
      /\ o # pending => orders[pending.sig].status # "NONE"
  BY DEF Settling
<1>2. \A s \in Signals : o = pending \/ pending = None \/ s # pending.sig => StageOf(s)' = StageOf(s)
  <2> SUFFICES ASSUME NEW s \in Signals, o = pending \/ pending = None \/ s # pending.sig
               PROVE  StageOf(s)' = StageOf(s)
    OBVIOUS
  <2>1. orders'[s] = orders[s]
    BY <1>1, WrittenRows
  <2>2. o = pending \/ pending = None => SignalsAfterCancel(signals, o) = signals
    BY <1>1, LeftAlone, MovedLive
  <2>3. signals'[s] = signals[s]
    BY <1>1, <2>2, CancelledSignals
  <2> QED
    BY <1>1, <2>1, <2>3, SameRowsSameStage
<1>3. CASE o = pending \/ pending = None
  BY <1>2, <1>3, KeepStages
<1>4. CASE o # pending /\ pending # None
  <2>0. PICK s0 \in Signals : s0 = pending.sig
    BY <1>4, MemoryTypes
  <2>1. /\ \A s \in Signals : s # s0 => StageOf(s)' = StageOf(s)
        /\ orders'[s0].status = o.status /\ orders[s0].status # "NONE"
        /\ positions'[s0].status = positions[s0].status
        /\ o.status \in LiveStatus \cup {"MISSED", "CANCELLED"}
        /\ o.status \in LiveStatus => orders[s0].status \in LiveStatus
    <3>1. /\ \A s \in Signals : s # s0 => StageOf(s)' = StageOf(s)
          /\ orders[s0].status # "NONE" /\ positions'[s0].status = positions[s0].status
      BY <1>1, <1>2, <1>4, <2>0
    <3>2. orders'[s0].status = o.status
      BY <1>1, <1>4, <2>0, WrittenRows
    <3>3. /\ o.status \in LiveStatus \cup {"MISSED", "CANCELLED"}
          /\ o.status \in LiveStatus => orders[s0].status \in LiveStatus
      BY <1>1, <1>4, <2>0 DEF Moves, LiveStatus
    <3> QED
      BY <3>1, <3>2, <3>3
  <2>2. CASE positions[s0].status # "NONE"
    <3>1. StageOf(s0)' = StageOf(s0)
      BY <2>1, <2>2 DEF StageOf, LiveOrders, Sound, TypeOK, PositionRow, PositionStatus
    <3> QED
      BY <2>1, <3>1, KeepStages
  <2>3. CASE positions[s0].status = "NONE" /\ orders[s0].status \in LiveStatus
    <3>1. StageOf(s0) = "working"
      BY <2>3 DEF StageOf, LiveOrders
    <3>2. CASE o.status \in LiveStatus
      <4>1. StageOf(s0)' = "working"
        BY <2>1, <2>3, <3>2 DEF StageOf, LiveOrders
      <4> QED
        BY <2>1, <3>1, <4>1, KeepStages
    <3>3. CASE o.status \in {"MISSED", "CANCELLED"}
      <4>1. StageOf(s0)' = "missed"
        BY <2>1, <2>3, <3>3 DEF StageOf, LiveOrders, LiveStatus
      <4>2. Lifecycle!Miss(s0)
        BY <2>1, <3>1, <4>1, MoveStage DEF Lifecycle!Miss
      <4> QED
        BY <2>1, <4>2 DEF Lifecycle!Next
    <3> QED
      BY <2>1, <3>2, <3>3
  <2>4. CASE positions[s0].status = "NONE" /\ orders[s0].status \notin LiveStatus
    <3>1. orders[s0].status \in {"MISSED", "CANCELLED"}
      <4>1. orders[s0].status \in OrderStatus
        BY DEF Sound, TypeOK, OrderRow
      <4>2. orders[s0].status # "FILLED"
        BY <2>4 DEF Sound, RowsFollowSignals, RowsFollow
      <4> QED
        BY <2>1, <2>4, <4>1, <4>2 DEF OrderStatus
    <3>2. o.status \in {"MISSED", "CANCELLED"}
      BY <2>1, <2>4
    <3>3. StageOf(s0) = "missed" /\ StageOf(s0)' = "missed"
      BY <2>1, <2>4, <3>1, <3>2 DEF StageOf, LiveOrders, LiveStatus
    <3> QED
      BY <2>1, <3>3, KeepStages
  <2> QED
    BY <2>2, <2>3, <2>4
<1> QED
  BY <1>3, <1>4

(* Closing the position, with what is left of its entry, releases the slot. *)
LEMMA CloseStages ==
  ASSUME Sound, NEW o, Closing(o)
  PROVE  Lifecycle!Next
<1>0. PICK s0 \in Signals : s0 = position.sig
  BY MemoryTypes DEF Closing
<1>1. /\ Moves(o) /\ orders' = OrderRowsAfter(o) /\ positions[s0].status = "OPEN"
      /\ pending # None => pending.sig = s0
      /\ \/ signals' = [SignalsAfterCancel(signals, o) EXCEPT ![s0] = "CLOSED"]
         \/ signals' = SignalsAfterCancel(signals, o)
      /\ \A s \in Signals :
           positions'[s].status = IF s = s0 THEN "CLOSED" ELSE positions[s].status
  BY <1>0 DEF Closing, RowOpen, Sound, SlotMemory
<1>2. \A s \in Signals : s # s0 =>
        orders'[s] = orders[s] /\ signals'[s] = signals[s] /\ positions'[s].status = positions[s].status
  BY <1>1, WrittenRows, CancelledSignals
<1>3. \A s \in Signals : s # s0 => StageOf(s)' = StageOf(s)
  BY <1>2, SameRowsSameStage
<1>4. StageOf(s0) = "held" /\ StageOf(s0)' = "done"
  BY <1>1 DEF StageOf
<1>5. Lifecycle!Release(s0)
  BY <1>1, <1>3, <1>4, MoveStage DEF Lifecycle!Release
<1> QED
  BY <1>1, <1>5 DEF Lifecycle!Next

(* A fill that wrote its position's row makes the slot's signal held, also  *)
(* one that stopped there; one that stopped before it shows nothing.        *)
LEMMA FillStages ==
  ASSUME IInv, NEW sym, NEW t \in Trades, TradeFills(sym, t) \/ TornFill(sym, t)
  PROVE  Lifecycle!Next \/ UNCHANGED [s \in Signals |-> StageOf(s)]
<1>1. Working(sym) /\ now < Expiry(pending) /\ FillOf(pending, t) > 0
  BY DEF TradeFills, TornFill
<1>2. PICK s0 \in Signals : s0 = pending.sig
  BY <1>1, FillFacts
<1>3. Filled(pending, t).sig = s0 /\ orders[s0].status \in LiveStatus /\ Sound
  <2>1. Filled(pending, t).sig = s0
    BY <1>1, <1>2, FillFacts
  <2>2. Sound /\ orders[s0] = NewOrderRow(pending) /\ pending.status \in {"ACTIVE", "PARTIAL"}
    BY <1>1, <1>2, ServedMirrors
  <2>3. orders[s0].status \in LiveStatus
    BY <2>2 DEF NewOrderRow, LiveStatus
  <2> QED
    BY <2>1, <2>2, <2>3
<1>4. \/ UNCHANGED <<signals, orders, positions>>
      \/ /\ positions' = PositionRowsAfterFill(pending, FillOf(pending, t))
         /\ signals' \in {signals, SignalsAfterFill(pending)}
         /\ \A s \in Signals : s # s0 => orders'[s] = orders[s]
  <2>1. CASE TradeFills(sym, t)
    <3>1. /\ positions' = PositionRowsAfterFill(pending, FillOf(pending, t))
          /\ signals' = SignalsAfterFill(pending)
          /\ orders' = [orders EXCEPT ![s0] = OrderRowFilled(@, Filled(pending, t))]
      BY <1>3, <2>1 DEF TradeFills
    <3> QED
      BY <1>3, <3>1 DEF Sound, TypeOK
  <2>2. CASE TornFill(sym, t)
    BY <2>2 DEF TornFill
  <2> QED
    BY <2>1, <2>2
<1>5. CASE UNCHANGED <<signals, orders, positions>>
  BY <1>5, SameRowsSameStage, KeepStages
<1>6. CASE /\ positions' = PositionRowsAfterFill(pending, FillOf(pending, t))
           /\ signals' \in {signals, SignalsAfterFill(pending)}
           /\ \A s \in Signals : s # s0 => orders'[s] = orders[s]
  <2>1. /\ positions'[s0].status = "OPEN"
        /\ \A s \in Signals : s # s0 => positions'[s] = positions[s] /\ signals'[s] = signals[s]
    BY <1>1, <1>2, <1>6, FillRows
  <2>2. \A s \in Signals : s # s0 => StageOf(s)' = StageOf(s)
    BY <1>6, <2>1, SameRowsSameStage
  <2>3. StageOf(s0)' = "held"
    BY <2>1 DEF StageOf, LiveOrders
  <2>4. positions[s0].status \in {"NONE", "OPEN"}
    BY <1>3 DEF Sound, RowsFollowSignals, RowsFollow, TypeOK, PositionRow, PositionStatus
  <2>5. CASE positions[s0].status = "OPEN"
    <3>1. StageOf(s0) = "held"
      BY <2>5 DEF StageOf, LiveOrders
    <3> QED
      BY <1>2, <2>2, <2>3, <3>1, KeepStages
  <2>6. CASE positions[s0].status = "NONE"
    <3>1. StageOf(s0) = "working"
      BY <1>3, <2>6 DEF StageOf, LiveOrders
    <3>2. Lifecycle!Hold(s0)
      BY <1>2, <2>2, <2>3, <3>1, MoveStage DEF Lifecycle!Hold
    <3> QED
      BY <1>2, <3>2 DEF Lifecycle!Next
  <2> QED
    BY <2>4, <2>5, <2>6
<1> QED
  BY <1>4, <1>5, <1>6

(* What a decision makes of its signal's row and of the order table.        *)
LEMMA DecideRows ==
  ASSUME IInv, NEW s \in Signals, NEW q \in Quotes, NEW reference \in Prices,
         NEW lots \in 0..MaxLots, Decide(s, q, reference, lots)
  PROVE  /\ signals[s] = "NONE" /\ orders[s].status = "NONE" /\ positions[s].status = "NONE"
         /\ positions' = positions /\ up' = up /\ failed' = failed
         /\ \A t \in Signals : t # s => orders'[t] = orders[t] /\ signals'[t] = signals[t]
         /\ \/ orders' = orders /\ signals'[s] \in {"REJECTED", "MISSED"}
            \/ /\ signals'[s] = "TRIGGERED" /\ up /\ pending = None /\ position = None
               /\ orders'[s].status = "PENDING" /\ orders'[s].filled = 0
               /\ orders'[s].qty = lots /\ lots > 0
         /\ \/ pending' = pending
            \/ pending'.sig = s /\ pending'.status = "PENDING" /\ pending'.filled = 0
<1> DEFINE entry     == Executable(s, q)
           malformed == Malformed(s, reference, entry)
           submitted == Submits(s, reference, entry, lots)
           verdict   == CASE malformed -> "REJECTED"
                          [] submitted -> "TRIGGERED"
                          [] OTHER     -> "MISSED"
           row       == NewOrderRow(NewOrder(s, entry, lots))
<1>1. /\ up /\ Fresh(s) /\ Sound
      /\ signals' = [signals EXCEPT ![s] = verdict]
      /\ IF submitted THEN orders' = [orders EXCEPT ![s] = row] ELSE orders' = orders
      /\ pending' \in {pending, NewOrder(s, entry, lots)}
      /\ UNCHANGED <<positions, up, failed>>
  BY DEF Decide, Decides, Receives, IInv
<1>2. submitted => ~malformed /\ pending = None /\ position = None /\ lots > 0
  BY DEF Submits, SubmissionBlocked, PortfolioBusy
<1>3. row.status = "PENDING" /\ row.filled = 0 /\ row.qty = lots
  BY DEF NewOrderRow, NewOrder
<1>9. \/ pending' = pending
      \/ pending'.sig = s /\ pending'.status = "PENDING" /\ pending'.filled = 0
  BY <1>1 DEF NewOrder
<1> HIDE DEF malformed, submitted, row
<1>4. submitted => verdict = "TRIGGERED"
  BY <1>2
<1>5. ~submitted => verdict \in {"REJECTED", "MISSED"}
  OBVIOUS
<1> HIDE DEF verdict
<1>6. orders[s].status = "NONE" /\ positions[s].status = "NONE" /\ signals[s] = "NONE"
  BY <1>1 DEF Sound, RowsFollowSignals, RowsFollow, Fresh
<1>7. signals \in [Signals -> SignalStatus] /\ orders \in [Signals -> OrderRow]
  BY <1>1 DEF Sound, TypeOK
<1>8. /\ signals'[s] = verdict
      /\ \A t \in Signals : t # s => orders'[t] = orders[t] /\ signals'[t] = signals[t]
      /\ submitted => orders'[s] = row
  BY <1>1, <1>7
<1> QED
  BY <1>1, <1>2, <1>3, <1>4, <1>5, <1>6, <1>8, <1>9

(* A decision rejects, misses or submits a new signal.                      *)
LEMMA DecideStages ==
  ASSUME IInv, NEW s \in Signals, NEW q \in Quotes, NEW reference \in Prices,
         NEW lots \in 0..MaxLots, Decide(s, q, reference, lots)
  PROVE  Lifecycle!Next
<1>1. /\ signals[s] = "NONE" /\ orders[s].status = "NONE" /\ positions[s].status = "NONE"
      /\ positions' = positions
      /\ \A t \in Signals : t # s => orders'[t] = orders[t] /\ signals'[t] = signals[t]
  BY DecideRows
<1>2. \/ orders' = orders /\ signals'[s] \in {"REJECTED", "MISSED"}
      \/ /\ signals'[s] = "TRIGGERED" /\ up /\ pending = None /\ position = None
         /\ orders'[s].status = "PENDING"
  BY DecideRows
<1>3. StageOf(s) = "new"
  BY <1>1 DEF StageOf, LiveOrders, LiveStatus
<1>4. \A t \in Signals : t # s => StageOf(t)' = StageOf(t)
  BY <1>1, SameRowsSameStage
<1>5. CASE /\ signals'[s] = "TRIGGERED" /\ up /\ pending = None /\ position = None
           /\ orders'[s].status = "PENDING"
  <2>1. StageOf(s)' = "working"
    BY <1>1, <1>5 DEF StageOf, LiveOrders, LiveStatus
  <2>2. \A t \in Signals : orders[t].status \notin LiveStatus /\ positions[t].status # "OPEN"
    BY <1>5 DEF IInv, Sound, SlotMemory
  <2>3. \A t \in Signals : StageOf(t) \notin {"working", "held"}
    BY <2>2 DEF StageOf, LiveOrders
  <2>4. Lifecycle!Submit(s)
    BY <1>3, <1>4, <2>1, <2>3, MoveStage DEF Lifecycle!Submit, Lifecycle!Occupies
  <2> QED
    BY <2>4 DEF Lifecycle!Next
<1>6. CASE orders' = orders /\ signals'[s] = "REJECTED"
  <2>1. StageOf(s)' = "rejected"
    BY <1>1, <1>6 DEF StageOf, LiveOrders, LiveStatus
  <2>2. Lifecycle!Reject(s)
    BY <1>3, <1>4, <2>1, MoveStage DEF Lifecycle!Reject
  <2> QED
    BY <2>2 DEF Lifecycle!Next
<1>7. CASE orders' = orders /\ signals'[s] = "MISSED"
  <2>1. StageOf(s)' = "missed"
    BY <1>1, <1>7 DEF StageOf, LiveOrders, LiveStatus
  <2>2. Lifecycle!Miss(s)
    BY <1>3, <1>4, <2>1, MoveStage DEF Lifecycle!Miss
  <2> QED
    BY <2>2 DEF Lifecycle!Next
<1> QED
  BY <1>2, <1>5, <1>6, <1>7

(* A decision that stopped leaves the signal announced.                     *)
LEMMA AnnounceStages ==
  ASSUME Sound, NEW s \in Signals, Announces(s)
  PROVE  Lifecycle!Next
<1>1. /\ signals[s] = "NONE" /\ signals' = [signals EXCEPT ![s] = "TRIGGERED"]
      /\ UNCHANGED <<orders, positions>>
  BY DEF Announces
<1>2. orders[s].status = "NONE" /\ positions[s].status = "NONE"
  BY <1>1 DEF Sound, RowsFollowSignals, RowsFollow
<1>3. signals'[s] = "TRIGGERED" /\ \A t \in Signals : t # s => signals'[t] = signals[t]
  BY <1>1 DEF Sound, TypeOK
<1>4. StageOf(s) = "new" /\ StageOf(s)' = "triggered"
  BY <1>1, <1>2, <1>3 DEF StageOf, LiveOrders, LiveStatus
<1>5. \A t \in Signals : t # s => StageOf(t)' = StageOf(t)
  BY <1>1, <1>3, SameRowsSameStage
<1>6. Lifecycle!Announce(s)
  BY <1>4, <1>5, MoveStage DEF Lifecycle!Announce
<1> QED
  BY <1>6 DEF Lifecycle!Next

(* Start-up turns exactly the announced signals into missed ones.           *)
LEMMA RestartStages ==
  ASSUME Sound, Restart
  PROVE  Lifecycle!Next
<1>1. signals' = Reconciled(signals, orders, positions) /\ UNCHANGED <<orders, positions>>
  BY DEF Restart
<1>2. ASSUME NEW s \in Signals
      PROVE  StageOf(s)' = IF StageOf(s) = "triggered" THEN "missed" ELSE StageOf(s)
  <2>1. signals'[s] = IF /\ signals[s] = "TRIGGERED"
                         /\ positions[s].status = "NONE"
                         /\ s \notin LiveOrders(orders)
                      THEN "MISSED" ELSE signals[s]
    BY <1>1 DEF Reconciled
  <2>2. positions[s].status \in {"NONE", "OPEN", "CLOSED"}
    BY DEF Sound, TypeOK, PositionRow, PositionStatus
  <2> QED
    BY <1>1, <2>1, <2>2 DEF StageOf, LiveOrders
<1>3. Lifecycle!GiveUp
  BY <1>2 DEF Lifecycle!GiveUp
<1> QED
  BY <1>3 DEF Lifecycle!Next

(* Every step of the executor is a step of the lifecycle, or shows none.    *)
LEMMA StepStages ==
  ASSUME IInv, RowedOnceActive, [Next]_vars
  PROVE  Lifecycle!Next \/ UNCHANGED [s \in Signals |-> StageOf(s)]
<1>0. Sound
  BY DEF IInv
<1>1. ASSUME NEW o, Settling(o)
      PROVE  Lifecycle!Next \/ UNCHANGED [s \in Signals |-> StageOf(s)]
  BY <1>0, <1>1, SettleStages
<1>2. ASSUME NEW o, Closing(o)
      PROVE  Lifecycle!Next
  BY <1>0, <1>2, CloseStages
<1> QED
  BY <1>0, <1>1, <1>2, StepKind, AnnounceStages, DecideStages, FillStages, RestartStages

(* Paper execution implements the lifecycle of a signal, wherever a handler *)
(* of it stops.                                                             *)
THEOREM Implements == Spec => ImplementsLifecycle
<1>1. IInv /\ RowedOnceActive /\ [Next]_vars =>
        [Lifecycle!Next]_([s \in Signals |-> StageOf(s)])
  BY StepStages
<1> QED
  BY <1>1, InitStages, RowedInvariance, PTL DEF Spec, ImplementsLifecycle, Lifecycle!Spec
-----------------------------------------------------------------------------
(* What the three tables know of one signal in every journal, when nothing  *)
(* stops inside a fill.  Between a position's row and its signal's, _close  *)
(* may stop if the run lets it.                                             *)
Told(s) ==
  LET o == orders[s]
      p == positions[s]
  IN  /\ p.status = "OPEN" => signals[s] = "OPEN"
      /\ p.status = "CLOSED" =>
           signals[s] = "CLOSED" \/ ("close" \in Torn /\ signals[s] = "OPEN")
      /\ p.status = "NONE" <=> o.filled = 0
      /\ p.status # "NONE" => p.qty = o.filled
      /\ o.status \in LiveStatus \cup {"CANCELLED"} => o.filled < o.qty
      /\ o.status \in {"PARTIAL", "CANCELLED"} => o.filled > 0
      /\ o.status = "FILLED" => o.filled = o.qty
      /\ o.status \in {"NONE", "MISSED"} => o.filled = 0
      /\ o.status \in LiveStatus /\ o.filled = 0 => signals[s] = "TRIGGERED"
      /\ o.status = "MISSED" =>
           signals[s] = "MISSED" \/ (signals[s] = "TRIGGERED" /\ (~up \/ s \in failed))
      /\ up /\ s \notin failed /\ signals[s] = "TRIGGERED" => o.status \in LiveStatus

(* What memory knows of it, also while its row lags behind.                 *)
MemoryTold ==
  pending # None =>
    /\ orders[pending.sig].filled = pending.filled
    /\ orders[pending.sig].status # "FILLED"
    /\ pending.status = "PARTIAL" => pending.filled > 0

TablesInv == (\A s \in Signals : Told(s)) /\ MemoryTold

(* Rows left alone tell what they told.                                     *)
LEMMA ToldKept ==
  ASSUME NEW s \in Signals, Told(s), up' => up /\ failed \subseteq failed',
         orders'[s] = orders[s], signals'[s] = signals[s],
         positions'[s].status = positions[s].status, positions'[s].qty = positions[s].qty
  PROVE  Told(s)'
  BY DEF Told

(* The types the cases below split on.                                      *)
LEMMA RowTypes ==
  ASSUME Sound, NEW s \in Signals
  PROVE  /\ orders[s].filled \in Nat /\ orders[s].qty \in Nat
         /\ orders[s].status \in {"NONE", "FILLED", "MISSED", "CANCELLED"} \cup LiveStatus
         /\ positions[s].status \in {"NONE", "OPEN", "CLOSED"}
  BY DEF Sound, TypeOK, OrderRow, PositionRow, OrderStatus, PositionStatus

(* Settling the entry in flight: it ends unfilled and its signal is missed, *)
(* now or at the next start-up, or it stays what its fills made of it.      *)
LEMMA SettleTold ==
  ASSUME Sound, TablesInv, NEW o, Settling(o)
  PROVE  TablesInv'
<1>1. /\ Moves(o) /\ orders' = OrderRowsAfter(o)
      /\ \/ signals' = SignalsAfterCancel(signals, o)
         \/ signals' = signals /\ (~up' \/ (pending # None /\ pending.sig \in failed'))
      /\ \A s \in Signals :
           positions'[s].status = positions[s].status /\ positions'[s].qty = positions[s].qty
      /\ up' => up /\ failed \subseteq failed'
      /\ o # pending => orders[pending.sig].status # "NONE"
  BY DEF Settling
<1>2. ASSUME NEW s \in Signals, o = pending \/ pending = None \/ s # pending.sig
      PROVE  Told(s)'
  <2>1. orders'[s] = orders[s]
    BY <1>1, <1>2, WrittenRows
  <2>2. o = pending \/ pending = None => SignalsAfterCancel(signals, o) = signals
    BY <1>1, LeftAlone, MovedLive
  <2>3. signals'[s] = signals[s]
    BY <1>1, <1>2, <2>2, CancelledSignals
  <2>4. Told(s)
    BY DEF TablesInv
  <2> QED
    BY <1>1, <2>1, <2>3, <2>4, ToldKept
<1>3. ASSUME NEW s \in Signals, pending # None, s = pending.sig, o # pending
      PROVE  Told(s)'
  <2>1. /\ orders'[s].status = o.status
        /\ orders'[s].filled = orders[s].filled /\ orders'[s].qty = orders[s].qty
    BY <1>1, <1>3, WrittenRows
  <2>2. /\ o.filled = orders[s].filled /\ orders[s].status \notin {"NONE", "FILLED"}
        /\ pending.status = "PARTIAL" => orders[s].filled > 0
    BY <1>1, <1>3 DEF Moves, TablesInv, MemoryTold
  <2>3. /\ Told(s) /\ positions[s].status \in {"NONE", "OPEN", "CLOSED"}
        /\ orders[s].filled \in Nat /\ orders[s].qty \in Nat
        /\ orders[s].status \in {"MISSED", "CANCELLED"} \cup LiveStatus
    BY <2>2, RowTypes DEF TablesInv
  <2>4. /\ positions'[s].status = positions[s].status /\ positions'[s].qty = positions[s].qty
    BY <1>1
  <2>5. CASE /\ o.status \in LiveStatus /\ (o.status = "PARTIAL" => pending.status = "PARTIAL")
             /\ orders[s].status \in LiveStatus
    <3>1. signals'[s] = signals[s]
      BY <1>1, <1>3, <2>5, CancelledSignals DEF LiveStatus
    <3> QED
      BY <1>1, <2>1, <2>2, <2>3, <2>4, <2>5, <3>1 DEF Told, LiveStatus
  <2>6. CASE o.status = "MISSED" /\ o.filled = 0
    <3>1. signals'[s] = "MISSED" \/ (signals'[s] = signals[s] /\ (~up' \/ s \in failed'))
      BY <1>1, <1>3, <2>6, CancelledSignals
    <3>2. signals[s] \in {"MISSED", "TRIGGERED"} /\ positions[s].status = "NONE"
      BY <2>2, <2>3, <2>6 DEF Told
    <3> QED
      BY <2>1, <2>2, <2>3, <2>4, <2>6, <3>1, <3>2 DEF Told, LiveStatus
  <2>7. CASE o.status = "CANCELLED" /\ o.filled > 0
    <3>1. signals'[s] = signals[s]
      BY <1>1, <1>3, <2>7, CancelledSignals
    <3>2. /\ positions[s].status # "NONE" /\ signals[s] \in {"OPEN", "CLOSED"}
          /\ orders[s].filled < orders[s].qty
      BY <2>2, <2>3, <2>7 DEF Told
    <3> QED
      BY <2>1, <2>2, <2>3, <2>4, <2>7, <3>1, <3>2 DEF Told, LiveStatus
  <2> QED
    BY <1>1, <1>3, <2>5, <2>6, <2>7 DEF Moves
<1>4. MemoryTold'
  <2> SUFFICES ASSUME pending' # None
               PROVE  /\ orders'[pending'.sig].filled = pending'.filled
                      /\ orders'[pending'.sig].status # "FILLED"
                      /\ pending'.status = "PARTIAL" => pending'.filled > 0
    BY DEF MemoryTold
  <2>1. /\ pending # None /\ pending'.sig = pending.sig /\ pending'.filled = pending.filled
        /\ pending'.status = "PARTIAL" => pending.status = "PARTIAL"
    BY DEF Settling
  <2>2. pending.sig \in Signals
    BY <2>1, MemoryTypes
  <2>3. orders'[pending.sig].filled = orders[pending.sig].filled
    BY <1>1, <2>2, WrittenRows
  <2>4. orders'[pending.sig].status # "FILLED"
    <3>1. CASE o = pending
      BY <1>1, <2>1, <2>2, <3>1, WrittenRows DEF TablesInv, MemoryTold
    <3>2. CASE o # pending
      BY <1>1, <3>2, WrittenRows DEF Moves, LiveStatus
    <3> QED
      BY <3>1, <3>2
  <2> QED
    BY <2>1, <2>3, <2>4 DEF TablesInv, MemoryTold
<1> QED
  BY <1>2, <1>3, <1>4 DEF TablesInv

(* An exit closes row and signal; only a stop inside _close comes between.  *)
LEMMA CloseTold ==
  ASSUME Sound, TablesInv, NEW o, Closing(o)
  PROVE  TablesInv'
<1>0. PICK s0 \in Signals : s0 = position.sig
  BY MemoryTypes DEF Closing
<1>1. /\ Moves(o) /\ Ended(o) /\ orders' = OrderRowsAfter(o)
      /\ positions[s0].status = "OPEN" /\ up
      /\ \/ signals' = [SignalsAfterCancel(signals, o) EXCEPT ![s0] = "CLOSED"]
         \/ "close" \in Torn /\ signals' = SignalsAfterCancel(signals, o)
      /\ \A s \in Signals :
           /\ positions'[s].status = IF s = s0 THEN "CLOSED" ELSE positions[s].status
           /\ positions'[s].qty = positions[s].qty
      /\ pending' = None
      /\ up' => up /\ failed \subseteq failed'
      /\ pending # None => pending.sig = s0
  BY <1>0 DEF Closing, RowOpen, Sound, SlotMemory
<1>2. ASSUME NEW s \in Signals, s # s0
      PROVE  Told(s)'
  <2>1. orders'[s] = orders[s]
    BY <1>1, <1>2, WrittenRows
  <2>2. SignalsAfterCancel(signals, o)[s] = signals[s]
    BY <1>1, <1>2, CancelledSignals
  <2>3. signals'[s] = signals[s]
    BY <1>1, <1>2, <2>2, CancelledSignals
  <2>4. Told(s) /\ positions'[s].status = positions[s].status /\ positions'[s].qty = positions[s].qty
    BY <1>1, <1>2 DEF TablesInv
  <2> QED
    BY <1>1, <2>1, <2>3, <2>4, ToldKept
<1>3. Told(s0)'
  <2>1. /\ Told(s0) /\ orders[s0].filled \in Nat /\ orders[s0].qty \in Nat
        /\ orders'[s0].filled = orders[s0].filled /\ orders'[s0].qty = orders[s0].qty
    BY <1>1, RowTypes, WrittenRows DEF TablesInv
  <2>2. orders[s0].filled # 0 /\ signals[s0] = "OPEN"
    BY <1>1, <2>1 DEF Told
  <2>3. /\ orders'[s0].status \in {"FILLED", "CANCELLED"}
        /\ orders'[s0].status = "CANCELLED" => orders[s0].filled < orders[s0].qty
        /\ orders'[s0].status = "FILLED" => orders[s0].filled = orders[s0].qty
        /\ o # None => o.status # "MISSED"
    <3>1. CASE pending = None
      <4>1. orders'[s0] = orders[s0] /\ orders[s0].status \notin LiveStatus
        BY <1>1, <3>1, WrittenRows DEF Sound, SlotMemory
      <4>2. o = None
        BY <1>1, <3>1, MovedLive
      <4>3. orders[s0].status \in {"FILLED", "CANCELLED"}
        BY <2>1, <2>2, <4>1, RowTypes DEF Told
      <4> QED
        BY <2>1, <4>1, <4>2, <4>3 DEF Told
    <3>2. CASE pending # None
      <4>1. o # pending /\ o.status \in {"MISSED", "CANCELLED"}
        BY <1>1, <3>2 DEF Ended, Sound, SlotMemory, LiveStatus
      <4>2. o.filled = orders[s0].filled /\ orders[s0].status # "FILLED"
        BY <1>1, <3>2, <4>1 DEF Moves, TablesInv, MemoryTold
      <4>3. o.status = "CANCELLED"
        BY <1>1, <2>2, <4>1, <4>2 DEF Moves, LiveStatus
      <4>4. orders'[s0].status = "CANCELLED"
        BY <1>1, <3>2, <4>1, <4>3, WrittenRows
      <4>5. orders[s0].filled < orders[s0].qty
        BY <2>1, <2>2, <4>2, RowTypes DEF Told
      <4> QED
        BY <4>3, <4>4, <4>5
    <3> QED
      BY <3>1, <3>2
  <2>4. /\ positions'[s0].status = "CLOSED" /\ positions'[s0].qty = orders'[s0].filled
        /\ orders'[s0].filled # 0
    BY <1>1, <2>1, <2>2 DEF Told
  <2>5. signals'[s0] = "CLOSED" \/ ("close" \in Torn /\ signals'[s0] = "OPEN")
    <3>1. SignalsAfterCancel(signals, o) = signals
      BY <2>3 DEF SignalsAfterCancel
    <3> QED
      BY <1>1, <2>2, <3>1 DEF Sound, TypeOK
  <2> QED
    BY <2>1, <2>3, <2>4, <2>5 DEF Told, LiveStatus
<1> QED
  BY <1>1, <1>2, <1>3 DEF TablesInv, MemoryTold

(* A fill makes the position as large as the entry is filled.               *)
LEMMA FillTold ==
  ASSUME IInv, TablesInv, NEW sym, NEW t \in Trades, TradeFills(sym, t)
  PROVE  TablesInv'
<1> DEFINE n == FillOf(pending, t)
           o == Filled(pending, t)
           p == PositionAfterFill(pending, n)
<1>1. /\ Working(sym) /\ now < Expiry(pending) /\ n > 0 /\ up' = up /\ failed' = failed
      /\ positions' = PositionRowsAfterFill(pending, n)
      /\ signals' = SignalsAfterFill(pending)
      /\ orders' = [orders EXCEPT ![o.sig] = OrderRowFilled(@, o)]
      /\ pending' \in {None, o}
  BY DEF TradeFills
<1>2. /\ Mirrored /\ Sound /\ up /\ pending # None /\ pending \in MemoryOrder
      /\ orders[pending.sig] = NewOrderRow(pending) /\ pending.status \in {"ACTIVE", "PARTIAL"}
  BY <1>1, ServedMirrors
<1>3. PICK s0 \in Signals : s0 = pending.sig
  BY <1>1, FillFacts
<1>4. /\ n \in Nat /\ o.sig = s0 /\ o.status \in {"PARTIAL", "FILLED"}
      /\ o.filled = pending.filled + n /\ o.filled <= o.qty /\ o.qty = pending.qty
      /\ position # None => position.sig = s0
      /\ OrderRowFilled(orders[s0], o) = NewOrderRow(o)
      /\ positions' = [positions EXCEPT ![s0] = NewPositionRow(p)]
  BY <1>1, <1>3, FillFacts
<1>5. o.status = IF pending.filled + n = pending.qty THEN "FILLED" ELSE "PARTIAL"
  <2>1. Served(pending, t) \in MemoryOrder
    BY <1>1, <1>2, ServedMirrors, ServedFacts
  <2> QED
    BY <2>1 DEF Filled, MemoryOrder
<1>6. p.qty = IF position = None THEN n ELSE position.qty + n
  BY <1>2 DEF PositionAfterFill, Sound, TypeOK, MemoryPosition
<1> HIDE DEF n, o, p
<1>7. orders' = [orders EXCEPT ![s0] = NewOrderRow(o)]
  BY <1>1, <1>4
<1>8. /\ orders'[s0] = NewOrderRow(o) /\ positions'[s0] = NewPositionRow(p)
      /\ \A s \in Signals : s # s0 => orders'[s] = orders[s] /\ positions'[s] = positions[s]
  BY <1>2, <1>4, <1>7 DEF Sound, TypeOK
<1>9. /\ orders'[s0].status = o.status /\ orders'[s0].filled = o.filled /\ orders'[s0].qty = o.qty
      /\ positions'[s0].status = "OPEN" /\ positions'[s0].qty = p.qty
  BY <1>8 DEF NewOrderRow, NewPositionRow
<1>10. /\ orders[s0].status = pending.status /\ orders[s0].filled = pending.filled
       /\ pending.status \in LiveStatus /\ pending.filled \in Nat /\ pending.qty \in Nat
  BY <1>2, <1>3 DEF MemoryOrder, NewOrderRow, LiveStatus
<1>11. Told(s0) /\ positions[s0].status \in {"NONE", "OPEN"}
  BY <1>2, <1>10, RowTypes DEF TablesInv, Sound, RowsFollowSignals, RowsFollow
<1>12. position = None => positions[s0].status = "NONE"
  BY <1>2, <1>11 DEF Sound, SlotMemory
<1>13. position # None => /\ positions[s0].status = "OPEN" /\ positions[s0].qty = position.qty
                          /\ position.qty \in Nat
  BY <1>2, <1>4 DEF Mirrored, Sound, TypeOK, MemoryPosition, NewPositionRow
<1>14. p.qty = pending.filled + n
  BY <1>4, <1>6, <1>10, <1>11, <1>12, <1>13 DEF Told
<1>15. signals'[s0] = "OPEN"
  <2>1. CASE position = None
    BY <1>1, <1>2, <1>3, <2>1 DEF SignalsAfterFill, Sound, TypeOK
  <2>2. CASE position # None
    BY <1>1, <1>11, <1>13, <2>2 DEF SignalsAfterFill, Told
  <2> QED
    BY <2>1, <2>2
<1>16. o.filled > 0 /\ o.filled # 0 /\ o.filled \in Nat
  BY <1>1, <1>4, <1>10
<1>17. /\ o.status = "PARTIAL" => o.filled < o.qty
       /\ o.status = "FILLED" => o.filled = o.qty
  BY <1>4, <1>5, <1>10
<1>18. Told(s0)'
  BY <1>4, <1>9, <1>14, <1>15, <1>16, <1>17 DEF Told, LiveStatus
<1>19. ASSUME NEW s \in Signals, s # s0
       PROVE  Told(s)'
  <2>1. signals'[s] = signals[s]
    BY <1>1, <1>3, <1>19, FillRows DEF n
  <2>2. Told(s)
    BY DEF TablesInv
  <2> QED
    BY <1>1, <1>8, <1>19, <2>1, <2>2, ToldKept
<1>20. MemoryTold'
  <2>1. pending' = o => o.status = "PARTIAL" \/ pending' = None
    BY <1>4 DEF TradeFills, o
  <2> QED
    BY <1>1, <1>4, <1>9, <1>16, <2>1 DEF MemoryTold
<1> QED
  BY <1>18, <1>19, <1>20 DEF TablesInv

(* A decision that submits has its entry in flight; one that does not shows *)
(* as the non-trade it is.                                                  *)
LEMMA DecideTold ==
  ASSUME IInv, TablesInv, NEW s \in Signals, NEW q \in Quotes, NEW reference \in Prices,
         NEW lots \in 0..MaxLots, Decide(s, q, reference, lots)
  PROVE  TablesInv'
<1>1. /\ signals[s] = "NONE" /\ orders[s].status = "NONE" /\ positions[s].status = "NONE"
      /\ positions' = positions /\ up' = up /\ failed' = failed
      /\ \A t \in Signals : t # s => orders'[t] = orders[t] /\ signals'[t] = signals[t]
  BY DecideRows
<1>2. \/ orders' = orders /\ signals'[s] \in {"REJECTED", "MISSED"}
      \/ /\ signals'[s] = "TRIGGERED"
         /\ orders'[s].status = "PENDING" /\ orders'[s].filled = 0
         /\ orders'[s].qty = lots /\ lots > 0
  BY DecideRows
<1>3. \/ pending' = pending
      \/ pending'.sig = s /\ pending'.status = "PENDING" /\ pending'.filled = 0
  BY DecideRows
<1>4. ASSUME NEW t \in Signals, t # s
      PROVE  Told(t)'
  <2>1. Told(t)
    BY DEF TablesInv
  <2> QED
    BY <1>1, <1>4, <2>1, ToldKept
<1>5. Told(s) /\ Sound /\ orders[s].filled = 0
  BY <1>1 DEF TablesInv, IInv, Told
<1>6. Told(s)'
  BY <1>1, <1>2, <1>5 DEF Told, LiveStatus
<1>7. orders'[s].filled = 0 /\ orders'[s].status # "FILLED"
  BY <1>1, <1>2, <1>5
<1>8. pending # None => pending.sig \in Signals /\ pending.sig # s
  BY <1>1, <1>5, MemoryTypes DEF Sound, SlotMemory
<1>9. MemoryTold'
  BY <1>1, <1>3, <1>7, <1>8 DEF TablesInv, MemoryTold
<1> QED
  BY <1>4, <1>6, <1>9 DEF TablesInv

(* One that stopped leaves a trigger of a dead process, or one a write      *)
(* about failed.                                                            *)
LEMMA AnnounceTold ==
  ASSUME Sound, TablesInv, NEW s \in Signals, Announces(s)
  PROVE  TablesInv'
<1>1. /\ signals[s] = "NONE" /\ signals' = [signals EXCEPT ![s] = "TRIGGERED"]
      /\ orders' = orders /\ positions' = positions
      /\ up' => up /\ failed \subseteq failed' /\ s \in failed'
      /\ \/ pending' = None \/ pending' = pending
         \/ pending'.sig = s /\ pending'.status = "PENDING" /\ pending'.filled = 0
  BY DEF Announces
<1>2. orders[s].status = "NONE" /\ positions[s].status = "NONE"
  BY <1>1 DEF Sound, RowsFollowSignals, RowsFollow
<1>3. /\ signals'[s] = "TRIGGERED" /\ \A t \in Signals : t # s => signals'[t] = signals[t]
  BY <1>1 DEF Sound, TypeOK
<1>4. Told(s) /\ orders[s].filled = 0
  BY <1>2 DEF TablesInv, Told
<1>5. Told(s)'
  BY <1>1, <1>2, <1>3, <1>4 DEF Told, LiveStatus
<1>6. ASSUME NEW t \in Signals, t # s
      PROVE  Told(t)'
  <2>1. Told(t)
    BY DEF TablesInv
  <2> QED
    BY <1>1, <1>3, <1>6, <2>1, ToldKept
<1>7. MemoryTold'
  BY <1>1, <1>2, <1>4 DEF TablesInv, MemoryTold
<1> QED
  BY <1>5, <1>6, <1>7 DEF TablesInv

(* Start-up misses every trigger whose entry is not in flight.              *)
LEMMA RestartTold ==
  ASSUME Sound, TablesInv, Restart
  PROVE  TablesInv'
<1>1. /\ orders' = orders /\ positions' = positions /\ ~up /\ up' /\ pending' = RestoredOrder
  BY DEF Restart
<1>2. ASSUME NEW s \in Signals
      PROVE  Told(s)'
  <2>1. signals'[s] = IF /\ signals[s] = "TRIGGERED" /\ positions[s].status = "NONE"
                         /\ orders[s].status \notin LiveStatus
                      THEN "MISSED" ELSE signals[s]
    BY DEF Restart, Reconciled, LiveOrders
  <2>2. Told(s) /\ positions[s].status \in {"NONE", "OPEN", "CLOSED"}
    BY RowTypes DEF TablesInv
  <2>3. CASE positions[s].status # "NONE"
    BY <1>1, <2>1, <2>2, <2>3 DEF Told
  <2>4. CASE positions[s].status = "NONE"
    BY <1>1, <2>1, <2>2, <2>4 DEF Told, LiveStatus
  <2> QED
    BY <2>3, <2>4
<1>3. MemoryTold'
  <2> SUFFICES ASSUME RestoredOrder # None
               PROVE  /\ orders[RestoredOrder.sig].filled = RestoredOrder.filled
                      /\ orders[RestoredOrder.sig].status # "FILLED"
                      /\ RestoredOrder.status = "PARTIAL" => RestoredOrder.filled > 0
    BY <1>1 DEF MemoryTold
  <2>1. /\ RestoredOrder.sig \in Signals /\ orders[RestoredOrder.sig].status \in LiveStatus
        /\ orders[RestoredOrder.sig] = NewOrderRow(RestoredOrder)
        /\ RestoredOrder.status = orders[RestoredOrder.sig].status
    BY RestoredFacts DEF Sound, LiveOrders
  <2>2. orders[RestoredOrder.sig].filled = RestoredOrder.filled
    BY <2>1 DEF NewOrderRow
  <2>3. Told(RestoredOrder.sig)
    BY <2>1 DEF TablesInv
  <2> QED
    BY <2>1, <2>2, <2>3 DEF Told, LiveStatus
<1> QED
  BY <1>2, <1>3 DEF TablesInv

(* Where nothing stops inside _fill, every step leaves tables that agree.   *)
LEMMA StepTold ==
  ASSUME "fill" \notin Torn, IInv, RowedOnceActive, TablesInv, [Next]_vars
  PROVE  TablesInv'
<1>0. Sound
  BY DEF IInv
<1>1. ASSUME NEW o, Settling(o)
      PROVE  TablesInv'
  BY <1>0, <1>1, SettleTold
<1>2. ASSUME NEW o, Closing(o)
      PROVE  TablesInv'
  BY <1>0, <1>2, CloseTold
<1>3. ASSUME NEW sym \in Symbols, NEW t \in Trades, TornFill(sym, t)
      PROVE  FALSE
  BY <1>3 DEF TornFill, Tears
<1> QED
  BY <1>0, <1>1, <1>2, <1>3, StepKind, AnnounceTold, DecideTold, FillTold, RestartTold

(* An empty journal tells nothing.                                          *)
LEMMA InitTold == Init => TablesInv
  BY DEF Init, TablesInv, Told, MemoryTold, EmptySignals, EmptyOrders, EmptyPositions, NoOrderRow,
         NoPositionRow, LiveStatus

(* The tables tell the truth throughout.                                    *)
LEMMA TablesInvariance ==
  ASSUME "fill" \notin Torn
  PROVE  Spec => [](IInv /\ TablesInv)
<1>1. Init => IInv /\ RowedOnceActive /\ TablesInv
  BY InitIInv, InitTold DEF Init, RowedOnceActive
<1>2. IInv /\ RowedOnceActive /\ TablesInv /\ [Next]_vars => (IInv /\ RowedOnceActive /\ TablesInv)'
  BY StepKeeps, StepRowed, StepTold
<1> QED
  BY <1>1, <1>2, PTL DEF Spec

(* Unless a fill or a close stops between two of its writes, a signal's      *)
(* status, its entry's and its position's agree wherever else the process   *)
(* dies and whichever other write is refused.                               *)
THEOREM TablesInAgreement ==
  ASSUME "fill" \notin Torn, "close" \notin Torn
  PROVE  Spec => []TablesAgree
<1>1. IInv /\ TablesInv => TablesAgree
  <2> SUFFICES ASSUME IInv, TablesInv, NEW s \in Signals
               PROVE  LET o == orders[s]
                          p == positions[s]
                      IN  /\ signals[s] = "OPEN"   <=> p.status = "OPEN"
                          /\ signals[s] = "CLOSED" <=> p.status = "CLOSED"
                          /\ p.status = "NONE" <=> o.filled = 0
                          /\ p.status # "NONE" => p.qty = o.filled
                          /\ o.status \in {"PARTIAL", "CANCELLED"} => o.filled \in 1..(o.qty - 1)
                          /\ o.status = "FILLED" => o.filled = o.qty
                          /\ o.status \in LiveStatus /\ o.filled = 0 => signals[s] = "TRIGGERED"
                          /\ o.status = "MISSED" /\ up /\ s \notin failed => signals[s] = "MISSED"
    BY DEF TablesAgree
  <2>1. /\ Told(s) /\ orders[s].filled \in Nat /\ orders[s].qty \in Nat
        /\ positions[s].status \in {"NONE", "OPEN", "CLOSED"}
    BY RowTypes DEF TablesInv, IInv
  <2>2. signals[s] \in {"OPEN", "CLOSED"} => positions[s].status # "NONE"
    BY DEF IInv, Sound, RowsFollowSignals, RowsFollow
  <2>3. /\ signals[s] = "OPEN"   <=> positions[s].status = "OPEN"
        /\ signals[s] = "CLOSED" <=> positions[s].status = "CLOSED"
    BY <2>1, <2>2 DEF Told
  <2>4. orders[s].status \in {"PARTIAL", "CANCELLED"} => orders[s].filled \in 1..(orders[s].qty - 1)
    BY <2>1 DEF Told, LiveStatus
  <2> QED
    BY <2>1, <2>3, <2>4 DEF Told
<1> QED
  BY <1>1, TablesInvariance, PTL

(* Unless a fill stops between two of its writes, a running process has the *)
(* entry of every triggered signal in flight.                               *)
THEOREM NoTriggerOrphaned ==
  ASSUME "fill" \notin Torn
  PROVE  Spec => []NoOrphanedTrigger
<1>1. IInv /\ TablesInv => NoOrphanedTrigger
  BY DEF TablesInv, Told, NoOrphanedTrigger, LiveOrders
<1> QED
  BY <1>1, TablesInvariance, PTL

(* README's claim that MISSED and REJECTED are non-trades holds as long as   *)
(* no fill stops between two of its writes: no other interleaving of        *)
(* messages, stops and restarts breaks it.                                  *)
THEOREM NonTradesWithoutTornFill ==
  ASSUME "fill" \notin Torn
  PROVE  Spec => []MissedAreNonTrades
<1>1. IInv /\ TablesInv => MissedAreNonTrades
  <2> SUFFICES ASSUME IInv, TablesInv, NEW s \in Signals, signals[s] \in {"REJECTED", "MISSED"}
               PROVE  positions[s].status = "NONE"
    BY DEF MissedAreNonTrades
  <2>1. Told(s) /\ positions[s].status \in {"NONE", "OPEN", "CLOSED"}
    BY RowTypes DEF TablesInv, IInv
  <2> QED
    BY <2>1 DEF Told
<1> QED
  BY <1>1, TablesInvariance, PTL
=============================================================================
