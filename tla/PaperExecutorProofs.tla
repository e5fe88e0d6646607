------------------------- MODULE PaperExecutorProofs -------------------------
(***************************************************************************)
(* PaperExecutor keeps one slot and a durable memory, wherever its process  *)
(* dies and whichever write of a handler is refused: for every set of      *)
(* signals, prices, latencies and limits, and for every choice of the      *)
(* handlers that may stop halfway.                                         *)
(*                                                                         *)
(* The argument: memory is asked before an entry is submitted, so memory   *)
(* has to hold whatever the rows show live or open (SlotMemory).  Every     *)
(* handler writes one row after the other, in an order that leaves each    *)
(* prefix a journal the next start-up can read (RowsFollowSignals,         *)
(* SingleSlot).  Beyond that memory mirrors the rows column for column     *)
(* (Mirrored), until a refused write sets it ahead of them (Astray); then  *)
(* the entry is expired by the next message, and nothing is submitted or   *)
(* filled before memory is empty, and thereby a mirror, again.             *)
(***************************************************************************)
EXTENDS PaperExecutor, TLAPS

(* No entry's row shows more filled than ordered.                           *)
Filling == \A s \in Signals : orders[s].filled <= orders[s].qty

(* What the tables show live or open is in memory, which is about one       *)
(* signal, and one that was not turned down; a dead process has none.       *)
SlotMemory ==
  /\ ~up => pending = None /\ position = None
  /\ up => \A s \in Signals : orders[s].status \in LiveStatus => pending # None /\ pending.sig = s
  /\ up => \A s \in Signals : positions[s].status = "OPEN" => position # None /\ position.sig = s
  /\ pending # None /\ position # None => pending.sig = position.sig
  /\ pending # None => /\ pending.status \in LiveStatus \cup {"FILLED"}
                       /\ signals[pending.sig] \notin {"NONE", "REJECTED"}
  /\ position # None => signals[position.sig] \notin {"NONE", "REJECTED"}

(* Memory is the rows, column for column.                                   *)
Mirrored ==
  /\ pending # None => pending.status \in LiveStatus /\ orders[pending.sig] = NewOrderRow(pending)
  /\ position # None => positions[position.sig] = NewPositionRow(position)

(* An open position's row has no exit, result or closing time yet.          *)
OpenRowsUnsettled ==
  \A s \in Signals : positions[s].status = "OPEN" =>
    positions[s].exit = 0 /\ positions[s].pnl = 0 /\ positions[s].closed = 0

(* What the status of a signal, of its entry and of its position exclude of *)
(* each other in every journal a prefix of a handler can leave behind.      *)
RowsFollow(s) ==
  /\ signals[s] \in {"NONE", "REJECTED"} =>
       orders[s].status = "NONE" /\ positions[s].status = "NONE"
  /\ signals[s] \in {"OPEN", "CLOSED"} => positions[s].status # "NONE"
  /\ signals[s] = "MISSED" /\ positions[s].status = "NONE" =>
       orders[s].status \in {"NONE", "MISSED", "CANCELLED"}
  /\ orders[s].status = "FILLED" => orders[s].filled > 0
  /\ orders[s].filled > 0 => positions[s].status # "NONE"
  /\ orders[s].status \in LiveStatus => positions[s].status # "CLOSED"

RowsFollowSignals == \A s \in Signals : RowsFollow(s)

(* What holds however far memory is ahead of its rows.                      *)
Sound ==
  /\ TypeOK
  /\ Filling
  /\ SlotMemory
  /\ SingleSlot
  /\ OpenRowsUnsettled
  /\ RowsFollowSignals

(* The inductive invariant. SingleSlot is not inductive by itself: only     *)
(* memory is asked whether the slot is free, so memory has to be known to   *)
(* hold what the rows show, and a restart that rebuilds it needs the rows'  *)
(* types; and a fill keeps them only because memory then mirrors the rows.  *)
IInv == Sound /\ (Mirrored \/ Astray)

(* What a message other than a fill can make of the entry in flight: it     *)
(* stays as it is, or lives on beside a live row, or ends MISSED or         *)
(* CANCELLED according to what it filled.                                   *)
Moves(o) ==
  \/ o = pending
  \/ /\ pending # None
     /\ o \in MemoryOrder
     /\ o.sig = pending.sig
     /\ o.created = pending.created
     /\ o.entry = pending.entry
     /\ o.qty = pending.qty
     /\ o.filled = pending.filled
     /\ \/ /\ o.status \in LiveStatus /\ (o.status = "PARTIAL" => pending.status = "PARTIAL")
           /\ orders[pending.sig].status \in LiveStatus
        \/ o.status = "MISSED" /\ o.filled = 0
        \/ o.status = "CANCELLED" /\ o.filled > 0

(* Nothing of the entry is left.                                            *)
Ended(o) == pending # None => o.status \in {"MISSED", "CANCELLED"}

(* The empty journal and a process just started satisfy the invariant.      *)
LEMMA InitIInv == Init => IInv
  BY JournalAssumption, ExecutorAssumption
     DEF Init, IInv, Sound, Mirrored, TypeOK, Filling, SlotMemory, SingleSlot, OpenRowsUnsettled,
         RowsFollowSignals, RowsFollow,
         EmptySignals, EmptyOrders, EmptyPositions, NoOrderRow, NoPositionRow, OrderRow,
         PositionRow, SignalStatus, OrderStatus, PositionStatus, LiveStatus, FreshTape,
         Busy, LiveOrders, OpenPositions

(* An entry the next message does not find expired is a mirror of its row,  *)
(* and so is its position.                                                  *)
LEMMA UnexpiredMirrors ==
  ASSUME IInv, Receives, pending # None, ~(now >= Expiry(pending))
  PROVE  Mirrored
<1>1. pending.sig \notin failed
  BY DEF Receives
<1>2. position # None => position.sig = pending.sig
  BY DEF IInv, Sound, SlotMemory
<1> QED
  BY <1>1, <1>2 DEF IInv, Astray

(* An empty memory mirrors.                                                 *)
LEMMA EmptyMirrors ==
  ASSUME pending = None, position = None
  PROVE  Mirrored
  BY DEF Mirrored

(* The types of memory and of the rows it is about.                         *)
LEMMA MemoryTypes ==
  ASSUME Sound
  PROVE  /\ pending # None =>
              /\ pending \in MemoryOrder /\ pending.sig \in Signals
              /\ pending.status \in OrderStatus /\ pending.created \in Nat /\ pending.entry \in Nat
              /\ pending.qty \in Nat /\ pending.filled \in Nat /\ pending.queue \in Nat
              /\ pending.displayed \in Nat /\ orders[pending.sig] \in OrderRow
         /\ position # None =>
              /\ position \in MemoryPosition /\ position.sig \in Signals
              /\ position.entry \in Nat /\ position.qty \in Nat
              /\ position.best \in Nat /\ position.worst \in Nat
              /\ positions[position.sig] \in PositionRow
         /\ now \in Nat
  BY DEF Sound, TypeOK, MemoryOrder, MemoryPosition

(* A cancellation is a move that ends the entry.                            *)
LEMMA CancelledMoves ==
  ASSUME Sound, pending # None
  PROVE  /\ Moves(Cancelled(pending)) /\ Ended(Cancelled(pending)) /\ ~Live(Cancelled(pending))
         /\ Cancelled(pending) # pending /\ Cancelled(pending).sig = pending.sig
         /\ Cancelled(pending) \in MemoryOrder
<1>1. /\ pending \in MemoryOrder /\ pending.filled \in Nat
      /\ pending.status \in LiveStatus \cup {"FILLED"}
  BY MemoryTypes DEF Sound, SlotMemory
<1> DEFINE status == IF pending.filled > 0 THEN "CANCELLED" ELSE "MISSED"
           o      == Cancelled(pending)
<1>2. /\ status \in {"MISSED", "CANCELLED"} /\ status \in OrderStatus
      /\ status = "MISSED" => pending.filled = 0
      /\ status = "CANCELLED" => pending.filled > 0
  BY <1>1 DEF OrderStatus
<1> HIDE DEF status
<1>3. o = [pending EXCEPT !.status = status]
  BY DEF Cancelled, status
<1> HIDE DEF o
<1>4. /\ o \in MemoryOrder /\ o.status = status /\ o.sig = pending.sig /\ o.created = pending.created
      /\ o.entry = pending.entry /\ o.qty = pending.qty /\ o.filled = pending.filled
  BY <1>1, <1>2, <1>3 DEF MemoryOrder
<1>5. status \notin LiveStatus \cup {"FILLED"}
  BY <1>2 DEF LiveStatus
<1>6. o # pending /\ ~Live(o)
  BY <1>1, <1>4, <1>5 DEF Live
<1>7. Moves(o) /\ Ended(o)
  BY <1>2, <1>4 DEF Moves, Ended
<1> QED
  BY <1>4, <1>6, <1>7 DEF o

(* So is whatever a quote does: expiry, arrival, requeueing or nothing.     *)
LEMMA QuoteMoves ==
  ASSUME IInv, Receives, NEW sym, NEW q \in Quotes
  PROVE  Moves(AfterQuote(sym, q))
<1>1. CASE ~Mine(sym)
  BY <1>1 DEF AfterQuote, Moves
<1>2. CASE Mine(sym) /\ now >= Expiry(pending)
  <2>1. AfterQuote(sym, q) = Cancelled(pending)
    BY <1>2 DEF AfterQuote, Advanced
  <2> QED
    BY <1>2, <2>1, CancelledMoves DEF Mine, IInv
<1>3. CASE Mine(sym) /\ ~(now >= Expiry(pending))
  <2>1. Mirrored /\ pending # None
    BY <1>3, UnexpiredMirrors DEF Mine
  <2>2. /\ pending \in MemoryOrder /\ pending.status \in LiveStatus
        /\ orders[pending.sig].status \in LiveStatus
        /\ pending.queue \in Nat /\ pending.displayed \in Nat
    BY <2>1, MemoryTypes DEF IInv, Mirrored, NewOrderRow
  <2>3. q.shown \in Nat
    BY ExecutorAssumption DEF Quotes
  <2>4. Moves(Arrived(pending, q))
    BY <2>1, <2>2, <2>3 DEF Moves, Arrived, MemoryOrder, LiveStatus, OrderStatus
  <2>5. Moves(Requeued(pending, q.shown))
    <3> DEFINE added == IF q.shown > pending.displayed THEN q.shown - pending.displayed ELSE 0
    <3>1. pending.queue + added \in Nat
      BY <2>2, <2>3
    <3> HIDE DEF added
    <3>2. Requeued(pending, q.shown) =
            [pending EXCEPT !.queue = pending.queue + added, !.displayed = q.shown]
      BY DEF Requeued, added
    <3> QED
      BY <2>1, <2>2, <2>3, <3>1, <3>2 DEF Moves, MemoryOrder
  <2>6. Moves(pending) /\ Moves(Cancelled(pending))
    BY <2>1, CancelledMoves DEF Moves, IInv
  <2> QED
    BY <1>3, <2>4, <2>5, <2>6 DEF AfterQuote, Advanced
<1> QED
  BY <1>1, <1>2, <1>3

(* The entry a quote leaves alive is a mirror of its row or was not touched. *)
LEMMA MovedLive ==
  ASSUME Sound, NEW o, Moves(o)
  PROVE  /\ o # None => pending # None /\ o \in MemoryOrder /\ o.sig = pending.sig
                        /\ o.filled = pending.filled /\ o.qty = pending.qty /\ o.sig \in Signals
                        /\ o.entry = pending.entry /\ o.created = pending.created
                        /\ o.status \in LiveStatus \cup {"FILLED", "MISSED", "CANCELLED"}
         /\ o = None <=> pending = None
         /\ InFlight(o) = None \/ (InFlight(o) = o /\ o.status \in LiveStatus \cup {"FILLED"})
  BY MemoryTypes, ExecutorAssumption DEF Moves, InFlight, Live, Sound, SlotMemory, LiveStatus

(* What a cancelled move makes of the entry.                                *)
LEMMA CancelledMove ==
  ASSUME Sound, NEW o, Moves(o), Live(o)
  PROVE  /\ Moves(Cancelled(o)) /\ Ended(Cancelled(o)) /\ ~Live(Cancelled(o))
         /\ Cancelled(o) # pending /\ Cancelled(o).sig = pending.sig
<1>1. /\ pending # None /\ o \in MemoryOrder /\ o.sig = pending.sig
      /\ o.filled = pending.filled /\ o.qty = pending.qty
      /\ o.entry = pending.entry /\ o.created = pending.created /\ o.filled \in Nat
      /\ pending.status \in LiveStatus \cup {"FILLED"}
  BY MovedLive DEF Live, MemoryOrder, Sound, SlotMemory
<1> DEFINE status == IF o.filled > 0 THEN "CANCELLED" ELSE "MISSED"
           c      == Cancelled(o)
<1>2. /\ status \in {"MISSED", "CANCELLED"} /\ status \in OrderStatus
      /\ status = "MISSED" => o.filled = 0
      /\ status = "CANCELLED" => o.filled > 0
  BY <1>1 DEF OrderStatus
<1> HIDE DEF status
<1>3. c = [o EXCEPT !.status = status]
  BY DEF Cancelled, status
<1> HIDE DEF c
<1>4. /\ c \in MemoryOrder /\ c.status = status /\ c.sig = o.sig /\ c.created = o.created
      /\ c.entry = o.entry /\ c.qty = o.qty /\ c.filled = o.filled
  BY <1>1, <1>2, <1>3 DEF MemoryOrder
<1>5. status \notin LiveStatus \cup {"FILLED"}
  BY <1>2 DEF LiveStatus
<1>6. c # pending /\ ~Live(c)
  BY <1>1, <1>4, <1>5 DEF Live
<1>7. Moves(c) /\ Ended(c)
  BY <1>1, <1>2, <1>4 DEF Moves, Ended
<1> QED
  BY <1>1, <1>4, <1>6, <1>7 DEF c

(* What an exit leaves of the entry is a move.                              *)
LEMMA RemainderMoves ==
  ASSUME Sound, NEW o, Moves(o)
  PROVE  Moves(RemainderCancelled(o)) /\ ~Live(RemainderCancelled(o))
  BY CancelledMove DEF RemainderCancelled

(* The columns update_paper_order writes and those it keeps.                *)
LEMMA WrittenRow ==
  ASSUME NEW row \in OrderRow, NEW o
  PROVE  OrderRowAfter(row, o) =
           [status |-> o.status, created |-> row.created, entry |-> row.entry,
            qty |-> row.qty, filled |-> row.filled, queue |-> o.queue]
<1> SUFFICES ASSUME NEW after, after = OrderRowAfter(row, o)
             PROVE  after = [status |-> o.status, created |-> row.created, entry |-> row.entry,
                             qty |-> row.qty, filled |-> row.filled, queue |-> o.queue]
  OBVIOUS
<1> QED
  BY DEF OrderRow, OrderRowAfter

(* What writing the row of a moved entry leaves of the table.               *)
LEMMA WrittenRows ==
  ASSUME Sound, NEW o, Moves(o), orders' = OrderRowsAfter(o)
  PROVE  /\ orders' \in [Signals -> OrderRow]
         /\ \A s \in Signals :
              /\ orders'[s].filled = orders[s].filled
              /\ orders'[s].qty = orders[s].qty
              /\ o = pending \/ pending = None \/ s # pending.sig => orders'[s] = orders[s]
         /\ o # pending => /\ pending # None /\ pending.sig \in Signals
                           /\ orders'[pending.sig].status = o.status
         /\ pending # None /\ orders[pending.sig] = NewOrderRow(pending) =>
              orders'[pending.sig] = NewOrderRow(o)
<1>1. CASE o = pending
  BY <1>1 DEF OrderRowsAfter, Sound, TypeOK
<1>2. CASE o # pending
  <2>1. /\ pending # None /\ pending \in MemoryOrder /\ o \in MemoryOrder
        /\ o.sig = pending.sig /\ o.created = pending.created /\ o.entry = pending.entry
        /\ o.qty = pending.qty /\ o.filled = pending.filled
    BY <1>2 DEF Moves, Sound, TypeOK
  <2>2. pending.sig \in Signals /\ orders \in [Signals -> OrderRow]
    BY <2>1 DEF MemoryOrder, Sound, TypeOK
  <2> DEFINE row   == orders[pending.sig]
             after == [status |-> o.status, created |-> row.created, entry |-> row.entry,
                       qty |-> row.qty, filled |-> row.filled, queue |-> o.queue]
  <2>3. row \in OrderRow
    BY <2>2
  <2>4. OrderRowAfter(row, o) = after
    BY <2>3, WrittenRow
  <2>5. after \in OrderRow
    BY <2>1, <2>3 DEF OrderRow, MemoryOrder
  <2>6. orders' = [orders EXCEPT ![pending.sig] = after]
    BY <1>2, <2>1, <2>4 DEF OrderRowsAfter
  <2>7. row = NewOrderRow(pending) => after = NewOrderRow(o)
    BY <2>1 DEF NewOrderRow
  <2>8. after.status = o.status /\ after.filled = row.filled /\ after.qty = row.qty
    OBVIOUS
  <2> HIDE DEF after
  <2>9. orders'[pending.sig] = after /\ \A s \in Signals : s # pending.sig => orders'[s] = orders[s]
    BY <2>2, <2>6
  <2>10. orders' \in [Signals -> OrderRow]
    BY <2>2, <2>5, <2>6
  <2> QED
    BY <1>2, <2>1, <2>2, <2>7, <2>8, <2>9, <2>10
<1> QED
  BY <1>1, <1>2

(* No entry comes alive by moving, and one that ended leaves no live row.   *)
LEMMA WrittenLive ==
  ASSUME Sound, up, NEW o, Moves(o), orders' = OrderRowsAfter(o), NEW s \in Signals,
         orders'[s].status \in LiveStatus
  PROVE  /\ orders[s].status \in LiveStatus /\ pending # None /\ pending.sig = s
         /\ o # None /\ o.sig = s
         /\ o.status \in LiveStatus \/ o = pending
<1>1. orders[s].status \in LiveStatus
  <2> SUFFICES ASSUME orders'[s] # orders[s]
               PROVE  orders[s].status \in LiveStatus
    OBVIOUS
  <2>1. o # pending /\ pending # None /\ s = pending.sig
    BY WrittenRows
  <2>2. o.status \in LiveStatus
    BY <2>1, WrittenRows
  <2> QED
    BY <2>1, <2>2 DEF Moves, LiveStatus
<1>2. pending # None /\ pending.sig = s
  BY <1>1 DEF Sound, SlotMemory
<1>3. o # None /\ o.sig = s
  BY <1>2, MovedLive
<1>4. o # pending => o.status \in LiveStatus
  BY <1>2, WrittenRows
<1> QED
  BY <1>1, <1>2, <1>3, <1>4

(* A cancellation changes one signal at most, and only that of an unfilled  *)
(* entry.                                                                   *)
LEMMA CancelledSignals ==
  ASSUME Sound, NEW o, Moves(o)
  PROVE  /\ SignalsAfterCancel(signals, o) \in [Signals -> SignalStatus]
         /\ \A s \in Signals :
              SignalsAfterCancel(signals, o)[s] # signals[s] =>
                /\ SignalsAfterCancel(signals, o)[s] = "MISSED"
                /\ pending # None /\ s = pending.sig /\ o.status = "MISSED"
         /\ pending # None /\ o.status = "MISSED" =>
              SignalsAfterCancel(signals, o)[pending.sig] = "MISSED"
<1>1. signals \in [Signals -> SignalStatus]
  BY DEF Sound, TypeOK
<1>2. o # None => o.sig = pending.sig /\ pending # None /\ pending.sig \in Signals
  BY MovedLive
<1>3. pending # None => o # None
  BY MovedLive
<1> QED
  BY <1>1, <1>2, <1>3 DEF SignalsAfterCancel, SignalStatus

(* Settling an entry frees the slot or keeps its owner.                     *)
LEMMA RowsAfterSettle ==
  ASSUME Sound, up, NEW o, Moves(o), orders' = OrderRowsAfter(o),
         signals' \in {signals, SignalsAfterCancel(signals, o)},
         \A s \in Signals : positions'[s].status = positions[s].status
  PROVE  /\ signals' \in [Signals -> SignalStatus] /\ Filling' /\ SingleSlot' /\ RowsFollowSignals'
         /\ \A s \in Signals : signals'[s] \in {"NONE", "REJECTED"} => signals[s] \in {"NONE", "REJECTED"}
<1>1. /\ signals' \in [Signals -> SignalStatus]
      /\ \A s \in Signals : signals'[s] \in {"NONE", "REJECTED"} => signals[s] \in {"NONE", "REJECTED"}
  BY CancelledSignals DEF Sound, TypeOK
<1>2. Filling'
  BY WrittenRows DEF Sound, Filling
<1>3. \A s \in Signals : orders'[s].status \in LiveStatus => orders[s].status \in LiveStatus
  BY WrittenLive
<1>4. SingleSlot'
  BY <1>3 DEF Sound, SingleSlot, Busy, LiveOrders, OpenPositions
<1>5. RowsFollowSignals'
  <2> SUFFICES ASSUME NEW s \in Signals
               PROVE  RowsFollow(s)'
    BY DEF RowsFollowSignals
  <2>1. RowsFollow(s)
    BY DEF Sound, RowsFollowSignals
  <2>2. CASE o = pending \/ pending = None \/ s # pending.sig
    <3>1. orders'[s] = orders[s]
      BY <2>2, WrittenRows
    <3>2. signals'[s] = signals[s]
      <4>1. o = pending => ~(o # None /\ o.status = "MISSED")
        BY DEF Sound, SlotMemory, LiveStatus
      <4>2. o = pending => SignalsAfterCancel(signals, o) = signals
        BY <4>1 DEF SignalsAfterCancel
      <4> QED
        BY <2>2, <4>2, CancelledSignals
    <3> QED
      BY <2>1, <3>1, <3>2 DEF RowsFollow
  <2>3. CASE o # pending /\ pending # None /\ s = pending.sig
    <3>1. orders'[s].status = o.status /\ orders'[s].filled = orders[s].filled
      BY <2>3, WrittenRows
    <3>2. \/ o.status \in LiveStatus /\ orders[s].status \in LiveStatus
          \/ o.status = "MISSED"
          \/ o.status = "CANCELLED"
      BY <2>3 DEF Moves
    <3>3. signals[s] \notin {"NONE", "REJECTED"}
      BY <2>3 DEF Sound, SlotMemory
    <3>4. signals'[s] = signals[s] \/ (signals'[s] = "MISSED" /\ o.status = "MISSED")
      BY <2>3, CancelledSignals
    <3> QED
      BY <2>1, <3>1, <3>2, <3>3, <3>4 DEF RowsFollow, LiveStatus
  <2> QED
    BY <2>2, <2>3
<1> QED
  BY <1>1, <1>2, <1>4, <1>5

(* Closing the position leaves the tables in order, whether or not the      *)
(* signal's row was written too.                                            *)
LEMMA RowsAfterClose ==
  ASSUME Sound, up, NEW o, Moves(o), Ended(o), orders' = OrderRowsAfter(o),
         position # None, RowOpen,
         signals' \in {SignalsAfterCancel(signals, o),
                       [SignalsAfterCancel(signals, o) EXCEPT ![position.sig] = "CLOSED"]},
         \A s \in Signals :
           positions'[s].status = IF s = position.sig THEN "CLOSED" ELSE positions[s].status
  PROVE  /\ signals' \in [Signals -> SignalStatus] /\ Filling' /\ SingleSlot' /\ RowsFollowSignals'
         /\ \A s \in Signals : signals'[s] \in {"NONE", "REJECTED"} => signals[s] \in {"NONE", "REJECTED"}
         /\ \A s \in Signals : orders'[s].status \notin LiveStatus /\ positions'[s].status # "OPEN"
<1>1. /\ position.sig \in Signals /\ positions[position.sig].status = "OPEN"
      /\ pending # None => pending.sig = position.sig
      /\ signals[position.sig] \notin {"NONE", "REJECTED"}
  BY MemoryTypes DEF RowOpen, Sound, SlotMemory
<1>2. /\ signals' \in [Signals -> SignalStatus]
      /\ \A s \in Signals : signals'[s] \in {"NONE", "REJECTED"} => signals[s] \in {"NONE", "REJECTED"}
  BY <1>1, CancelledSignals DEF SignalStatus
<1>3. Filling'
  BY WrittenRows DEF Sound, Filling
<1>4. \A s \in Signals : orders'[s].status \notin LiveStatus
  <2> SUFFICES ASSUME NEW s \in Signals, orders'[s].status \in LiveStatus
               PROVE  FALSE
    OBVIOUS
  <2>1. pending # None /\ (o.status \in LiveStatus \/ o = pending)
    BY WrittenLive
  <2>2. o.status \in {"MISSED", "CANCELLED"}
    BY <2>1 DEF Ended
  <2> QED
    BY <2>1, <2>2 DEF Sound, SlotMemory, LiveStatus
<1>5. \A s \in Signals : positions'[s].status # "OPEN"
  BY <1>1 DEF Sound, SlotMemory
<1>6. SingleSlot'
  BY <1>4, <1>5 DEF SingleSlot, Busy, LiveOrders, OpenPositions
<1>7. RowsFollowSignals'
  <2> SUFFICES ASSUME NEW s \in Signals
               PROVE  RowsFollow(s)'
    BY DEF RowsFollowSignals
  <2>1. RowsFollow(s)
    BY DEF Sound, RowsFollowSignals
  <2>2. CASE s # position.sig
    <3>1. pending = None \/ s # pending.sig
      BY <1>1, <2>2
    <3>2. orders'[s] = orders[s] /\ signals'[s] = signals[s] /\ positions'[s].status = positions[s].status
      BY <1>1, <2>2, <3>1, WrittenRows, CancelledSignals
    <3> QED
      BY <2>1, <3>2 DEF RowsFollow
  <2>3. CASE s = position.sig
    <3>1. positions'[s].status = "CLOSED" /\ signals'[s] \notin {"NONE", "REJECTED"}
      BY <1>1, <1>2, <2>3
    <3>2. orders'[s].status = "FILLED" => orders'[s].filled > 0
      <4>1. CASE o = pending
        BY <4>1, <2>1, WrittenRows DEF RowsFollow
      <4>2. CASE o # pending
        BY <4>2, <1>1, <2>3, WrittenRows DEF Ended
      <4> QED
        BY <4>1, <4>2
    <3> QED
      BY <1>4, <3>1, <3>2 DEF RowsFollow
  <2> QED
    BY <2>2, <2>3
<1> QED
  BY <1>2, <1>3, <1>4, <1>5, <1>6, <1>7

(* Memory that stays about its signal keeps holding what the rows show.     *)
LEMMA SlotKept ==
  ASSUME Sound, up, up',
         pending' = None \/ /\ pending # None /\ pending'.sig = pending.sig
                            /\ pending'.status \in LiveStatus \cup {"FILLED"},
         position' = None \/ (position # None /\ position'.sig = position.sig),
         \A s \in Signals : orders'[s].status \in LiveStatus =>
           orders[s].status \in LiveStatus /\ pending' # None,
         \A s \in Signals : positions'[s].status = "OPEN" =>
           positions[s].status = "OPEN" /\ position' # None,
         \A s \in Signals : signals'[s] \in {"NONE", "REJECTED"} => signals[s] \in {"NONE", "REJECTED"}
  PROVE  SlotMemory'
<1>1. /\ pending # None => pending.sig \in Signals
      /\ position # None => position.sig \in Signals
  BY MemoryTypes
<1>2. \A s \in Signals : orders'[s].status \in LiveStatus => pending' # None /\ pending'.sig = s
  BY DEF Sound, SlotMemory
<1>3. \A s \in Signals : positions'[s].status = "OPEN" => position' # None /\ position'.sig = s
  BY DEF Sound, SlotMemory
<1>4. pending' # None /\ position' # None => pending'.sig = position'.sig
  BY DEF Sound, SlotMemory
<1>5. pending' # None => signals'[pending'.sig] \notin {"NONE", "REJECTED"}
  BY <1>1 DEF Sound, SlotMemory
<1>6. position' # None => signals'[position'.sig] \notin {"NONE", "REJECTED"}
  BY <1>1 DEF Sound, SlotMemory
<1> QED
  BY <1>2, <1>3, <1>4, <1>5, <1>6 DEF SlotMemory

(* Memory that is ahead of its rows stays so, or is emptied.                *)
LEMMA StillAstray ==
  ASSUME Sound, Astray, failed \subseteq failed',
         pending' = None \/ (pending # None /\ pending'.sig = pending.sig),
         position' = None \/ (position # None /\ position'.sig = position.sig)
  PROVE  Mirrored' \/ Astray'
<1>1. CASE pending' = None /\ position' = None
  BY <1>1 DEF Mirrored
<1>2. CASE ~(pending' = None /\ position' = None)
  <2>1. PICK s \in failed : (pending # None /\ pending.sig = s) \/ (position # None /\ position.sig = s)
    BY DEF Astray
  <2>2. pending # None /\ position # None => pending.sig = position.sig
    BY DEF Sound, SlotMemory
  <2>3. /\ pending' # None => pending'.sig = s
        /\ position' # None => position'.sig = s
    BY <2>1, <2>2
  <2>4. s \in failed'
    OBVIOUS
  <2> QED
    BY <1>2, <2>3, <2>4 DEF Astray
<1> QED
  BY <1>1, <1>2

(* What settling an entry leaves of it in memory.                           *)
LEMMA MemoryAfterSettle ==
  ASSUME Sound, up, NEW o, Moves(o), SettleOrder(o)
  PROVE  /\ pending' \in MemoryOrder \cup {None}
         /\ pending' = None \/ /\ pending # None /\ pending'.sig = pending.sig
                               /\ pending'.status \in LiveStatus \cup {"FILLED"}
         /\ \A s \in Signals : orders'[s].status \in LiveStatus =>
              orders[s].status \in LiveStatus /\ pending' # None
         /\ Mirrored /\ pending' # None =>
              pending'.status \in LiveStatus /\ orders'[pending'.sig] = NewOrderRow(pending')
<1>1. orders' = OrderRowsAfter(o) /\ pending' = InFlight(o)
  BY DEF SettleOrder
<1>2. /\ pending' = None \/ pending' = o
      /\ pending' # None => /\ pending # None /\ o \in MemoryOrder /\ o.sig = pending.sig
                            /\ o.status \in LiveStatus \cup {"FILLED"}
  BY <1>1, MovedLive
<1>3. \A s \in Signals : orders'[s].status \in LiveStatus =>
        orders[s].status \in LiveStatus /\ pending' # None
  <2> SUFFICES ASSUME NEW s \in Signals, orders'[s].status \in LiveStatus
               PROVE  orders[s].status \in LiveStatus /\ pending' # None
    OBVIOUS
  <2>1. /\ orders[s].status \in LiveStatus /\ o # None
        /\ o.status \in LiveStatus \/ o = pending
    BY <1>1, WrittenLive
  <2>2. InFlight(o) = o
    BY <2>1 DEF InFlight, Live
  <2> QED
    BY <1>1, <2>1, <2>2
<1>4. Mirrored /\ pending' # None =>
        pending'.status \in LiveStatus /\ orders'[pending'.sig] = NewOrderRow(pending')
  <2> SUFFICES ASSUME Mirrored, pending' # None
               PROVE  pending'.status \in LiveStatus /\ orders'[pending'.sig] = NewOrderRow(pending')
    OBVIOUS
  <2>1. pending' = o /\ pending # None /\ o.sig = pending.sig
    BY <1>2
  <2>2. pending.status \in LiveStatus /\ orders[pending.sig] = NewOrderRow(pending)
    BY <2>1 DEF Mirrored
  <2>3. orders'[pending.sig] = NewOrderRow(o)
    BY <1>1, <2>1, <2>2, WrittenRows
  <2>4. o = pending \/ Live(o)
    BY <1>1, <2>1 DEF InFlight
  <2> QED
    BY <2>1, <2>2, <2>3, <2>4 DEF Live
<1> QED
  BY <1>2, <1>3, <1>4

(* A kill forgets the process's memory.                                     *)
LEMMA KilledMemory ==
  ASSUME Sound, Killed
  PROVE  /\ SlotMemory' /\ Mirrored'
         /\ up' \in BOOLEAN /\ crashes' \in Nat /\ now' = now /\ tape' = tape
         /\ listed' = listed /\ failed' \subseteq Signals
         /\ pending' = None /\ position' = None
<1>1. /\ up' = FALSE /\ crashes' = crashes + 1 /\ pending' = None /\ position' = None
      /\ now' = now /\ tape' = tape /\ failed' = {} /\ listed' = listed
  BY DEF Killed
<1>2. crashes' \in Nat
  BY <1>1 DEF Sound, TypeOK
<1>3. SlotMemory' /\ Mirrored'
  BY <1>1 DEF SlotMemory, Mirrored
<1> QED
  BY <1>1, <1>2, <1>3

(* A refused write leaves the process up, with what memory had become.      *)
LEMMA SurvivorMemory ==
  ASSUME Sound, NEW s \in Signals, NEW o, NEW p, NEW h, Survives(s, o, p, h)
  PROVE  /\ up /\ up' /\ up' \in BOOLEAN /\ crashes' \in Nat /\ now' = now /\ tape' = h
         /\ listed' = listed /\ failed' \subseteq Signals /\ failed \subseteq failed'
         /\ pending' = o /\ position' = p /\ equity' = equity
         /\ (o # None /\ o.sig = s) \/ (p # None /\ p.sig = s) => Astray'
<1>1. /\ up /\ up' = up /\ crashes' = crashes + 1 /\ pending' = o /\ position' = p
      /\ now' = now /\ tape' = h /\ failed' = failed \cup {s} /\ listed' = listed
      /\ equity' = equity
  BY DEF Survives, Stops
<1>2. crashes' \in Nat
  BY <1>1 DEF Sound, TypeOK
<1>3. (o # None /\ o.sig = s) \/ (p # None /\ p.sig = s) => Astray'
  BY <1>1 DEF Astray
<1>4. failed' \subseteq Signals
  BY <1>1 DEF Sound, TypeOK
<1> QED
  BY <1>1, <1>2, <1>3, <1>4

(* The price a quote lets a side trade at is a price.                       *)
LEMMA ExecutablePrice ==
  ASSUME NEW q \in Quotes
  PROVE  \A s : Executable(s, q) \in Nat
<1>1. q.bid \in Prices /\ q.ask \in Prices
  BY DEF Quotes
<1> QED
  BY <1>1, ExecutorAssumption DEF Executable

(* Marking a position changes its excursion only.                           *)
LEMMA MarkedType ==
  ASSUME NEW p \in MemoryPosition, NEW price \in Nat
  PROVE  /\ MarkedAt(p, price) \in MemoryPosition
         /\ MarkedAt(p, price).sig = p.sig
         /\ MarkedAt(p, price).entry = p.entry
         /\ MarkedAt(p, price).qty = p.qty
         /\ MarkedAt(p, price).best = Better(p.sig, p.best, price)
         /\ MarkedAt(p, price).worst = Worse(p.sig, p.worst, price)
<1>1. Better(p.sig, p.best, price) \in Nat /\ Worse(p.sig, p.worst, price) \in Nat
  BY DEF Better, Worse, MemoryPosition
<1> DEFINE best  == Better(p.sig, p.best, price)
           worst == Worse(p.sig, p.worst, price)
<1> HIDE DEF best, worst
<1>2. MarkedAt(p, price) = [p EXCEPT !.best = best, !.worst = worst]
  BY DEF MarkedAt, best, worst
<1> QED
  BY <1>1, <1>2 DEF MemoryPosition, best, worst

(* Marking a row writes the excursion of an open one and nothing else.      *)
LEMMA MarkedRow ==
  ASSUME NEW row \in PositionRow, NEW m \in MemoryPosition
  PROVE  LET r == PositionRowMarked(row, m)
         IN  /\ r \in PositionRow
             /\ r.status = row.status /\ r.entry = row.entry /\ r.qty = row.qty
             /\ r.exit = row.exit /\ r.pnl = row.pnl /\ r.closed = row.closed
             /\ row.status = "OPEN" => r.best = m.best /\ r.worst = m.worst
             /\ row.status # "OPEN" => r = row
<1>1. CASE row.status = "OPEN"
  <2>1. PositionRowMarked(row, m) = [row EXCEPT !.best = m.best, !.worst = m.worst]
    BY <1>1 DEF PositionRowMarked
  <2> QED
    BY <1>1, <2>1 DEF PositionRow, MemoryPosition
<1>2. CASE row.status # "OPEN"
  BY <1>2 DEF PositionRowMarked
<1> QED
  BY <1>1, <1>2

(* What marking the position leaves of the table.                           *)
LEMMA MarkedRows ==
  ASSUME Sound, position # None, NEW price \in Nat, positions' = RowsMarked(price)
  PROVE  /\ positions' \in [Signals -> PositionRow]
         /\ \A s \in Signals :
              /\ positions'[s].status = positions[s].status /\ positions'[s].qty = positions[s].qty
              /\ positions'[s].pnl = positions[s].pnl /\ positions'[s].closed = positions[s].closed
              /\ s # position.sig \/ positions[s].status # "OPEN" => positions'[s] = positions[s]
         /\ OpenRowsUnsettled'
         /\ positions[position.sig] = NewPositionRow(position) =>
              positions'[position.sig] = NewPositionRow(MarkedAt(position, price))
<1> DEFINE m   == MarkedAt(position, price)
           row == positions[position.sig]
           r   == PositionRowMarked(row, m)
<1>1. /\ position \in MemoryPosition /\ position.sig \in Signals /\ row \in PositionRow
      /\ positions \in [Signals -> PositionRow]
  BY MemoryTypes DEF Sound, TypeOK
<1>2. m \in MemoryPosition /\ m.sig = position.sig /\ m.entry = position.entry /\ m.qty = position.qty
  BY <1>1, MarkedType
<1>3. positions' = [positions EXCEPT ![position.sig] = r]
  BY DEF RowsMarked
<1> HIDE DEF m
<1>4. /\ r \in PositionRow
      /\ r.status = row.status /\ r.entry = row.entry /\ r.qty = row.qty
      /\ r.exit = row.exit /\ r.pnl = row.pnl /\ r.closed = row.closed
      /\ row.status = "OPEN" => r.best = m.best /\ r.worst = m.worst
      /\ row.status # "OPEN" => r = row
  BY <1>1, <1>2, MarkedRow
<1> HIDE DEF r
<1>5. positions'[position.sig] = r /\ \A s \in Signals : s # position.sig => positions'[s] = positions[s]
  BY <1>1, <1>3
<1>6. row = NewPositionRow(position) => r = NewPositionRow(m)
  <2> SUFFICES ASSUME row = NewPositionRow(position)
               PROVE  r = NewPositionRow(m)
    OBVIOUS
  <2>1. /\ row.status = "OPEN" /\ row.exit = 0 /\ row.pnl = 0 /\ row.closed = 0
        /\ row.entry = position.entry /\ row.qty = position.qty
    BY DEF NewPositionRow
  <2> QED
    BY <1>2, <1>4, <2>1 DEF NewPositionRow, PositionRow
<1>7. OpenRowsUnsettled'
  BY <1>1, <1>4, <1>5 DEF Sound, OpenRowsUnsettled
<1>8. positions' \in [Signals -> PositionRow]
  BY <1>1, <1>3, <1>4
<1> QED
  BY <1>1, <1>4, <1>5, <1>6, <1>7, <1>8 DEF m

(* The result of a trade is a number.                                       *)
LEMMA ResultType ==
  ASSUME NEW p \in MemoryPosition, NEW price \in Nat
  PROVE  Slipped(p.sig, price) \in Int /\ NetPnl(p, Slipped(p.sig, price)) \in Int
<1>1. Direction(p.sig) \in Int /\ p.entry \in Int /\ p.qty \in Int
  BY DEF Direction, MemoryPosition
<1>2. Slippage \in Int /\ CostPerLot \in Int
  BY JournalAssumption
<1>3. Direction(p.sig) * Slippage \in Int
  BY <1>1, <1>2
<1>4. Slipped(p.sig, price) \in Int
  BY <1>3 DEF Slipped
<1>5. Direction(p.sig) * (Slipped(p.sig, price) - p.entry) \in Int
  BY <1>1, <1>4
<1>6. Direction(p.sig) * (Slipped(p.sig, price) - p.entry) * p.qty \in Int /\ CostPerLot * p.qty \in Int
  BY <1>1, <1>2, <1>5
<1> QED
  BY <1>4, <1>6 DEF NetPnl

(* The columns of the row an exit writes.                                   *)
LEMMA ExitColumns ==
  ASSUME Sound, up, position # None, RowOpen, NEW price \in Nat, positions' = RowsAfterExit(price)
  PROVE  LET s == position.sig
             r == positions'[s]
         IN  /\ positions' \in [Signals -> PositionRow]
             /\ position \in MemoryPosition /\ s \in Signals /\ positions[s].status = "OPEN"
             /\ \A t \in Signals : t # s => positions'[t] = positions[t] /\ positions[t].status # "OPEN"
             /\ r.status = "CLOSED" /\ r.exit = Slipped(s, price)
             /\ r.pnl = NetPnl(position, Slipped(s, price)) /\ r.closed = now
             /\ r.entry = positions[s].entry /\ r.qty = positions[s].qty
             /\ r.best = Better(s, position.best, price) /\ r.worst = Worse(s, position.worst, price)
<1> DEFINE s   == position.sig
           m   == MarkedAt(position, price)
           row == PositionRowMarked(positions[s], m)
           x   == Slipped(s, price)
           net == NetPnl(position, x)
<1>1. /\ position \in MemoryPosition /\ s \in Signals /\ now \in Nat /\ positions[s] \in PositionRow
      /\ positions \in [Signals -> PositionRow] /\ positions[s].status = "OPEN"
  BY MemoryTypes DEF Sound, TypeOK, RowOpen
<1>2. /\ m \in MemoryPosition
      /\ m.best = Better(s, position.best, price) /\ m.worst = Worse(s, position.worst, price)
  BY <1>1, MarkedType
<1>3. x \in Int /\ net \in Int
  BY <1>1, ResultType
<1> HIDE DEF m
<1>4. /\ row \in PositionRow /\ row.entry = positions[s].entry /\ row.qty = positions[s].qty
      /\ row.best = m.best /\ row.worst = m.worst
  BY <1>1, <1>2, MarkedRow
<1> DEFINE closed == PositionRowClosed(row, position, price)
<1>5. closed = [row EXCEPT !.status = "CLOSED", !.exit = x, !.pnl = net, !.closed = now]
  BY DEF PositionRowClosed
<1>6. positions' = [positions EXCEPT ![s] = closed]
  BY DEF RowsAfterExit, m
<1> HIDE DEF closed, row, x, net
<1>7. /\ closed \in PositionRow
      /\ closed.status = "CLOSED" /\ closed.exit = x /\ closed.pnl = net /\ closed.closed = now
      /\ closed.entry = row.entry /\ closed.qty = row.qty
      /\ closed.best = row.best /\ closed.worst = row.worst
  BY <1>1, <1>3, <1>4, <1>5 DEF PositionRow, PositionStatus
<1>8. /\ positions' \in [Signals -> PositionRow]
      /\ positions'[s] = closed /\ \A t \in Signals : t # s => positions'[t] = positions[t]
  BY <1>1, <1>6, <1>7
<1>9. \A t \in Signals : t # s => positions[t].status # "OPEN"
  BY DEF Sound, SlotMemory
<1> QED
  BY <1>1, <1>2, <1>4, <1>7, <1>8, <1>9 DEF x, net

(* An exit closes one row and sizes none anew.                              *)
LEMMA ExitRows ==
  ASSUME Sound, up, position # None, RowOpen, NEW price \in Nat, positions' = RowsAfterExit(price)
  PROVE  /\ positions' \in [Signals -> PositionRow]
         /\ \A s \in Signals :
              /\ positions'[s].status = IF s = position.sig THEN "CLOSED" ELSE positions[s].status
              /\ positions'[s].qty = positions[s].qty
         /\ OpenRowsUnsettled'
<1>1. /\ positions' \in [Signals -> PositionRow] /\ position.sig \in Signals
      /\ positions'[position.sig].status = "CLOSED"
      /\ positions'[position.sig].qty = positions[position.sig].qty
      /\ \A t \in Signals : t # position.sig => positions'[t] = positions[t] /\ positions[t].status # "OPEN"
  BY ExitColumns
<1>2. OpenRowsUnsettled'
  BY <1>1 DEF OpenRowsUnsettled
<1> QED
  BY <1>1, <1>2

(* The tape keeps its type on a quote.                                      *)
LEMMA TapeAfterQuoteType ==
  ASSUME Sound, NEW o, NEW q \in Quotes
  PROVE  TapeAfterQuote(o, q) \in [arrival: Nat, traded: Nat]
<1>1. q.shown \in Nat
  BY ExecutorAssumption DEF Quotes
<1>2. tape \in [arrival: Nat, traded: Nat]
  BY DEF Sound, TypeOK
<1>3. FreshTape \in [arrival: Nat, traded: Nat]
      /\ [arrival |-> q.shown, traded |-> 0] \in [arrival: Nat, traded: Nat]
  BY <1>1 DEF FreshTape
<1> QED
  BY <1>2, <1>3 DEF TapeAfterQuote

(* A decision keeps the invariant: it submits only when memory is empty,    *)
(* hence when no row is live or open.                                       *)
LEMMA DecideKeeps ==
  ASSUME IInv, NEW s \in Signals, NEW q \in Quotes, NEW reference \in Prices,
         NEW lots \in 0..MaxLots, Decide(s, q, reference, lots)
  PROVE  IInv'
<1> DEFINE entry     == Executable(s, q)
           malformed == Malformed(s, reference, entry)
           submitted == Submits(s, reference, entry, lots)
           verdict   == CASE malformed -> "REJECTED"
                          [] submitted -> "TRIGGERED"
                          [] OTHER     -> "MISSED"
           o         == NewOrder(s, entry, lots)
<1>1. /\ up /\ signals[s] = "NONE"
      /\ signals' = [signals EXCEPT ![s] = verdict]
      /\ IF submitted
         THEN pending' = o /\ orders' = [orders EXCEPT ![s] = NewOrderRow(o)] /\ tape' = FreshTape
         ELSE UNCHANGED <<pending, orders, tape>>
      /\ UNCHANGED <<now, up, positions, position, equity, listed, failed, crashes>>
  BY DEF Decide, Decides, Receives, Fresh
<1>2. entry \in Nat /\ now \in Nat /\ lots \in Nat
  <2>1. entry \in Nat
    BY ExecutablePrice
  <2>2. now \in Nat
    BY DEF IInv, Sound, TypeOK
  <2>3. lots \in Nat
    BY ExecutorAssumption
  <2> QED
    BY <2>1, <2>2, <2>3
<1>3. o \in MemoryOrder /\ NewOrderRow(o) \in OrderRow /\ o.sig = s /\ o.status = "PENDING" /\ o.filled = 0
  BY <1>2 DEF NewOrder, NewOrderRow, MemoryOrder, OrderRow, OrderStatus, LiveStatus
<1>4. verdict \in SignalStatus /\ (verdict = "REJECTED" => ~submitted)
      /\ verdict \notin {"NONE", "OPEN", "CLOSED"} /\ (verdict = "MISSED" => ~submitted)
  BY DEF SignalStatus, Submits
<1>5. submitted => pending = None /\ position = None
  BY DEF Submits, SubmissionBlocked, PortfolioBusy
<1>6. orders[s].status = "NONE" /\ positions[s].status = "NONE" /\ RowsFollow(s)
  BY <1>1 DEF IInv, Sound, RowsFollowSignals, RowsFollow
<1>7. signals \in [Signals -> SignalStatus] /\ orders \in [Signals -> OrderRow]
  BY DEF IInv, Sound, TypeOK
<1> HIDE DEF entry, malformed, submitted, verdict, o
<1>8. /\ signals'[s] = verdict /\ signals' \in [Signals -> SignalStatus]
      /\ \A t \in Signals : t # s => signals'[t] = signals[t]
  BY <1>1, <1>4, <1>7
<1>9. CASE submitted
  <2>1. /\ pending' = o /\ orders' = [orders EXCEPT ![s] = NewOrderRow(o)] /\ tape' = FreshTape
        /\ verdict \notin {"NONE", "REJECTED", "MISSED"}
    BY <1>1, <1>4, <1>9
  <2>2. NewOrderRow(o).status = "PENDING" /\ NewOrderRow(o).filled = 0 /\ NewOrderRow(o).qty \in Nat
    BY <1>3 DEF NewOrderRow, OrderRow
  <2>3. \A t \in Signals : orders[t].status \notin LiveStatus /\ positions[t].status # "OPEN"
    BY <1>1, <1>5, <1>9 DEF IInv, Sound, SlotMemory
  <2>4. /\ orders'[s] = NewOrderRow(o) /\ orders' \in [Signals -> OrderRow]
        /\ \A t \in Signals : t # s => orders'[t] = orders[t]
    BY <1>3, <1>7, <2>1
  <2>5. TypeOK'
    BY <1>1, <1>3, <1>8, <2>1, <2>4 DEF IInv, Sound, TypeOK, FreshTape
  <2>6. Filling'
    BY <2>2, <2>4 DEF IInv, Sound, Filling
  <2>7. SlotMemory' /\ Mirrored'
    BY <1>1, <1>3, <1>5, <1>8, <1>9, <2>1, <2>3, <2>4, ExecutorAssumption
       DEF SlotMemory, Mirrored, LiveStatus
  <2>8. SingleSlot'
    BY <1>1, <2>3, <2>4 DEF SingleSlot, Busy, LiveOrders, OpenPositions
  <2>9. RowsFollowSignals'
    <3> SUFFICES ASSUME NEW t \in Signals
                 PROVE  RowsFollow(t)'
      BY DEF RowsFollowSignals
    <3>1. CASE t # s
      BY <3>1, <1>1, <1>8, <2>4 DEF IInv, Sound, RowsFollowSignals, RowsFollow
    <3>2. CASE t = s
      BY <3>2, <1>1, <1>4, <1>6, <1>8, <2>1, <2>2, <2>4 DEF RowsFollow
    <3> QED
      BY <3>1, <3>2
  <2> QED
    BY <1>1, <2>5, <2>6, <2>7, <2>8, <2>9 DEF IInv, Sound, OpenRowsUnsettled
<1>10. CASE ~submitted
  <2>1. UNCHANGED <<pending, orders, tape, now, up, positions, position, equity, listed, failed, crashes>>
    BY <1>1, <1>10
  <2>2. TypeOK' /\ Filling' /\ SingleSlot' /\ OpenRowsUnsettled'
    BY <1>8, <2>1 DEF IInv, Sound, TypeOK, Filling, SingleSlot, Busy, LiveOrders, OpenPositions,
                      OpenRowsUnsettled
  <2>3. SlotMemory'
    <3>1. pending # None => pending.sig # s /\ pending.sig \in Signals
      BY <1>1, MemoryTypes DEF IInv, Sound, SlotMemory
    <3>2. position # None => position.sig # s /\ position.sig \in Signals
      BY <1>1, MemoryTypes DEF IInv, Sound, SlotMemory
    <3> QED
      BY <1>8, <2>1, <3>1, <3>2 DEF IInv, Sound, SlotMemory
  <2>4. Mirrored' \/ Astray'
    BY <2>1 DEF IInv, Mirrored, Astray
  <2>5. RowsFollowSignals'
    <3> SUFFICES ASSUME NEW t \in Signals
                 PROVE  RowsFollow(t)'
      BY DEF RowsFollowSignals
    <3>1. CASE t # s
      BY <3>1, <1>8, <2>1 DEF IInv, Sound, RowsFollowSignals, RowsFollow
    <3>2. CASE t = s
      BY <3>2, <1>4, <1>6, <1>8, <2>1 DEF RowsFollow
    <3> QED
      BY <3>1, <3>2
  <2> QED
    BY <2>2, <2>3, <2>4, <2>5 DEF IInv, Sound
<1> QED
  BY <1>9, <1>10

(* An exit leaves nothing of the entry that filled the position.            *)
LEMMA HeldEnds ==
  ASSUME IInv, Receives, NEW sym, NEW q \in Quotes, Holds(sym)
  PROVE  LET r == RemainderCancelled(AfterQuote(sym, q))
         IN  Moves(r) /\ Ended(r) /\ ~Live(r)
<1> DEFINE o == AfterQuote(sym, q)
<1>1. Moves(o) /\ Sound
  BY QuoteMoves DEF IInv
<1>2. Moves(RemainderCancelled(o)) /\ ~Live(RemainderCancelled(o))
  BY <1>1, RemainderMoves
<1>3. CASE pending = None
  BY <1>2, <1>3 DEF Ended
<1>4. CASE Live(o)
  BY <1>1, <1>2, <1>4, CancelledMove DEF RemainderCancelled
<1>5. CASE pending # None /\ ~Live(o)
  <2>1. Mine(sym)
    BY <1>5 DEF Mine, Holds, IInv, Sound, SlotMemory
  <2>2. CASE now >= Expiry(pending)
    <3>1. o = Cancelled(pending)
      BY <2>1, <2>2 DEF AfterQuote, Advanced
    <3> QED
      BY <1>1, <1>2, <1>5, <3>1, CancelledMoves DEF RemainderCancelled
  <2>3. CASE ~(now >= Expiry(pending))
    <3>1. pending.status \in LiveStatus
      BY <1>5, <2>3, UnexpiredMirrors DEF Mirrored
    <3>2. o # pending /\ o # None
      BY <1>1, <1>5, <3>1, MovedLive DEF Live
    <3>3. o.status \in {"MISSED", "CANCELLED"}
      BY <1>1, <1>5, <3>2 DEF Moves, Live
    <3> QED
      BY <1>2, <1>5, <3>3 DEF RemainderCancelled, Ended
  <2> QED
    BY <2>2, <2>3
<1> QED
  BY <1>3, <1>4, <1>5

(* A quote that only moves the entry keeps the invariant.                   *)
LEMMA AdvancesKeeps ==
  ASSUME IInv, up, NEW o, Moves(o), SettleOrder(o), signals' = SignalsAfterCancel(signals, o),
         tape' \in [arrival: Nat, traded: Nat],
         UNCHANGED <<now, up, positions, position, listed, failed, crashes>>
  PROVE  IInv'
<1>1. Sound /\ orders' = OrderRowsAfter(o)
  BY DEF IInv, SettleOrder
<1>2. /\ pending' \in MemoryOrder \cup {None}
      /\ pending' = None \/ /\ pending # None /\ pending'.sig = pending.sig
                            /\ pending'.status \in LiveStatus \cup {"FILLED"}
      /\ \A s \in Signals : orders'[s].status \in LiveStatus =>
           orders[s].status \in LiveStatus /\ pending' # None
      /\ Mirrored /\ pending' # None =>
           pending'.status \in LiveStatus /\ orders'[pending'.sig] = NewOrderRow(pending')
  BY <1>1, MemoryAfterSettle
<1>3. orders' \in [Signals -> OrderRow]
  BY <1>1, WrittenRows
<1>4. /\ signals' \in [Signals -> SignalStatus] /\ Filling' /\ SingleSlot' /\ RowsFollowSignals'
      /\ \A s \in Signals : signals'[s] \in {"NONE", "REJECTED"} => signals[s] \in {"NONE", "REJECTED"}
  BY <1>1, RowsAfterSettle
<1>5. SlotMemory'
  <2>1. \A s \in Signals : positions'[s].status = "OPEN" =>
          positions[s].status = "OPEN" /\ position' # None
    BY DEF IInv, Sound, SlotMemory
  <2> QED
    BY <1>1, <1>2, <1>4, <2>1, SlotKept
<1>6. Mirrored' \/ Astray'
  <2>1. Mirrored => Mirrored'
    BY <1>2 DEF Mirrored
  <2>2. Astray => Mirrored' \/ Astray'
    BY <1>1, <1>2, StillAstray
  <2> QED
    BY <2>1, <2>2 DEF IInv
<1> QED
  BY <1>1, <1>2, <1>3, <1>4, <1>5, <1>6 DEF IInv, Sound, TypeOK, OpenRowsUnsettled

(* So does one that marks the position as well.                             *)
LEMMA MarksKeeps ==
  ASSUME IInv, up, NEW o, Moves(o), position # None, NEW price \in Nat, QuoteMarks(o, price),
         tape' \in [arrival: Nat, traded: Nat],
         UNCHANGED <<now, up, listed, failed, crashes>>
  PROVE  IInv'
<1>1. /\ Sound /\ SettleOrder(o) /\ orders' = OrderRowsAfter(o)
      /\ signals' = SignalsAfterCancel(signals, o)
      /\ position' = MarkedAt(position, price) /\ positions' = RowsMarked(price)
  BY DEF IInv, QuoteMarks, SettleOrder
<1>2. /\ pending' \in MemoryOrder \cup {None}
      /\ pending' = None \/ /\ pending # None /\ pending'.sig = pending.sig
                            /\ pending'.status \in LiveStatus \cup {"FILLED"}
      /\ \A s \in Signals : orders'[s].status \in LiveStatus =>
           orders[s].status \in LiveStatus /\ pending' # None
      /\ Mirrored /\ pending' # None =>
           pending'.status \in LiveStatus /\ orders'[pending'.sig] = NewOrderRow(pending')
  BY <1>1, MemoryAfterSettle
<1>3. orders' \in [Signals -> OrderRow]
  BY <1>1, WrittenRows
<1>4. position \in MemoryPosition /\ position' \in MemoryPosition /\ position'.sig = position.sig
      /\ position' # None
  BY <1>1, MemoryTypes, MarkedType, ExecutorAssumption
<1>5. /\ positions' \in [Signals -> PositionRow]
      /\ \A s \in Signals : positions'[s].status = positions[s].status
      /\ OpenRowsUnsettled'
      /\ positions[position.sig] = NewPositionRow(position) =>
           positions'[position.sig] = NewPositionRow(position')
  BY <1>1, MarkedRows
<1>6. /\ signals' \in [Signals -> SignalStatus] /\ Filling' /\ SingleSlot' /\ RowsFollowSignals'
      /\ \A s \in Signals : signals'[s] \in {"NONE", "REJECTED"} => signals[s] \in {"NONE", "REJECTED"}
  BY <1>1, <1>5, RowsAfterSettle
<1>7. SlotMemory'
  BY <1>1, <1>2, <1>4, <1>5, <1>6, SlotKept
<1>8. Mirrored' \/ Astray'
  <2>1. Mirrored => Mirrored'
    BY <1>2, <1>4, <1>5 DEF Mirrored
  <2>2. Astray => Mirrored' \/ Astray'
    BY <1>1, <1>2, <1>4, StillAstray
  <2> QED
    BY <2>1, <2>2 DEF IInv
<1> QED
  BY <1>1, <1>2, <1>3, <1>4, <1>5, <1>6, <1>7, <1>8 DEF IInv, Sound, TypeOK

(* on_quote keeps the invariant, in each of its outcomes.                   *)
LEMMA OnQuoteKeeps ==
  ASSUME IInv, NEW sym, NEW q \in Quotes, OnQuote(sym, q)
  PROVE  IInv'
<1> DEFINE o     == AfterQuote(sym, q)
           price == Executable(position.sig, q)
           r     == RemainderCancelled(o)
<1>1. /\ Receives /\ up /\ UNCHANGED <<now, up, listed, failed, crashes>>
      /\ tape' = TapeAfterQuote(o, q)
      /\ \/ ~Holds(sym) /\ QuoteAdvances(o)
         \/ Holds(sym) /\ QuoteMarks(o, price)
         \/ Holds(sym) /\ RowOpen /\ QuoteCloses(o, price)
         \/ Holds(sym) /\ QuoteMarks(r, price)
  BY DEF OnQuote, Quoted, Hears, Receives
<1>2. Moves(o) /\ Sound /\ Moves(r)
  BY <1>1, QuoteMoves, RemainderMoves DEF IInv
<1>3. tape' \in [arrival: Nat, traded: Nat]
  BY <1>1, <1>2, TapeAfterQuoteType
<1>4. price \in Nat
  BY ExecutablePrice
<1>5. Holds(sym) => position # None /\ Ended(r)
  BY <1>1, HeldEnds DEF Holds
<1>6. QuoteCloses(o, price) =>
        /\ SettleOrder(r)
        /\ signals' = [SignalsAfterCancel(signals, r) EXCEPT ![position.sig] = "CLOSED"]
        /\ positions' = RowsAfterExit(price)
        /\ position' = None
  BY DEF QuoteCloses
<1> HIDE DEF o, price, r
<1>7. CASE QuoteAdvances(o)
  BY <1>1, <1>2, <1>3, <1>7, AdvancesKeeps DEF QuoteAdvances
<1>8. CASE Holds(sym) /\ (QuoteMarks(o, price) \/ QuoteMarks(r, price))
  BY <1>1, <1>2, <1>3, <1>4, <1>5, <1>8, MarksKeeps
<1>9. CASE Holds(sym) /\ RowOpen /\ QuoteCloses(o, price)
  <2>1. /\ SettleOrder(r) /\ orders' = OrderRowsAfter(r) /\ pending' = InFlight(r)
        /\ signals' = [SignalsAfterCancel(signals, r) EXCEPT ![position.sig] = "CLOSED"]
        /\ positions' = RowsAfterExit(price)
        /\ position' = None /\ position # None /\ Ended(r)
    BY <1>5, <1>6, <1>9 DEF SettleOrder
  <2>2. pending' = None
    <3>1. CASE pending = None
      BY <1>2, <2>1, <3>1, MovedLive
    <3>2. CASE pending # None
      <4>1. r.status \in {"MISSED", "CANCELLED"}
        BY <2>1, <3>2 DEF Ended
      <4>2. r # pending /\ ~Live(r)
        BY <1>2, <3>2, <4>1 DEF Sound, SlotMemory, LiveStatus, Live
      <4> QED
        BY <2>1, <4>2 DEF InFlight
    <3> QED
      BY <3>1, <3>2
  <2>3. orders' \in [Signals -> OrderRow]
    BY <1>2, <2>1, WrittenRows
  <2>4. /\ positions' \in [Signals -> PositionRow]
        /\ \A s \in Signals :
             positions'[s].status = IF s = position.sig THEN "CLOSED" ELSE positions[s].status
        /\ OpenRowsUnsettled'
    BY <1>1, <1>2, <1>4, <1>9, <2>1, ExitRows
  <2>5. /\ signals' \in [Signals -> SignalStatus] /\ Filling' /\ SingleSlot' /\ RowsFollowSignals'
        /\ \A s \in Signals : orders'[s].status \notin LiveStatus /\ positions'[s].status # "OPEN"
    BY <1>1, <1>2, <1>9, <2>1, <2>4, RowsAfterClose
  <2>6. SlotMemory' /\ Mirrored'
    BY <2>1, <2>2, <2>5 DEF SlotMemory, Mirrored
  <2> QED
    BY <1>1, <1>2, <1>3, <2>1, <2>2, <2>3, <2>4, <2>5, <2>6 DEF IInv, Sound, TypeOK
<1> QED
  BY <1>1, <1>7, <1>8, <1>9

(* A trade takes from the queue first and never fills beyond the order.     *)
LEMMA FillArithmetic ==
  ASSUME Sound, NEW t \in Trades, pending # None, pending.filled <= pending.qty
  PROVE  /\ pending \in MemoryOrder
         /\ t.qty \in Nat
         /\ Consumed(pending, t) \in Nat
         /\ Consumed(pending, t) <= pending.queue
         /\ FillOf(pending, t) \in Nat
         /\ pending.filled + FillOf(pending, t) <= pending.qty
         /\ Consumed(pending, t) + FillOf(pending, t) <= t.qty
         /\ FillOf(pending, t) > 0 => Consumed(pending, t) = pending.queue
<1>1. pending \in MemoryOrder /\ pending.sig \in Signals
  BY MemoryTypes
<1>2. t.qty \in Nat
  BY ExecutorAssumption DEF Trades
<1>3. pending.filled \in Nat /\ pending.qty \in Nat /\ pending.queue \in Nat
  BY <1>1 DEF MemoryOrder
<1>5. /\ Consumed(pending, t) \in Nat
      /\ Consumed(pending, t) <= pending.queue
      /\ Consumed(pending, t) <= t.qty
      /\ Consumed(pending, t) < t.qty => Consumed(pending, t) = pending.queue
  BY <1>2, <1>3 DEF Consumed, Lesser
<1>6. Remaining(pending) \in Nat /\ pending.filled + Remaining(pending) = pending.qty
  BY <1>3 DEF Remaining
<1> DEFINE c == Consumed(pending, t)
           r == Remaining(pending)
<1> HIDE DEF c, r
<1>7. FillOf(pending, t) = Lesser(r, t.qty - c)
  BY DEF FillOf, c, r
<1>8. /\ Lesser(r, t.qty - c) \in Nat /\ Lesser(r, t.qty - c) <= r
      /\ Lesser(r, t.qty - c) <= t.qty - c
  BY <1>2, <1>5, <1>6 DEF Lesser, c, r
<1> QED
  BY <1>1, <1>2, <1>3, <1>5, <1>6, <1>7, <1>8 DEF c, r

(* The entry a trade serves is a mirror of its row, which a trade finds only *)
(* before it expired.                                                       *)
LEMMA ServedMirrors ==
  ASSUME IInv, NEW sym, Working(sym), now < Expiry(pending)
  PROVE  /\ Mirrored /\ Sound /\ up /\ pending # None /\ pending.filled <= pending.qty
         /\ pending \in MemoryOrder /\ pending.sig \in Signals
         /\ orders[pending.sig] = NewOrderRow(pending)
         /\ pending.status \in {"ACTIVE", "PARTIAL"}
<1>1. Receives /\ up /\ pending # None /\ Sound /\ pending.status \in {"ACTIVE", "PARTIAL"}
  BY DEF Working, Mine, Receives, IInv
<1>2. pending \in MemoryOrder /\ pending.sig \in Signals /\ pending.created \in Nat /\ now \in Nat
  BY <1>1, MemoryTypes
<1>3. ~(now >= Expiry(pending))
  BY <1>2, ExecutorAssumption DEF Expiry
<1>4. Mirrored
  BY <1>1, <1>3, UnexpiredMirrors
<1>5. orders[pending.sig] = NewOrderRow(pending)
  BY <1>1, <1>4 DEF Mirrored
<1>6. pending.filled <= pending.qty
  <2>1. NewOrderRow(pending).filled = pending.filled /\ NewOrderRow(pending).qty = pending.qty
    BY DEF NewOrderRow
  <2> QED
    BY <1>1, <1>2, <1>5, <2>1 DEF Sound, Filling
<1> QED
  BY <1>1, <1>2, <1>4, <1>5, <1>6

(* What a trade leaves of the entry before its status changes.              *)
LEMMA ServedFacts ==
  ASSUME Sound, NEW t \in Trades, pending # None, pending.filled <= pending.qty
  PROVE  /\ Served(pending, t) \in MemoryOrder
         /\ Served(pending, t).sig = pending.sig
         /\ Served(pending, t).status = pending.status
         /\ Served(pending, t).created = pending.created
         /\ Served(pending, t).entry = pending.entry
         /\ Served(pending, t).qty = pending.qty
         /\ Served(pending, t).filled = pending.filled + FillOf(pending, t)
         /\ Served(pending, t).queue = pending.queue - Consumed(pending, t)
<1> DEFINE n == FillOf(pending, t)
           c == Consumed(pending, t)
<1>1. pending \in MemoryOrder /\ pending.filled + n \in Nat /\ pending.queue - c \in Nat
  BY FillArithmetic DEF MemoryOrder
<1>2. Served(pending, t) = [pending EXCEPT !.filled = pending.filled + n, !.queue = pending.queue - c]
  BY DEF Served
<1> HIDE DEF n, c
<1>3. /\ Served(pending, t) \in MemoryOrder
      /\ Served(pending, t).sig = pending.sig
      /\ Served(pending, t).status = pending.status
      /\ Served(pending, t).created = pending.created
      /\ Served(pending, t).entry = pending.entry
      /\ Served(pending, t).qty = pending.qty
      /\ Served(pending, t).filled = pending.filled + n
      /\ Served(pending, t).queue = pending.queue - c
  BY <1>1, <1>2 DEF MemoryOrder
<1> QED
  BY <1>3 DEF n, c

(* The tape keeps its type on a trade.                                      *)
LEMMA TapeAfterTradeType ==
  ASSUME Sound, NEW t \in Trades, pending # None
  PROVE  TapeAfterTrade(t) \in [arrival: Nat, traded: Nat]
<1>1. tape \in [arrival: Nat, traded: Nat] /\ pending.qty \in Nat
  BY MemoryTypes DEF Sound, TypeOK
<1>2. t.qty \in Nat
  BY ExecutorAssumption DEF Trades
<1>3. Lesser(tape.traded + t.qty, tape.arrival + pending.qty) \in Nat
  BY <1>1, <1>2 DEF Lesser
<1> QED
  BY <1>1, <1>3 DEF TapeAfterTrade

(* Cancelling the entry keeps the invariant, whoever asks for it.           *)
LEMMA BreakKeeps ==
  ASSUME IInv, up, up', pending # None, SettleOrder(Cancelled(pending)),
         signals' = SignalsAfterCancel(signals, Cancelled(pending)),
         tape' = FreshTape, UNCHANGED <<now, up, positions, position, listed, failed, crashes>>
  PROVE  IInv'
<1>1. Moves(Cancelled(pending))
  BY CancelledMoves DEF IInv
<1>2. tape' \in [arrival: Nat, traded: Nat]
  BY DEF FreshTape
<1> QED
  BY <1>1, <1>2, AdvancesKeeps

(* A trade the queue absorbs keeps the invariant.                           *)
LEMMA ConsumesKeeps ==
  ASSUME IInv, NEW sym, NEW t \in Trades, TradeConsumesQueue(sym, t)
  PROVE  IInv'
<1> DEFINE o == Served(pending, t)
<1>1. /\ Working(sym) /\ now < Expiry(pending) /\ FillOf(pending, t) = 0
      /\ SettleOrder(o) /\ tape' = TapeAfterTrade(t)
      /\ UNCHANGED <<now, up, signals, positions, position, equity, listed, failed, crashes>>
  BY DEF TradeConsumesQueue
<1>2. /\ Mirrored /\ Sound /\ up /\ pending # None /\ pending.filled <= pending.qty
      /\ pending \in MemoryOrder /\ orders[pending.sig] = NewOrderRow(pending)
      /\ pending.status \in {"ACTIVE", "PARTIAL"}
  BY <1>1, ServedMirrors
<1>3. /\ o \in MemoryOrder /\ o.sig = pending.sig /\ o.status = pending.status
      /\ o.created = pending.created /\ o.entry = pending.entry /\ o.qty = pending.qty
      /\ o.filled = pending.filled + FillOf(pending, t)
  BY <1>2, ServedFacts
<1> HIDE DEF o
<1>4. o.filled = pending.filled
  BY <1>1, <1>2, <1>3 DEF MemoryOrder
<1>5. orders[pending.sig].status \in LiveStatus /\ o.status \in LiveStatus
  BY <1>2, <1>3 DEF NewOrderRow, LiveStatus
<1>6. Moves(o)
  BY <1>2, <1>3, <1>4, <1>5 DEF Moves
<1>7. signals' = SignalsAfterCancel(signals, o)
  BY <1>1, <1>5 DEF SignalsAfterCancel, LiveStatus
<1>8. tape' \in [arrival: Nat, traded: Nat]
  BY <1>1, <1>2, TapeAfterTradeType
<1> QED
  BY <1>1, <1>2, <1>6, <1>7, <1>8, AdvancesKeeps

(* A trade that finds the entry expired keeps the invariant.                *)
LEMMA ExpiresKeeps ==
  ASSUME IInv, NEW sym, TradeExpires(sym)
  PROVE  IInv'
  BY BreakKeeps DEF TradeExpires, Working, Mine, Receives

(* A broken stream keeps the invariant.                                     *)
LEMMA StreamBreakKeeps ==
  ASSUME IInv, StreamBreak
  PROVE  IInv'
  BY BreakKeeps DEF StreamBreak, Receives

(* After a fill of n lots: the entry's row and the position's row are what  *)
(* memory holds, and both belong to the same signal.                        *)
LEMMA FillFacts ==
  ASSUME IInv, NEW sym, NEW t \in Trades, Working(sym), now < Expiry(pending), FillOf(pending, t) > 0
  PROVE  LET n == FillOf(pending, t)
             o == Filled(pending, t)
             p == PositionAfterFill(pending, n)
         IN  /\ pending.sig \in Signals /\ n \in Nat /\ n > 0
             /\ position # None => position.sig = pending.sig
             /\ o \in MemoryOrder /\ o.sig = pending.sig
             /\ o.status \in {"PARTIAL", "FILLED"}
             /\ o.filled = pending.filled + n /\ o.filled <= o.qty /\ o.qty = pending.qty
             /\ o.queue = pending.queue - Consumed(pending, t)
             /\ o.created = pending.created /\ o.entry = pending.entry
             /\ OrderRowFilled(orders[pending.sig], o) = NewOrderRow(o)
             /\ NewOrderRow(o) \in OrderRow
             /\ p \in MemoryPosition /\ p.sig = pending.sig
             /\ NewPositionRow(p) \in PositionRow
             /\ PositionRowsAfterFill(pending, n) = [positions EXCEPT ![pending.sig] = NewPositionRow(p)]
<1> DEFINE n == FillOf(pending, t)
           o == Filled(pending, t)
           p == PositionAfterFill(pending, n)
           v == Served(pending, t)
           status == IF pending.filled + n = pending.qty THEN "FILLED" ELSE "PARTIAL"
<1>1. /\ Mirrored /\ Sound /\ up /\ pending # None /\ pending.filled <= pending.qty
      /\ pending \in MemoryOrder /\ pending.sig \in Signals
      /\ orders[pending.sig] = NewOrderRow(pending)
  BY ServedMirrors
<1>2. /\ n \in Nat /\ n > 0 /\ pending.filled + n <= pending.qty
  BY <1>1, FillArithmetic
<1>3. /\ v \in MemoryOrder /\ v.sig = pending.sig
      /\ v.created = pending.created /\ v.entry = pending.entry /\ v.qty = pending.qty
      /\ v.filled = pending.filled + n /\ v.queue = pending.queue - Consumed(pending, t)
  BY <1>1, ServedFacts
<1>4. status \in {"PARTIAL", "FILLED"} /\ o = [v EXCEPT !.status = status]
  BY DEF Filled
<1> HIDE DEF n, status, v
<1>5. /\ o \in MemoryOrder /\ o.sig = v.sig /\ o.status = status
      /\ o.filled = v.filled /\ o.qty = v.qty /\ o.queue = v.queue
      /\ o.created = v.created /\ o.entry = v.entry
  BY <1>3, <1>4 DEF MemoryOrder, OrderStatus, LiveStatus
<1> HIDE DEF o
<1>6. NewOrderRow(pending) \in OrderRow /\ NewOrderRow(o) \in OrderRow
  BY <1>1, <1>5 DEF NewOrderRow, OrderRow, MemoryOrder
<1>7. OrderRowFilled(orders[pending.sig], o) = NewOrderRow(o)
  <2> SUFFICES ASSUME NEW row, row = OrderRowFilled(NewOrderRow(pending), o)
               PROVE  row = NewOrderRow(o)
    BY <1>1
  <2> QED
    BY <1>3, <1>5, <1>6 DEF OrderRowFilled, NewOrderRow, OrderRow
<1>8. position # None => position.sig = pending.sig /\ position \in MemoryPosition
  BY <1>1, MemoryTypes DEF Sound, SlotMemory
<1>9. /\ p \in MemoryPosition /\ p.sig = pending.sig
      /\ PositionRowsAfterFill(pending, n) = [positions EXCEPT ![pending.sig] = NewPositionRow(p)]
  <2>1. CASE position = None
    <3>1. p = [sig |-> pending.sig, entry |-> pending.entry, qty |-> n,
               best |-> pending.entry, worst |-> pending.entry]
      BY <2>1 DEF PositionAfterFill
    <3>2. p \in MemoryPosition /\ p.sig = pending.sig
      BY <1>1, <1>2, <3>1 DEF MemoryPosition, MemoryOrder
    <3>3. PositionRowsAfterFill(pending, n) = [positions EXCEPT ![pending.sig] = NewPositionRow(p)]
      BY <2>1 DEF PositionRowsAfterFill
    <3> QED
      BY <3>2, <3>3
  <2>2. CASE position # None
    <3>1. p = [position EXCEPT !.qty = position.qty + n]
      BY <2>2 DEF PositionAfterFill
    <3>2. position \in MemoryPosition /\ position.qty + n \in Nat /\ position.sig = pending.sig
      BY <1>2, <1>8, <2>2 DEF MemoryPosition
    <3>3. /\ p \in MemoryPosition /\ p.sig = pending.sig /\ p.qty = position.qty + n
          /\ p.entry = position.entry /\ p.best = position.best /\ p.worst = position.worst
      BY <3>1, <3>2 DEF MemoryPosition
    <3>4. PositionRowsAfterFill(pending, n) =
            [positions EXCEPT ![pending.sig] = [positions[pending.sig] EXCEPT !.qty = position.qty + n]]
      BY <2>2, <3>2 DEF PositionRowsAfterFill
    <3> HIDE DEF p
    <3>5. NewPositionRow(p) \in PositionRow /\ NewPositionRow(position) \in PositionRow
      BY <3>2, <3>3 DEF NewPositionRow, PositionRow, MemoryPosition, PositionStatus
    <3>6. positions[pending.sig] = NewPositionRow(position)
      BY <1>1, <2>2, <3>2 DEF Mirrored
    <3>7. [NewPositionRow(position) EXCEPT !.qty = position.qty + n] = NewPositionRow(p)
      BY <3>3, <3>5 DEF NewPositionRow
    <3>8. PositionRowsAfterFill(pending, n) = [positions EXCEPT ![pending.sig] = NewPositionRow(p)]
      BY <3>4, <3>6, <3>7
    <3> QED
      BY <3>3, <3>8 DEF p
  <2> QED
    BY <2>1, <2>2
<1> HIDE DEF p
<1>10. NewPositionRow(p) \in PositionRow
  BY <1>9 DEF NewPositionRow, PositionRow, MemoryPosition, PositionStatus
<1> QED
  BY <1>1, <1>2, <1>3, <1>4, <1>5, <1>6, <1>7, <1>8, <1>9, <1>10 DEF n, o, p, v

(* The position's half of a fill, the same wherever the handler stops.      *)
LEMMA FillRows ==
  ASSUME IInv, NEW sym, NEW t \in Trades, Working(sym), now < Expiry(pending), FillOf(pending, t) > 0,
         positions' = PositionRowsAfterFill(pending, FillOf(pending, t))
  PROVE  /\ positions' \in [Signals -> PositionRow]
         /\ positions'[pending.sig].status = "OPEN"
         /\ \A s \in Signals : s # pending.sig =>
              positions'[s] = positions[s] /\ positions[s].status # "OPEN"
                /\ orders[s].status \notin LiveStatus
         /\ SignalsAfterFill(pending) \in [Signals -> SignalStatus]
         /\ \A s \in Signals : SignalsAfterFill(pending)[s] # signals[s] =>
              s = pending.sig /\ SignalsAfterFill(pending)[s] = "OPEN"
         /\ signals[pending.sig] \notin {"NONE", "REJECTED"}
         /\ OpenRowsUnsettled'
<1> DEFINE p == PositionAfterFill(pending, FillOf(pending, t))
<1>1. /\ pending.sig \in Signals /\ (position # None => position.sig = pending.sig)
      /\ NewPositionRow(p) \in PositionRow
      /\ positions' = [positions EXCEPT ![pending.sig] = NewPositionRow(p)]
  BY FillFacts
<1>2. Sound /\ up /\ pending # None
  BY ServedMirrors
<1>3. /\ NewPositionRow(p).status = "OPEN" /\ NewPositionRow(p).exit = 0
      /\ NewPositionRow(p).pnl = 0 /\ NewPositionRow(p).closed = 0
  BY DEF NewPositionRow
<1> HIDE DEF p
<1>4. /\ positions' \in [Signals -> PositionRow]
      /\ positions'[pending.sig] = NewPositionRow(p)
      /\ \A s \in Signals : s # pending.sig => positions'[s] = positions[s]
  BY <1>1, <1>2 DEF Sound, TypeOK
<1>5. \A s \in Signals : s # pending.sig => positions[s].status # "OPEN" /\ orders[s].status \notin LiveStatus
  BY <1>1, <1>2 DEF Sound, SlotMemory
<1>6. /\ SignalsAfterFill(pending) \in [Signals -> SignalStatus]
      /\ \A s \in Signals : SignalsAfterFill(pending)[s] # signals[s] =>
           s = pending.sig /\ SignalsAfterFill(pending)[s] = "OPEN"
  BY <1>1, <1>2 DEF SignalsAfterFill, Sound, TypeOK, SignalStatus
<1>7. signals[pending.sig] \notin {"NONE", "REJECTED"}
  BY <1>2 DEF Sound, SlotMemory
<1> QED
  BY <1>3, <1>4, <1>5, <1>6, <1>7 DEF OpenRowsUnsettled

(* A fill keeps the invariant.                                              *)
LEMMA FillsKeeps ==
  ASSUME IInv, NEW sym, NEW t \in Trades, TradeFills(sym, t)
  PROVE  IInv'
<1> DEFINE n == FillOf(pending, t)
           o == Filled(pending, t)
           p == PositionAfterFill(pending, n)
<1>1. /\ Working(sym) /\ now < Expiry(pending) /\ n > 0
      /\ position' = p
      /\ positions' = PositionRowsAfterFill(pending, n)
      /\ signals' = SignalsAfterFill(pending)
      /\ orders' = [orders EXCEPT ![o.sig] = OrderRowFilled(@, o)]
      /\ pending' = IF o.status = "FILLED" THEN None ELSE o
      /\ tape' = IF o.status = "FILLED" THEN FreshTape ELSE TapeAfterTrade(t)
      /\ UNCHANGED <<now, up, equity, listed, failed, crashes>>
  BY DEF TradeFills
<1>2. /\ pending.sig \in Signals /\ n \in Nat
      /\ o \in MemoryOrder /\ o.sig = pending.sig /\ o.status \in {"PARTIAL", "FILLED"}
      /\ o.filled = pending.filled + n /\ o.filled <= o.qty
      /\ OrderRowFilled(orders[pending.sig], o) = NewOrderRow(o) /\ NewOrderRow(o) \in OrderRow
      /\ p \in MemoryPosition /\ p.sig = pending.sig
      /\ NewPositionRow(p) \in PositionRow
      /\ PositionRowsAfterFill(pending, n) = [positions EXCEPT ![pending.sig] = NewPositionRow(p)]
  BY <1>1, FillFacts
<1>3. /\ Mirrored /\ Sound /\ up /\ pending # None /\ pending.filled \in Nat
      /\ tape' \in [arrival: Nat, traded: Nat]
  <2>1. Mirrored /\ Sound /\ up /\ pending # None /\ pending \in MemoryOrder
    BY <1>1, ServedMirrors
  <2>2. TapeAfterTrade(t) \in [arrival: Nat, traded: Nat]
    BY <2>1, TapeAfterTradeType
  <2> QED
    BY <1>1, <2>1, <2>2 DEF FreshTape, MemoryOrder
<1>4. /\ positions' \in [Signals -> PositionRow]
      /\ positions'[pending.sig].status = "OPEN"
      /\ \A s \in Signals : s # pending.sig =>
           positions'[s] = positions[s] /\ positions[s].status # "OPEN"
             /\ orders[s].status \notin LiveStatus
      /\ signals' \in [Signals -> SignalStatus]
      /\ \A s \in Signals : signals'[s] # signals[s] => s = pending.sig /\ signals'[s] = "OPEN"
      /\ signals[pending.sig] \notin {"NONE", "REJECTED"}
      /\ OpenRowsUnsettled'
  BY <1>1, FillRows
<1> HIDE DEF n, o, p
<1>5. positions'[pending.sig] = NewPositionRow(p)
  BY <1>1, <1>2, <1>3 DEF Sound, TypeOK
<1>6. orders' = [orders EXCEPT ![pending.sig] = NewOrderRow(o)]
  BY <1>1, <1>2
<1>7. /\ orders' \in [Signals -> OrderRow] /\ orders'[pending.sig] = NewOrderRow(o)
      /\ \A s \in Signals : s # pending.sig => orders'[s] = orders[s]
  BY <1>2, <1>3, <1>6 DEF Sound, TypeOK
<1>8. NewOrderRow(o).status = o.status /\ NewOrderRow(o).filled = o.filled /\ NewOrderRow(o).qty = o.qty
  BY DEF NewOrderRow
<1>9. TypeOK'
  BY <1>1, <1>2, <1>3, <1>4, <1>7 DEF Sound, TypeOK
<1>10. Filling'
  BY <1>2, <1>3, <1>7, <1>8 DEF Sound, Filling
<1>11. pending' = None \/ (pending' = o /\ o.status = "PARTIAL")
  BY <1>1, <1>2
<1>12. SlotMemory' /\ Mirrored'
  <2>1. \A s \in Signals : orders'[s].status \in LiveStatus => pending' # None /\ pending'.sig = s
    BY <1>1, <1>2, <1>4, <1>7, <1>8, ExecutorAssumption DEF LiveStatus
  <2>2. position' # None
    BY <1>1, <1>2, ExecutorAssumption
  <2>3. signals'[pending.sig] \notin {"NONE", "REJECTED"}
    BY <1>2, <1>4
  <2>4. SlotMemory'
    BY <1>1, <1>2, <1>3, <1>4, <1>11, <2>1, <2>2, <2>3 DEF SlotMemory, LiveStatus
  <2>5. Mirrored'
    BY <1>1, <1>2, <1>5, <1>7, <1>11 DEF Mirrored, LiveStatus
  <2> QED
    BY <2>4, <2>5
<1>13. SingleSlot'
  BY <1>2, <1>4, <1>7 DEF SingleSlot, Busy, LiveOrders, OpenPositions
<1>14. RowsFollowSignals'
  <2> SUFFICES ASSUME NEW s \in Signals
               PROVE  RowsFollow(s)'
    BY DEF RowsFollowSignals
  <2>1. RowsFollow(s)
    BY <1>3 DEF Sound, RowsFollowSignals
  <2>2. CASE s # pending.sig
    BY <2>1, <2>2, <1>4, <1>7 DEF RowsFollow
  <2>3. CASE s = pending.sig
    BY <2>3, <1>1, <1>2, <1>3, <1>4, <1>7, <1>8 DEF RowsFollow, LiveStatus
  <2> QED
    BY <2>2, <2>3
<1> QED
  BY <1>4, <1>9, <1>10, <1>12, <1>13, <1>14 DEF IInv, Sound

(* A kill between two handlers keeps the invariant.                         *)
LEMMA CrashKeeps ==
  ASSUME IInv, Crash
  PROVE  IInv'
<1>1. UNCHANGED <<signals, orders, positions>> /\ Killed /\ Sound
  BY DEF Crash, journal, IInv
<1> QED
  BY <1>1, KilledMemory DEF IInv, Sound, TypeOK, Filling, SingleSlot, Busy, LiveOrders, OpenPositions,
                            OpenRowsUnsettled, RowsFollowSignals, RowsFollow

(* A decision stopped after its first row keeps the invariant.              *)
LEMMA TornDecideKeeps ==
  ASSUME IInv, NEW s \in Signals, TornDecide(s)
  PROVE  IInv'
<1>1. /\ signals' = [signals EXCEPT ![s] = "TRIGGERED"] /\ UNCHANGED <<orders, positions>>
      /\ signals[s] = "NONE" /\ up /\ Sound /\ signals \in [Signals -> SignalStatus]
      /\ Interrupted(s, pending, position, tape)
  BY DEF TornDecide, Decides, Receives, Fresh, IInv, Sound, TypeOK
<1>2. RowsFollowSignals'
  <2> SUFFICES ASSUME NEW t \in Signals
               PROVE  RowsFollow(t)'
    BY DEF RowsFollowSignals
  <2> QED
    BY <1>1 DEF Sound, RowsFollowSignals, RowsFollow
<1>3. /\ signals' \in [Signals -> SignalStatus] /\ Filling' /\ SingleSlot' /\ OpenRowsUnsettled'
      /\ orders' \in [Signals -> OrderRow] /\ positions' \in [Signals -> PositionRow]
      /\ \A t \in Signals : signals'[t] \in {"NONE", "REJECTED"} => signals[t] \in {"NONE", "REJECTED"}
  BY <1>1 DEF Sound, TypeOK, SignalStatus, Filling, SingleSlot, Busy, LiveOrders, OpenPositions,
              OpenRowsUnsettled
<1>4. CASE Killed
  BY <1>1, <1>2, <1>3, <1>4, KilledMemory DEF IInv, Sound, TypeOK
<1>5. CASE Survives(s, pending, position, tape)
  <2>1. /\ up' /\ up' \in BOOLEAN /\ crashes' \in Nat /\ now' = now /\ tape' = tape /\ listed' = listed
        /\ failed' \subseteq Signals /\ failed \subseteq failed'
        /\ pending' = pending /\ position' = position
    BY <1>1, <1>5, SurvivorMemory
  <2>2. SlotMemory'
    <3>1. \A t \in Signals : orders'[t].status \in LiveStatus => orders[t].status \in LiveStatus /\ pending' # None
      BY <1>1, <2>1 DEF Sound, SlotMemory
    <3>2. \A t \in Signals : positions'[t].status = "OPEN" => positions[t].status = "OPEN" /\ position' # None
      BY <1>1, <2>1 DEF Sound, SlotMemory
    <3>3. pending' = None \/ /\ pending # None /\ pending'.sig = pending.sig
                             /\ pending'.status \in LiveStatus \cup {"FILLED"}
      BY <1>1, <2>1 DEF Sound, SlotMemory
    <3> QED
      BY <1>1, <1>3, <2>1, <3>1, <3>2, <3>3, SlotKept
  <2>3. Mirrored' \/ Astray'
    <3>1. Mirrored => Mirrored'
      BY <1>1, <2>1 DEF Mirrored
    <3>2. Astray => Mirrored' \/ Astray'
      BY <1>1, <2>1, StillAstray
    <3> QED
      BY <3>1, <3>2 DEF IInv
  <2> QED
    BY <1>1, <1>2, <1>3, <2>1, <2>2, <2>3 DEF IInv, Sound, TypeOK
<1> QED
  BY <1>1, <1>4, <1>5 DEF Interrupted

(* So does one whose entry has no row: nothing was in flight before it.     *)
LEMMA TornSubmitKeeps ==
  ASSUME IInv, NEW s \in Signals, NEW q \in Quotes, NEW reference \in Prices,
         NEW lots \in 0..MaxLots, TornSubmit(s, q, reference, lots)
  PROVE  IInv'
<1> DEFINE o == NewOrder(s, Executable(s, q), lots)
<1>1. /\ signals' = [signals EXCEPT ![s] = "TRIGGERED"] /\ UNCHANGED <<orders, positions>>
      /\ signals[s] = "NONE" /\ up /\ Sound /\ signals \in [Signals -> SignalStatus]
      /\ pending = None /\ position = None
      /\ Survives(s, o, position, FreshTape)
  BY DEF TornSubmit, Decides, Receives, Fresh, IInv, Sound, TypeOK, Submits, SubmissionBlocked,
         PortfolioBusy
<1>2. o \in MemoryOrder /\ o.sig = s /\ o.status = "PENDING"
  <2>1. Executable(s, q) \in Nat /\ now \in Nat /\ lots \in Nat
    BY <1>1, ExecutablePrice, ExecutorAssumption DEF Sound, TypeOK
  <2> QED
    BY <2>1 DEF NewOrder, MemoryOrder, OrderStatus, LiveStatus
<1> HIDE DEF o
<1>3. o # None
  BY <1>2, ExecutorAssumption
<1>4. RowsFollowSignals'
  <2> SUFFICES ASSUME NEW t \in Signals
               PROVE  RowsFollow(t)'
    BY DEF RowsFollowSignals
  <2> QED
    BY <1>1 DEF Sound, RowsFollowSignals, RowsFollow
<1>5. /\ signals' \in [Signals -> SignalStatus] /\ Filling' /\ SingleSlot' /\ OpenRowsUnsettled'
      /\ orders' \in [Signals -> OrderRow] /\ positions' \in [Signals -> PositionRow]
  BY <1>1 DEF Sound, TypeOK, SignalStatus, Filling, SingleSlot, Busy, LiveOrders, OpenPositions,
              OpenRowsUnsettled
<1>6. /\ up' /\ up' \in BOOLEAN /\ crashes' \in Nat /\ now' = now /\ tape' = FreshTape /\ listed' = listed
      /\ failed' \subseteq Signals /\ pending' = o /\ position' = None /\ Astray'
  BY <1>1, <1>2, <1>3, SurvivorMemory
<1>7. \A t \in Signals : orders[t].status \notin LiveStatus /\ positions[t].status # "OPEN"
  BY <1>1 DEF Sound, SlotMemory
<1>8. signals'[s] = "TRIGGERED"
  BY <1>1
<1>9. SlotMemory'
  BY <1>1, <1>2, <1>6, <1>7, <1>8 DEF SlotMemory, LiveStatus
<1> QED
  BY <1>1, <1>2, <1>4, <1>5, <1>6, <1>9 DEF IInv, Sound, TypeOK, FreshTape

(* A handler stopped after writing what became of the entry, with or        *)
(* without its signal's row, and perhaps the position's excursion.          *)
LEMMA TornMoveKeeps ==
  ASSUME IInv, up, NEW o, Moves(o), orders' = OrderRowsAfter(o),
         signals' \in {signals, SignalsAfterCancel(signals, o)},
         positions' \in [Signals -> PositionRow], OpenRowsUnsettled',
         \A s \in Signals : positions'[s].status = positions[s].status,
         NEW w \in Signals, NEW a, NEW p, NEW h, Interrupted(w, a, p, h),
         h \in [arrival: Nat, traded: Nat],
         p = position \/ (position # None /\ p \in MemoryPosition /\ p.sig = position.sig),
         a = None \/ (pending # None /\ a \in MemoryOrder /\ a.sig = pending.sig
                       /\ a.status \in LiveStatus \cup {"FILLED"}),
         a = None => InFlight(o) = None,
         (a # None /\ a.sig = w) \/ (p # None /\ p.sig = w)
  PROVE  IInv'
<1>1. Sound
  BY DEF IInv
<1>2. orders' \in [Signals -> OrderRow]
  BY <1>1, WrittenRows
<1>3. /\ signals' \in [Signals -> SignalStatus] /\ Filling' /\ SingleSlot' /\ RowsFollowSignals'
      /\ \A s \in Signals : signals'[s] \in {"NONE", "REJECTED"} => signals[s] \in {"NONE", "REJECTED"}
  BY <1>1, RowsAfterSettle
<1>4. CASE Killed
  BY <1>1, <1>2, <1>3, <1>4, KilledMemory DEF IInv, Sound, TypeOK
<1>5. CASE Survives(w, a, p, h)
  <2>1. /\ up' /\ up' \in BOOLEAN /\ crashes' \in Nat /\ now' = now /\ tape' = h /\ listed' = listed
        /\ failed' \subseteq Signals /\ pending' = a /\ position' = p /\ Astray'
    BY <1>1, <1>5, SurvivorMemory
  <2>2. \A s \in Signals : orders'[s].status \in LiveStatus =>
          orders[s].status \in LiveStatus /\ pending' # None
    <3> SUFFICES ASSUME NEW s \in Signals, orders'[s].status \in LiveStatus
                 PROVE  orders[s].status \in LiveStatus /\ pending' # None
      OBVIOUS
    <3>1. /\ orders[s].status \in LiveStatus /\ o # None
          /\ o.status \in LiveStatus \/ o = pending
      BY <1>1, WrittenLive
    <3>2. InFlight(o) = o
      BY <3>1 DEF InFlight, Live
    <3> QED
      BY <2>1, <3>1, <3>2
  <2>3. \A s \in Signals : positions'[s].status = "OPEN" =>
          positions[s].status = "OPEN" /\ position' # None
    BY <1>1, <2>1, ExecutorAssumption DEF Sound, SlotMemory
  <2>4. SlotMemory'
    BY <1>1, <1>3, <2>1, <2>2, <2>3, SlotKept, Zenon
  <2> QED
    BY <1>1, <1>2, <1>3, <2>1, <2>4 DEF IInv, Sound, TypeOK
<1> QED
  BY <1>4, <1>5 DEF Interrupted

(* cancel_pending stopped between its rows keeps the invariant.             *)
LEMMA TornCancelKeeps ==
  ASSUME IInv, TornCancel
  PROVE  IInv'
<1>1. /\ up /\ pending # None /\ UNCHANGED <<signals, positions>>
      /\ orders' = OrderRowsAfter(Cancelled(pending))
      /\ Killed \/ Survives(pending.sig, pending, position, tape)
  BY DEF TornCancel, Receives
<1>2. /\ Moves(Cancelled(pending)) /\ pending \in MemoryOrder /\ pending.sig \in Signals
      /\ pending.status \in LiveStatus \cup {"FILLED"}
      /\ tape \in [arrival: Nat, traded: Nat]
  BY <1>1, CancelledMoves, MemoryTypes DEF IInv, Sound, SlotMemory, TypeOK
<1>3. Interrupted(pending.sig, pending, position, tape)
  BY <1>1 DEF Interrupted
<1>4. /\ positions' \in [Signals -> PositionRow] /\ OpenRowsUnsettled'
      /\ \A s \in Signals : positions'[s].status = positions[s].status
  BY <1>1 DEF IInv, Sound, TypeOK, OpenRowsUnsettled
<1> QED
  BY <1>1, <1>2, <1>3, <1>4, TornMoveKeeps

(* on_quote stopped at the entry's row keeps the invariant.                 *)
LEMMA TornAdvanceKeeps ==
  ASSUME IInv, NEW sym, NEW q \in Quotes, TornAdvance(sym, q)
  PROVE  IInv'
<1> DEFINE o == AfterQuote(sym, q)
           h == TapeAfterQuote(o, q)
<1>1. /\ Receives /\ up /\ Live(o) /\ o # pending /\ UNCHANGED <<signals, orders, positions>>
      /\ Survives(o.sig, o, position, h)
  BY DEF TornAdvance, Quoted, Hears, Receives, journal
<1>2. Moves(o) /\ Sound
  BY <1>1, QuoteMoves DEF IInv
<1>3. h \in [arrival: Nat, traded: Nat]
  BY <1>2, TapeAfterQuoteType
<1> HIDE DEF o, h
<1>4. /\ o # None /\ pending # None /\ o \in MemoryOrder /\ o.sig = pending.sig /\ o.sig \in Signals
      /\ o.status \in LiveStatus \cup {"FILLED"}
  BY <1>1, <1>2, MovedLive DEF Live
<1>5. Moves(pending) /\ orders' = OrderRowsAfter(pending)
  BY <1>1 DEF Moves, OrderRowsAfter
<1>6. /\ positions' \in [Signals -> PositionRow] /\ OpenRowsUnsettled'
      /\ \A s \in Signals : positions'[s].status = positions[s].status
  BY <1>1, <1>2 DEF Sound, TypeOK, OpenRowsUnsettled
<1>7. Interrupted(o.sig, o, position, h) /\ signals' \in {signals, SignalsAfterCancel(signals, pending)}
  BY <1>1 DEF Interrupted
<1> QED
  BY <1>1, <1>3, <1>4, <1>5, <1>6, <1>7, TornMoveKeeps

(* What memory becomes of a position that is marked.                        *)
LEMMA MarkedMemory ==
  ASSUME Sound, NEW sym, Holds(sym), NEW price \in Nat
  PROVE  /\ position # None /\ position.sig \in Signals
         /\ MarkedAt(position, price) \in MemoryPosition
         /\ MarkedAt(position, price).sig = position.sig
         /\ MarkedAt(position, price) # None
         /\ \A rows : rows \in {positions, RowsMarked(price)} /\ positions' = rows =>
                /\ positions' \in [Signals -> PositionRow] /\ OpenRowsUnsettled'
                /\ \A s \in Signals : positions'[s].status = positions[s].status
<1>1. position # None /\ position \in MemoryPosition /\ position.sig \in Signals
  BY MemoryTypes DEF Holds
<1>2. /\ MarkedAt(position, price) \in MemoryPosition
      /\ MarkedAt(position, price).sig = position.sig
  BY <1>1, MarkedType
<1>3. ASSUME positions' = positions
      PROVE  /\ positions' \in [Signals -> PositionRow] /\ OpenRowsUnsettled'
             /\ \A s \in Signals : positions'[s].status = positions[s].status
  BY <1>3 DEF Sound, TypeOK, OpenRowsUnsettled
<1>4. ASSUME positions' = RowsMarked(price)
      PROVE  /\ positions' \in [Signals -> PositionRow] /\ OpenRowsUnsettled'
             /\ \A s \in Signals : positions'[s].status = positions[s].status
  BY <1>1, <1>4, MarkedRows
<1> QED
  BY <1>1, <1>2, <1>3, <1>4, ExecutorAssumption

(* on_quote stopped at the position's excursion, or before _close.          *)
LEMMA MarkStopsKeeps ==
  ASSUME IInv, NEW sym, NEW q \in Quotes, MarkStops(sym, q)
  PROVE  IInv'
<1> DEFINE o     == AfterQuote(sym, q)
           price == Executable(position.sig, q)
<1>1. /\ Receives /\ up /\ Holds(sym) /\ Sound
  BY DEF MarkStops, Quoted, Hears, Receives, IInv
<1>2. Moves(o) /\ Moves(RemainderCancelled(o))
  BY <1>1, QuoteMoves, RemainderMoves
<1>3. price \in Nat
  BY ExecutablePrice
<1>4. PICK r \in {o, RemainderCancelled(o)} :
        /\ orders' = OrderRowsAfter(r)
        /\ signals' = SignalsAfterCancel(signals, r)
        /\ positions' = positions \/ positions' = RowsMarked(price)
        /\ Interrupted(position.sig, InFlight(r), MarkedAt(position, price), TapeAfterQuote(r, q))
  BY DEF MarkStops
<1> HIDE DEF o, price
<1>5. Moves(r)
  BY <1>2, <1>4
<1>6. /\ position # None /\ position.sig \in Signals
      /\ MarkedAt(position, price) \in MemoryPosition
      /\ MarkedAt(position, price).sig = position.sig
      /\ MarkedAt(position, price) # None
      /\ positions' \in [Signals -> PositionRow] /\ OpenRowsUnsettled'
      /\ \A s \in Signals : positions'[s].status = positions[s].status
  BY <1>1, <1>3, <1>4, MarkedMemory
<1>7. TapeAfterQuote(r, q) \in [arrival: Nat, traded: Nat]
  BY <1>1, TapeAfterQuoteType
<1>8. InFlight(r) = None \/ (pending # None /\ InFlight(r) \in MemoryOrder /\ InFlight(r).sig = pending.sig
                              /\ InFlight(r).status \in LiveStatus \cup {"FILLED"})
  BY <1>1, <1>5, MovedLive
<1> QED
  BY <1>1, <1>4, <1>5, <1>6, <1>7, <1>8, TornMoveKeeps

(* on_quote stopped inside the cancellation of an exit.                     *)
LEMMA RemainderStopsKeeps ==
  ASSUME IInv, NEW sym, NEW q \in Quotes, RemainderStops(sym, q)
  PROVE  IInv'
<1> DEFINE o     == AfterQuote(sym, q)
           price == Executable(position.sig, q)
           h     == TapeAfterQuote(o, q)
<1>1. /\ Receives /\ up /\ Holds(sym) /\ Sound /\ Live(o)
      /\ orders' = OrderRowsAfter(Cancelled(o)) /\ signals' = signals
      /\ positions' = RowsMarked(price)
      /\ Interrupted(position.sig, o, MarkedAt(position, price), h)
  BY DEF RemainderStops, Quoted, Hears, Receives, IInv
<1>2. Moves(o)
  BY <1>1, QuoteMoves
<1>3. price \in Nat
  BY ExecutablePrice
<1>4. h \in [arrival: Nat, traded: Nat]
  BY <1>1, TapeAfterQuoteType
<1> HIDE DEF o, price, h
<1>5. Moves(Cancelled(o))
  BY <1>1, <1>2, CancelledMove
<1>6. /\ position # None /\ position.sig \in Signals
      /\ MarkedAt(position, price) \in MemoryPosition
      /\ MarkedAt(position, price).sig = position.sig
      /\ MarkedAt(position, price) # None
      /\ positions' \in [Signals -> PositionRow] /\ OpenRowsUnsettled'
      /\ \A s \in Signals : positions'[s].status = positions[s].status
  BY <1>1, <1>3, MarkedMemory
<1>7. /\ o # None /\ pending # None /\ o \in MemoryOrder /\ o.sig = pending.sig
      /\ o.status \in LiveStatus \cup {"FILLED"}
  BY <1>1, <1>2, MovedLive DEF Live
<1> QED
  BY <1>1, <1>4, <1>5, <1>6, <1>7, TornMoveKeeps

(* _close stopped between its rows keeps the invariant.                     *)
LEMMA TornCloseKeeps ==
  ASSUME IInv, NEW sym, NEW q \in Quotes, TornClose(sym, q)
  PROVE  IInv'
<1> DEFINE r     == RemainderCancelled(AfterQuote(sym, q))
           price == Executable(position.sig, q)
           m     == MarkedAt(position, price)
<1>1. /\ Receives /\ up /\ Holds(sym) /\ Sound /\ RowOpen
      /\ orders' = OrderRowsAfter(r)
      /\ signals' = SignalsAfterCancel(signals, r)
      /\ positions' = RowsAfterExit(price)
      /\ Interrupted(position.sig, InFlight(r), m, FreshTape)
  BY DEF TornClose, Quoted, Hears, Receives, IInv
<1>2. Moves(r) /\ Ended(r)
  BY <1>1, HeldEnds
<1>3. price \in Nat
  BY ExecutablePrice
<1>4. /\ position # None /\ position.sig \in Signals
      /\ m \in MemoryPosition /\ m.sig = position.sig /\ m # None
  BY <1>1, <1>3, MarkedMemory
<1> HIDE DEF r, price, m
<1>5. orders' \in [Signals -> OrderRow]
  BY <1>1, <1>2, WrittenRows
<1>6. /\ positions' \in [Signals -> PositionRow]
      /\ \A s \in Signals :
           positions'[s].status = IF s = position.sig THEN "CLOSED" ELSE positions[s].status
      /\ OpenRowsUnsettled'
  BY <1>1, <1>3, <1>4, ExitRows
<1>7. /\ signals' \in [Signals -> SignalStatus] /\ Filling' /\ SingleSlot' /\ RowsFollowSignals'
      /\ \A s \in Signals : signals'[s] \in {"NONE", "REJECTED"} => signals[s] \in {"NONE", "REJECTED"}
      /\ \A s \in Signals : orders'[s].status \notin LiveStatus /\ positions'[s].status # "OPEN"
  BY <1>1, <1>2, <1>4, <1>6, RowsAfterClose
<1>8. CASE Killed
  BY <1>1, <1>5, <1>6, <1>7, <1>8, KilledMemory DEF IInv, Sound, TypeOK
<1>9. CASE Survives(position.sig, InFlight(r), m, FreshTape)
  <2>1. /\ up' /\ up' \in BOOLEAN /\ crashes' \in Nat /\ now' = now /\ tape' = FreshTape
        /\ listed' = listed
        /\ failed' \subseteq Signals /\ pending' = InFlight(r) /\ position' = m /\ Astray'
    BY <1>1, <1>4, <1>9, SurvivorMemory
  <2>2. InFlight(r) = None \/ (pending # None /\ InFlight(r) \in MemoryOrder /\ InFlight(r).sig = pending.sig
                                /\ InFlight(r).status \in LiveStatus \cup {"FILLED"})
    BY <1>1, <1>2, MovedLive
  <2>3. SlotMemory'
    BY <1>1, <1>4, <1>7, <2>1, <2>2, SlotKept
  <2> QED
    BY <1>1, <1>4, <1>5, <1>6, <1>7, <2>1, <2>2, <2>3 DEF IInv, Sound, TypeOK, FreshTape
<1> QED
  BY <1>1, <1>8, <1>9 DEF Interrupted

(* A queue served in memory only keeps the invariant.                       *)
LEMMA TornConsumeKeeps ==
  ASSUME IInv, NEW sym, NEW t \in Trades, TornConsume(sym, t)
  PROVE  IInv'
<1> DEFINE v == Served(pending, t)
           h == TapeAfterTrade(t)
<1>1. /\ Working(sym) /\ now < Expiry(pending)
      /\ UNCHANGED <<signals, orders, positions>>
      /\ Survives(pending.sig, v, position, h)
  BY DEF TornConsume, journal
<1>2. /\ Sound /\ up /\ pending # None /\ pending.filled <= pending.qty /\ pending.sig \in Signals
      /\ pending.status \in {"ACTIVE", "PARTIAL"}
  BY <1>1, ServedMirrors
<1>3. v \in MemoryOrder /\ v.sig = pending.sig /\ v.status = pending.status
  BY <1>2, ServedFacts
<1>4. h \in [arrival: Nat, traded: Nat]
  BY <1>2, TapeAfterTradeType
<1> HIDE DEF v, h
<1>5. v # None /\ v.status \in LiveStatus \cup {"FILLED"}
  BY <1>2, <1>3, ExecutorAssumption DEF LiveStatus
<1>6. Moves(pending) /\ orders' = OrderRowsAfter(pending)
  BY <1>1 DEF Moves, OrderRowsAfter
<1>7. /\ positions' \in [Signals -> PositionRow] /\ OpenRowsUnsettled'
      /\ \A s \in Signals : positions'[s].status = positions[s].status
  BY <1>1, <1>2 DEF Sound, TypeOK, OpenRowsUnsettled
<1>8. Interrupted(pending.sig, v, position, h) /\ signals' \in {signals, SignalsAfterCancel(signals, pending)}
  BY <1>1 DEF Interrupted
<1> QED
  BY <1>2, <1>3, <1>4, <1>5, <1>6, <1>7, <1>8, TornMoveKeeps

(* _fill stopped between its rows keeps the invariant: the position is      *)
(* written before the entry's row, so at worst that understates what filled.*)
LEMMA TornFillKeeps ==
  ASSUME IInv, NEW sym, NEW t \in Trades, TornFill(sym, t)
  PROVE  IInv'
<1> DEFINE n == FillOf(pending, t)
           p == PositionAfterFill(pending, n)
           v == Served(pending, t)
           o == Filled(pending, t)
           h == TapeAfterTrade(t)
<1>1. /\ Working(sym) /\ now < Expiry(pending) /\ FillOf(pending, t) > 0 /\ UNCHANGED orders
      /\ \/ signals' = signals /\ positions' = positions
         \/ /\ positions' = PositionRowsAfterFill(pending, n)
            /\ signals' = signals \/ signals' = SignalsAfterFill(pending)
      /\ \E a \in {v, o} : Interrupted(pending.sig, a, p, h)
  BY DEF TornFill, Interrupted
<1>2. PICK a \in {v, o} : Interrupted(pending.sig, a, p, h)
  BY <1>1
<1>3. /\ Sound /\ Mirrored /\ up /\ pending # None /\ pending.filled <= pending.qty
      /\ pending.sig \in Signals /\ pending.status \in {"ACTIVE", "PARTIAL"}
      /\ orders[pending.sig] = NewOrderRow(pending)
  BY <1>1, ServedMirrors
<1>4. v \in MemoryOrder /\ v.sig = pending.sig /\ v.status = pending.status
  BY <1>3, ServedFacts
<1>5. /\ o \in MemoryOrder /\ o.sig = pending.sig /\ o.status \in {"PARTIAL", "FILLED"}
      /\ p \in MemoryPosition /\ p.sig = pending.sig
      /\ position # None => position.sig = pending.sig
  BY <1>1, FillFacts
<1>6. h \in [arrival: Nat, traded: Nat]
  BY <1>3, TapeAfterTradeType
<1>7. positions' = PositionRowsAfterFill(pending, n) =>
        /\ positions' \in [Signals -> PositionRow]
        /\ positions'[pending.sig].status = "OPEN"
        /\ \A s \in Signals : s # pending.sig =>
             positions'[s] = positions[s] /\ positions[s].status # "OPEN"
               /\ orders[s].status \notin LiveStatus
        /\ SignalsAfterFill(pending) \in [Signals -> SignalStatus]
        /\ \A s \in Signals : SignalsAfterFill(pending)[s] # signals[s] =>
             s = pending.sig /\ SignalsAfterFill(pending)[s] = "OPEN"
        /\ signals[pending.sig] \notin {"NONE", "REJECTED"}
        /\ OpenRowsUnsettled'
  BY <1>1, FillRows
<1> HIDE DEF n, p, v, o, h
<1>8. /\ a \in MemoryOrder /\ a.sig = pending.sig /\ a # None /\ p # None
      /\ a.status \in LiveStatus \cup {"FILLED"}
  BY <1>3, <1>4, <1>5, ExecutorAssumption DEF LiveStatus
<1>9. /\ positions' \in [Signals -> PositionRow] /\ signals' \in [Signals -> SignalStatus]
      /\ OpenRowsUnsettled'
      /\ \A s \in Signals : s # pending.sig =>
           positions'[s] = positions[s] /\ signals'[s] = signals[s]
             /\ positions'[s].status # "OPEN" /\ orders[s].status \notin LiveStatus
      /\ signals'[pending.sig] \in {signals[pending.sig], "OPEN"}
      /\ \/ positions'[pending.sig].status = "OPEN"
         \/ positions'[pending.sig] = positions[pending.sig] /\ signals'[pending.sig] = signals[pending.sig]
      /\ signals'[pending.sig] \notin {"NONE", "REJECTED"}
  <2>1. CASE signals' = signals /\ positions' = positions
    BY <1>3, <1>5, <2>1 DEF Sound, TypeOK, SlotMemory, OpenRowsUnsettled
  <2>2. CASE positions' = PositionRowsAfterFill(pending, n)
    <3>1. signals' \in [Signals -> SignalStatus]
          /\ \A s \in Signals : signals'[s] # signals[s] => s = pending.sig /\ signals'[s] = "OPEN"
      BY <1>1, <1>3, <1>7, <2>2 DEF Sound, TypeOK
    <3> QED
      BY <1>3, <1>7, <2>2, <3>1
  <2> QED
    BY <1>1, <2>1, <2>2
<1>10. SingleSlot'
  BY <1>1, <1>3, <1>9 DEF SingleSlot, Busy, LiveOrders, OpenPositions
<1>11. RowsFollowSignals'
  <2> SUFFICES ASSUME NEW s \in Signals
               PROVE  RowsFollow(s)'
    BY DEF RowsFollowSignals
  <2>1. RowsFollow(s) /\ orders'[s] = orders[s]
    BY <1>1, <1>3 DEF Sound, RowsFollowSignals
  <2>2. CASE s # pending.sig \/ (positions'[s] = positions[s] /\ signals'[s] = signals[s])
    BY <2>1, <2>2, <1>9 DEF RowsFollow
  <2>3. CASE s = pending.sig /\ positions'[s].status = "OPEN"
    <3>1. orders[s].status \in LiveStatus
      BY <1>3, <2>3 DEF NewOrderRow, LiveStatus
    <3> QED
      BY <2>1, <2>3, <1>9, <3>1 DEF RowsFollow, LiveStatus
  <2> QED
    BY <1>9, <2>2, <2>3
<1>12. Filling' /\ orders' \in [Signals -> OrderRow]
  BY <1>1, <1>3 DEF Sound, TypeOK, Filling
<1>13. CASE Killed
  BY <1>3, <1>9, <1>10, <1>11, <1>12, <1>13, KilledMemory DEF IInv, Sound, TypeOK
<1>14. CASE Survives(pending.sig, a, p, h)
  <2>1. /\ up' /\ up' \in BOOLEAN /\ crashes' \in Nat /\ now' = now /\ tape' = h /\ listed' = listed
        /\ failed' \subseteq Signals /\ pending' = a /\ position' = p /\ Astray'
    BY <1>3, <1>8, <1>14, SurvivorMemory
  <2>2. SlotMemory'
    BY <1>1, <1>5, <1>8, <1>9, <2>1 DEF SlotMemory
  <2> QED
    BY <1>3, <1>5, <1>6, <1>8, <1>9, <1>10, <1>11, <1>12, <2>1, <2>2 DEF IInv, Sound, TypeOK
<1> QED
  BY <1>2, <1>13, <1>14 DEF Interrupted

(* The position start-up restores is the only open row, or there is none.   *)
LEMMA RestoredPositionFacts ==
  ASSUME TypeOK, SingleSlot
  PROVE  /\ RestoredPosition \in MemoryPosition \cup {None}
         /\ RestoredPosition = None <=> OpenPositions(positions) = {}
         /\ RestoredPosition # None =>
              /\ OpenPositions(positions) = {RestoredPosition.sig}
              /\ positions[RestoredPosition.sig].entry = RestoredPosition.entry
              /\ positions[RestoredPosition.sig].qty = RestoredPosition.qty
              /\ positions[RestoredPosition.sig].best = RestoredPosition.best
              /\ positions[RestoredPosition.sig].worst = RestoredPosition.worst
<1>1. CASE OpenPositions(positions) = {}
  BY <1>1 DEF RestoredPosition
<1>2. CASE OpenPositions(positions) # {}
  <2>1. PICK s \in Signals : s \in OpenPositions(positions)
    BY <1>2 DEF OpenPositions
  <2>2. OpenPositions(positions) = {s}
    BY <2>1 DEF OpenPositions, SingleSlot, Busy
  <2>3. positions[s] \in PositionRow
    BY <2>1 DEF TypeOK
  <2>4. RestoredPosition =
          [sig |-> s, entry |-> positions[s].entry, qty |-> positions[s].qty,
           best |-> positions[s].best, worst |-> positions[s].worst]
    BY <1>2, <2>2 DEF RestoredPosition
  <2>5. RestoredPosition \in MemoryPosition
    BY <2>1, <2>3, <2>4 DEF MemoryPosition, PositionRow
  <2> QED
    BY <1>2, <2>2, <2>4, <2>5, ExecutorAssumption
<1> QED
  BY <1>1, <1>2

(* Memory rebuilt from the rows, when they name one entry and one position. *)
LEMMA RestoredFacts ==
  ASSUME TypeOK, SingleSlot
  PROVE  /\ RestoredOrder \in MemoryOrder \cup {None}
         /\ RestoredOrder = None <=> LiveOrders(orders) = {}
         /\ RestoredOrder # None =>
              /\ LiveOrders(orders) = {RestoredOrder.sig}
              /\ orders[RestoredOrder.sig] = NewOrderRow(RestoredOrder)
              /\ RestoredOrder.status = orders[RestoredOrder.sig].status
              /\ RestoredOrder.displayed = RestoredOrder.queue
         /\ RestoredPosition \in MemoryPosition \cup {None}
         /\ RestoredPosition = None <=> OpenPositions(positions) = {}
         /\ RestoredPosition # None =>
              /\ OpenPositions(positions) = {RestoredPosition.sig}
              /\ positions[RestoredPosition.sig].entry = RestoredPosition.entry
              /\ positions[RestoredPosition.sig].qty = RestoredPosition.qty
              /\ positions[RestoredPosition.sig].best = RestoredPosition.best
              /\ positions[RestoredPosition.sig].worst = RestoredPosition.worst
<1>1. CASE LiveOrders(orders) = {}
  <2>1. RestoredOrder = None
    BY <1>1 DEF RestoredOrder
  <2> QED
    BY <1>1, <2>1, RestoredPositionFacts
<1>2. CASE LiveOrders(orders) # {}
  <2>1. PICK s \in Signals : s \in LiveOrders(orders)
    BY <1>2 DEF LiveOrders
  <2>2. LiveOrders(orders) = {s}
    BY <2>1 DEF LiveOrders, SingleSlot, Busy
  <2>3. orders[s] \in OrderRow
    BY <2>1 DEF TypeOK
  <2>4. orders[s].created <= orders[s].created
    BY <2>3 DEF OrderRow
  <2>5. LatestLiveOrder(orders) = s
    BY <2>2, <2>4 DEF LatestLiveOrder
  <2>6. RestoredOrder =
          [sig |-> s, status |-> orders[s].status, created |-> orders[s].created,
           entry |-> orders[s].entry, qty |-> orders[s].qty, filled |-> orders[s].filled,
           queue |-> orders[s].queue, displayed |-> orders[s].queue]
    BY <1>2, <2>5 DEF RestoredOrder
  <2>7. RestoredOrder \in MemoryOrder
    BY <2>1, <2>3, <2>6 DEF MemoryOrder, OrderRow
  <2>8. orders[s] = NewOrderRow(RestoredOrder)
    BY <2>3, <2>6 DEF NewOrderRow, OrderRow
  <2> QED
    BY <1>2, <2>2, <2>6, <2>7, <2>8, RestoredPositionFacts, ExecutorAssumption
<1> QED
  BY <1>1, <1>2

(* Start-up keeps the invariant.                                            *)
LEMMA RestartKeeps ==
  ASSUME IInv, Restart
  PROVE  IInv'
<1>1. /\ up' = TRUE
      /\ signals' = Reconciled(signals, orders, positions)
      /\ pending' = RestoredOrder /\ position' = RestoredPosition
      /\ UNCHANGED <<now, orders, positions, listed, failed, crashes, tape>>
  BY DEF Restart
<1>2. TypeOK /\ SingleSlot /\ Sound /\ RowsFollowSignals
  BY DEF IInv, Sound
<1>3. \A s \in Signals :
        \/ signals'[s] = signals[s]
        \/ /\ signals[s] = "TRIGGERED" /\ signals'[s] = "MISSED"
           /\ positions[s].status = "NONE" /\ orders[s].status \notin LiveStatus
  BY <1>1 DEF Reconciled, LiveOrders
<1>4. signals' \in [Signals -> SignalStatus]
  BY <1>1, <1>2 DEF Reconciled, TypeOK, SignalStatus
<1>5. TypeOK'
  BY <1>1, <1>2, <1>4, RestoredFacts DEF TypeOK
<1>6. RestoredOrder # None =>
        /\ RestoredOrder.sig \in Signals /\ LiveOrders(orders) = {RestoredOrder.sig}
        /\ RestoredOrder.status \in LiveStatus /\ orders[RestoredOrder.sig] = NewOrderRow(RestoredOrder)
        /\ signals'[RestoredOrder.sig] \notin {"NONE", "REJECTED"}
  <2> SUFFICES ASSUME RestoredOrder # None
               PROVE  /\ RestoredOrder.sig \in Signals /\ LiveOrders(orders) = {RestoredOrder.sig}
                      /\ RestoredOrder.status \in LiveStatus
                      /\ orders[RestoredOrder.sig] = NewOrderRow(RestoredOrder)
                      /\ signals'[RestoredOrder.sig] \notin {"NONE", "REJECTED"}
    OBVIOUS
  <2>1. /\ LiveOrders(orders) = {RestoredOrder.sig}
        /\ orders[RestoredOrder.sig] = NewOrderRow(RestoredOrder)
        /\ RestoredOrder.status = orders[RestoredOrder.sig].status
    BY <1>2, RestoredFacts
  <2> DEFINE s == RestoredOrder.sig
  <2>2. s \in Signals /\ orders[s].status \in LiveStatus
    BY <2>1 DEF LiveOrders
  <2>3. RowsFollow(s)
    BY <1>2, <2>2 DEF RowsFollowSignals
  <2>4. signals[s] \notin {"NONE", "REJECTED"}
    BY <2>2, <2>3 DEF RowsFollow, LiveStatus
  <2>5. signals'[s] \notin {"NONE", "REJECTED"}
    BY <1>3, <2>2, <2>4
  <2> QED
    BY <2>1, <2>2, <2>5
<1>7. RestoredPosition # None =>
        /\ RestoredPosition.sig \in Signals /\ OpenPositions(positions) = {RestoredPosition.sig}
        /\ positions[RestoredPosition.sig] = NewPositionRow(RestoredPosition)
        /\ signals'[RestoredPosition.sig] \notin {"NONE", "REJECTED"}
  <2> SUFFICES ASSUME RestoredPosition # None
               PROVE  /\ RestoredPosition.sig \in Signals /\ OpenPositions(positions) = {RestoredPosition.sig}
                      /\ positions[RestoredPosition.sig] = NewPositionRow(RestoredPosition)
                      /\ signals'[RestoredPosition.sig] \notin {"NONE", "REJECTED"}
    OBVIOUS
  <2> DEFINE p == RestoredPosition
             s == p.sig
             row == positions[s]
  <2>1. OpenPositions(positions) = {s}
        /\ row.entry = p.entry /\ row.qty = p.qty /\ row.best = p.best /\ row.worst = p.worst
    BY <1>2, RestoredFacts
  <2>2. s \in Signals /\ row.status = "OPEN"
    BY <2>1 DEF OpenPositions
  <2>3. row \in PositionRow /\ row.exit = 0 /\ row.pnl = 0 /\ row.closed = 0
    BY <1>2, <2>2 DEF Sound, TypeOK, OpenRowsUnsettled
  <2>4. signals[s] \notin {"NONE", "REJECTED"} /\ signals'[s] \notin {"NONE", "REJECTED"}
    BY <1>2, <1>3, <2>2 DEF RowsFollowSignals, RowsFollow
  <2> HIDE DEF p
  <2>5. row = NewPositionRow(p)
    BY <2>1, <2>2, <2>3 DEF NewPositionRow, PositionRow
  <2> QED
    BY <2>1, <2>2, <2>4, <2>5 DEF p
<1>8. SlotMemory'
  <2>1. RestoredOrder # None /\ RestoredPosition # None => RestoredOrder.sig = RestoredPosition.sig
    <3>1. RestoredOrder # None => Busy(RestoredOrder.sig)
      BY <1>6 DEF Busy
    <3>2. RestoredPosition # None => Busy(RestoredPosition.sig)
      BY <1>7 DEF Busy
    <3> QED
      BY <1>2, <1>6, <1>7, <3>1, <3>2 DEF SingleSlot
  <2>2. \A s \in Signals : orders[s].status \in LiveStatus =>
          RestoredOrder # None /\ RestoredOrder.sig = s
    BY <1>2, RestoredFacts DEF LiveOrders
  <2>3. \A s \in Signals : positions[s].status = "OPEN" =>
          RestoredPosition # None /\ RestoredPosition.sig = s
    BY <1>2, RestoredFacts DEF OpenPositions
  <2> QED
    BY <1>1, <1>6, <1>7, <2>1, <2>2, <2>3 DEF SlotMemory
<1>9. Mirrored'
  BY <1>1, <1>6, <1>7 DEF Mirrored, NewOrderRow, NewPositionRow
<1>10. Filling' /\ SingleSlot' /\ OpenRowsUnsettled'
  BY <1>1, <1>2 DEF Sound, Filling, SingleSlot, Busy, LiveOrders, OpenPositions, OpenRowsUnsettled
<1>11. RowsFollowSignals'
  <2> SUFFICES ASSUME NEW s \in Signals
               PROVE  RowsFollow(s)'
    BY DEF RowsFollowSignals
  <2>1. orders[s].status \in {"NONE", "FILLED", "MISSED", "CANCELLED"} \cup LiveStatus
    BY <1>2 DEF TypeOK, OrderRow, OrderStatus
  <2>2. RowsFollow(s)
    BY <1>2 DEF RowsFollowSignals
  <2> QED
    BY <1>1, <1>3, <2>1, <2>2 DEF RowsFollow
<1> QED
  BY <1>5, <1>8, <1>9, <1>10, <1>11 DEF IInv, Sound

(* The clock and the day's universe keep the invariant.                     *)
LEMMA TickKeeps ==
  ASSUME IInv, Tick
  PROVE  IInv'
<1>1. /\ now' = now + 1 /\ (listed' = listed \/ listed' \in Universes)
      /\ UNCHANGED <<up, signals, orders, positions, pending, position, failed, crashes, tape>>
  BY DEF Tick, journal, memory
<1>2. now' \in Nat /\ listed' \subseteq Symbols
  BY <1>1 DEF IInv, Sound, TypeOK, Universes
<1>3. TypeOK' /\ Filling' /\ SlotMemory' /\ SingleSlot' /\ OpenRowsUnsettled' /\ RowsFollowSignals'
  BY <1>1, <1>2 DEF IInv, Sound, TypeOK, Filling, SlotMemory, SingleSlot, Busy, LiveOrders,
                    OpenPositions, OpenRowsUnsettled, RowsFollowSignals, RowsFollow
<1>4. Mirrored' \/ Astray'
  BY <1>1 DEF IInv, Mirrored, Astray
<1> QED
  BY <1>3, <1>4 DEF IInv, Sound

(* So does a step that changes nothing.                                     *)
LEMMA StutterKeeps ==
  ASSUME IInv, UNCHANGED vars
  PROVE  IInv'
<1>1. UNCHANGED <<now, up, signals, orders, positions, pending, position, listed, failed, crashes, tape>>
  BY DEF vars, journal, memory
<1>2. TypeOK' /\ Filling' /\ SlotMemory' /\ SingleSlot' /\ OpenRowsUnsettled' /\ RowsFollowSignals'
  BY <1>1 DEF IInv, Sound, TypeOK, Filling, SlotMemory, SingleSlot, Busy, LiveOrders,
              OpenPositions, OpenRowsUnsettled, RowsFollowSignals, RowsFollow
<1>3. Mirrored' \/ Astray'
  BY <1>1 DEF IInv, Mirrored, Astray
<1> QED
  BY <1>2, <1>3 DEF IInv, Sound

(* Every step of the process, of its failures, its death and its restart    *)
(* keeps IInv.                                                              *)
LEMMA StepKeeps == IInv /\ [Next]_vars => IInv'
<1> SUFFICES ASSUME IInv, [Next]_vars
             PROVE  IInv'
  OBVIOUS
<1>1. ASSUME NEW s \in Signals, NEW q \in Quotes, NEW reference \in Prices, NEW lots \in 0..MaxLots,
             Decide(s, q, reference, lots) \/ TornSubmit(s, q, reference, lots)
      PROVE  IInv'
  BY <1>1, DecideKeeps, TornSubmitKeeps
<1>2. ASSUME NEW sym \in Symbols, NEW q \in Quotes, OnQuote(sym, q) \/ QuoteRaises(sym, q)
      PROVE  IInv'
  BY <1>2, OnQuoteKeeps, StutterKeeps DEF QuoteRaises
<1>3. ASSUME NEW sym \in Symbols, NEW t \in Trades, OnTrade(sym, t)
      PROVE  IInv'
  BY <1>3, ExpiresKeeps, ConsumesKeeps, FillsKeeps DEF OnTrade
<1>4. ASSUME NEW s \in Signals, TornDecide(s)
      PROVE  IInv'
  BY <1>4, TornDecideKeeps
<1>5. ASSUME NEW sym \in Symbols, NEW q \in Quotes,
             \/ TornAdvance(sym, q)
             \/ TornQuote(sym, q)
             \/ TornClose(sym, q)
      PROVE  IInv'
  BY <1>5, TornAdvanceKeeps, MarkStopsKeeps, RemainderStopsKeeps, TornCloseKeeps DEF TornQuote
<1>6. ASSUME NEW sym \in Symbols, NEW t \in Trades, TornConsume(sym, t) \/ TornFill(sym, t)
      PROVE  IInv'
  BY <1>6, TornConsumeKeeps, TornFillKeeps
<1> QED
  BY <1>1, <1>2, <1>3, <1>4, <1>5, <1>6, StreamBreakKeeps, TickKeeps, CrashKeeps, TornCancelKeeps,
     RestartKeeps, StutterKeeps DEF Next

(* The invariant holds in every reachable state.                            *)
LEMMA Invariance == Spec => []IInv
<1>1. Init => IInv
  BY InitIInv
<1>2. IInv /\ [Next]_vars => IInv'
  BY StepKeeps
<1> QED
  BY <1>1, <1>2, PTL DEF Spec

(* Every variable of the executor and of its journal keeps its type.        *)
THEOREM TypeCorrect == Spec => []TypeOK
<1>1. IInv => TypeOK
  BY DEF IInv, Sound
<1> QED
  BY <1>1, Invariance, PTL

(* The journal never holds an entry or a position of two signals at once:   *)
(* the portfolio has one slot, wherever the process dies and whichever of   *)
(* its writes is refused.                                                   *)
THEOREM OneSlot == Spec => []SingleSlot
<1>1. IInv => SingleSlot
  BY DEF IInv, Sound
<1> QED
  BY <1>1, Invariance, PTL

(* A running process could be killed at any point and get its entry and its *)
(* position back from the journal, but for the size last displayed, unless  *)
(* a write about just these was refused.                                    *)
THEOREM MemoryIsDurable == Spec => []DurableMemory
<1>1. ASSUME IInv, up, ~Astray
      PROVE  /\ position = RestoredPosition
             /\ pending = IF RestoredOrder = None \/ pending = None THEN RestoredOrder
                          ELSE [RestoredOrder EXCEPT !.displayed = pending.displayed]
  <2>1. TypeOK /\ SingleSlot /\ SlotMemory /\ Mirrored /\ Sound
    BY <1>1 DEF IInv, Sound
  <2>2. position = RestoredPosition
    <3>1. CASE position = None
      <4>1. OpenPositions(positions) = {}
        BY <1>1, <2>1, <3>1 DEF SlotMemory, OpenPositions
      <4> QED
        BY <2>1, <3>1, <4>1, RestoredFacts
    <3>2. CASE position # None
      <4>1. position \in MemoryPosition /\ position.sig \in Signals
            /\ positions[position.sig] = NewPositionRow(position)
        BY <2>1, <3>2, MemoryTypes DEF Mirrored
      <4>2. position.sig \in OpenPositions(positions)
        BY <4>1 DEF OpenPositions, NewPositionRow
      <4>3. RestoredPosition \in MemoryPosition /\ RestoredPosition.sig = position.sig
        BY <2>1, <4>2, RestoredFacts
      <4>4. /\ RestoredPosition.entry = position.entry /\ RestoredPosition.qty = position.qty
            /\ RestoredPosition.best = position.best /\ RestoredPosition.worst = position.worst
        BY <2>1, <4>1, <4>2, <4>3, RestoredFacts DEF NewPositionRow
      <4> QED
        BY <4>1, <4>3, <4>4 DEF MemoryPosition
    <3> QED
      BY <3>1, <3>2
  <2>3. CASE pending = None
    <3>1. LiveOrders(orders) = {}
      BY <1>1, <2>1, <2>3 DEF SlotMemory, LiveOrders
    <3> QED
      BY <2>1, <2>2, <2>3, <3>1, RestoredFacts
  <2>4. CASE pending # None
    <3>1. pending \in MemoryOrder /\ pending.sig \in Signals
          /\ orders[pending.sig] = NewOrderRow(pending) /\ pending.status \in LiveStatus
      BY <2>1, <2>4, MemoryTypes DEF Mirrored
    <3>2. pending.sig \in LiveOrders(orders)
      BY <3>1 DEF LiveOrders, NewOrderRow
    <3>3. RestoredOrder # None /\ RestoredOrder \in MemoryOrder /\ RestoredOrder.sig = pending.sig
          /\ NewOrderRow(RestoredOrder) = NewOrderRow(pending)
      BY <2>1, <3>1, <3>2, RestoredFacts
    <3>4. /\ RestoredOrder.status = pending.status /\ RestoredOrder.created = pending.created
          /\ RestoredOrder.entry = pending.entry /\ RestoredOrder.qty = pending.qty
          /\ RestoredOrder.filled = pending.filled /\ RestoredOrder.queue = pending.queue
      BY <3>3 DEF NewOrderRow
    <3>5. pending = [RestoredOrder EXCEPT !.displayed = pending.displayed]
      BY <3>1, <3>3, <3>4 DEF MemoryOrder
    <3> QED
      BY <2>2, <2>4, <3>3, <3>5
  <2> QED
    BY <2>3, <2>4
<1>2. IInv => DurableMemory
  BY <1>1 DEF DurableMemory
<1> QED
  BY <1>2, Invariance, PTL
=============================================================================
