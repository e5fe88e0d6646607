------------------------------- MODULE Journal -------------------------------
(***************************************************************************)
(* The SQLite journal of storage.py as far as paper execution uses it: the  *)
(* rows of its tables `signals', `paper_orders' and `positions', and the    *)
(* queries start-up and the daily loss limit ask of them.  Both             *)
(* `paper_orders' and `positions' declare signal_id UNIQUE, so a table is a *)
(* function from signals to rows and an absent row has status "NONE".       *)
(* Every Journal method is one committed transaction; the order in which a  *)
(* handler calls them is the business of the modules that use this one.     *)
(***************************************************************************)
EXTENDS Integers, FiniteSets, FiniteSetsExt

CONSTANTS
  Signals,      (* identities of the signals the strategy may emit          *)
  Symbols,      (* symbols a day's universe may hold                        *)
  SymbolOf,     (* the symbol a signal trades                               *)
  SideOf,       (* "LONG" or "SHORT"                                        *)
  StopOf,       (* its stop price                                           *)
  TargetOf,     (* its target price                                         *)
  DayLength,    (* length of a UTC day, in clock ticks                      *)
  CostPerLot,   (* entry and exit fees charged per lot of a closed trade    *)
  Slippage      (* ticks the exit is booked worse than the quote it left at *)

ASSUME JournalAssumption ==
  /\ IsFiniteSet(Signals)
  /\ SymbolOf \in [Signals -> Symbols]
  /\ SideOf \in [Signals -> {"LONG", "SHORT"}]
  /\ StopOf \in [Signals -> Nat]
  /\ TargetOf \in [Signals -> Nat]
  /\ DayLength \in Nat \ {0}
  /\ CostPerLot \in Nat
  /\ Slippage \in Nat

SignalStatus   == {"NONE", "TRIGGERED", "REJECTED", "MISSED", "OPEN", "CLOSED"}
LiveStatus     == {"PENDING", "ACTIVE", "PARTIAL"}
OrderStatus    == {"NONE", "FILLED", "MISSED", "CANCELLED"} \cup LiveStatus
PositionStatus == {"NONE", "OPEN", "CLOSED"}

OrderRow ==
  [status: OrderStatus, created: Nat, entry: Nat, qty: Nat, filled: Nat, queue: Nat]

(* best and worst are the most and the least favourable executable prices   *)
(* seen: mfe_bp and mae_bp are these, rescaled by the entry price.  exit is *)
(* the price after slippage, pnl is net_pnl.                                *)
PositionRow ==
  [status: PositionStatus, entry: Nat, qty: Nat, best: Nat, worst: Nat,
   exit: Int, pnl: Int, closed: Nat]

NoOrderRow ==
  [status |-> "NONE", created |-> 0, entry |-> 0, qty |-> 0, filled |-> 0, queue |-> 0]

NoPositionRow ==
  [status |-> "NONE", entry |-> 0, qty |-> 0, best |-> 0, worst |-> 0,
   exit |-> 0, pnl |-> 0, closed |-> 0]

EmptySignals   == [s \in Signals |-> "NONE"]
EmptyOrders    == [s \in Signals |-> NoOrderRow]
EmptyPositions == [s \in Signals |-> NoPositionRow]
-----------------------------------------------------------------------------
(* The price arithmetic both sides share: +1 gains when the price rises.    *)
Direction(s) == IF SideOf[s] = "LONG" THEN 1 ELSE -1

(* What an exit is booked at: worse than the quote for either side.         *)
Slipped(s, price) == price - Direction(s) * Slippage

(* Gross move minus entry and exit fee of position p, closed at the price   *)
(* exit: computed from memory, and journalled with the closed row.          *)
NetPnl(p, exit) ==
  Direction(p.sig) * (exit - p.entry) * p.qty - CostPerLot * p.qty

LiveOrders(orders)         == {s \in Signals : orders[s].status \in LiveStatus}
OpenPositions(positions)   == {s \in Signals : positions[s].status = "OPEN"}
ClosedPositions(positions) == {s \in Signals : positions[s].status = "CLOSED"}

RealizedPnl(positions) ==
  MapThenSumSet(LAMBDA s : positions[s].pnl, ClosedPositions(positions))

ClosedOnDay(positions, day) ==
  {s \in ClosedPositions(positions) : positions[s].closed \div DayLength = day}

DailyRealizedPnl(positions, day) ==
  MapThenSumSet(LAMBDA s : positions[s].pnl, ClosedOnDay(positions, day))

(* What reconcile_orphaned_triggers makes of the table at start-up.         *)
Reconciled(signals, orders, positions) ==
  [s \in Signals |->
     IF /\ signals[s] = "TRIGGERED"
        /\ positions[s].status = "NONE"
        /\ s \notin LiveOrders(orders)
     THEN "MISSED"
     ELSE signals[s]]

(* paper_order_row: the live order created last, if there is one.           *)
LatestLiveOrder(orders) ==
  CHOOSE s \in LiveOrders(orders) :
    \A t \in LiveOrders(orders) : orders[t].created <= orders[s].created
=============================================================================
