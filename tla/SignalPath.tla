------------------------------ MODULE SignalPath ------------------------------
(***************************************************************************)
(* PaperApp's signal paths: one tracker per admitted signal, fed with the   *)
(* public trades of its symbol, whose beginning and end are appended to     *)
(* signal_path_events.  The stream loses trades silently, breaks with or    *)
(* without telling PaperApp, and ends with every UTC day; a journal write   *)
(* may fail, which ends the session but not the process; the process may   *)
(* be killed anywhere.                                                     *)
(*                                                                         *)
(* `paths' is the process's memory, `events' the table that survives it.   *)
(* A handler visits the paths of a symbol in dictionary order and commits   *)
(* one event per path; that order is left open, so a handler stopped        *)
(* halfway has dealt with an arbitrary part of them.                       *)
(***************************************************************************)
EXTENDS PathTracker, FiniteSets

CONSTANTS
  Symbols,        (* symbols a day's universe may hold                      *)
  Prices,         (* prices a trade may show                                *)
  None,           (* a signal without a path in memory                      *)
  MaxTime,        (* bound: last clock tick                                 *)
  MaxFaults       (* bound: kills and failed writes together                *)

ASSUME SignalPathAssumption ==
  /\ SymbolOf \in [Signals -> Symbols]
  /\ Prices \subseteq Nat
  /\ None \notin Tracker
  /\ MaxTime \in Nat
  /\ MaxFaults \in Nat

EventTypes == {"START", "RESTART"} \cup (PathStatus \ {"NO_TOUCH"})
Events     == [sig: Signals, type: EventTypes, at: Nat]

VARIABLES
  now,        (* receive time of the latest message                         *)
  up,         (* is the process running?                                    *)
  stream,     (* "live", "silent": trades are lost unnoticed, or "closed"   *)
  universe,   (* symbols of the session                                     *)
  paths,      (* memory: the tracker of every followed signal, or None      *)
  events,     (* the journal: signal_path_events                            *)
  faults,     (* kills and failed writes so far                             *)
  market,     (* history: what the market touched first within the horizon  *)
  unheard     (* history: signals followed across an unannounced gap        *)

vars == <<now, up, stream, universe, paths, events, faults, market, unheard>>

(* start 0: the signal was not admitted yet.                                *)
Unmoved == [start |-> 0, touch |-> "NO_TOUCH", at |-> 0]

Init ==
  /\ now = 1
  /\ up = TRUE
  /\ stream = "closed"
  /\ universe = Symbols
  /\ paths = [s \in Signals |-> None]
  /\ events = {}
  /\ faults = 0
  /\ market = [s \in Signals |-> Unmoved]
  /\ unheard = {}
-----------------------------------------------------------------------------
(* The journal.  event_id is signal and type (and time, of a restart); an   *)
(* identity that is already there is ignored.                               *)
SameIdentity(e, f) ==
  e.sig = f.sig /\ e.type = f.type /\ (e.type = "RESTART" => e.at = f.at)

Appended(table, new) ==
  table \cup {e \in new : \A f \in table : ~SameIdentity(e, f)}

EventOf(s, p) == [sig |-> s, type |-> p.status, at |-> ReportedAt(p)]

StartEvent(s) == [sig |-> s, type |-> "START", at |-> now]

(* A mutant: a trade that touches nothing is reported as well.              *)
ResultsOfAll(after, done) == {EventOf(s, after[s]) : s \in done}

Results(after, done) == {EventOf(s, after[s]) : s \in {t \in done : Ended(after[t])}}

(* Events of one signal are ordered by time, then by the text of event_id.  *)
IdentityRank(type) ==
  CASE type = "RESTART"    -> 1
    [] type = "SL_TOUCHED" -> 2
    [] type = "START"      -> 3
    [] type = "TIMEOUT"    -> 4
    [] type = "TP_TOUCHED" -> 5
    [] type = "UNKNOWN"    -> 6

Later(e, f) ==
  \/ e.at > f.at
  \/ e.at = f.at /\ IdentityRank(e.type) > IdentityRank(f.type)

(* A mutant: every path is given up, also those whose end is on record.     *)
EveryStarted(table) == {e.sig : e \in {f \in table : f.type = "START"}}

(* What start-up takes for paths that never ended.                          *)
Orphaned(table) ==
  {e.sig : e \in {f \in table :
     f.type = "START" /\ \A g \in table : g.sig = f.sig => ~Later(g, f)}}
-----------------------------------------------------------------------------
Followed     == {s \in Signals : paths[s] # None}
On(sym)      == {s \in Followed : SymbolOf[s] = sym}
Undecided    == {s \in Followed : ~Ended(paths[s])}
Hears(sym)   == up /\ stream = "live" /\ sym \in universe

(* The market trades at `price': the first boundary it touches counts, in   *)
(* the horizon of the signal and whether or not anybody listens.            *)
MarketAfter(sym, price) ==
  [s \in Signals |->
     IF /\ SymbolOf[s] = sym /\ market[s].start > 0 /\ market[s].touch = "NO_TOUCH"
        /\ now < market[s].start + Horizon
        /\ Touch(s, price) # "NO_TOUCH"
     THEN [market[s] EXCEPT !.touch = Touch(s, price), !.at = now]
     ELSE market[s]]

(* _start_signal_path.                                                      *)
Begins(s) ==
  /\ Hears(SymbolOf[s])
  /\ market[s].start = 0
  /\ now + Horizon < MaxTime                           \* bound: it can time out
  /\ market' = [market EXCEPT ![s].start = now]

Start(s) ==
  /\ Begins(s)
  /\ paths' = [paths EXCEPT ![s] = Begun(now)]
  /\ events' = Appended(events, {StartEvent(s)})
  /\ UNCHANGED <<now, up, stream, universe, faults, unheard>>

(* A mutant: the horizon is not looked at.                                  *)
SteppedWithoutHorizon(s, price) == Observed(s, paths[s], now, price)

(* What a trade makes of one path: past its deadline it times out there.    *)
Stepped(s, price) ==
  IF now >= Deadline(paths[s])
  THEN TimedOut(paths[s], Deadline(paths[s]))
  ELSE Observed(s, paths[s], now, price)

(* A path cut off after its deadline, whose event could not be written.     *)
Raises(s) == now >= Deadline(paths[s]) /\ TimeoutRaises(paths[s], Deadline(paths[s]))

(* Paths of `done' have seen the trade, the others not.                     *)
AfterTrade(done, price) ==
  [s \in Signals |-> IF s \in done THEN Stepped(s, price) ELSE paths[s]]

(* A mutant: a path is dropped whether it ended or not.                     *)
DroppedAll(after, some) == [s \in Signals |-> IF s \in some THEN None ELSE after[s]]

Unended(after, some) == [s \in Signals |-> IF s \in some /\ Ended(after[s]) THEN None ELSE after[s]]

(* _observe_signal_paths.                                                   *)
Trade(sym, price) ==
  /\ Hears(sym)
  /\ \A s \in On(sym) : ~Raises(s)
  /\ LET after == AfterTrade(On(sym), price)
     IN  /\ paths' = Unended(after, On(sym))
         /\ events' = Appended(events, Results(after, On(sym)))
  /\ market' = MarketAfter(sym, price)
  /\ UNCHANGED <<now, up, stream, universe, faults, unheard>>

(* Paths of `done' were cut off at t, the others not yet.                   *)
CutOffAfter(done, t) == [s \in Signals |-> IF s \in done THEN CutOff(paths[s], t) ELSE paths[s]]

(* _mark_signal_paths_unknown, which a broken stream calls.                 *)
Disconnect ==
  /\ up
  /\ stream # "closed"
  /\ stream' = "closed"
  /\ events' = Appended(events, Results(CutOffAfter(Followed, now), Followed))
  /\ paths' = [s \in Signals |-> None]
  /\ UNCHANGED <<now, up, universe, faults, market, unheard>>

(* timeout raises ValueError in the middle of _observe_signal_paths: the     *)
(* stream takes it for a broken connection and has every path cut off.      *)
TradeRaises(sym, price) ==
  /\ Hears(sym)
  /\ \E s \in On(sym) : Raises(s)
  /\ \E done \in SUBSET {s \in On(sym) : ~Raises(s)} :
       LET seen  == AfterTrade(done, price)
           after == [s \in Signals |-> IF s \in Followed THEN CutOff(seen[s], now) ELSE None]
       IN  events' = Appended(events, Results(after, Followed))
  /\ stream' = "closed"
  /\ paths' = [s \in Signals |-> None]
  /\ market' = MarketAfter(sym, price)
  /\ UNCHANGED <<now, up, universe, faults, unheard>>
-----------------------------------------------------------------------------
(* Gaps nobody announces.                                                   *)
Lose ==
  /\ stream = "live"
  /\ stream' = "silent"
  /\ UNCHANGED <<now, up, universe, paths, events, faults, market, unheard>>

(* The market goes on where PaperApp does not listen.                       *)
Unheard(sym, price) ==
  /\ ~Hears(sym)
  /\ market' = MarketAfter(sym, price)
  /\ market' # market
  /\ UNCHANGED <<now, up, stream, universe, paths, events, faults, unheard>>

(* The UTC day ends: the stream is closed and another universe subscribed;   *)
(* the paths stay in memory and nothing is recorded.                        *)
Rollover(next) ==
  /\ up
  /\ stream' = "closed"
  /\ universe' = next
  /\ unheard' = unheard \cup Undecided
  /\ UNCHANGED <<now, up, paths, events, faults, market>>

Connect ==
  /\ up
  /\ stream = "closed"
  /\ stream' = "live"
  /\ UNCHANGED <<now, up, universe, paths, events, faults, market, unheard>>

Faulty == faults < MaxFaults /\ faults' = faults + 1   \* bound

(* A journal write fails: sqlite3's exception ends the session, the process  *)
(* goes on with the memory it has.                                          *)
WriteFails ==
  /\ Faulty
  /\ stream' = "closed"
  /\ unheard' = unheard \cup {s \in Signals : paths'[s] # None /\ ~Ended(paths'[s])}
  /\ UNCHANGED <<now, up, universe>>

StartFails(s) ==
  /\ Begins(s)
  /\ paths' = [paths EXCEPT ![s] = Begun(now)]
  /\ WriteFails
  /\ UNCHANGED events

(* The event of `failed' could not be written; `done' were dealt with, and   *)
(* their paths not dropped yet, because that happens after the loop.        *)
TradeFails(sym, price) ==
  /\ Hears(sym)
  /\ \E failed \in On(sym) : \E done \in SUBSET (On(sym) \ {failed}) :
       LET after == AfterTrade(done \cup {failed}, price)
       IN  /\ \A s \in done \cup {failed} : ~Raises(s)
           /\ Ended(after[failed])
           /\ paths' = after
           /\ events' = Appended(events, Results(after, done))
  /\ market' = MarketAfter(sym, price)
  /\ WriteFails

(* The handler of a broken stream drops each path once its event is there.  *)
DisconnectFails ==
  /\ up
  /\ stream # "closed"
  /\ \E failed \in Followed : \E done \in SUBSET (Followed \ {failed}) :
       LET after == CutOffAfter(done \cup {failed}, now)
       IN  /\ events' = Appended(events, Results(after, done))
           /\ paths' = Unended(after, done)
  /\ UNCHANGED market
  /\ WriteFails

(* Killed; to be started again takes longer than a tick.                    *)
Killed ==
  /\ up
  /\ Faulty
  /\ up' = FALSE
  /\ stream' = "closed"
  /\ paths' = [s \in Signals |-> None]
  /\ now < MaxTime                                     \* bound
  /\ now' = now + 1
  /\ UNCHANGED <<universe, unheard>>

Crash == Killed /\ UNCHANGED <<events, market>>

(* Killed between two events of one trade, or of one broken stream.         *)
TornTrade(sym, price) ==
  /\ Hears(sym)
  /\ \E done \in SUBSET On(sym) :
       /\ \A s \in done : ~Raises(s)
       /\ events' = Appended(events, Results(AfterTrade(done, price), done))
  /\ market' = MarketAfter(sym, price)
  /\ Killed

TornDisconnect ==
  /\ stream # "closed"
  /\ \E done \in SUBSET Followed :
       events' = Appended(events, Results(CutOffAfter(done, now), done))
  /\ UNCHANGED market
  /\ Killed

(* _reconcile_orphaned_signal_paths; the next session picks a universe.     *)
Restart(next) ==
  /\ ~up
  /\ up' = TRUE
  /\ universe' = next
  /\ events' = Appended(events,
                 {[sig |-> s, type |-> "RESTART", at |-> now] : s \in Orphaned(events)})
  /\ UNCHANGED <<now, stream, paths, faults, market, unheard>>

Tick ==
  /\ now < MaxTime                                     \* bound
  /\ now' = now + 1
  /\ UNCHANGED <<up, stream, universe, paths, events, faults, market, unheard>>

Next ==
  \/ \E s \in Signals : Start(s) \/ StartFails(s)
  \/ \E sym \in Symbols, price \in Prices :
        \/ Trade(sym, price)
        \/ TradeRaises(sym, price)
        \/ TradeFails(sym, price)
        \/ TornTrade(sym, price)
        \/ Unheard(sym, price)
  \/ Disconnect \/ DisconnectFails \/ TornDisconnect
  \/ Lose \/ Connect
  \/ \E next \in SUBSET Symbols : Rollover(next) \/ Restart(next)
  \/ Crash
  \/ Tick

Spec == Init /\ [][Next]_vars

(* The clock runs, a lost or closed stream is noticed and reconnected, a     *)
(* killed service is started again, and every listed symbol keeps trading.  *)
Fairness ==
  /\ WF_vars(Tick)
  /\ WF_vars(Connect)
  /\ WF_vars(stream = "silent" /\ Disconnect)
  /\ WF_vars(\E next \in SUBSET Symbols : Restart(next))
  /\ \A sym \in Symbols :
       SF_vars(\E price \in Prices : Trade(sym, price) \/ TradeRaises(sym, price))

FairSpec == Spec /\ Fairness
-----------------------------------------------------------------------------
(* Every variable keeps its type.                                           *)
TypeOK ==
  /\ now \in Nat
  /\ up \in BOOLEAN
  /\ stream \in {"live", "silent", "closed"}
  /\ universe \subseteq Symbols
  /\ paths \in [Signals -> Tracker \cup {None}]
  /\ events \subseteq Events
  /\ faults \in Nat
  /\ market \in [Signals -> [start: Nat, touch: Touches \cup {"NO_TOUCH"}, at: Nat]]
  /\ unheard \subseteq Signals

Verdicts(s) == {e \in events : e.sig = s /\ e.type \in Touches \cup {"TIMEOUT"}}

TrueVerdict(s, e) ==
  IF e.type = "TIMEOUT"
  THEN market[s].touch = "NO_TOUCH" /\ e.at = market[s].start + Horizon
  ELSE market[s].touch = e.type /\ market[s].at = e.at

(* A touch or a timeout on record is what the market did first, unless the   *)
(* path was carried across a gap nobody announced.                          *)
HeardVerdictsAreTrue ==
  \A s \in Signals \ unheard : \A e \in Verdicts(s) : TrueVerdict(s, e)

(* The same without exception: an uncertain path is never given a verdict.   *)
VerdictsAreTrue ==
  \A s \in Signals : \A e \in Verdicts(s) : TrueVerdict(s, e)

(* However often a handler fails, is repeated or is torn, the process that   *)
(* follows a path reports one end of it, and the same one every time.       *)
OneEnd ==
  \A s \in Signals : \A e, f \in {g \in events : g.sig = s} :
    e.type \notin {"START", "RESTART"} /\ f.type \notin {"START", "RESTART"} => e = f

(* Start-up gives up a path that did end only if it ended at its stop in the  *)
(* very tick it began in.                                                   *)
RestartEndsOpenPaths ==
  \A e \in events : e.type = "RESTART" =>
    \A f \in events : f.sig = e.sig /\ f.type \notin {"START", "RESTART"} =>
      f.type = "SL_TOUCHED" /\ f.at = market[e.sig].start

Open(s) ==
  /\ \E e \in events : e.sig = s /\ e.type = "START"
  /\ \A e \in events : e.sig = s => e.type = "START"

(* Every path on record ends there, if its symbol stays in the universe.     *)
EveryPathEnds ==
  \A s \in Signals : Open(s) ~> (~Open(s) \/ SymbolOf[s] \notin universe)
=============================================================================
