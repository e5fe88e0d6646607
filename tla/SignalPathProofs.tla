--------------------------- MODULE SignalPathProofs ---------------------------
(***************************************************************************)
(* The verdicts of signal paths, for every set of signals, symbols and      *)
(* prices, every horizon, and any number of faults.                        *)
(*                                                                         *)
(* The argument: what is in memory of a path agrees with what is on record  *)
(* of it (Agree), and both agree with the market unless the path was        *)
(* carried across an unannounced gap (Sound).  Every handler that reports   *)
(* is an instance of one step, Reports, whatever part of its paths it      *)
(* reached; that step keeps both.                                          *)
(***************************************************************************)
EXTENDS SignalPath, TLAPS

EndTypes == EventTypes \ {"START", "RESTART"}
Verdict  == Touches \cup {"TIMEOUT"}

(* The verdict e is what the market did, and no later trade can change that. *)
Sound(s, e) ==
  e.type \in Verdict =>
    /\ TrueVerdict(s, e)
    /\ e.type = "TIMEOUT" => now >= market[s].start + Horizon

(* Only an admitted signal has a path or an event.                          *)
Admitted ==
  /\ \A s \in Followed : market[s].start > 0 /\ paths[s].start = market[s].start
  /\ \A e \in events : market[e.sig].start > 0
  /\ \A s \in Signals : market[s].start = 0 => market[s].touch = "NO_TOUCH"

SoundPaths  == \A s \in Followed \ unheard : Ended(paths[s]) => Sound(s, EventOf(s, paths[s]))
SoundEvents == \A e \in events : e.sig \notin unheard => Sound(e.sig, e)

(* A path that is still in memory although its end is on record has that end. *)
Agree ==
  \A e \in events : e.type \in EndTypes /\ e.sig \in Followed =>
    Ended(paths[e.sig]) /\ e = EventOf(e.sig, paths[e.sig])

(* An open path nobody warned about is heard, and the market left it alone.  *)
Listening ==
  /\ stream = "closed" => Undecided \subseteq unheard
  /\ stream = "live" => \A s \in Undecided \ unheard :
       SymbolOf[s] \in universe /\ market[s].touch = "NO_TOUCH"
  /\ ~up => Followed = {} /\ stream = "closed"

(* The inductive invariant.                                                 *)
PathInv ==
  /\ TypeOK
  /\ now > 0
  /\ Admitted
  /\ SoundPaths
  /\ SoundEvents
  /\ Agree
  /\ OneEnd
  /\ Listening

(* The market moves: signals stay admitted, a touch stays, and a new one is  *)
(* within the horizon.                                                      *)
MarketMoves ==
  /\ now' \in Nat /\ now' >= now
  /\ market' \in [Signals -> [start: Nat, touch: Touches \cup {"NO_TOUCH"}, at: Nat]]
  /\ \A s \in Signals :
       /\ market[s].start > 0 => market'[s].start = market[s].start
       /\ market'[s].touch # market[s].touch \/ market'[s].at # market[s].at =>
            market[s].start > 0 /\ market[s].touch = "NO_TOUCH" /\ now < market[s].start + Horizon

(* A handler that made `after' of the paths reports those of `done' and      *)
(* keeps what it made of the others, or nothing.                            *)
Reports(after, done) ==
  /\ MarketMoves
  /\ unheard \subseteq unheard' /\ unheard' \subseteq Signals
  /\ after \in [Signals -> Tracker \cup {None}]
  /\ done \subseteq Followed
  /\ \A s \in Followed :
       /\ after[s] # None
       /\ after[s].start = paths[s].start
       /\ Ended(paths[s]) => after[s] = paths[s]
       /\ Ended(after[s]) /\ s \notin unheard' => Sound(s, EventOf(s, after[s]))'
  /\ events' = Appended(events, Results(after, done))
  /\ paths' \in [Signals -> Tracker \cup {None}]
  /\ \A s \in Signals : paths'[s] # None => s \in Followed /\ paths'[s] = after[s]

(* No move touches the boundaries of a signal before it is admitted.         *)
LEMMA NoEarlyTouch ==
  ASSUME PathInv, MarketMoves, NEW s \in Signals, market'[s].start = 0
  PROVE  market'[s].touch = "NO_TOUCH"
<1>1. market[s] \in [start: Nat, touch: Touches \cup {"NO_TOUCH"}, at: Nat]
  BY DEF PathInv, TypeOK
<1>2. market[s].start = 0 /\ market[s].touch = "NO_TOUCH"
  BY <1>1 DEF MarketMoves, PathInv, Admitted
<1> QED
  BY <1>2 DEF MarketMoves

(* The first sound verdict stays sound.                                     *)
LEMMA SoundStays ==
  ASSUME TypeOK, MarketMoves, NEW s \in Signals, market[s].start > 0,
         NEW e \in Events, Sound(s, e)
  PROVE  Sound(s, e)'
<1>1. market'[s].start = market[s].start /\ now \in Nat /\ now' \in Nat /\ now' >= now
  BY DEF MarketMoves, TypeOK
<1>2. Horizon \in Nat /\ market[s].start \in Nat
  BY TrackerAssumption DEF TypeOK
<1>3. CASE e.type \in Touches
  <2>1. market[s].touch # "NO_TOUCH"
    BY <1>3 DEF Sound, Verdict, TrueVerdict, Touches
  <2>2. market'[s].touch = market[s].touch /\ market'[s].at = market[s].at
    BY <2>1 DEF MarketMoves
  <2> QED
    BY <1>3, <2>2 DEF Sound, Verdict, TrueVerdict, Touches
<1>4. CASE e.type = "TIMEOUT"
  <2>1. now >= market[s].start + Horizon /\ market[s].touch = "NO_TOUCH" /\ e.at = market[s].start + Horizon
    BY <1>4 DEF Sound, Verdict, TrueVerdict
  <2>2. market'[s].touch = "NO_TOUCH"
    BY <1>1, <1>2, <2>1 DEF MarketMoves
  <2> QED
    BY <1>1, <1>2, <1>4, <2>1, <2>2 DEF Sound, Verdict, TrueVerdict
<1> QED
  BY <1>3, <1>4 DEF Sound, Verdict

(* An ended path's event is an event, of the end's type.                    *)
LEMMA EventTyped ==
  ASSUME NEW s \in Signals, NEW p \in Tracker, Ended(p)
  PROVE  EventOf(s, p) \in Events /\ EventOf(s, p).sig = s /\ EventOf(s, p).type \in EndTypes
  BY DEF EventOf, Events, EventTypes, EndTypes, Tracker, PathStatus, Ended, ReportedAt, Touches

(* What a handler reports are ends of the paths it visited.                 *)
LEMMA NewEvents ==
  ASSUME PathInv, NEW after, NEW done, Reports(after, done), NEW e \in events'
  PROVE  \/ e \in events
         \/ /\ e.sig \in done /\ e.sig \in Signals
            /\ after[e.sig] \in Tracker /\ Ended(after[e.sig])
            /\ e = EventOf(e.sig, after[e.sig])
            /\ e \in Events /\ e.type \in EndTypes
            /\ \A f \in events : ~SameIdentity(e, f)
<1>1. CASE e \notin events
  <2>1. e \in Results(after, done) /\ \A f \in events : ~SameIdentity(e, f)
    BY <1>1 DEF Reports, Appended
  <2>2. PICK s \in done : Ended(after[s]) /\ e = EventOf(s, after[s])
    BY <2>1 DEF Results
  <2>3. s \in Signals /\ after[s] \in Tracker
    BY <2>2 DEF Reports, Followed
  <2> QED
    BY <2>1, <2>2, <2>3, EventTyped
<1> QED
  BY <1>1

(* Memory and record go on agreeing, and with the market.                   *)
LEMMA ReportsKeeps ==
  ASSUME PathInv, NEW after, NEW done, Reports(after, done)
  PROVE  /\ Admitted' /\ SoundPaths' /\ SoundEvents' /\ Agree' /\ OneEnd'
         /\ events' \subseteq Events
<1> USE DEF PathInv
<1>1. \A s \in Followed : market'[s].start = market[s].start /\ market[s].start > 0
  BY DEF Admitted, Reports, MarketMoves, Followed
<1>2. \A s \in Signals : s \in Followed' => s \in Followed /\ paths'[s] = after[s]
  BY DEF Reports, Followed
<1>3. events' \subseteq Events
  BY NewEvents DEF TypeOK
<1>4. Admitted'
  <2>1. \A s \in Followed' : market'[s].start > 0 /\ paths'[s].start = market'[s].start
    BY <1>1, <1>2 DEF Admitted, Reports, Followed
  <2>2. ASSUME NEW e \in events'
        PROVE  market'[e.sig].start > 0
    <3>1. CASE e \in events
      BY <3>1 DEF Admitted, Reports, MarketMoves, TypeOK, Events
    <3>2. CASE e \notin events
      BY <1>1, <3>2, NewEvents DEF Reports
    <3> QED
      BY <3>1, <3>2
  <2>3. \A s \in Signals : market'[s].start = 0 => market'[s].touch = "NO_TOUCH"
    BY NoEarlyTouch DEF Reports
  <2> QED
    BY <2>1, <2>2, <2>3 DEF Admitted
<1>5. SoundPaths'
  <2> SUFFICES ASSUME NEW s \in Followed', s \notin unheard', Ended(paths'[s])
               PROVE  Sound(s, EventOf(s, paths[s]))'
    BY DEF SoundPaths, Ended
  <2>1. s \in Followed /\ paths'[s] = after[s]
    BY <1>2 DEF Followed
  <2>2. Sound(s, EventOf(s, after[s]))'
    BY <2>1 DEF Reports
  <2> QED
    BY <2>1, <2>2
<1>6. SoundEvents'
  <2> SUFFICES ASSUME NEW e \in events', e.sig \notin unheard'
               PROVE  Sound(e.sig, e)'
    BY DEF SoundEvents
  <2>1. CASE e \in events
    <3>1. Sound(e.sig, e) /\ e \in Events /\ e.sig \in Signals /\ market[e.sig].start > 0
      BY <2>1 DEF SoundEvents, Reports, TypeOK, Events, Admitted
    <3> QED
      BY <3>1, SoundStays DEF Reports
  <2>2. CASE e \notin events
    <3>1. e.sig \in done /\ Ended(after[e.sig]) /\ e = EventOf(e.sig, after[e.sig])
      BY <2>2, NewEvents
    <3>2. Sound(e.sig, EventOf(e.sig, after[e.sig]))'
      BY <3>1 DEF Reports
    <3> QED
      BY <3>1, <3>2
  <2> QED
    BY <2>1, <2>2
<1>7. ASSUME NEW e \in events', e.type \in EndTypes, e.sig \in Followed
      PROVE  Ended(after[e.sig]) /\ e = EventOf(e.sig, after[e.sig])
  <2>1. CASE e \in events
    BY <1>7, <2>1 DEF Agree, Reports
  <2> QED
    BY <2>1, NewEvents
<1>8. Agree'
  <2> SUFFICES ASSUME NEW e \in events', e.type \in EndTypes, e.sig \in Followed'
               PROVE  Ended(paths'[e.sig]) /\ e = EventOf(e.sig, paths'[e.sig])
    BY DEF Agree, EventOf, ReportedAt, Ended
  <2>1. e.sig \in Followed /\ paths'[e.sig] = after[e.sig]
    BY <1>2 DEF Followed
  <2> QED
    BY <1>7, <2>1
<1>9. OneEnd'
  <2> SUFFICES ASSUME NEW s \in Signals, NEW e \in events', NEW f \in events', e.sig = s, f.sig = s,
                      e.type \notin {"START", "RESTART"}, f.type \notin {"START", "RESTART"}
               PROVE  e = f
    BY DEF OneEnd
  <2>1. e.type \in EndTypes /\ f.type \in EndTypes
    BY <1>3 DEF Events, EndTypes
  <2>2. CASE s \in Followed
    BY <1>7, <2>1, <2>2
  <2>3. CASE s \notin Followed
    <3>1. e \in events /\ f \in events
      BY <2>3, NewEvents DEF Reports
    <3> QED
      BY <3>1 DEF OneEnd
  <2> QED
    BY <2>2, <2>3
<1> QED
  BY <1>3, <1>4, <1>5, <1>6, <1>8, <1>9

(* A step that reports no end: it notes beginnings and restarts, admits      *)
(* paths, drops paths, or leaves them alone.                                *)
LEMMA NotesKeep ==
  ASSUME PathInv, MarketMoves, unheard \subseteq unheard', unheard' \subseteq Signals,
         NEW notes, events' \subseteq events \cup notes,
         \A e \in notes : e \in Events /\ e.type \in {"START", "RESTART"} /\ market'[e.sig].start > 0,
         paths' \in [Signals -> Tracker \cup {None}],
         \A s \in Followed' :
           \/ s \in Followed /\ paths'[s] = paths[s]
           \/ /\ market[s].start = 0 /\ market'[s].start > 0
              /\ paths'[s].start = market'[s].start /\ ~Ended(paths'[s])
  PROVE  /\ Admitted' /\ SoundPaths' /\ SoundEvents' /\ Agree' /\ OneEnd'
         /\ events' \subseteq Events
<1> USE DEF PathInv
<1>1. events' \subseteq Events
  BY DEF TypeOK
<1>2. \A s \in Signals : market[s].start > 0 => market'[s].start = market[s].start
  BY DEF MarketMoves
<1>3. \A e \in events : e \in Events /\ e.sig \in Signals /\ market[e.sig].start > 0
  BY DEF Admitted, TypeOK, Events
<1>4. Admitted'
  <2>1. ASSUME NEW s \in Followed'
        PROVE  market'[s].start > 0 /\ paths'[s].start = market'[s].start
    BY <1>2 DEF Admitted, Followed
  <2>2. \A e \in events' : market'[e.sig].start > 0
    BY <1>2, <1>3
  <2>3. \A s \in Signals : market'[s].start = 0 => market'[s].touch = "NO_TOUCH"
    BY NoEarlyTouch DEF Reports
  <2> QED
    BY <2>1, <2>2, <2>3 DEF Admitted
<1>5. SoundPaths'
  <2> SUFFICES ASSUME NEW s \in Followed', s \notin unheard', Ended(paths'[s])
               PROVE  Sound(s, EventOf(s, paths[s]))'
    BY DEF SoundPaths, Ended
  <2>1. s \in Followed /\ s \in Signals /\ paths'[s] = paths[s] /\ paths[s] \in Tracker
    BY DEF Followed, TypeOK
  <2>2. PICK e \in Events : e = EventOf(s, paths[s])
    BY <2>1, EventTyped
  <2>3. Sound(s, e) /\ market[s].start > 0
    BY <2>1, <2>2 DEF SoundPaths, Admitted
  <2>4. Sound(s, e)'
    BY <2>1, <2>2, <2>3, SoundStays
  <2>5. EventOf(s, paths[s])' = e
    BY <2>1, <2>2 DEF EventOf, ReportedAt
  <2> QED
    BY <2>4, <2>5
<1>6. SoundEvents'
  <2> SUFFICES ASSUME NEW e \in events', e.sig \notin unheard'
               PROVE  Sound(e.sig, e)'
    BY DEF SoundEvents
  <2>1. CASE e \in events
    <3>1. Sound(e.sig, e) /\ e \in Events /\ e.sig \in Signals /\ market[e.sig].start > 0
      BY <1>3, <2>1 DEF SoundEvents
    <3> QED
      BY <3>1, SoundStays
  <2>2. CASE e \in notes
    BY <2>2 DEF Sound, Verdict, Touches
  <2> QED
    BY <2>1, <2>2
<1>7. Agree'
  <2> SUFFICES ASSUME NEW e \in events', e.type \in EndTypes, e.sig \in Followed'
               PROVE  Ended(paths'[e.sig]) /\ e = EventOf(e.sig, paths'[e.sig])
    BY DEF Agree, EventOf, ReportedAt, Ended
  <2>1. e \in events /\ market[e.sig].start > 0
    BY <1>3 DEF EndTypes
  <2>2. e.sig \in Followed /\ paths'[e.sig] = paths[e.sig]
    BY <2>1 DEF MarketMoves, TypeOK
  <2> QED
    BY <2>1, <2>2 DEF Agree
<1>8. OneEnd'
  BY DEF OneEnd
<1> QED
  BY <1>1, <1>4, <1>5, <1>6, <1>7, <1>8

(* A touch is a status.                                                     *)
LEMMA TouchTyped ==
  ASSUME NEW s, NEW price
  PROVE  Touch(s, price) \in Touches \cup {"NO_TOUCH"}
  BY DEF Touch, Touches

(* A trade is a move of the market.                                         *)
LEMMA TradeMoves ==
  ASSUME PathInv, NEW sym, NEW price, market' = MarketAfter(sym, price),
         now' \in Nat, now' >= now
  PROVE  MarketMoves
<1>1. /\ now \in Nat
      /\ market \in [Signals -> [start: Nat, touch: Touches \cup {"NO_TOUCH"}, at: Nat]]
  BY DEF PathInv, TypeOK
<1>2. ASSUME NEW s \in Signals
      PROVE  /\ market'[s] \in [start: Nat, touch: Touches \cup {"NO_TOUCH"}, at: Nat]
             /\ market'[s].start = market[s].start
             /\ market'[s].touch # market[s].touch \/ market'[s].at # market[s].at =>
                  market[s].start > 0 /\ market[s].touch = "NO_TOUCH" /\ now < market[s].start + Horizon
  <2>1. CASE market'[s] = market[s]
    BY <1>1, <1>2, <2>1
  <2>2. CASE market'[s] # market[s]
    <3>1. /\ market'[s] = [market[s] EXCEPT !.touch = Touch(s, price), !.at = now]
          /\ market[s].start > 0 /\ market[s].touch = "NO_TOUCH" /\ now < market[s].start + Horizon
      BY <1>2, <2>2 DEF MarketAfter
    <3>2. PICK touch \in Touches \cup {"NO_TOUCH"} : touch = Touch(s, price)
      BY TouchTyped
    <3>3. PICK m \in [start: Nat, touch: Touches \cup {"NO_TOUCH"}, at: Nat] : m = market[s]
      BY <1>1, <1>2
    <3> SUFFICES ASSUME NEW r, r = [m EXCEPT !.touch = touch, !.at = now]
                 PROVE  /\ r \in [start: Nat, touch: Touches \cup {"NO_TOUCH"}, at: Nat]
                        /\ r.start = m.start
      BY <3>1, <3>2, <3>3
    <3> QED
      BY <1>1
  <2> QED
    BY <2>1, <2>2
<1>3. DOMAIN market' = Signals /\ market' = [s \in Signals |-> market'[s]]
  BY DEF MarketAfter
<1> QED
  BY <1>1, <1>2, <1>3 DEF MarketMoves

(* A market left alone, later or not, is one too.                           *)
LEMMA StillMoves ==
  ASSUME PathInv, UNCHANGED market, now' \in Nat, now' >= now
  PROVE  MarketMoves
  BY DEF MarketMoves, PathInv, TypeOK

(* What a heard trade makes of a path is what it makes of the market.       *)
LEMMA SteppedSound ==
  ASSUME PathInv, NEW s \in Followed, stream = "live", NEW price,
         market' = MarketAfter(SymbolOf[s], price), now' \in Nat, now' >= now,
         NEW a, a = Stepped(s, price)
  PROVE  /\ a \in Tracker
         /\ a.start = paths[s].start
         /\ Ended(paths[s]) => a = paths[s]
         /\ Ended(a) /\ s \notin unheard => Sound(s, EventOf(s, a))'
<1> PICK p : p = paths[s]
  OBVIOUS
<1>1. /\ s \in Signals /\ p \in Tracker /\ now \in Nat /\ Horizon \in Nat
      /\ market[s].start > 0 /\ p.start = market[s].start
      /\ market[s] \in [start: Nat, touch: Touches \cup {"NO_TOUCH"}, at: Nat]
  BY TrackerAssumption DEF PathInv, TypeOK, Followed, Admitted
<1>2. MarketMoves
  BY TradeMoves
<1>3. Deadline(p) \in Nat /\ Deadline(p) = market[s].start + Horizon
  BY <1>1 DEF Deadline, Tracker
<1>4. s \notin unheard /\ ~Ended(p) => market[s].touch = "NO_TOUCH"
  BY <1>1 DEF PathInv, Listening, Undecided
<1>5. market'[s] = IF /\ market[s].start > 0 /\ market[s].touch = "NO_TOUCH"
                      /\ now < market[s].start + Horizon /\ Touch(s, price) # "NO_TOUCH"
                   THEN [market[s] EXCEPT !.touch = Touch(s, price), !.at = now]
                   ELSE market[s]
  BY <1>1 DEF MarketAfter
<1>6. CASE Ended(p)
  <2>1. a = p
    BY <1>6 DEF Stepped, TimedOut, Observed
  <2>2. ASSUME s \notin unheard PROVE Sound(s, EventOf(s, p))'
    <3>1. PICK e \in Events : e = EventOf(s, p)
      BY <1>1, <1>6, EventTyped
    <3>2. Sound(s, e)
      BY <1>6, <2>2, <3>1 DEF PathInv, SoundPaths
    <3>3. Sound(s, e)'
      BY <1>1, <1>2, <3>1, <3>2, SoundStays DEF PathInv
    <3> QED
      BY <3>1, <3>3
  <2> QED
    BY <1>1, <2>1, <2>2
<1>7. CASE ~Ended(p) /\ now >= Deadline(p)
  <2>1. a = [p EXCEPT !.last = Deadline(p), !.status = "TIMEOUT", !.at = Deadline(p)]
    BY <1>7 DEF Stepped, TimedOut
  <2>2. a \in Tracker /\ a.start = p.start /\ a.status = "TIMEOUT" /\ a.at = Deadline(p)
    BY <1>1, <1>3, <2>1 DEF Tracker, PathStatus
  <2>3. EventOf(s, a).type = "TIMEOUT" /\ EventOf(s, a).at = Deadline(p)
    BY <2>2 DEF EventOf, ReportedAt
  <2>4. market'[s] = market[s]
    BY <1>1, <1>3, <1>5, <1>7
  <2>5. ASSUME s \notin unheard PROVE Sound(s, EventOf(s, a))'
    <3>1. PICK e : e = EventOf(s, a)
      OBVIOUS
    <3>2. now' >= market'[s].start + Horizon /\ e.at = market'[s].start + Horizon
      BY <1>1, <1>3, <1>7, <2>3, <2>4, <3>1
    <3>3. market'[s].touch = "NO_TOUCH" /\ e.type = "TIMEOUT"
      BY <1>4, <1>7, <2>3, <2>4, <2>5, <3>1
    <3>4. Sound(s, e)'
      BY <3>2, <3>3 DEF Sound, TrueVerdict
    <3> QED
      BY <3>1, <3>4
  <2> QED
    BY <1>7, <2>2, <2>5
<1>8. CASE ~Ended(p) /\ ~(now >= Deadline(p)) /\ Touch(s, price) = "NO_TOUCH"
  <2>1. a = [p EXCEPT !.last = now]
    BY <1>8 DEF Stepped, Observed
  <2> QED
    BY <1>1, <1>8, <2>1 DEF Tracker, Ended
<1>9. CASE ~Ended(p) /\ ~(now >= Deadline(p)) /\ Touch(s, price) # "NO_TOUCH"
  <2>1. PICK touch \in Touches : touch = Touch(s, price)
    BY <1>9, TouchTyped
  <2>2. a = [p EXCEPT !.last = now, !.status = touch, !.at = now]
    BY <1>9, <2>1 DEF Stepped, Observed
  <2>3. a \in Tracker /\ a.start = p.start /\ a.status = touch /\ a.at = now
    BY <1>1, <2>1, <2>2 DEF Tracker, PathStatus
  <2>4. now < market[s].start + Horizon
    BY <1>1, <1>3, <1>9
  <2>5. ASSUME s \notin unheard PROVE Sound(s, EventOf(s, a))'
    <3>1. market'[s] = [market[s] EXCEPT !.touch = touch, !.at = now]
      BY <1>1, <1>4, <1>5, <1>9, <2>1, <2>4, <2>5
    <3>2. market'[s].touch = touch /\ market'[s].at = now
      BY <1>1, <3>1
    <3>3. PICK e : e = EventOf(s, a)
      OBVIOUS
    <3>4. e.type = touch /\ e.at = now /\ touch # "TIMEOUT"
      BY <2>1, <2>3, <3>3 DEF EventOf, ReportedAt, Touches
    <3>5. Sound(s, e)'
      BY <3>2, <3>4 DEF Sound, TrueVerdict
    <3> QED
      BY <3>3, <3>5
  <2> QED
    BY <1>9, <2>3, <2>5
<1> QED
  BY <1>6, <1>7, <1>8, <1>9

(* A path no handler reached.                                               *)
LEMMA KeptSound ==
  ASSUME PathInv, MarketMoves, NEW s \in Followed, NEW a, a = paths[s]
  PROVE  /\ a \in Tracker
         /\ Ended(a) /\ s \notin unheard => Sound(s, EventOf(s, a))'
<1>1. s \in Signals /\ a \in Tracker /\ market[s].start > 0
  BY DEF PathInv, TypeOK, Followed, Admitted
<1>2. ASSUME Ended(a), s \notin unheard PROVE Sound(s, EventOf(s, a))'
  <2>1. PICK e \in Events : e = EventOf(s, a)
    BY <1>1, <1>2, EventTyped
  <2>2. Sound(s, e)
    BY <1>2, <2>1 DEF PathInv, SoundPaths
  <2>3. Sound(s, e)'
    BY <1>1, <2>1, <2>2, SoundStays DEF PathInv
  <2> QED
    BY <2>1, <2>3
<1> QED
  BY <1>1, <1>2

(* A cut-off gives an open path no verdict and an ended one no other.       *)
LEMMA CutOffSound ==
  ASSUME NEW s \in Signals, NEW p \in Tracker, NEW t \in Nat, NEW a, a = CutOff(p, t),
         Ended(p) => Sound(s, EventOf(s, p))'
  PROVE  /\ a \in Tracker /\ a.start = p.start /\ Ended(a)
         /\ Ended(p) => a = p
         /\ Sound(s, EventOf(s, a))'
<1>1. CASE Ended(p)
  BY <1>1 DEF CutOff
<1>2. CASE ~Ended(p)
  <2>1. a = [p EXCEPT !.last = t, !.status = "UNKNOWN"]
    BY <1>2 DEF CutOff
  <2>2. a \in Tracker /\ a.start = p.start /\ a.status = "UNKNOWN"
    BY <2>1 DEF Tracker, PathStatus
  <2>3. EventOf(s, a).type = "UNKNOWN"
    BY <2>2 DEF EventOf
  <2>4. Sound(s, EventOf(s, a))'
    BY <2>3 DEF Sound, Verdict, Touches
  <2> QED
    BY <1>2, <2>2, <2>4 DEF Ended
<1> QED
  BY <1>1, <1>2

(* The type alone, for a path that may be wrong about the market.           *)
LEMMA CutOffTyped ==
  ASSUME NEW p \in Tracker, NEW t \in Nat, NEW a, a = CutOff(p, t)
  PROVE  a \in Tracker /\ a.start = p.start /\ Ended(a) /\ (Ended(p) => a = p)
  BY DEF CutOff, Tracker, PathStatus, Ended

(* A trade, whatever part of its paths the handler reached.                 *)
LEMMA TradeMakes ==
  ASSUME PathInv, NEW sym, NEW price, Hears(sym), market' = MarketAfter(sym, price),
         now' \in Nat, now' >= now,
         NEW done \in SUBSET On(sym), NEW after, after = AfterTrade(done, price)
  PROVE  /\ MarketMoves
         /\ done \subseteq Followed
         /\ after \in [Signals -> Tracker \cup {None}]
         /\ \A s \in Followed :
              /\ after[s] \in Tracker
              /\ after[s].start = paths[s].start
              /\ Ended(paths[s]) => after[s] = paths[s]
              /\ Ended(after[s]) /\ s \notin unheard => Sound(s, EventOf(s, after[s]))'
<1>1. MarketMoves
  BY TradeMoves
<1>2. done \subseteq Followed
  BY DEF On
<1>3. ASSUME NEW s \in Followed
      PROVE  /\ after[s] \in Tracker
             /\ after[s].start = paths[s].start
             /\ Ended(paths[s]) => after[s] = paths[s]
             /\ Ended(after[s]) /\ s \notin unheard => Sound(s, EventOf(s, after[s]))'
  <2> PICK a : a = after[s]
    OBVIOUS
  <2>1. CASE s \in done
    <3>1. a = Stepped(s, price)
      BY <2>1, <1>3 DEF AfterTrade, Followed
    <3>2. SymbolOf[s] = sym /\ stream = "live"
      BY <2>1 DEF On, Hears
    <3> QED
      BY <3>1, <3>2, SteppedSound
  <2>2. CASE s \notin done
    <3>1. a = paths[s]
      BY <2>2, <1>3 DEF AfterTrade, Followed
    <3> QED
      BY <1>1, <3>1, KeptSound
  <2> QED
    BY <2>1, <2>2
<1>4. after \in [Signals -> Tracker \cup {None}]
  <2>1. \A s \in Signals : s \notin Followed => after[s] = None
    BY <1>2 DEF AfterTrade, Followed
  <2>2. after = [s \in Signals |-> after[s]]
    BY DEF AfterTrade
  <2>3. \A s \in Signals : after[s] \in Tracker \cup {None}
    BY <1>3, <2>1
  <2> QED
    BY <2>2, <2>3
<1> QED
  BY <1>1, <1>2, <1>3, <1>4

(* A broken stream, whatever part of the paths the handler reached.         *)
LEMMA CutOffMakes ==
  ASSUME PathInv, MarketMoves,
         NEW done \in SUBSET Followed, NEW after, after = CutOffAfter(done, now)
  PROVE  /\ after \in [Signals -> Tracker \cup {None}]
         /\ \A s \in Followed :
              /\ after[s] \in Tracker
              /\ after[s].start = paths[s].start
              /\ Ended(paths[s]) => after[s] = paths[s]
              /\ Ended(after[s]) /\ s \notin unheard => Sound(s, EventOf(s, after[s]))'
              /\ s \in done => Ended(after[s])
<1>1. ASSUME NEW s \in Followed
      PROVE  /\ after[s] \in Tracker
             /\ after[s].start = paths[s].start
             /\ Ended(paths[s]) => after[s] = paths[s]
             /\ Ended(after[s]) /\ s \notin unheard => Sound(s, EventOf(s, after[s]))'
             /\ s \in done => Ended(after[s])
  <2> PICK a : a = after[s]
    OBVIOUS
  <2> PICK p : p = paths[s]
    OBVIOUS
  <2>1. s \in Signals /\ now \in Nat /\ p \in Tracker
    BY DEF PathInv, TypeOK, Followed
  <2>2. Ended(p) /\ s \notin unheard => Sound(s, EventOf(s, p))'
    BY KeptSound
  <2>3. CASE s \in done
    <3>1. a = CutOff(p, now)
      BY <2>1, <2>3 DEF CutOffAfter
    <3>2. a \in Tracker /\ a.start = p.start /\ Ended(a) /\ (Ended(p) => a = p)
      BY <2>1, <3>1, CutOffTyped
    <3>3. s \notin unheard => Sound(s, EventOf(s, a))'
      <4> PICK t \in Nat : t = now
        BY <2>1
      <4> QED
        BY <2>1, <2>2, <3>1, CutOffSound
    <3> QED
      BY <3>2, <3>3
  <2>4. CASE s \notin done
    <3>1. a = p
      BY <2>1, <2>4 DEF CutOffAfter
    <3> QED
      BY <2>1, <2>2, <2>4, <3>1
  <2> QED
    BY <2>3, <2>4
<1>2. after \in [Signals -> Tracker \cup {None}]
  <2>1. \A s \in Signals : s \notin Followed => after[s] = None
    BY DEF CutOffAfter, Followed
  <2>2. after = [s \in Signals |-> after[s]]
    BY DEF CutOffAfter
  <2>3. \A s \in Signals : after[s] \in Tracker \cup {None}
    BY <1>1, <2>1
  <2> QED
    BY <2>2, <2>3
<1> QED
  BY <1>1, <1>2

(* The variables a report leaves to the rest of its handler.                *)
Surroundings ==
  /\ up' \in BOOLEAN
  /\ stream' \in {"live", "silent", "closed"}
  /\ universe' \subseteq Symbols
  /\ faults' \in Nat

(* A report after which nobody listens any more.                            *)
LEMMA ReportsAndCloses ==
  ASSUME PathInv, NEW after, NEW done, Reports(after, done), Surroundings,
         stream' = "closed", Undecided' \subseteq unheard', ~up' => Followed' = {}
  PROVE  PathInv'
<1>1. /\ Admitted' /\ SoundPaths' /\ SoundEvents' /\ Agree' /\ OneEnd'
      /\ events' \subseteq Events
  BY ReportsKeeps
<1>2. TypeOK'
  BY <1>1 DEF TypeOK, Surroundings, Reports, MarketMoves
<1>3. now' > 0
  BY DEF PathInv, TypeOK, Reports, MarketMoves
<1>4. Listening'
  BY DEF Listening
<1> QED
  BY <1>1, <1>2, <1>3, <1>4 DEF PathInv

(* The paths a handler leaves in memory are among those it made.            *)
LEMMA LeftOver ==
  ASSUME TypeOK, NEW after \in [Signals -> Tracker \cup {None}],
         NEW some, NEW left, left = Unended(after, some)
  PROVE  /\ left \in [Signals -> Tracker \cup {None}]
         /\ \A s \in Signals : left[s] # None =>
              left[s] = after[s] /\ (s \in some => ~Ended(after[s]))
  BY DEF Unended

(* A heard trade.                                                           *)
LEMMA TradeStep ==
  ASSUME PathInv, NEW sym, NEW price, Trade(sym, price)
  PROVE  PathInv'
<1> PICK done : done = On(sym)
  OBVIOUS
<1> PICK after : after = AfterTrade(done, price)
  OBVIOUS
<1>1. /\ Hears(sym) /\ market' = MarketAfter(sym, price) /\ now' \in Nat /\ now' >= now
      /\ paths' = Unended(after, done) /\ events' = Appended(events, Results(after, done))
      /\ UNCHANGED <<now, up, stream, universe, faults, unheard>>
  BY DEF Trade, PathInv, TypeOK
<1>2. done \in SUBSET On(sym)
  OBVIOUS
<1>3. /\ MarketMoves
      /\ done \subseteq Followed
      /\ after \in [Signals -> Tracker \cup {None}]
      /\ \A s \in Followed :
           /\ after[s] \in Tracker
           /\ after[s].start = paths[s].start
           /\ Ended(paths[s]) => after[s] = paths[s]
           /\ Ended(after[s]) /\ s \notin unheard => Sound(s, EventOf(s, after[s]))'
  BY <1>1, <1>2, TradeMakes
<1>4. PICK left : left = Unended(after, done)
  OBVIOUS
<1>5. /\ left \in [Signals -> Tracker \cup {None}]
      /\ \A s \in Signals : left[s] # None =>
           left[s] = after[s] /\ (s \in done => ~Ended(after[s]))
  BY <1>3, <1>4, LeftOver DEF PathInv
<1>6. \A s \in Signals : s \notin Followed => after[s] = None
  BY <1>3 DEF AfterTrade, Followed
<1>7. \A s \in Signals : paths'[s] # None => s \in Followed /\ paths'[s] = after[s]
  BY <1>1, <1>4, <1>5, <1>6
<1>8. Reports(after, done)
  <2>1. \A s \in Followed : after[s] # None
    BY <1>3, SignalPathAssumption
  <2> QED
    BY <1>1, <1>3, <1>4, <1>5, <1>7, <2>1 DEF Reports, PathInv, TypeOK
<1>9. /\ Admitted' /\ SoundPaths' /\ SoundEvents' /\ Agree' /\ OneEnd'
      /\ events' \subseteq Events
  BY <1>8, ReportsKeeps
<1>10. TypeOK'
  BY <1>1, <1>3, <1>4, <1>5, <1>9 DEF TypeOK, PathInv, MarketMoves
<1>11. ASSUME NEW s \in Undecided', s \notin unheard'
       PROVE  SymbolOf[s] \in universe' /\ market'[s].touch = "NO_TOUCH"
  <2>1. s \in Signals /\ s \in Followed /\ paths'[s] = after[s] /\ ~Ended(after[s]) /\ s \notin unheard
    BY <1>1, <1>7, <1>11 DEF Undecided, Followed
  <2>2. s \in Undecided /\ SymbolOf[s] \in universe /\ market[s].touch = "NO_TOUCH"
    BY <1>1, <1>3, <2>1 DEF Undecided, PathInv, Listening, Hears
  <2>3. CASE s \in done
    <3>1. after[s] = Stepped(s, price)
      BY <2>1, <2>3 DEF AfterTrade
    <3>2. ~(now >= Deadline(paths[s]))
      BY <2>1, <2>2, <3>1 DEF Stepped, TimedOut, Ended, Undecided, Followed, PathInv, TypeOK, Tracker
    <3>3. PICK p \in Tracker : p = paths[s]
      BY <2>1 DEF PathInv, TypeOK, Followed
    <3>4. PICK touch \in Touches \cup {"NO_TOUCH"} : touch = Touch(s, price)
      BY TouchTyped
    <3>5. touch = "NO_TOUCH"
      <4> SUFFICES ASSUME touch # "NO_TOUCH" PROVE FALSE
        OBVIOUS
      <4>1. after[s] = [p EXCEPT !.last = now, !.status = touch, !.at = now]
        BY <2>2, <3>1, <3>2, <3>3, <3>4 DEF Stepped, Observed, Undecided
      <4>2. after[s].status = touch
        BY <3>3, <4>1 DEF Tracker
      <4> QED
        BY <2>1, <4>2 DEF Ended
    <3>6. market'[s] = market[s]
      BY <1>1, <2>1, <3>4, <3>5 DEF MarketAfter
    <3> QED
      BY <1>1, <2>2, <3>6
  <2>4. CASE s \notin done
    <3>1. market'[s] = market[s]
      BY <1>1, <2>1, <2>4 DEF MarketAfter, On
    <3> QED
      BY <1>1, <2>2, <3>1
  <2> QED
    BY <2>3, <2>4
<1>12. Listening'
  BY <1>1, <1>11 DEF Listening, Hears
<1>13. now' > 0
  BY <1>1 DEF PathInv
<1> QED
  BY <1>9, <1>10, <1>12, <1>13 DEF PathInv

(* A trade the tracker raises on: the stream is closed, every path cut off.  *)
LEMMA TradeRaisesStep ==
  ASSUME PathInv, NEW sym, NEW price, TradeRaises(sym, price)
  PROVE  PathInv'
<1>1. /\ Hears(sym) /\ market' = MarketAfter(sym, price) /\ now' \in Nat /\ now' >= now
      /\ now \in Nat /\ stream' = "closed" /\ paths' = [s \in Signals |-> None]
      /\ UNCHANGED <<now, up, universe, faults, unheard>>
  BY DEF TradeRaises, PathInv, TypeOK
<1>2. PICK done \in SUBSET {s \in On(sym) : ~Raises(s)} :
        LET seen  == AfterTrade(done, price)
            after == [s \in Signals |-> IF s \in Followed THEN CutOff(seen[s], now) ELSE None]
        IN  events' = Appended(events, Results(after, Followed))
  BY DEF TradeRaises
<1> PICK seen : seen = AfterTrade(done, price)
  OBVIOUS
<1> PICK after : after = [s \in Signals |-> IF s \in Followed THEN CutOff(seen[s], now) ELSE None]
  OBVIOUS
<1> PICK all : all = Followed
  OBVIOUS
<1>3. events' = Appended(events, Results(after, all))
  BY <1>2
<1>4. /\ MarketMoves
      /\ \A s \in Followed :
           /\ seen[s] \in Tracker
           /\ seen[s].start = paths[s].start
           /\ Ended(paths[s]) => seen[s] = paths[s]
           /\ Ended(seen[s]) /\ s \notin unheard => Sound(s, EventOf(s, seen[s]))'
  <2>1. done \in SUBSET On(sym)
    OBVIOUS
  <2> QED
    BY <1>1, <2>1, TradeMakes
<1>5. ASSUME NEW s \in Followed
      PROVE  /\ after[s] \in Tracker
             /\ after[s].start = paths[s].start
             /\ Ended(paths[s]) => after[s] = paths[s]
             /\ s \notin unheard => Sound(s, EventOf(s, after[s]))'
  <2> PICK p \in Tracker : p = seen[s]
    BY <1>4
  <2> PICK t \in Nat : t = now
    BY <1>1
  <2> PICK a : a = after[s]
    OBVIOUS
  <2>1. s \in Signals /\ a = CutOff(p, t)
    BY <1>5 DEF Followed
  <2>2. a.start = p.start /\ a \in Tracker /\ (Ended(p) => a = p)
    BY <2>1, CutOffTyped
  <2>3. s \notin unheard => Sound(s, EventOf(s, a))'
    BY <1>4, <2>1, CutOffSound
  <2> QED
    BY <1>4, <2>2, <2>3
<1>6. after \in [Signals -> Tracker \cup {None}]
  BY <1>5
<1>7. Reports(after, all)
  <2>1. \A s \in Followed : after[s] # None
    BY <1>5, SignalPathAssumption
  <2>2. unheard' = unheard /\ unheard \subseteq Signals
    BY <1>1 DEF PathInv, TypeOK
  <2>3. paths' \in [Signals -> Tracker \cup {None}] /\ \A s \in Signals : paths'[s] = None
    BY <1>1
  <2>4. \A s \in Followed : Ended(after[s]) /\ s \notin unheard' => Sound(s, EventOf(s, after[s]))'
    BY <1>5, <2>2
  <2> QED
    BY <1>3, <1>4, <1>5, <1>6, <2>1, <2>2, <2>3, <2>4 DEF Reports
<1>8. Surroundings /\ stream' = "closed" /\ Followed' = {} /\ Undecided' = {}
  BY <1>1 DEF Surroundings, PathInv, TypeOK, Followed, Undecided
<1> QED
  BY <1>7, <1>8, ReportsAndCloses

(* A trade one of whose events cannot be written.                           *)
LEMMA TradeFailsStep ==
  ASSUME PathInv, NEW sym, NEW price, TradeFails(sym, price)
  PROVE  PathInv'
<1>1. /\ Hears(sym) /\ market' = MarketAfter(sym, price) /\ now' \in Nat /\ now' >= now
      /\ stream' = "closed" /\ faults' = faults + 1
      /\ unheard' = unheard \cup {s \in Signals : paths'[s] # None /\ ~Ended(paths'[s])}
      /\ UNCHANGED <<now, up, universe>>
  BY DEF TradeFails, WriteFails, Faulty, PathInv, TypeOK
<1>2. PICK failed \in On(sym) : \E done \in SUBSET (On(sym) \ {failed}) :
        /\ paths' = AfterTrade(done \cup {failed}, price)
        /\ events' = Appended(events, Results(AfterTrade(done \cup {failed}, price), done))
  BY DEF TradeFails
<1>2a. PICK done \in SUBSET (On(sym) \ {failed}) :
        /\ paths' = AfterTrade(done \cup {failed}, price)
        /\ events' = Appended(events, Results(AfterTrade(done \cup {failed}, price), done))
  BY <1>2
<1> PICK seen : seen = done \cup {failed}
  OBVIOUS
<1> PICK after : after = AfterTrade(seen, price)
  OBVIOUS
<1>3. paths' = after /\ events' = Appended(events, Results(after, done)) /\ seen \in SUBSET On(sym)
  BY <1>2a
<1>4. /\ MarketMoves
      /\ seen \subseteq Followed
      /\ after \in [Signals -> Tracker \cup {None}]
      /\ \A s \in Followed :
           /\ after[s] \in Tracker
           /\ after[s].start = paths[s].start
           /\ Ended(paths[s]) => after[s] = paths[s]
           /\ Ended(after[s]) /\ s \notin unheard => Sound(s, EventOf(s, after[s]))'
  BY <1>1, <1>3, TradeMakes
<1>5. \A s \in Signals : after[s] # None => s \in Followed
  BY <1>4 DEF AfterTrade, Followed
<1>6. Reports(after, done)
  <2>1. \A s \in Followed : after[s] # None
    BY <1>4, SignalPathAssumption
  <2>2. unheard \subseteq unheard' /\ unheard' \subseteq Signals
    BY <1>1 DEF PathInv, TypeOK
  <2>3. \A s \in Followed : Ended(after[s]) /\ s \notin unheard' => Sound(s, EventOf(s, after[s]))'
    BY <1>4, <2>2
  <2>4. done \subseteq Followed
    BY <1>4
  <2> QED
    BY <1>3, <1>4, <1>5, <2>1, <2>2, <2>3, <2>4 DEF Reports
<1>7. /\ Surroundings /\ stream' = "closed" /\ Undecided' \subseteq unheard'
      /\ up' = TRUE
  BY <1>1 DEF Surroundings, PathInv, TypeOK, Followed, Undecided, Hears
<1> QED
  BY <1>6, <1>7, ReportsAndCloses

(* Killed in the middle of a trade.                                         *)
LEMMA TornTradeStep ==
  ASSUME PathInv, NEW sym, NEW price, TornTrade(sym, price)
  PROVE  PathInv'
<1>1. /\ Hears(sym) /\ market' = MarketAfter(sym, price) /\ now' \in Nat /\ now' >= now
      /\ stream' = "closed" /\ up' = FALSE /\ faults' = faults + 1
      /\ paths' = [s \in Signals |-> None]
      /\ UNCHANGED <<universe, unheard>>
  BY DEF TornTrade, Killed, Faulty, PathInv, TypeOK
<1>2. PICK done \in SUBSET On(sym) :
        events' = Appended(events, Results(AfterTrade(done, price), done))
  BY DEF TornTrade
<1> PICK after : after = AfterTrade(done, price)
  OBVIOUS
<1>3. /\ MarketMoves
      /\ done \subseteq Followed
      /\ after \in [Signals -> Tracker \cup {None}]
      /\ \A s \in Followed :
           /\ after[s] \in Tracker
           /\ after[s].start = paths[s].start
           /\ Ended(paths[s]) => after[s] = paths[s]
           /\ Ended(after[s]) /\ s \notin unheard => Sound(s, EventOf(s, after[s]))'
  BY <1>1, TradeMakes
<1>4. Reports(after, done)
  <2>1. \A s \in Followed : after[s] # None
    BY <1>3, SignalPathAssumption
  <2>2. unheard' = unheard /\ unheard \subseteq Signals
    BY <1>1 DEF PathInv, TypeOK
  <2>3. paths' \in [Signals -> Tracker \cup {None}] /\ \A s \in Signals : paths'[s] = None
    BY <1>1
  <2>4. \A s \in Followed : Ended(after[s]) /\ s \notin unheard' => Sound(s, EventOf(s, after[s]))'
    BY <1>3, <2>2
  <2> QED
    BY <1>2, <1>3, <2>1, <2>2, <2>3, <2>4 DEF Reports
<1>5. Surroundings /\ stream' = "closed"
  <2>1. up' \in BOOLEAN
    BY <1>1, Zenon
  <2> QED
    BY <1>1, <2>1 DEF Surroundings, PathInv, TypeOK
<1>6. Followed' = {} /\ Undecided' = {}
  BY <1>1 DEF Followed, Undecided
<1> QED
  BY <1>4, <1>5, <1>6, ReportsAndCloses

(* A market that is left alone while a handler cuts paths off.              *)
LEMMA CutOffReports ==
  ASSUME PathInv, UNCHANGED market, now' \in Nat, now' >= now,
         unheard \subseteq unheard', unheard' \subseteq Signals,
         NEW seen \in SUBSET Followed, NEW done \in SUBSET Followed,
         NEW after, after = CutOffAfter(seen, now),
         events' = Appended(events, Results(after, done)),
         paths' \in [Signals -> Tracker \cup {None}],
         \A s \in Signals : paths'[s] # None => s \in Followed /\ paths'[s] = after[s]
  PROVE  Reports(after, done)
<1>1. MarketMoves
  BY StillMoves
<1>2. /\ after \in [Signals -> Tracker \cup {None}]
      /\ \A s \in Followed :
           /\ after[s] \in Tracker
           /\ after[s].start = paths[s].start
           /\ Ended(paths[s]) => after[s] = paths[s]
           /\ Ended(after[s]) /\ s \notin unheard => Sound(s, EventOf(s, after[s]))'
  BY <1>1, CutOffMakes
<1>3. \A s \in Followed : after[s] # None
  BY <1>2, SignalPathAssumption
<1>4. \A s \in Followed : Ended(after[s]) /\ s \notin unheard' => Sound(s, EventOf(s, after[s]))'
  BY <1>2
<1> QED
  BY <1>1, <1>2, <1>3, <1>4 DEF Reports

(* A broken stream that every path is told of.                              *)
LEMMA DisconnectStep ==
  ASSUME PathInv, Disconnect
  PROVE  PathInv'
<1> PICK all : all = Followed
  OBVIOUS
<1> PICK after : after = CutOffAfter(all, now)
  OBVIOUS
<1>1. /\ events' = Appended(events, Results(after, all)) /\ now' \in Nat /\ now' >= now
      /\ up /\ stream' = "closed" /\ paths' = [s \in Signals |-> None]
      /\ UNCHANGED <<now, up, universe, faults, market, unheard>>
  BY DEF Disconnect, PathInv, TypeOK
<1>2. Followed' = {} /\ Undecided' = {} /\ paths' \in [Signals -> Tracker \cup {None}]
      /\ \A s \in Signals : paths'[s] = None
  BY <1>1 DEF Followed, Undecided
<1>3. unheard' \subseteq Signals /\ unheard \subseteq unheard'
  BY <1>1 DEF PathInv, TypeOK
<1>4. Reports(after, all)
  BY <1>1, <1>2, <1>3, CutOffReports
<1>5. Surroundings
  BY <1>1 DEF Surroundings, PathInv, TypeOK
<1> QED
  BY <1>1, <1>2, <1>4, <1>5, ReportsAndCloses

(* A broken stream one of whose events cannot be written.                   *)
LEMMA DisconnectFailsStep ==
  ASSUME PathInv, DisconnectFails
  PROVE  PathInv'
<1>1. PICK failed \in Followed : \E done \in SUBSET (Followed \ {failed}) :
        /\ events' = Appended(events, Results(CutOffAfter(done \cup {failed}, now), done))
        /\ paths' = Unended(CutOffAfter(done \cup {failed}, now), done)
  BY DEF DisconnectFails
<1>2. PICK done \in SUBSET (Followed \ {failed}) :
        /\ events' = Appended(events, Results(CutOffAfter(done \cup {failed}, now), done))
        /\ paths' = Unended(CutOffAfter(done \cup {failed}, now), done)
  BY <1>1
<1> PICK seen \in SUBSET Followed : seen = done \cup {failed}
  OBVIOUS
<1> PICK after : after = CutOffAfter(seen, now)
  OBVIOUS
<1> PICK left : left = Unended(after, done)
  OBVIOUS
<1>3. events' = Appended(events, Results(after, done)) /\ paths' = left
  BY <1>2
<1>4. /\ now' \in Nat /\ now' >= now /\ up /\ stream' = "closed" /\ faults' = faults + 1
      /\ unheard' = unheard \cup {s \in Signals : paths'[s] # None /\ ~Ended(paths'[s])}
      /\ UNCHANGED <<now, up, universe, market>>
  BY DEF DisconnectFails, WriteFails, Faulty, PathInv, TypeOK
<1>5. after \in [Signals -> Tracker \cup {None}]
  <2>1. MarketMoves
    BY <1>4, StillMoves
  <2> QED
    BY <2>1, CutOffMakes
<1>6. left \in [Signals -> Tracker \cup {None}] /\ \A s \in Signals : left[s] # None => left[s] = after[s]
  BY <1>5, LeftOver DEF PathInv
<1>7. \A s \in Signals : after[s] # None => s \in Followed
  BY DEF CutOffAfter, Followed
<1>8. \A s \in Signals : paths'[s] # None => s \in Followed /\ paths'[s] = after[s]
  BY <1>3, <1>6, <1>7
<1>9. unheard' \subseteq Signals /\ unheard \subseteq unheard'
  BY <1>4 DEF PathInv, TypeOK
<1>10. Reports(after, done)
  <2>1. paths' \in [Signals -> Tracker \cup {None}] /\ done \in SUBSET Followed
    BY <1>3, <1>6
  <2> QED
    BY <1>3, <1>4, <1>8, <1>9, <2>1, CutOffReports
<1>11. Surroundings /\ Undecided' \subseteq unheard' /\ up' = TRUE
  BY <1>4 DEF Surroundings, PathInv, TypeOK, Undecided, Followed
<1> QED
  BY <1>4, <1>10, <1>11, ReportsAndCloses

(* Killed in the middle of a broken stream's handler.                       *)
LEMMA TornDisconnectStep ==
  ASSUME PathInv, TornDisconnect
  PROVE  PathInv'
<1>1. PICK done \in SUBSET Followed :
        events' = Appended(events, Results(CutOffAfter(done, now), done))
  BY DEF TornDisconnect
<1> PICK after : after = CutOffAfter(done, now)
  OBVIOUS
<1>2. /\ now' \in Nat /\ now' >= now /\ up' = FALSE /\ stream' = "closed" /\ faults' = faults + 1
      /\ paths' = [s \in Signals |-> None]
      /\ UNCHANGED <<universe, unheard, market>>
  BY DEF TornDisconnect, Killed, Faulty, PathInv, TypeOK
<1>3. Followed' = {} /\ Undecided' = {} /\ paths' \in [Signals -> Tracker \cup {None}]
      /\ \A s \in Signals : paths'[s] = None
  BY <1>2 DEF Followed, Undecided
<1>4. unheard' \subseteq Signals /\ unheard \subseteq unheard'
  BY <1>2 DEF PathInv, TypeOK
<1>5. Reports(after, done)
  BY <1>1, <1>2, <1>3, <1>4, CutOffReports
<1>6. Surroundings
  <2>1. up' \in BOOLEAN
    BY <1>2, Zenon
  <2> QED
    BY <1>2, <2>1 DEF Surroundings, PathInv, TypeOK
<1> QED
  BY <1>2, <1>3, <1>5, <1>6, ReportsAndCloses

(* The steps that report no end.                                            *)
LEMMA NotesStep ==
  ASSUME PathInv, MarketMoves, Surroundings,
         unheard \subseteq unheard', unheard' \subseteq Signals,
         NEW notes, events' \subseteq events \cup notes,
         \A e \in notes : e \in Events /\ e.type \in {"START", "RESTART"} /\ market'[e.sig].start > 0,
         paths' \in [Signals -> Tracker \cup {None}],
         \A s \in Followed' :
           \/ s \in Followed /\ paths'[s] = paths[s]
           \/ /\ market[s].start = 0 /\ market'[s].start > 0
              /\ paths'[s].start = market'[s].start /\ ~Ended(paths'[s]),
         Listening'
  PROVE  PathInv'
<1>1. /\ Admitted' /\ SoundPaths' /\ SoundEvents' /\ Agree' /\ OneEnd'
      /\ events' \subseteq Events
  BY NotesKeep
<1>2. TypeOK' /\ now' > 0
  BY <1>1 DEF TypeOK, PathInv, Surroundings, MarketMoves
<1> QED
  BY <1>1, <1>2 DEF PathInv

(* An admitted signal, whether or not its beginning could be written.       *)
LEMMA StartSteps ==
  ASSUME PathInv, NEW s \in Signals, Start(s) \/ StartFails(s)
  PROVE  PathInv'
<1>1. /\ up /\ stream = "live" /\ SymbolOf[s] \in universe /\ market[s].start = 0
      /\ market' = [market EXCEPT ![s].start = now] /\ paths' = [paths EXCEPT ![s] = Begun(now)]
      /\ UNCHANGED <<now, up, universe>>
  BY DEF Start, StartFails, WriteFails, Begins, Hears
<1>2. /\ now \in Nat /\ now > 0
      /\ market \in [Signals -> [start: Nat, touch: Touches \cup {"NO_TOUCH"}, at: Nat]]
      /\ paths \in [Signals -> Tracker \cup {None}]
  BY DEF PathInv, TypeOK
<1>3. Begun(now) \in Tracker /\ Begun(now).start = now /\ ~Ended(Begun(now))
  BY <1>2 DEF Begun, Tracker, PathStatus, Ended
<1>4. /\ market'[s].start = now /\ market'[s].touch = market[s].touch /\ market'[s].at = market[s].at
      /\ \A t \in Signals : t # s => market'[t] = market[t] /\ paths'[t] = paths[t]
      /\ paths'[s] = Begun(now)
      /\ market' \in [Signals -> [start: Nat, touch: Touches \cup {"NO_TOUCH"}, at: Nat]]
      /\ paths' \in [Signals -> Tracker \cup {None}]
  BY <1>1, <1>2, <1>3
<1>5. MarketMoves
  BY <1>1, <1>2, <1>4 DEF MarketMoves
<1>6. /\ Surroundings
      /\ unheard \subseteq unheard' /\ unheard' \subseteq Signals
      /\ events' = events \/ events' = Appended(events, {StartEvent(s)})
      /\ \/ stream' = stream /\ unheard' = unheard
         \/ stream' = "closed" /\ Undecided' \subseteq unheard'
  <2>1. CASE Start(s)
    BY <2>1 DEF Start, Surroundings, PathInv, TypeOK
  <2>2. CASE StartFails(s)
    <3>1. up' \in BOOLEAN
      BY <1>1, Zenon DEF PathInv, TypeOK
    <3> QED
      BY <1>1, <2>2, <3>1 DEF StartFails, WriteFails, Faulty, Surroundings, PathInv, TypeOK, Undecided, Followed
  <2> QED
    BY <2>1, <2>2
<1> PICK note : note = StartEvent(s)
  OBVIOUS
<1> PICK notes : notes = {note}
  OBVIOUS
<1>7. events' \subseteq events \cup notes
  BY <1>6 DEF Appended
<1>8. note \in Events /\ note.type = "START" /\ note.sig = s
  BY <1>2 DEF StartEvent, Events, EventTypes
<1>9. \A t \in Followed' :
        \/ t \in Followed /\ paths'[t] = paths[t]
        \/ /\ market[t].start = 0 /\ market'[t].start > 0
           /\ paths'[t].start = market'[t].start /\ ~Ended(paths'[t])
  BY <1>1, <1>2, <1>3, <1>4 DEF Followed
<1>10. Listening'
  <2>1. ASSUME stream' = "live", NEW t \in Undecided', t \notin unheard'
        PROVE  SymbolOf[t] \in universe' /\ market'[t].touch = "NO_TOUCH"
    <3>1. unheard' = unheard \/ Undecided' \subseteq unheard'
      BY <1>6
    <3>2. CASE t = s
      BY <1>1, <1>4, <3>2 DEF PathInv, Admitted
    <3>3. CASE t # s
      BY <1>1, <1>4, <2>1, <3>1, <3>3 DEF PathInv, Listening, Undecided, Followed
    <3> QED
      BY <3>2, <3>3
  <2> QED
    BY <1>1, <1>6, <2>1 DEF Listening
<1>11. \A e \in notes : e \in Events /\ e.type \in {"START", "RESTART"} /\ market'[e.sig].start > 0
  BY <1>2, <1>4, <1>8
<1> QED
  BY <1>4, <1>5, <1>6, <1>7, <1>9, <1>10, <1>11, NotesStep

(* Paths that start-up gives up.                                            *)
LEMMA RestartStep ==
  ASSUME PathInv, NEW next \in SUBSET Symbols, Restart(next)
  PROVE  PathInv'
<1>1. /\ up' = TRUE /\ universe' = next /\ Followed = {} /\ stream = "closed"
      /\ UNCHANGED <<now, stream, paths, faults, market, unheard>>
  BY DEF Restart, PathInv, Listening
<1> PICK notes : notes = {[sig |-> s, type |-> "RESTART", at |-> now] : s \in Orphaned(events)}
  OBVIOUS
<1>2. events' \subseteq events \cup notes
  BY DEF Restart, Appended
<1>3. \A s \in Orphaned(events) : s \in Signals /\ market[s].start > 0
  BY DEF Orphaned, PathInv, TypeOK, Events, Admitted
<1>4. \A e \in notes : e \in Events /\ e.type \in {"START", "RESTART"} /\ market'[e.sig].start > 0
  BY <1>1, <1>3 DEF Events, EventTypes, PathInv, TypeOK
<1>5. MarketMoves
  BY <1>1, StillMoves DEF PathInv, TypeOK
<1>6. Surroundings
  BY <1>1 DEF Surroundings, PathInv, TypeOK
<1>7. Followed' = {} /\ Undecided' = {} /\ paths' \in [Signals -> Tracker \cup {None}]
  BY <1>1 DEF Followed, Undecided, PathInv, TypeOK
<1>8. Listening'
  BY <1>1, <1>7 DEF Listening
<1> QED
  BY <1>1, <1>2, <1>4, <1>5, <1>6, <1>7, <1>8, NotesStep DEF PathInv, TypeOK

(* Steps that leave the table and the paths of the living process alone.    *)
LEMMA QuietStep ==
  ASSUME PathInv, MarketMoves, Surroundings, UNCHANGED events,
         unheard \subseteq unheard', unheard' \subseteq Signals,
         UNCHANGED paths \/ paths' = [s \in Signals |-> None], Listening'
  PROVE  PathInv'
<1>1. paths' \in [Signals -> Tracker \cup {None}]
  BY DEF PathInv, TypeOK
<1>2. \A s \in Followed' : s \in Followed /\ paths'[s] = paths[s]
  BY DEF Followed
<1> PICK notes : notes = {}
  OBVIOUS
<1>3. events' \subseteq events \cup notes
  OBVIOUS
<1> QED
  BY <1>1, <1>2, <1>3, NotesStep

(* Gaps, sessions, the clock and a kill between two handlers.               *)
LEMMA OtherSteps ==
  ASSUME PathInv,
         \/ Lose \/ Connect \/ Tick \/ Crash \/ UNCHANGED vars
         \/ \E sym \in Symbols, price \in Prices : Unheard(sym, price)
         \/ \E next \in SUBSET Symbols : Rollover(next)
  PROVE  PathInv'
<1> USE DEF PathInv, TypeOK, Surroundings
<1>1. CASE Lose
  <2>1. Listening'
    BY <1>1 DEF Lose, Listening, Followed
  <2> QED
    BY <1>1, <2>1, StillMoves, QuietStep DEF Lose
<1>2. CASE Connect
  <2>1. Listening'
    BY <1>2 DEF Connect, Listening, Followed, Undecided
  <2> QED
    BY <1>2, <2>1, StillMoves, QuietStep DEF Connect
<1>3. CASE Tick
  <2>1. Listening'
    BY <1>3 DEF Tick, Listening, Followed, Undecided
  <2> QED
    BY <1>3, <2>1, StillMoves, QuietStep DEF Tick
<1>4. CASE Crash
  <2>1. Followed' = {} /\ Undecided' = {}
    BY <1>4 DEF Crash, Killed, Followed, Undecided
  <2>2. Listening'
    BY <1>4, <2>1 DEF Crash, Killed, Listening
  <2>3. up' \in BOOLEAN
    BY <1>4, Zenon DEF Crash, Killed
  <2>4. Surroundings
    BY <1>4, <2>3 DEF Crash, Killed, Faulty
  <2> QED
    BY <1>4, <2>2, <2>4, StillMoves, QuietStep DEF Crash, Killed
<1>5. CASE UNCHANGED vars
  <2>1. Listening'
    BY <1>5 DEF vars, Listening, Followed, Undecided
  <2> QED
    BY <1>5, <2>1, StillMoves, QuietStep DEF vars
<1>6. ASSUME NEW sym \in Symbols, NEW price \in Prices, Unheard(sym, price)
      PROVE  PathInv'
  <2>1. /\ market' = MarketAfter(sym, price)
        /\ UNCHANGED <<now, up, stream, universe, paths, events, faults, unheard>>
    BY <1>6 DEF Unheard
  <2>2. MarketMoves
    BY <2>1, TradeMoves
  <2>3. ASSUME stream' = "live", NEW s \in Undecided', s \notin unheard'
        PROVE  SymbolOf[s] \in universe' /\ market'[s].touch = "NO_TOUCH"
    <3>1. s \in Signals /\ SymbolOf[s] \in universe /\ market[s].touch = "NO_TOUCH" /\ up
      BY <2>1, <2>3 DEF Listening, Undecided, Followed
    <3>2. SymbolOf[s] # sym
      BY <1>6, <2>1, <2>3, <3>1 DEF Unheard, Hears
    <3>3. market'[s] = market[s]
      BY <2>1, <3>1, <3>2 DEF MarketAfter
    <3> QED
      BY <2>1, <3>1, <3>3
  <2>4. Listening'
    BY <2>1, <2>3 DEF Listening, Followed, Undecided
  <2> QED
    BY <2>1, <2>2, <2>4, QuietStep
<1>7. ASSUME NEW next \in SUBSET Symbols, Rollover(next)
      PROVE  PathInv'
  <2>1. /\ up /\ stream' = "closed" /\ universe' = next /\ unheard' = unheard \cup Undecided
        /\ UNCHANGED <<now, up, paths, events, faults, market>>
    BY <1>7 DEF Rollover
  <2>2. Listening' /\ unheard' \subseteq Signals
    BY <2>1 DEF Listening, Followed, Undecided
  <2> QED
    BY <2>1, <2>2, StillMoves, QuietStep
<1> QED
  BY <1>1, <1>2, <1>3, <1>4, <1>5, <1>6, <1>7

LEMMA InitPathInv == Init => PathInv
<1> SUFFICES ASSUME Init
             PROVE  PathInv
  OBVIOUS
<1>1. TypeOK /\ now > 0
  BY DEF Init, TypeOK, Unmoved, Touches
<1>2. Followed = {} /\ Undecided = {} /\ events = {}
  BY DEF Init, Followed, Undecided
<1>3. \A s \in Signals : market[s].touch = "NO_TOUCH"
  BY DEF Init, Unmoved
<1> QED
  BY <1>1, <1>2, <1>3 DEF Init, PathInv, Admitted, SoundPaths, SoundEvents, Agree, OneEnd, Listening

(* Every step keeps it.                                                     *)
LEMMA StepPathInv == PathInv /\ [Next]_vars => PathInv'
<1> SUFFICES ASSUME PathInv, [Next]_vars
             PROVE  PathInv'
  OBVIOUS
<1>1. ASSUME NEW s \in Signals, Start(s) \/ StartFails(s)
      PROVE  PathInv'
  BY <1>1, StartSteps
<1>2. ASSUME NEW sym \in Symbols, NEW price \in Prices,
             \/ Trade(sym, price) \/ TradeRaises(sym, price)
             \/ TradeFails(sym, price) \/ TornTrade(sym, price)
      PROVE  PathInv'
  BY <1>2, TradeStep, TradeRaisesStep, TradeFailsStep, TornTradeStep
<1>3. CASE Disconnect \/ DisconnectFails \/ TornDisconnect
  BY <1>3, DisconnectStep, DisconnectFailsStep, TornDisconnectStep
<1>4. ASSUME NEW next \in SUBSET Symbols, Restart(next)
      PROVE  PathInv'
  BY <1>4, RestartStep
<1> QED
  BY <1>1, <1>2, <1>3, <1>4, OtherSteps DEF Next

(* The paths of any number of signals keep their types.                     *)
THEOREM PathsTyped == Spec => []TypeOK
<1>1. PathInv => TypeOK
  BY DEF PathInv
<1> QED
  BY <1>1, InitPathInv, StepPathInv, PTL DEF Spec

(* A touch or a timeout on record of a path that no unannounced gap crossed  *)
(* is what the market did first, whatever handler failed, was torn or was    *)
(* repeated.                                                                *)
THEOREM HeardVerdicts == Spec => []HeardVerdictsAreTrue
<1>1. PathInv => HeardVerdictsAreTrue
  BY DEF PathInv, SoundEvents, Sound, Verdict, HeardVerdictsAreTrue, Verdicts
<1> QED
  BY <1>1, InitPathInv, StepPathInv, PTL DEF Spec

(* No process reports two ends of a path.                                   *)
THEOREM EndsOnce == Spec => []OneEnd
<1>1. PathInv => OneEnd
  BY DEF PathInv
<1> QED
  BY <1>1, InitPathInv, StepPathInv, PTL DEF Spec
-----------------------------------------------------------------------------
(***************************************************************************)
(* What start-up gives up.  A beginning is on record at the tick of the      *)
(* beginning and no end before it, so a path whose beginning is the latest   *)
(* event can have ended in that tick only, and by the stop, the one end      *)
(* whose event_id sorts before START.  And a path once given up is followed *)
(* by nobody, so no end of it comes later.                                  *)
(***************************************************************************)
RestartInv ==
  /\ \A e \in events :
       /\ e.type = "START" => e.at = market[e.sig].start
       /\ e.type \in EndTypes => e.at >= market[e.sig].start
       /\ e.type = "RESTART" => e.sig \notin Followed
  /\ \A s \in Followed :
       /\ market[s].start <= now
       /\ Ended(paths[s]) => ReportedAt(paths[s]) >= market[s].start
  /\ RestartEndsOpenPaths

(* A path `p' of s did not end before it began.                             *)
EndsInTime(s, p) == Ended(p) => ReportedAt(p) >= market[s].start

(* What every step does to the paths and to the table.                      *)
Dated ==
  /\ now' \in Nat /\ now' >= now
  /\ \A s \in Signals : market[s].start > 0 => market'[s].start = market[s].start
  /\ \A s \in Followed' :
       \/ s \in Followed /\ EndsInTime(s, paths'[s])
       \/ market[s].start = 0 /\ market'[s].start <= now' /\ ~Ended(paths'[s])
  /\ \A e \in events' :
       \/ e \in events
       \/ e.type = "START" /\ e.at = market'[e.sig].start
       \/ e.type \in EndTypes /\ e.sig \in Followed /\ e.at >= market[e.sig].start
       \/ e.type = "RESTART" /\ e.sig \in Orphaned(events) /\ Followed = {} /\ Followed' = {}

(* A path that start-up takes for open ended in its first tick or not yet.   *)
LEMMA OrphansAreOpen ==
  ASSUME PathInv, RestartInv, NEW s \in Orphaned(events),
         NEW f \in events, f.sig = s, f.type \in EndTypes
  PROVE  f.type = "SL_TOUCHED" /\ f.at = market[s].start
<1>1. PICK e \in events : e.sig = s /\ e.type = "START" /\ ~Later(f, e)
  BY DEF Orphaned
<1>2. f \in Events /\ e \in Events /\ e.at = market[s].start /\ f.at >= market[s].start
  BY <1>1 DEF PathInv, TypeOK, RestartInv
<1>3. f.at \in Nat /\ e.at \in Nat /\ f.at = e.at
  BY <1>1, <1>2 DEF Later, Events
<1>4. ~(IdentityRank(f.type) > IdentityRank(e.type)) /\ IdentityRank(e.type) = 3
  BY <1>1, <1>3 DEF Later, IdentityRank
<1>5. f.type \in {"TP_TOUCHED", "SL_TOUCHED", "TIMEOUT", "UNKNOWN"}
  BY DEF EndTypes, EventTypes, PathStatus, Touches
<1>6. /\ IdentityRank("TP_TOUCHED") = 5 /\ IdentityRank("TIMEOUT") = 4 /\ IdentityRank("UNKNOWN") = 6
      /\ 5 > 3 /\ 4 > 3 /\ 6 > 3
  BY DEF IdentityRank
<1>7. f.type = "SL_TOUCHED"
  BY <1>4, <1>5, <1>6
<1> QED
  BY <1>1, <1>2, <1>3, <1>7

(* Such a step keeps what start-up relies on.                               *)
LEMMA DatedKeeps ==
  ASSUME PathInv, RestartInv, Dated
  PROVE  RestartInv'
<1>1. \A e \in events : e.sig \in Signals /\ market[e.sig].start > 0 /\ market'[e.sig].start = market[e.sig].start
  BY DEF PathInv, TypeOK, Events, Admitted, Dated
<1>2. \A s \in Followed : /\ s \in Signals /\ market[s].start > 0 /\ market[s].start \in Nat
                          /\ market'[s].start = market[s].start
  BY DEF PathInv, TypeOK, Admitted, Dated, Followed
<1>3. ASSUME NEW e \in events'
      PROVE  /\ e.type = "START" => e.at = market'[e.sig].start
             /\ e.type \in EndTypes => e.at >= market'[e.sig].start
             /\ e.type = "RESTART" => e.sig \notin Followed'
  <2>1. CASE e \in events
    <3>1. e.type = "RESTART" => e.sig \notin Followed'
      BY <1>1, <2>1 DEF RestartInv, Dated
    <3> QED
      BY <1>1, <2>1, <3>1 DEF RestartInv
  <2>2. CASE e.type = "START" /\ e.at = market'[e.sig].start
    BY <2>2 DEF EndTypes
  <2>3. CASE e.type \in EndTypes /\ e.sig \in Followed /\ e.at >= market[e.sig].start
    BY <1>2, <2>3 DEF EndTypes
  <2>4. CASE e.type = "RESTART" /\ Followed' = {}
    BY <2>4 DEF EndTypes
  <2> QED
    BY <2>1, <2>2, <2>3, <2>4 DEF Dated
<1>4. ASSUME NEW s \in Followed'
      PROVE  /\ market'[s].start <= now'
             /\ Ended(paths'[s]) => ReportedAt(paths'[s]) >= market'[s].start
  <2>1. CASE s \in Followed /\ EndsInTime(s, paths'[s])
    <3>1. market[s].start <= now /\ now \in Nat /\ now' \in Nat /\ now' >= now
      BY <2>1 DEF RestartInv, PathInv, TypeOK, Dated
    <3> QED
      BY <1>2, <2>1, <3>1 DEF EndsInTime
  <2> QED
    BY <2>1 DEF Dated
<1>5. ASSUME NEW e \in events', e.type = "RESTART",
             NEW f \in events', f.sig = e.sig, f.type \in EndTypes
      PROVE  f.type = "SL_TOUCHED" /\ f.at = market'[e.sig].start
  <2>1. CASE e \in events
    <3>1. e.sig \notin Followed
      BY <1>5, <2>1 DEF RestartInv
    <3>2. f \in events
      BY <1>5, <3>1 DEF Dated, EndTypes
    <3>3. f.type \notin {"START", "RESTART"}
      BY <1>5 DEF EndTypes
    <3> QED
      BY <1>1, <1>5, <2>1, <3>2, <3>3 DEF RestartInv, RestartEndsOpenPaths
  <2>2. CASE e \notin events
    <3>1. e.sig \in Orphaned(events) /\ Followed = {}
      BY <1>5, <2>2 DEF Dated, EndTypes
    <3>2. f \in events
      BY <1>5, <3>1 DEF Dated, EndTypes
    <3> QED
      BY <1>1, <1>5, <3>1, <3>2, OrphansAreOpen
  <2> QED
    BY <2>1, <2>2
<1>6. ASSUME NEW f \in events', f.type \notin {"START", "RESTART"}
      PROVE  f.type \in EndTypes
  BY <1>6 DEF Dated, PathInv, TypeOK, Events, EndTypes
<1>7. RestartEndsOpenPaths'
  BY <1>5, <1>6 DEF RestartEndsOpenPaths
<1>8. \A s \in Followed' : Ended(paths'[s]) => ReportedAt(paths[s])' >= market'[s].start
  BY <1>4 DEF ReportedAt
<1> QED
  BY <1>3, <1>4, <1>7, <1>8 DEF RestartInv, Ended, ReportedAt

(* Nothing a tick, a deadline or a cut-off makes of a path ends it before it *)
(* began.                                                                   *)
LEMMA StepEndsInTime ==
  ASSUME PathInv, RestartInv, NEW s \in Followed, NEW price
  PROVE  EndsInTime(s, paths[s]) /\ EndsInTime(s, Stepped(s, price))
<1> PICK p : p = paths[s]
  OBVIOUS
<1>1. /\ p \in Tracker /\ p.start = market[s].start /\ market[s].start \in Nat
      /\ now \in Nat /\ market[s].start <= now /\ Horizon \in Nat /\ p.start \in Nat
  BY TrackerAssumption DEF PathInv, TypeOK, Admitted, RestartInv, Followed, Tracker
<1>2. EndsInTime(s, p)
  BY DEF RestartInv, EndsInTime
<1>3. CASE Ended(p)
  BY <1>2, <1>3 DEF Stepped, TimedOut, Observed
<1>4. CASE ~Ended(p) /\ now >= Deadline(p)
  <2>1. Stepped(s, price) = [p EXCEPT !.last = Deadline(p), !.status = "TIMEOUT", !.at = Deadline(p)]
    BY <1>4 DEF Stepped, TimedOut
  <2>2. ReportedAt(Stepped(s, price)) = Deadline(p)
    BY <1>1, <2>1 DEF ReportedAt, Tracker
  <2> QED
    BY <1>1, <1>2, <2>2 DEF EndsInTime, Deadline
<1>5. CASE ~Ended(p) /\ ~(now >= Deadline(p)) /\ Touch(s, price) = "NO_TOUCH"
  <2>1. Stepped(s, price) = [p EXCEPT !.last = now]
    BY <1>5 DEF Stepped, Observed
  <2>2. ~Ended(Stepped(s, price))
    BY <1>1, <1>5, <2>1 DEF Tracker, Ended
  <2> QED
    BY <1>2, <2>2 DEF EndsInTime
<1>6. CASE ~Ended(p) /\ ~(now >= Deadline(p)) /\ Touch(s, price) # "NO_TOUCH"
  <2>1. PICK touch \in Touches : touch = Touch(s, price)
    BY <1>6, TouchTyped
  <2>2. Stepped(s, price) = [p EXCEPT !.last = now, !.status = touch, !.at = now]
    BY <1>6, <2>1 DEF Stepped, Observed
  <2>3. ReportedAt(Stepped(s, price)) = now
    BY <1>1, <2>2 DEF ReportedAt, Tracker, Touches
  <2> QED
    BY <1>1, <1>2, <2>3 DEF EndsInTime
<1> QED
  BY <1>2, <1>3, <1>4, <1>5, <1>6

LEMMA CutOffEndsInTime ==
  ASSUME PathInv, RestartInv, NEW s \in Followed, NEW p \in Tracker, EndsInTime(s, p)
  PROVE  EndsInTime(s, CutOff(p, now))
<1>1. /\ now \in Nat /\ market[s].start \in Nat /\ market[s].start <= now
  BY DEF PathInv, TypeOK, RestartInv, Followed
<1>2. CASE Ended(p)
  BY <1>2 DEF CutOff
<1>3. CASE ~Ended(p)
  <2>1. CutOff(p, now) = [p EXCEPT !.last = now, !.status = "UNKNOWN"]
    BY <1>3 DEF CutOff
  <2>2. ReportedAt(CutOff(p, now)) = now
    BY <1>1, <2>1 DEF ReportedAt, Tracker
  <2> QED
    BY <1>1, <2>2 DEF EndsInTime
<1> QED
  BY <1>2, <1>3

(* A handler whose results are dated right.                                 *)
LEMMA ReportsDated ==
  ASSUME PathInv, NEW after, NEW done \in SUBSET Followed,
         now' \in Nat, now' >= now,
         \A s \in Signals : market'[s].start = market[s].start,
         \A s \in Followed : Ended(after[s]) => after[s] \in Tracker,
         \A s \in Followed : EndsInTime(s, after[s]),
         events' = Appended(events, Results(after, done)),
         \A s \in Followed' : s \in Followed /\ paths'[s] = after[s]
  PROVE  Dated
<1>1. ASSUME NEW e \in events', e \notin events
      PROVE  e.type \in EndTypes /\ e.sig \in Followed /\ e.at >= market[e.sig].start
  <2>1. PICK s \in done : Ended(after[s]) /\ e = EventOf(s, after[s])
    BY <1>1 DEF Appended, Results
  <2>2. s \in Followed /\ s \in Signals /\ after[s] \in Tracker /\ EndsInTime(s, after[s])
    BY <2>1 DEF Followed
  <2>3. e.sig = s /\ e.type \in EndTypes /\ e.at = ReportedAt(after[s])
    BY <2>1, <2>2, EventTyped DEF EventOf
  <2> QED
    BY <2>1, <2>2, <2>3 DEF EndsInTime
<1> QED
  BY <1>1 DEF Dated

(* A step that reports nothing.                                             *)
LEMMA QuietDated ==
  ASSUME RestartInv, UNCHANGED events, now' \in Nat, now' >= now,
         \A s \in Signals : market'[s].start = market[s].start,
         UNCHANGED paths \/ paths' = [s \in Signals |-> None]
  PROVE  Dated
<1>1. \A s \in Followed' : s \in Followed /\ paths'[s] = paths[s]
  BY DEF Followed
<1>2. \A s \in Followed : EndsInTime(s, paths[s])
  BY DEF RestartInv, EndsInTime
<1> QED
  BY <1>1, <1>2 DEF Dated

(* A trade leaves every beginning where it was.                             *)
LEMMA TradeStarts ==
  ASSUME PathInv, NEW sym, NEW price, market' = MarketAfter(sym, price)
  PROVE  \A s \in Signals : market'[s].start = market[s].start
<1> SUFFICES ASSUME NEW s \in Signals PROVE market'[s].start = market[s].start
  OBVIOUS
<1>1. PICK m \in [start: Nat, touch: Touches \cup {"NO_TOUCH"}, at: Nat] : m = market[s]
  BY DEF PathInv, TypeOK
<1>2. market'[s] = m \/ market'[s] = [m EXCEPT !.touch = Touch(s, price), !.at = now]
  BY <1>1 DEF MarketAfter
<1> QED
  BY <1>1, <1>2

(* The paths after a trade that reached those of `done'.                    *)
LEMMA TradeInTime ==
  ASSUME PathInv, RestartInv, NEW sym, NEW price, Hears(sym), market' = MarketAfter(sym, price),
         now' \in Nat, now' >= now,
         NEW done \in SUBSET On(sym), NEW after, after = AfterTrade(done, price)
  PROVE  /\ \A s \in Followed : after[s] \in Tracker /\ EndsInTime(s, after[s])
         /\ \A s \in Signals : after[s] # None => s \in Followed
<1>1. \A s \in Followed : after[s] \in Tracker
  BY TradeMakes
<1>2. \A s \in Followed : after[s] = paths[s] \/ after[s] = Stepped(s, price)
  BY DEF AfterTrade, Followed
<1>3. \A s \in Followed : EndsInTime(s, after[s])
  BY <1>2, StepEndsInTime
<1> QED
  BY <1>1, <1>3 DEF AfterTrade, Followed, On

(* A heard trade.                                                           *)
LEMMA TradeDated ==
  ASSUME PathInv, RestartInv, NEW sym, NEW price, Trade(sym, price)
  PROVE  Dated
<1> PICK done : done = On(sym)
  OBVIOUS
<1> PICK after : after = AfterTrade(done, price)
  OBVIOUS
<1>1. /\ Hears(sym) /\ market' = MarketAfter(sym, price) /\ now' \in Nat /\ now' >= now
      /\ events' = Appended(events, Results(after, done)) /\ paths' = Unended(after, done)
  BY DEF Trade, PathInv, TypeOK
<1>2. /\ \A s \in Followed : after[s] \in Tracker /\ EndsInTime(s, after[s])
      /\ \A s \in Signals : after[s] # None => s \in Followed
  BY <1>1, TradeInTime
<1>3. \A s \in Followed' : s \in Followed /\ paths'[s] = after[s]
  BY <1>1, <1>2 DEF Followed, Unended
<1>4. \A s \in Signals : market'[s].start = market[s].start
  BY <1>1, TradeStarts
<1>5. done \in SUBSET Followed
  BY DEF On
<1> QED
  BY <1>1, <1>2, <1>3, <1>4, <1>5, ReportsDated

(* A trade in whose handler a deadline raises.                              *)
LEMMA TradeRaisesDated ==
  ASSUME PathInv, RestartInv, NEW sym, NEW price, TradeRaises(sym, price)
  PROVE  Dated
<1>1. /\ Hears(sym) /\ market' = MarketAfter(sym, price) /\ now' \in Nat /\ now' >= now
      /\ now \in Nat /\ paths' = [s \in Signals |-> None]
  BY DEF TradeRaises, PathInv, TypeOK
<1>2. PICK done \in SUBSET {s \in On(sym) : ~Raises(s)} :
        LET seen  == AfterTrade(done, price)
            after == [s \in Signals |-> IF s \in Followed THEN CutOff(seen[s], now) ELSE None]
        IN  events' = Appended(events, Results(after, Followed))
  BY DEF TradeRaises
<1> PICK seen : seen = AfterTrade(done, price)
  OBVIOUS
<1> PICK after : after = [s \in Signals |-> IF s \in Followed THEN CutOff(seen[s], now) ELSE None]
  OBVIOUS
<1> PICK all : all = Followed
  OBVIOUS
<1>3. events' = Appended(events, Results(after, all))
  BY <1>2
<1>4. \A s \in Followed : seen[s] \in Tracker /\ EndsInTime(s, seen[s])
  <2>1. done \in SUBSET On(sym)
    OBVIOUS
  <2> QED
    BY <1>1, <2>1, TradeInTime
<1>5. \A s \in Followed : after[s] \in Tracker /\ EndsInTime(s, after[s])
  <2> SUFFICES ASSUME NEW s \in Followed PROVE after[s] \in Tracker /\ EndsInTime(s, after[s])
    OBVIOUS
  <2>1. PICK p \in Tracker : p = seen[s]
    BY <1>4
  <2>2. PICK t \in Nat : t = now
    BY <1>1
  <2>3. after[s] = CutOff(p, t)
    BY <2>1, <2>2 DEF Followed
  <2>4. CutOff(p, t) \in Tracker
    BY CutOffTyped
  <2> QED
    BY <1>4, <2>1, <2>2, <2>3, <2>4, CutOffEndsInTime
<1>6. Followed' = {}
  BY <1>1 DEF Followed
<1>7. \A s \in Signals : market'[s].start = market[s].start
  BY <1>1, TradeStarts
<1> QED
  BY <1>1, <1>3, <1>5, <1>6, <1>7, ReportsDated

(* A trade one of whose events cannot be written.                           *)
LEMMA TradeFailsDated ==
  ASSUME PathInv, RestartInv, NEW sym, NEW price, TradeFails(sym, price)
  PROVE  Dated
<1>1. /\ Hears(sym) /\ market' = MarketAfter(sym, price) /\ now' \in Nat /\ now' >= now
  BY DEF TradeFails, WriteFails, PathInv, TypeOK
<1>2. PICK failed \in On(sym) : \E done \in SUBSET (On(sym) \ {failed}) :
        /\ paths' = AfterTrade(done \cup {failed}, price)
        /\ events' = Appended(events, Results(AfterTrade(done \cup {failed}, price), done))
  BY DEF TradeFails
<1>3. PICK done \in SUBSET (On(sym) \ {failed}) :
        /\ paths' = AfterTrade(done \cup {failed}, price)
        /\ events' = Appended(events, Results(AfterTrade(done \cup {failed}, price), done))
  BY <1>2
<1> PICK seen \in SUBSET On(sym) : seen = done \cup {failed}
  OBVIOUS
<1> PICK after : after = AfterTrade(seen, price)
  OBVIOUS
<1>4. paths' = after /\ events' = Appended(events, Results(after, done))
  BY <1>3
<1>5. /\ \A s \in Followed : after[s] \in Tracker /\ EndsInTime(s, after[s])
      /\ \A s \in Signals : after[s] # None => s \in Followed
  BY <1>1, TradeInTime
<1>6. \A s \in Followed' : s \in Followed /\ paths'[s] = after[s]
  BY <1>4, <1>5 DEF Followed
<1>7. \A s \in Signals : market'[s].start = market[s].start
  BY <1>1, TradeStarts
<1>8. done \in SUBSET Followed
  BY DEF On
<1> QED
  BY <1>1, <1>4, <1>5, <1>6, <1>7, <1>8, ReportsDated

(* Killed in the middle of a trade.                                         *)
LEMMA TornTradeDated ==
  ASSUME PathInv, RestartInv, NEW sym, NEW price, TornTrade(sym, price)
  PROVE  Dated
<1>1. /\ Hears(sym) /\ market' = MarketAfter(sym, price) /\ now' \in Nat /\ now' >= now
      /\ paths' = [s \in Signals |-> None]
  BY DEF TornTrade, Killed, PathInv, TypeOK
<1>2. PICK done \in SUBSET On(sym) : events' = Appended(events, Results(AfterTrade(done, price), done))
  BY DEF TornTrade
<1> PICK after : after = AfterTrade(done, price)
  OBVIOUS
<1>3. \A s \in Followed : after[s] \in Tracker /\ EndsInTime(s, after[s])
  BY <1>1, TradeInTime
<1>4. Followed' = {} /\ done \in SUBSET Followed
  BY <1>1 DEF Followed, On
<1>5. \A s \in Signals : market'[s].start = market[s].start
  BY <1>1, TradeStarts
<1> QED
  BY <1>1, <1>2, <1>3, <1>4, <1>5, ReportsDated

(* A broken stream, whatever part of the paths its handler reached.         *)
LEMMA CutOffsDated ==
  ASSUME PathInv, RestartInv, UNCHANGED market, now' \in Nat, now' >= now,
         NEW seen \in SUBSET Followed, NEW done \in SUBSET seen,
         events' = Appended(events, Results(CutOffAfter(seen, now), done)),
         \A s \in Followed' : s \in Followed /\ paths'[s] = CutOffAfter(seen, now)[s]
  PROVE  Dated
<1> PICK after : after = CutOffAfter(seen, now)
  OBVIOUS
<1>1. \A s \in Followed : after[s] \in Tracker /\ EndsInTime(s, after[s])
  <2> SUFFICES ASSUME NEW s \in Followed PROVE after[s] \in Tracker /\ EndsInTime(s, after[s])
    OBVIOUS
  <2>1. PICK p \in Tracker : p = paths[s]
    BY DEF PathInv, TypeOK, Followed
  <2>2. EndsInTime(s, p)
    BY <2>1 DEF RestartInv, EndsInTime
  <2>3. after[s] = p \/ after[s] = CutOff(p, now)
    BY <2>1 DEF CutOffAfter, Followed
  <2>4. CutOff(p, now) \in Tracker /\ EndsInTime(s, CutOff(p, now))
    BY <2>2, CutOffTyped, CutOffEndsInTime DEF PathInv, TypeOK
  <2> QED
    BY <2>1, <2>2, <2>3, <2>4
<1>2. \A s \in Followed' : s \in Followed /\ paths'[s] = after[s]
  OBVIOUS
<1> QED
  BY <1>1, <1>2, ReportsDated

(* The handler of a broken stream, done, failed or torn.                    *)
LEMMA DisconnectsDated ==
  ASSUME PathInv, RestartInv, Disconnect \/ DisconnectFails \/ TornDisconnect
  PROVE  Dated
<1>1. UNCHANGED market /\ now' \in Nat /\ now' >= now
  BY DEF Disconnect, DisconnectFails, TornDisconnect, WriteFails, Killed, PathInv, TypeOK
<1>2. CASE Disconnect
  <2>1. Followed' = {}
    BY <1>2 DEF Disconnect, Followed
  <2>2. events' = Appended(events, Results(CutOffAfter(Followed, now), Followed))
    BY <1>2 DEF Disconnect
  <2> QED
    BY <1>1, <2>1, <2>2, CutOffsDated
<1>3. CASE DisconnectFails
  <2>1. PICK failed \in Followed : \E done \in SUBSET (Followed \ {failed}) :
          /\ events' = Appended(events, Results(CutOffAfter(done \cup {failed}, now), done))
          /\ paths' = Unended(CutOffAfter(done \cup {failed}, now), done)
    BY <1>3 DEF DisconnectFails
  <2>2. PICK done \in SUBSET (Followed \ {failed}) :
          /\ events' = Appended(events, Results(CutOffAfter(done \cup {failed}, now), done))
          /\ paths' = Unended(CutOffAfter(done \cup {failed}, now), done)
    BY <2>1
  <2> PICK seen \in SUBSET Followed : seen = done \cup {failed}
    OBVIOUS
  <2>3. /\ events' = Appended(events, Results(CutOffAfter(seen, now), done))
        /\ paths' = Unended(CutOffAfter(seen, now), done)
    BY <2>2
  <2>4. \A s \in Followed' : s \in Followed /\ paths'[s] = CutOffAfter(seen, now)[s]
    BY <2>3 DEF Followed, Unended, CutOffAfter
  <2>5. done \in SUBSET seen
    OBVIOUS
  <2> QED
    BY <1>1, <2>3, <2>4, <2>5, CutOffsDated
<1>4. CASE TornDisconnect
  <2>1. Followed' = {}
    BY <1>4 DEF TornDisconnect, Killed, Followed
  <2>2. PICK done \in SUBSET Followed :
          events' = Appended(events, Results(CutOffAfter(done, now), done))
    BY <1>4 DEF TornDisconnect
  <2> QED
    BY <1>1, <2>1, <2>2, CutOffsDated
<1> QED
  BY <1>2, <1>3, <1>4

(* A beginning is noted at the tick of the beginning.                       *)
LEMMA StartsDated ==
  ASSUME PathInv, RestartInv, NEW s \in Signals, Start(s) \/ StartFails(s)
  PROVE  Dated
<1>1. /\ market[s].start = 0 /\ market' = [market EXCEPT ![s].start = now]
      /\ paths' = [paths EXCEPT ![s] = Begun(now)] /\ now' = now
      /\ events' = events \/ events' = Appended(events, {StartEvent(s)})
  BY DEF Start, StartFails, WriteFails, Begins
<1>2. /\ now \in Nat
      /\ market \in [Signals -> [start: Nat, touch: Touches \cup {"NO_TOUCH"}, at: Nat]]
      /\ paths \in [Signals -> Tracker \cup {None}]
  BY DEF PathInv, TypeOK
<1>3. /\ market'[s].start = now /\ ~Ended(paths'[s])
      /\ \A t \in Signals : t # s => market'[t] = market[t] /\ paths'[t] = paths[t]
  BY <1>1, <1>2 DEF Begun, Ended
<1>4. \A t \in Signals : market[t].start > 0 => market'[t].start = market[t].start
  BY <1>1, <1>3
<1>5. \A e \in events' : e \in events \/ (e.type = "START" /\ e.sig = s /\ e.at = now)
  BY <1>1 DEF Appended, StartEvent
<1>6. ASSUME NEW t \in Followed'
      PROVE  \/ t \in Followed /\ EndsInTime(t, paths'[t])
             \/ market[t].start = 0 /\ market'[t].start <= now' /\ ~Ended(paths'[t])
  <2>1. CASE t = s
    BY <1>1, <1>2, <1>3, <2>1
  <2>2. CASE t # s
    BY <1>3, <2>2 DEF Followed, EndsInTime, RestartInv
  <2> QED
    BY <2>1, <2>2
<1> QED
  BY <1>1, <1>2, <1>3, <1>4, <1>5, <1>6 DEF Dated

LEMMA RestartDated ==
  ASSUME PathInv, RestartInv, NEW next \in SUBSET Symbols, Restart(next)
  PROVE  Dated
<1>1. /\ UNCHANGED <<now, stream, paths, faults, market, unheard>> /\ Followed = {}
      /\ now' \in Nat /\ now' >= now
  BY DEF Restart, PathInv, Listening, TypeOK
<1>2. Followed' = {}
  BY <1>1 DEF Followed
<1>3. \A e \in events' : e \in events \/ (e.type = "RESTART" /\ e.sig \in Orphaned(events))
  BY DEF Restart, Appended
<1> QED
  BY <1>1, <1>2, <1>3 DEF Dated

LEMMA OthersDated ==
  ASSUME PathInv, RestartInv,
         \/ Lose \/ Connect \/ Tick \/ Crash \/ UNCHANGED vars
         \/ \E sym \in Symbols, price \in Prices : Unheard(sym, price)
         \/ \E next \in SUBSET Symbols : Rollover(next)
  PROVE  Dated
<1>1. /\ UNCHANGED events /\ now' \in Nat /\ now' >= now
      /\ UNCHANGED paths \/ paths' = [s \in Signals |-> None]
  BY DEF Lose, Connect, Tick, Crash, Killed, vars, Unheard, Rollover, PathInv, TypeOK
<1>2. \A s \in Signals : market'[s].start = market[s].start
  <2>1. CASE UNCHANGED market
    BY <2>1
  <2>2. ASSUME NEW sym \in Symbols, NEW price \in Prices, Unheard(sym, price)
        PROVE  \A s \in Signals : market'[s].start = market[s].start
    <3>1. market' = MarketAfter(sym, price)
      BY <2>2 DEF Unheard
    <3> QED
      BY <3>1, TradeStarts
  <2> QED
    BY <2>1, <2>2 DEF Lose, Connect, Tick, Crash, vars, Rollover
<1> QED
  BY <1>1, <1>2, QuietDated

(* Every step.                                                              *)
LEMMA StepRestartInv == PathInv /\ RestartInv /\ [Next]_vars => RestartInv'
<1> SUFFICES ASSUME PathInv, RestartInv, [Next]_vars
             PROVE  Dated
  BY DatedKeeps
<1>1. ASSUME NEW s \in Signals, Start(s) \/ StartFails(s)
      PROVE  Dated
  BY <1>1, StartsDated
<1>2. ASSUME NEW sym \in Symbols, NEW price \in Prices,
             \/ Trade(sym, price) \/ TradeRaises(sym, price)
             \/ TradeFails(sym, price) \/ TornTrade(sym, price)
      PROVE  Dated
  BY <1>2, TradeDated, TradeRaisesDated, TradeFailsDated, TornTradeDated
<1>3. CASE Disconnect \/ DisconnectFails \/ TornDisconnect
  BY <1>3, DisconnectsDated
<1>4. ASSUME NEW next \in SUBSET Symbols, Restart(next)
      PROVE  Dated
  BY <1>4, RestartDated
<1> QED
  BY <1>1, <1>2, <1>3, <1>4, OthersDated DEF Next

(* Start-up gives up a path that did end only if it ended at its stop in the  *)
(* very tick it began in.                                                   *)
THEOREM OpenPathsGivenUp == Spec => []RestartEndsOpenPaths
<1>1. Init => RestartInv
  BY DEF Init, RestartInv, RestartEndsOpenPaths, Followed
<1>2. RestartInv => RestartEndsOpenPaths
  BY DEF RestartInv
<1> QED
  BY <1>1, <1>2, InitPathInv, StepPathInv, StepRestartInv, PTL DEF Spec
=============================================================================
