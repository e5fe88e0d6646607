------------------------ MODULE ProfitProtectionProofs ------------------------
(***************************************************************************)
(* What the counterfactual exits of a position promise, for every set of    *)
(* quotes, every configuration of the guard and every limit of the history. *)
(*                                                                         *)
(* The argument is about the guard a message meets.  Whether it is the one  *)
(* at hand or one made after a restart, its peak is the excursion in the    *)
(* positions table, its floor lies no higher than the best quote allows,    *)
(* and a mode it holds for decided has its exit among the rows: a new guard *)
(* reads only rows there are, even where the limit hides some.              *)
(***************************************************************************)
EXTENDS ProfitProtection, TLAPS, FiniteSetTheorems

(* The modes of S have their exits among the rows.                          *)
Exited(S, rows) == \A m \in S : \E r \in rows : r.mode = m /\ r.decision = "SHADOW_EXIT"

(* A guard that agrees with the excursion x, the best quote b and the rows. *)
Sound(g, x, b, rows) ==
  /\ g \in Guard
  /\ g.peak = x /\ x <= b
  /\ g.active => b >= Activation
  /\ g.floor <= FloorAt(b)
  /\ Exited(g.terminal, rows)

ProtectionInv ==
  /\ TypeOK
  /\ mfe <= best
  /\ guard # None => position = "open" /\ Sound(guard, mfe, best, events)
  /\ guard # None /\ quote # None => quote <= guard.peak
  /\ ExitsGiveBack
  /\ EveryModeSettles

LEMMA HigherIs ==
  ASSUME NEW a \in Int, NEW b \in Int
  PROVE  /\ Higher(a, b) \in Int
         /\ Higher(a, b) >= a /\ Higher(a, b) >= b
         /\ Higher(a, b) = a \/ Higher(a, b) = b
BY DEF Higher

(* The floor of a peak is a result, and rises with it.                      *)
LEMMA FloorRises ==
  ASSUME NEW a \in Int, NEW b \in Int, a <= b
  PROVE  FloorAt(a) \in Nat /\ FloorAt(a) <= FloorAt(b) /\ FloorAt(b) \in Nat
BY ProtectionAssumption DEF FloorAt, Higher

(* What a restart reads is recorded.                                        *)
LEMMA LatestAreRows ==
  ASSUME NEW rows, NEW some \in Latest(rows)
  PROVE  some \subseteq rows
BY DEF Latest

LEMMA MoreRows ==
  ASSUME NEW S, NEW rows, NEW more, rows \subseteq more, Exited(S, rows)
  PROVE  Exited(S, more)
BY DEF Exited

(* The guard a message meets is sound.                                      *)
LEMMA MetIsSound ==
  ASSUME ProtectionInv, NEW g \in Met
  PROVE  Sound(g, mfe, best, events)
<1>1. CASE guard # None
  BY <1>1 DEF ProtectionInv, Met
<1>2. CASE guard = None
  <2>1. PICK rows \in Latest(events) : g = Fresh(Decided(rows))
    BY <1>2 DEF Met
  <2>2. rows \subseteq events /\ events \subseteq Row
    BY LatestAreRows DEF ProtectionInv, TypeOK
  <2>3. Exited(Decided(rows), events) /\ Decided(rows) \subseteq Modes
    BY <2>2 DEF Decided, Exited, Row
  <2>4. mfe \in Nat /\ best \in Nat /\ mfe <= best
    BY DEF ProtectionInv, TypeOK
  <2>5. Higher(0, mfe) = mfe
    BY <2>4 DEF Higher
  <2>6. /\ FloorAt(mfe) \in Nat /\ FloorAt(mfe) <= FloorAt(best)
        /\ FloorAt(best) \in Nat
    BY <2>4, FloorRises
  <2>7. g = [peak |-> mfe, active |-> mfe >= Activation,
             floor |-> IF mfe >= Activation THEN FloorAt(mfe) ELSE 0,
             healthy |-> 0, terminal |-> Decided(rows)]
    BY <2>1, <2>5 DEF Fresh
  <2>8. g \in Guard
    BY <2>3, <2>4, <2>6, <2>7, ProtectionAssumption DEF Guard
  <2>9. g.floor <= FloorAt(best) /\ (g.active => best >= Activation)
    <3>1. g.floor = (IF mfe >= Activation THEN FloorAt(mfe) ELSE 0)
      BY <2>7
    <3>2. g.active = (mfe >= Activation)
      BY <2>7
    <3>3. g.floor <= FloorAt(best)
      BY <2>6, <3>1
    <3>4. mfe >= Activation => best >= Activation
      BY <2>4, ProtectionAssumption
    <3> QED
      BY <3>2, <3>3, <3>4, Zenon
  <2> QED
    BY <2>3, <2>4, <2>7, <2>8, <2>9 DEF Sound
<1> QED
  BY <1>1, <1>2

(* A quote keeps a guard sound, and an exit gives back what it should.      *)
LEMMA QuoteIsSound ==
  ASSUME NEW g, NEW x \in Nat, NEW b \in Nat, NEW rows, NEW n \in Nets,
         Sound(g, x, b, rows), clock' \in 1..MaxMessages
  PROVE  /\ Sound(AfterQuote(g, n), Higher(x, n), Higher(b, n), rows \cup QuoteRows(g, n))
         /\ QuoteRows(g, n) \subseteq Row
         /\ \A r \in QuoteRows(g, n) :
              Higher(b, n) >= Activation /\ r.net <= FloorAt(Higher(b, n))
<1> DEFINE R == Raised(g, n)
           y == Higher(x, n)
           c == Higher(b, n)
<1>1. n \in Int /\ x <= b /\ g.peak = x /\ g \in Guard
  BY ProtectionAssumption DEF Sound
<1>2. y \in Nat /\ c \in Nat /\ y <= c /\ n <= c /\ b <= c
  BY <1>1 DEF Higher
<1>3. /\ FloorAt(y) \in Nat /\ FloorAt(y) <= FloorAt(c) /\ FloorAt(c) \in Nat
      /\ FloorAt(b) <= FloorAt(c) /\ FloorAt(b) \in Nat
  BY <1>2, FloorRises
<1> DEFINE a == g.active \/ n >= Activation
<1>4. R = [g EXCEPT !.peak = y, !.active = a,
                    !.floor = IF a THEN Higher(g.floor, FloorAt(y)) ELSE g.floor]
  BY <1>1 DEF Raised
<1>5. g.floor \in Nat /\ Higher(g.floor, FloorAt(y)) \in Nat
      /\ g.active \in BOOLEAN /\ g.terminal \subseteq Modes
  BY <1>1, <1>3 DEF Guard, Higher
<1>6. R \in Guard
  BY <1>1, <1>2, <1>4, <1>5 DEF Guard
<1>7. R.peak = y /\ R.active = a /\ R.terminal = g.terminal
      /\ R.floor = IF a THEN Higher(g.floor, FloorAt(y)) ELSE g.floor
  BY <1>1, <1>4 DEF Guard
<1>8. g.floor <= FloorAt(b)
  BY DEF Sound
<1>9. R.floor <= FloorAt(c) /\ R.floor \in Nat
  BY <1>3, <1>5, <1>7, <1>8 DEF Higher
<1>10. R.active => c >= Activation
  <2>1. g.active => b >= Activation
    BY DEF Sound
  <2>2. b >= Activation \/ n >= Activation => c >= Activation
    BY <1>1, <1>2, ProtectionAssumption
  <2> HIDE DEF R, c
  <2> QED
    BY <1>7, <2>1, <2>2, Zenon
<1>11. ASSUME NEW r \in QuoteRows(g, n)
       PROVE  /\ r = [at |-> clock', mode |-> "price_only", decision |-> "SHADOW_EXIT", net |-> n]
              /\ R.active /\ n <= R.floor
  BY DEF QuoteRows, Breached
<1>12. QuoteRows(g, n) \subseteq Row
  BY <1>11 DEF Row, Modes, Final
<1>13. \A r \in QuoteRows(g, n) : c >= Activation /\ r.net <= FloorAt(c)
  <2> SUFFICES ASSUME NEW r \in QuoteRows(g, n) PROVE c >= Activation /\ r.net <= FloorAt(c)
    OBVIOUS
  <2>1. r.net = n /\ R.active /\ n <= R.floor
    BY <1>11
  <2> QED
    BY <1>1, <1>3, <1>9, <1>10, <2>1
<1>14. Exited(AfterQuote(g, n).terminal, rows \cup QuoteRows(g, n))
  <2>1. Exited(g.terminal, rows)
    BY DEF Sound
  <2>2. CASE ~ Breached(R, n)
    BY <1>7, <2>1, <2>2 DEF AfterQuote, Exited
  <2>3. CASE Breached(R, n)
    <3>1. AfterQuote(g, n).terminal = g.terminal \cup {"price_only"}
      BY <1>6, <1>7, <2>3 DEF AfterQuote, Guard
    <3>2. CASE "price_only" \in g.terminal
      BY <2>1, <3>1, <3>2 DEF Exited
    <3>3. CASE "price_only" \notin g.terminal
      <4>1. [at |-> clock', mode |-> "price_only", decision |-> "SHADOW_EXIT", net |-> n] \in QuoteRows(g, n)
        BY <2>3, <3>3 DEF QuoteRows
      <4> QED
        BY <2>1, <3>1, <4>1 DEF Exited
    <3> QED
      BY <3>2, <3>3
  <2> QED
    BY <2>2, <2>3
<1>15. /\ AfterQuote(g, n) \in Guard
       /\ AfterQuote(g, n).peak = R.peak /\ AfterQuote(g, n).active = R.active
       /\ AfterQuote(g, n).floor = R.floor
  BY <1>6 DEF AfterQuote, Guard, Modes
<1> HIDE DEF R, y, c, a
<1> QED
  BY <1>2, <1>7, <1>9, <1>10, <1>12, <1>13, <1>14, <1>15 DEF Sound, y, c

(* A footprint at a quote the guard has seen keeps it sound as well.        *)
LEMMA FootprintIsSound ==
  ASSUME NEW g, NEW x \in Nat, NEW b \in Nat, NEW rows, NEW n \in Nets, NEW adverse \in BOOLEAN,
         Sound(g, x, b, rows), n <= x, clock' \in 1..MaxMessages
  PROVE  /\ Sound(AfterFootprint(g, n, adverse), x, b, rows \cup QuoteRows(g, n) \cup FootprintRows(g, n, adverse))
         /\ QuoteRows(g, n) \cup FootprintRows(g, n, adverse) \subseteq Row
         /\ \A r \in QuoteRows(g, n) \cup FootprintRows(g, n, adverse) :
              r.decision = "SHADOW_EXIT" => b >= Activation /\ r.net <= FloorAt(b)
<1> DEFINE q == AfterQuote(g, n)
           F == FootprintRows(g, n, adverse)
           ends == {m \in Modes : \E r \in F : r.mode = m /\ r.decision = "SHADOW_EXIT"}
           h == IF g.healthy = Baseline THEN Baseline ELSE g.healthy + 1
           all == rows \cup QuoteRows(g, n) \cup F
<1>1. n \in Int /\ x <= b /\ g \in Guard
  BY ProtectionAssumption DEF Sound
<1>2. Higher(x, n) = x /\ Higher(b, n) = b
  BY <1>1 DEF Higher
<1>3. /\ Sound(q, x, b, rows \cup QuoteRows(g, n))
      /\ QuoteRows(g, n) \subseteq Row
      /\ \A r \in QuoteRows(g, n) : b >= Activation /\ r.net <= FloorAt(b)
  BY <1>2, QuoteIsSound
<1>4. ASSUME NEW r \in F
      PROVE  /\ r = [at |-> clock', mode |-> "price_plus_orderflow", net |-> n,
                     decision |-> IF g.healthy = Baseline /\ adverse THEN "SHADOW_EXIT" ELSE "WAIT_ORDERFLOW"]
             /\ Breached(g, n)
  BY DEF FootprintRows
<1>5. F \subseteq Row
  BY <1>4 DEF Row, Modes, Final
<1>6. \A r \in F : b >= Activation /\ r.net <= FloorAt(b)
  <2> SUFFICES ASSUME NEW r \in F PROVE b >= Activation /\ r.net <= FloorAt(b)
    OBVIOUS
  <2>1. r.net = n /\ g.active /\ n <= g.floor
    BY <1>4 DEF Breached
  <2>2. b >= Activation /\ g.floor <= FloorAt(b)
    BY <2>1 DEF Sound
  <2>3. g.floor \in Int /\ FloorAt(b) \in Int
    BY <1>1, FloorRises DEF Guard
  <2> QED
    BY <1>1, <2>1, <2>2, <2>3
<1>7. h \in 0..Baseline
  BY <1>1, ProtectionAssumption DEF Guard
<1>8. q \in Guard
  BY <1>3 DEF Sound
<1>9. AfterFootprint(g, n, adverse) = [q EXCEPT !.healthy = h, !.terminal = @ \cup ends]
  BY DEF AfterFootprint
<1> HIDE DEF q, F, h
<1>10. /\ AfterFootprint(g, n, adverse) \in Guard
       /\ AfterFootprint(g, n, adverse).peak = q.peak
       /\ AfterFootprint(g, n, adverse).active = q.active
       /\ AfterFootprint(g, n, adverse).floor = q.floor
       /\ AfterFootprint(g, n, adverse).terminal = q.terminal \cup ends
  BY <1>7, <1>8, <1>9 DEF Guard
<1>11. Exited(q.terminal \cup ends, all)
  <2>1. Exited(q.terminal, rows \cup QuoteRows(g, n))
    BY <1>3 DEF Sound
  <2> QED
    BY <2>1 DEF Exited
<1>12. q.peak = x /\ (q.active => b >= Activation) /\ q.floor <= FloorAt(b)
  BY <1>3 DEF Sound
<1>13. Sound(AfterFootprint(g, n, adverse), x, b, all)
  <2> HIDE DEF all, ends
  <2> QED
    BY <1>1, <1>10, <1>11, <1>12 DEF Sound
<1> QED
  BY <1>3, <1>5, <1>6, <1>13 DEF F

(* What is on record stays given back, while the best quote rises and       *)
(* exits that give back are added.                                          *)
GaveBack(rows, b) == \A r \in rows : r.decision = "SHADOW_EXIT" => b >= Activation /\ r.net <= FloorAt(b)

LEMMA StillGaveBack ==
  ASSUME NEW rows \in SUBSET Row, NEW b \in Nat, NEW c \in Nat, b <= c, GaveBack(rows, b)
  PROVE  GaveBack(rows, c)
<1> SUFFICES ASSUME NEW r \in rows, r.decision = "SHADOW_EXIT"
             PROVE  c >= Activation /\ r.net <= FloorAt(c)
  BY DEF GaveBack
<1>1. b >= Activation /\ r.net <= FloorAt(b)
  BY DEF GaveBack
<1>2. FloorAt(b) \in Nat /\ FloorAt(b) <= FloorAt(c) /\ FloorAt(c) \in Nat
  BY FloorRises
<1>3. r.net \in Int
  BY ProtectionAssumption DEF Row
<1> QED
  BY <1>1, <1>2, <1>3, ProtectionAssumption

LEMMA BothGaveBack ==
  ASSUME NEW rows, NEW more, NEW b, GaveBack(rows, b), GaveBack(more, b)
  PROVE  GaveBack(rows \cup more, b)
BY DEF GaveBack

(* The rows of a close give every mode a result.                            *)
LEMMA CloseSettles ==
  ASSUME NEW g, NEW rows, NEW n \in Nets, Exited(g.terminal, rows), clock' \in 1..MaxMessages
  PROVE  /\ BaselineRows(g, n) \subseteq Row
         /\ \A m \in Modes : \E r \in rows \cup BaselineRows(g, n) : r.mode = m /\ r.decision \in Final
         /\ \A r \in BaselineRows(g, n) : r.decision # "SHADOW_EXIT"
<1>1. \A r \in BaselineRows(g, n) : \E m \in Modes \ g.terminal :
        r = [at |-> clock', mode |-> m, decision |-> "BASELINE_EXIT", net |-> n]
  BY DEF BaselineRows
<1>2. BaselineRows(g, n) \subseteq Row /\ \A r \in BaselineRows(g, n) : r.decision # "SHADOW_EXIT"
  BY <1>1 DEF Row, Final
<1>3. ASSUME NEW m \in Modes
      PROVE  \E r \in rows \cup BaselineRows(g, n) : r.mode = m /\ r.decision \in Final
  <2>1. CASE m \in g.terminal
    BY <2>1 DEF Exited, Final
  <2>2. CASE m \notin g.terminal
    <3>1. [at |-> clock', mode |-> m, decision |-> "BASELINE_EXIT", net |-> n] \in BaselineRows(g, n)
      BY <2>2 DEF BaselineRows
    <3> QED
      BY <3>1 DEF Final
  <2> QED
    BY <2>1, <2>2
<1> QED
  BY <1>2, <1>3

-----------------------------------------------------------------------------
LEMMA ProtectionInit == Init => ProtectionInv
<1> SUFFICES ASSUME Init PROVE ProtectionInv
  OBVIOUS
<1>1. TypeOK
  <2>1. 0 \in 0..MaxMessages /\ 0 \in 0..MaxKills /\ 0 \in 0..MaxBreaks
    BY ProtectionAssumption
  <2> QED
    BY <2>1 DEF Init, TypeOK
<1>2. mfe <= best
  BY DEF Init
<1>3. guard = None /\ events = {} /\ position = "open"
  BY DEF Init
<1> QED
  BY <1>1, <1>2, <1>3 DEF ProtectionInv, ExitsGiveBack, EveryModeSettles

(* What a quote finds: the guard it meets, and what that guard records.      *)
LEMMA QuoteFacts ==
  ASSUME ProtectionInv, NEW n \in Nets, NEW g \in Met,
         clock < MaxMessages, clock' = clock + 1
  PROVE  /\ clock' \in 1..MaxMessages
         /\ Sound(AfterQuote(g, n), Higher(mfe, n), Higher(best, n), events \cup QuoteRows(g, n))
         /\ QuoteRows(g, n) \subseteq Row
         /\ GaveBack(events \cup QuoteRows(g, n), Higher(best, n))
         /\ Higher(mfe, n) \in Nat /\ Higher(best, n) \in Nat
         /\ mfe <= Higher(best, n) /\ Higher(mfe, n) <= Higher(best, n)
         /\ n <= Higher(mfe, n)
<1>1. mfe \in Nat /\ best \in Nat /\ mfe <= best /\ clock \in 0..MaxMessages /\ n \in Int
      /\ events \in SUBSET Row
  BY ProtectionAssumption DEF ProtectionInv, TypeOK
<1>2. clock' \in 1..MaxMessages
  BY <1>1, ProtectionAssumption
<1>3. /\ Higher(mfe, n) \in Nat /\ Higher(best, n) \in Nat
      /\ mfe <= Higher(best, n) /\ Higher(mfe, n) <= Higher(best, n)
      /\ n <= Higher(mfe, n) /\ best <= Higher(best, n)
  BY <1>1 DEF Higher
<1>4. Sound(g, mfe, best, events)
  BY MetIsSound
<1>5. /\ Sound(AfterQuote(g, n), Higher(mfe, n), Higher(best, n), events \cup QuoteRows(g, n))
      /\ QuoteRows(g, n) \subseteq Row
      /\ GaveBack(QuoteRows(g, n), Higher(best, n))
  BY <1>1, <1>2, <1>4, QuoteIsSound DEF GaveBack
<1>6. GaveBack(events, best)
  BY DEF ProtectionInv, ExitsGiveBack, GaveBack
<1>7. GaveBack(events, Higher(best, n))
  BY <1>1, <1>3, <1>6, StillGaveBack
<1> QED
  BY <1>2, <1>3, <1>5, <1>7, BothGaveBack

(* The rows of a close, or some of them, are results and no exits.          *)
LEMMA CloseFacts ==
  ASSUME ProtectionInv, NEW n \in Nets, NEW g \in Met, clock < MaxMessages, clock' = clock + 1,
         NEW some \in SUBSET BaselineRows(AfterQuote(g, n), n)
  PROVE  /\ some \subseteq Row
         /\ GaveBack(events \cup QuoteRows(g, n) \cup some, Higher(best, n))
         /\ \A m \in Modes : \E r \in events \cup QuoteRows(g, n) \cup BaselineRows(AfterQuote(g, n), n) :
              r.mode = m /\ r.decision \in Final
<1>1. /\ clock' \in 1..MaxMessages
      /\ Sound(AfterQuote(g, n), Higher(mfe, n), Higher(best, n), events \cup QuoteRows(g, n))
      /\ GaveBack(events \cup QuoteRows(g, n), Higher(best, n))
  BY QuoteFacts
<1>2. Exited(AfterQuote(g, n).terminal, events \cup QuoteRows(g, n))
  BY <1>1 DEF Sound
<1>3. /\ BaselineRows(AfterQuote(g, n), n) \subseteq Row
      /\ \A m \in Modes : \E r \in events \cup QuoteRows(g, n) \cup BaselineRows(AfterQuote(g, n), n) :
           r.mode = m /\ r.decision \in Final
      /\ \A r \in BaselineRows(AfterQuote(g, n), n) : r.decision # "SHADOW_EXIT"
  BY <1>1, <1>2, CloseSettles
<1>4. GaveBack(some, Higher(best, n))
  BY <1>3 DEF GaveBack
<1> QED
  BY <1>1, <1>3, <1>4, BothGaveBack

LEMMA QuoteKeeps ==
  ASSUME ProtectionInv, NEW n \in Nets, Quote(n)
  PROVE  ProtectionInv'
<1>1. clock < MaxMessages /\ clock' = clock + 1 /\ quote' = n /\ best' = Higher(best, n)
      /\ kills' = kills /\ breaks' = breaks /\ listed' = listed /\ cut' = cut /\ position = "open"
  BY DEF Quote
<1>2. PICK g \in Met :
        IF Closes(n)
          THEN /\ position' = "closed" /\ mfe' = mfe
               /\ guard' = None
               /\ events' = events \cup QuoteRows(g, n) \cup BaselineRows(AfterQuote(g, n), n)
          ELSE /\ guard' = AfterQuote(g, n)
               /\ mfe' = Higher(mfe, n)
               /\ events' = events \cup QuoteRows(g, n)
               /\ position' = position
  BY DEF Quote
<1>3. /\ clock' \in 1..MaxMessages
      /\ Sound(AfterQuote(g, n), Higher(mfe, n), Higher(best, n), events \cup QuoteRows(g, n))
      /\ QuoteRows(g, n) \subseteq Row
      /\ GaveBack(events \cup QuoteRows(g, n), Higher(best, n))
      /\ Higher(mfe, n) \in Nat /\ Higher(best, n) \in Nat
      /\ mfe <= Higher(best, n) /\ Higher(mfe, n) <= Higher(best, n)
      /\ n <= Higher(mfe, n)
  BY <1>1, QuoteFacts
<1>4. TypeOK
  BY DEF ProtectionInv
<1>5. CASE Closes(n)
  <2>1. position' = "closed" /\ mfe' = mfe /\ guard' = None
        /\ events' = events \cup QuoteRows(g, n) \cup BaselineRows(AfterQuote(g, n), n)
    BY <1>2, <1>5
  <2>2. /\ BaselineRows(AfterQuote(g, n), n) \subseteq Row
        /\ GaveBack(events', best')
        /\ \A m \in Modes : \E r \in events' : r.mode = m /\ r.decision \in Final
    BY <1>1, <2>1, CloseFacts
  <2>3. TypeOK'
    BY <1>1, <1>3, <1>4, <2>1, <2>2 DEF TypeOK
  <2>4. ExitsGiveBack' /\ EveryModeSettles'
    BY <2>2 DEF GaveBack, ExitsGiveBack, EveryModeSettles
  <2> QED
    BY <1>1, <1>3, <2>1, <2>3, <2>4 DEF ProtectionInv
<1>6. CASE ~ Closes(n)
  <2>1. guard' = AfterQuote(g, n) /\ mfe' = Higher(mfe, n) /\ position' = "open"
        /\ events' = events \cup QuoteRows(g, n)
    BY <1>1, <1>2, <1>6
  <2>2. guard' \in Guard /\ Sound(guard', mfe', best', events') /\ guard'.peak = mfe'
    BY <1>1, <1>3, <2>1 DEF Sound
  <2>3. TypeOK'
    BY <1>1, <1>3, <1>4, <2>1, <2>2 DEF TypeOK
  <2>4. ExitsGiveBack' /\ EveryModeSettles'
    BY <1>1, <1>3, <2>1 DEF GaveBack, ExitsGiveBack, EveryModeSettles
  <2> QED
    BY <1>1, <1>3, <2>1, <2>2, <2>3, <2>4 DEF ProtectionInv
<1> QED
  BY <1>5, <1>6

LEMMA QuoteKilledKeeps ==
  ASSUME ProtectionInv, NEW n \in Nets, QuoteKilled(n)
  PROVE  ProtectionInv'
<1>1. clock < MaxMessages /\ clock' = clock + 1 /\ quote' = None /\ guard' = None
      /\ best' = Higher(best, n) /\ kills < MaxKills /\ kills' = kills + 1
      /\ breaks' = breaks /\ listed' = listed /\ position = "open"
  BY DEF QuoteKilled
<1>2. PICK g \in Met :
       \/ /\ events' = events \cup QuoteRows(g, n)
          /\ position' = position /\ mfe' = mfe /\ cut' = cut
       \/ /\ events' = events \cup QuoteRows(g, n)
          /\ mfe' = Higher(mfe, n)
          /\ position' = position /\ cut' = cut
       \/ /\ position' = "closed" /\ cut' = TRUE
          /\ \E some \in SUBSET BaselineRows(AfterQuote(g, n), n) :
               events' = events \cup QuoteRows(g, n) \cup some
          /\ mfe' = mfe
  BY DEF QuoteKilled
<1>3. /\ clock' \in 1..MaxMessages
      /\ QuoteRows(g, n) \subseteq Row
      /\ GaveBack(events \cup QuoteRows(g, n), Higher(best, n))
      /\ Higher(mfe, n) \in Nat /\ Higher(best, n) \in Nat
      /\ mfe <= Higher(best, n) /\ Higher(mfe, n) <= Higher(best, n)
  BY <1>1, QuoteFacts
<1>4. TypeOK
  BY DEF ProtectionInv
<1>5. kills' \in 0..MaxKills
  BY <1>1, <1>4, ProtectionAssumption DEF TypeOK
<1>6. CASE events' = events \cup QuoteRows(g, n) /\ position' = position /\ cut' = cut
           /\ (mfe' = mfe \/ mfe' = Higher(mfe, n))
  <2>1. TypeOK'
    BY <1>1, <1>3, <1>4, <1>5, <1>6 DEF TypeOK
  <2>2. ExitsGiveBack' /\ EveryModeSettles'
    BY <1>1, <1>3, <1>6 DEF GaveBack, ExitsGiveBack, EveryModeSettles
  <2> QED
    BY <1>1, <1>3, <1>6, <2>1, <2>2 DEF ProtectionInv
<1>7. ASSUME NEW some \in SUBSET BaselineRows(AfterQuote(g, n), n),
             events' = events \cup QuoteRows(g, n) \cup some,
             position' = "closed", cut' = TRUE, mfe' = mfe
      PROVE  ProtectionInv'
  <2>1. some \subseteq Row /\ GaveBack(events', best')
    BY <1>1, <1>7, CloseFacts
  <2>2. TypeOK'
    BY <1>1, <1>3, <1>4, <1>5, <1>7, <2>1 DEF TypeOK
  <2>3. ExitsGiveBack' /\ EveryModeSettles'
    BY <1>7, <2>1 DEF GaveBack, ExitsGiveBack, EveryModeSettles
  <2> QED
    BY <1>1, <1>3, <1>7, <2>2, <2>3 DEF ProtectionInv
<1> QED
  BY <1>2, <1>6, <1>7

LEMMA FootprintKeeps ==
  ASSUME ProtectionInv, NEW adverse \in BOOLEAN, Footprint(adverse)
  PROVE  ProtectionInv'
<1>1. clock < MaxMessages /\ clock' = clock + 1 /\ guard # None /\ quote # None
      /\ guard' = AfterFootprint(guard, quote, adverse)
      /\ events' = events \cup QuoteRows(guard, quote) \cup FootprintRows(guard, quote, adverse)
      /\ UNCHANGED <<kills, breaks, listed, quote, position, mfe, best, cut>>
  BY DEF Footprint
<1>2. TypeOK /\ mfe <= best /\ position = "open" /\ Sound(guard, mfe, best, events)
      /\ quote <= guard.peak
  BY <1>1 DEF ProtectionInv
<1>3. clock' \in 1..MaxMessages /\ quote \in Nets /\ quote <= mfe /\ mfe \in Nat /\ best \in Nat
  BY <1>1, <1>2, ProtectionAssumption DEF TypeOK, Sound
<1>4. /\ Sound(guard', mfe, best, events')
      /\ QuoteRows(guard, quote) \cup FootprintRows(guard, quote, adverse) \subseteq Row
      /\ GaveBack(QuoteRows(guard, quote) \cup FootprintRows(guard, quote, adverse), best)
  BY <1>1, <1>2, <1>3, FootprintIsSound DEF GaveBack
<1>5. guard' \in Guard /\ guard'.peak = mfe
  BY <1>4 DEF Sound
<1>6. TypeOK'
  BY <1>1, <1>2, <1>3, <1>4, <1>5 DEF TypeOK
<1>7. ExitsGiveBack' /\ EveryModeSettles'
  BY <1>1, <1>2, <1>4 DEF ProtectionInv, GaveBack, ExitsGiveBack, EveryModeSettles
<1> QED
  BY <1>1, <1>2, <1>3, <1>4, <1>5, <1>6, <1>7 DEF ProtectionInv

(* A break, a day or a kill takes the quote and perhaps the guard.          *)
LEMMA RestKeeps ==
  ASSUME ProtectionInv, TypeOK', guard' = guard \/ guard' = None, quote' = quote \/ quote' = None,
         UNCHANGED <<position, mfe, events, best, cut>>
  PROVE  ProtectionInv'
BY DEF ProtectionInv, ExitsGiveBack, EveryModeSettles

LEMMA ProtectionNext == ProtectionInv /\ [Next]_vars => ProtectionInv'
<1> SUFFICES ASSUME ProtectionInv, [Next]_vars PROVE ProtectionInv'
  OBVIOUS
<1>1. TypeOK
  BY DEF ProtectionInv
<1>2. ASSUME NEW n \in Nets, Quote(n) \/ QuoteKilled(n) PROVE ProtectionInv'
  BY <1>2, QuoteKeeps, QuoteKilledKeeps
<1>3. ASSUME NEW adverse \in BOOLEAN, Footprint(adverse) PROVE ProtectionInv'
  BY <1>3, FootprintKeeps
<1>4. CASE Disconnect
  <2>1. TypeOK'
    BY <1>1, <1>4, ProtectionAssumption DEF Disconnect, TypeOK
  <2> QED
    BY <1>4, <2>1, RestKeeps DEF Disconnect
<1>5. CASE NewDay
  <2>1. TypeOK'
    BY <1>1, <1>5, ProtectionAssumption DEF NewDay, TypeOK
  <2> QED
    BY <1>5, <2>1, RestKeeps DEF NewDay
<1>6. CASE Kill
  <2>1. TypeOK'
    BY <1>1, <1>6, ProtectionAssumption DEF Kill, TypeOK
  <2> QED
    BY <1>6, <2>1, RestKeeps DEF Kill
<1>7. CASE UNCHANGED vars
  <2>1. TypeOK'
    BY <1>1, <1>7 DEF vars, TypeOK
  <2> QED
    BY <1>7, <2>1, RestKeeps DEF vars
<1> QED
  BY <1>2, <1>3, <1>4, <1>5, <1>6, <1>7 DEF Next

THEOREM ProtectionInvAlways == Spec => []ProtectionInv
<1>1. ProtectionInv /\ [Next]_vars => ProtectionInv'
  BY ProtectionNext
<1> QED
  BY <1>1, ProtectionInit, PTL DEF Spec

(* Every variable of the shadow guard keeps its type: in particular neither *)
(* the peak nor the floor of profit_protection.py becomes negative.         *)
THEOREM ProtectionTyped == Spec => []TypeOK
BY ProtectionInvAlways, PTL DEF ProtectionInv

(* A guard in memory holds the excursion of the positions table, whether it *)
(* lived on or was made by _observe_profit_protection after a restart.      *)
THEOREM GuardIsExcursion == Spec => []GuardMatchesExcursion
<1>1. ProtectionInv => GuardMatchesExcursion
  BY DEF ProtectionInv, Sound, GuardMatchesExcursion
<1> QED
  BY <1>1, ProtectionInvAlways, PTL

(* Every exit on_quote or on_footprint records gives back what it should of *)
(* the best quote the position had.                                         *)
THEOREM GivesBack == Spec => []ExitsGiveBack
BY ProtectionInvAlways, PTL DEF ProtectionInv

(* on_baseline_close leaves no mode without a result, unless the process    *)
(* was killed before its rows were written.                                 *)
THEOREM ModesSettle == Spec => []EveryModeSettles
BY ProtectionInvAlways, PTL DEF ProtectionInv

-----------------------------------------------------------------------------
(* Exits that are not repeated, unless they were forgotten.                 *)
Exits(rows) == {r \in rows : r.decision = "SHADOW_EXIT"}

(* As many other rows follow e as the history returns.                      *)
Forgotten(e, rows) == Cardinality({r \in rows \ {e} : e.at <= r.at}) >= HistoryLimit

(* A guard holds the modes of all exits for decided that are not forgotten. *)
Remembers(S, rows) == \A e \in Exits(rows) : e.mode \notin S => Forgotten(e, rows)

RepeatInv ==
  /\ IsFiniteSet(events)
  /\ \A r \in events : r.at <= clock
  /\ guard # None => Remembers(guard.terminal, events)
  /\ ExitsOnceInHistory

LEMMA MetRemembers ==
  ASSUME ProtectionInv, RepeatInv, NEW g \in Met
  PROVE  Remembers(g.terminal, events)
<1>1. CASE guard # None
  BY <1>1 DEF Met, RepeatInv
<1>2. CASE guard = None
  <2>1. PICK rows \in Latest(events) : g = Fresh(Decided(rows))
    BY <1>2 DEF Met
  <2>2. g.terminal = Decided(rows)
    BY <2>1 DEF Fresh
  <2> SUFFICES ASSUME NEW e \in Exits(events), e.mode \notin Decided(rows)
               PROVE  Forgotten(e, events)
    BY <2>2 DEF Remembers
  <2>3. e \in events /\ e \notin rows
    BY DEF Exits, Decided
  <2>4. /\ rows \in SUBSET events /\ Cardinality(rows) = HistoryLimit
        /\ \A r \in rows : e.at <= r.at
    BY <2>3 DEF Latest
  <2> DEFINE later == {r \in events \ {e} : e.at <= r.at}
  <2>5. later \in SUBSET events /\ rows \in SUBSET later
    BY <2>3, <2>4
  <2>6. IsFiniteSet(later)
    BY <2>5, FS_Subset DEF RepeatInv
  <2>7. Cardinality(rows) <= Cardinality(later) /\ Cardinality(later) \in Nat
    BY <2>5, <2>6, FS_Subset, FS_CardinalityType
  <2> HIDE DEF later
  <2>8. Cardinality(later) >= HistoryLimit
    BY <2>4, <2>7, ProtectionAssumption
  <2> QED
    BY <2>8 DEF Forgotten, later
<1> QED
  BY <1>1, <1>2

(* Rows of a later time that repeat no remembered exit.                     *)
LEMMA RowsAdded ==
  ASSUME NEW S, NEW more, ProtectionInv, RepeatInv, Remembers(S, events),
         clock' = clock + 1, events' = events \cup more, IsFiniteSet(more),
         \A r \in more : r.at = clock', \A r \in Exits(more) : r.mode \notin S
  PROVE  /\ IsFiniteSet(events') /\ \A r \in events' : r.at <= clock'
         /\ ExitsOnceInHistory'
         /\ \A T : S \cup {r.mode : r \in Exits(more)} \subseteq T => Remembers(T, events')
<1>1. clock \in Nat /\ IsFiniteSet(events) /\ \A r \in events : r.at <= clock /\ r.at \in Nat
  BY ProtectionAssumption DEF ProtectionInv, TypeOK, RepeatInv, Row
<1>2. IsFiniteSet(events')
  BY <1>1, FS_Union
<1>3. \A r \in events' : r.at <= clock' /\ r.at \in Nat
  BY <1>1
<1>4. ASSUME NEW e \in Exits(events), e.mode \notin S
      PROVE  /\ Forgotten(e, events')
             /\ Cardinality({r \in events' \ {e} : e.at <= r.at /\ r.at < clock'}) >= HistoryLimit
  <2> DEFINE old  == {r \in events \ {e} : e.at <= r.at}
             new  == {r \in events' \ {e} : e.at <= r.at}
             part == {r \in events' \ {e} : e.at <= r.at /\ r.at < clock'}
  <2>1. old \in SUBSET part /\ part \in SUBSET new /\ new \in SUBSET events'
    BY <1>1
  <2>2. IsFiniteSet(new) /\ IsFiniteSet(part) /\ IsFiniteSet(old)
    BY <1>2, <2>1, FS_Subset
  <2>3. Cardinality(old) <= Cardinality(part) /\ Cardinality(part) <= Cardinality(new)
    BY <2>1, <2>2, FS_Subset
  <2>4. Cardinality(old) \in Nat /\ Cardinality(part) \in Nat /\ Cardinality(new) \in Nat
    BY <2>2, FS_CardinalityType
  <2>5. Cardinality(old) >= HistoryLimit
    BY <1>4 DEF Remembers, Forgotten
  <2> HIDE DEF old, new, part
  <2>6. Cardinality(part) >= HistoryLimit /\ Cardinality(new) >= HistoryLimit
    BY <2>3, <2>4, <2>5, ProtectionAssumption
  <2> QED
    BY <2>6 DEF Forgotten, new, part
<1>5. ExitsOnceInHistory'
  <2> SUFFICES ASSUME NEW e \in Exits(events'), NEW f \in Exits(events'), e.mode = f.mode, e.at < f.at
               PROVE  Cardinality({r \in events' \ {e} : e.at <= r.at /\ r.at < f.at}) >= HistoryLimit
    BY DEF ExitsOnceInHistory, Exits
  <2>1. e \in Exits(events)
    BY <1>1, <1>3 DEF Exits
  <2>2. CASE f \in Exits(events)
    <3> DEFINE old == {r \in events \ {e} : e.at <= r.at /\ r.at < f.at}
               new == {r \in events' \ {e} : e.at <= r.at /\ r.at < f.at}
    <3>1. Cardinality(old) >= HistoryLimit
      BY <2>1, <2>2 DEF RepeatInv, ExitsOnceInHistory, Exits
    <3>2. old \in SUBSET new /\ new \in SUBSET events'
      OBVIOUS
    <3>3. IsFiniteSet(new) /\ IsFiniteSet(old)
      BY <1>2, <3>2, FS_Subset
    <3>4. Cardinality(old) <= Cardinality(new)
      BY <3>2, <3>3, FS_Subset
    <3>5. Cardinality(old) \in Nat /\ Cardinality(new) \in Nat
      BY <3>3, FS_CardinalityType
    <3> HIDE DEF old, new
    <3>6. Cardinality(new) >= HistoryLimit
      BY <3>1, <3>4, <3>5, ProtectionAssumption
    <3> QED
      BY <3>6 DEF new
  <2>3. CASE f \notin Exits(events)
    <3>1. f \in Exits(more)
      BY <2>3 DEF Exits
    <3>2. f.at = clock' /\ e.mode \notin S
      BY <3>1 DEF Exits
    <3> QED
      BY <1>4, <2>1, <3>2
  <2> QED
    BY <2>2, <2>3
<1>6. ASSUME NEW T, S \cup {r.mode : r \in Exits(more)} \subseteq T
      PROVE  Remembers(T, events')
  <2> SUFFICES ASSUME NEW e \in Exits(events'), e.mode \notin T PROVE Forgotten(e, events')
    BY DEF Remembers
  <2>1. e.mode \notin S /\ e \notin Exits(more)
    BY <1>6
  <2>2. e \in Exits(events)
    BY <2>1 DEF Exits
  <2> QED
    BY <1>4, <2>1, <2>2
<1> QED
  BY <1>2, <1>3, <1>5, <1>6

LEMMA FewRows ==
  ASSUME NEW g, NEW n, NEW adverse
  PROVE  /\ IsFiniteSet(QuoteRows(g, n)) /\ IsFiniteSet(BaselineRows(g, n))
         /\ IsFiniteSet(FootprintRows(g, n, adverse))
<1> DEFINE row(m) == [at |-> clock', mode |-> m, decision |-> "BASELINE_EXIT", net |-> n]
           two == {row("price_only")} \cup {row("price_plus_orderflow")}
<1>1. IsFiniteSet(two)
  BY FS_Singleton, FS_Union
<1>2. BaselineRows(g, n) \in SUBSET two
  BY DEF BaselineRows, Modes
<1>3. IsFiniteSet(BaselineRows(g, n))
  <2> HIDE DEF two
  <2> QED
    BY <1>1, <1>2, FS_Subset
<1>4. IsFiniteSet(QuoteRows(g, n))
  BY FS_Singleton, FS_EmptySet DEF QuoteRows
<1>5. IsFiniteSet(FootprintRows(g, n, adverse))
  BY FS_Singleton, FS_EmptySet DEF FootprintRows
<1> QED
  BY <1>3, <1>4, <1>5

(* The exits of a quote are of a mode not decided before, and decide it.    *)
LEMMA QuoteExits ==
  ASSUME NEW g \in Guard, NEW n \in Nets
  PROVE  /\ \A r \in QuoteRows(g, n) : r.at = clock' /\ r.mode \notin g.terminal
         /\ g.terminal \cup {r.mode : r \in Exits(QuoteRows(g, n))} \subseteq AfterQuote(g, n).terminal
<1> DEFINE R == Raised(g, n)
<1>1. \A r \in QuoteRows(g, n) :
        /\ r = [at |-> clock', mode |-> "price_only", decision |-> "SHADOW_EXIT", net |-> n]
        /\ Breached(R, n) /\ "price_only" \notin g.terminal
  BY DEF QuoteRows
<1>2. R.terminal = g.terminal /\ DOMAIN R = DOMAIN g
  BY DEF Raised, Guard
<1>3. AfterQuote(g, n).terminal = IF Breached(R, n) THEN g.terminal \cup {"price_only"} ELSE g.terminal
  <2>1. "terminal" \in DOMAIN R
    BY <1>2 DEF Guard
  <2> QED
    BY <1>2, <2>1 DEF AfterQuote
<1> QED
  BY <1>1, <1>3 DEF Exits

LEMMA FootprintExits ==
  ASSUME NEW g \in Guard, NEW n \in Nets, NEW adverse \in BOOLEAN,
         AfterQuote(g, n) \in Guard
  PROVE  LET more == QuoteRows(g, n) \cup FootprintRows(g, n, adverse)
         IN  /\ \A r \in more : r.at = clock' /\ r.mode \notin g.terminal
             /\ g.terminal \cup {r.mode : r \in Exits(more)} \subseteq AfterFootprint(g, n, adverse).terminal
<1> DEFINE F == FootprintRows(g, n, adverse)
           ends == {m \in Modes : \E r \in F : r.mode = m /\ r.decision = "SHADOW_EXIT"}
<1>1. \A r \in F : r.at = clock' /\ r.mode = "price_plus_orderflow" /\ r.mode \notin g.terminal
  BY DEF FootprintRows
<1>2. AfterFootprint(g, n, adverse).terminal = AfterQuote(g, n).terminal \cup ends
  BY DEF AfterFootprint, Guard
<1>3. {r.mode : r \in Exits(F)} \subseteq ends
  BY <1>1 DEF Exits, Modes
<1> HIDE DEF F, ends
<1> DEFINE Q == QuoteRows(g, n)
<1>4. /\ \A r \in Q : r.at = clock' /\ r.mode \notin g.terminal
      /\ g.terminal \cup {r.mode : r \in Exits(Q)} \subseteq AfterQuote(g, n).terminal
  BY QuoteExits
<1> HIDE DEF Q
<1>6. \A r \in Q \cup F : r.at = clock' /\ r.mode \notin g.terminal
  BY <1>1, <1>4
<1>5. {r.mode : r \in Exits(Q \cup F)} \subseteq {r.mode : r \in Exits(Q)} \cup {r.mode : r \in Exits(F)}
  BY DEF Exits
<1>7. g.terminal \cup {r.mode : r \in Exits(Q \cup F)} \subseteq AfterFootprint(g, n, adverse).terminal
  BY <1>2, <1>3, <1>4, <1>5
<1> QED
  BY <1>6, <1>7 DEF Q, F

LEMMA RepeatNext == ProtectionInv /\ RepeatInv /\ [Next]_vars => RepeatInv'
<1> SUFFICES ASSUME ProtectionInv, RepeatInv, [Next]_vars PROVE RepeatInv'
  OBVIOUS
<1>1. ASSUME NEW n \in Nets, Quote(n) \/ QuoteKilled(n) PROVE RepeatInv'
  <2>1. clock' = clock + 1 /\ clock < MaxMessages
    BY <1>1 DEF Quote, QuoteKilled
  <2>2. PICK g \in Met :
          /\ guard' = None \/ guard' = AfterQuote(g, n)
          /\ \E some \in SUBSET BaselineRows(AfterQuote(g, n), n) :
               /\ events' = events \cup QuoteRows(g, n) \cup some
               /\ guard' # None => some = {}
    <3>1. CASE Quote(n)
      <4>1. PICK g \in Met :
              IF Closes(n)
                THEN /\ guard' = None
                     /\ events' = events \cup QuoteRows(g, n) \cup BaselineRows(AfterQuote(g, n), n)
                ELSE /\ guard' = AfterQuote(g, n)
                     /\ events' = events \cup QuoteRows(g, n)
        BY <3>1 DEF Quote
      <4>2. CASE Closes(n)
        BY <4>1, <4>2
      <4>3. CASE ~ Closes(n)
        <5>1. {} \in SUBSET BaselineRows(AfterQuote(g, n), n)
              /\ events' = events \cup QuoteRows(g, n) \cup {}
          BY <4>1, <4>3
        <5> QED
          BY <4>1, <4>3, <5>1
      <4> QED
        BY <4>2, <4>3
    <3>2. CASE QuoteKilled(n)
      <4>1. guard' = None
        BY <3>2 DEF QuoteKilled
      <4>2. PICK g \in Met :
              \/ events' = events \cup QuoteRows(g, n)
              \/ \E some \in SUBSET BaselineRows(AfterQuote(g, n), n) :
                   events' = events \cup QuoteRows(g, n) \cup some
        BY <3>2 DEF QuoteKilled
      <4>3. CASE events' = events \cup QuoteRows(g, n)
        <5>1. {} \in SUBSET BaselineRows(AfterQuote(g, n), n)
              /\ events' = events \cup QuoteRows(g, n) \cup {}
          BY <4>3
        <5> QED
          BY <4>1, <5>1
      <4> QED
        BY <4>1, <4>2, <4>3
    <3> QED
      BY <1>1, <3>1, <3>2
  <2>3. PICK some \in SUBSET BaselineRows(AfterQuote(g, n), n) :
          events' = events \cup QuoteRows(g, n) \cup some /\ (guard' # None => some = {})
    BY <2>2
  <2> DEFINE more == QuoteRows(g, n) \cup some
  <2>4. g \in Guard /\ Remembers(g.terminal, events)
    BY MetIsSound, MetRemembers DEF Sound
  <2>5. IsFiniteSet(more)
    BY FewRows, FS_Subset, FS_Union
  <2>6. \A r \in some : r.at = clock' /\ r.decision = "BASELINE_EXIT"
    BY DEF BaselineRows
  <2>7. Exits(more) = Exits(QuoteRows(g, n))
    BY <2>6 DEF Exits
  <2>8. /\ \A r \in more : r.at = clock'
        /\ \A r \in Exits(more) : r.mode \notin g.terminal
    BY <2>4, <2>6, <2>7, QuoteExits DEF Exits
  <2>9. events' = events \cup more
    BY <2>3
  <2> HIDE DEF more
  <2>10. /\ IsFiniteSet(events') /\ \A r \in events' : r.at <= clock'
         /\ ExitsOnceInHistory'
         /\ \A T : g.terminal \cup {r.mode : r \in Exits(more)} \subseteq T => Remembers(T, events')
    BY <2>1, <2>4, <2>5, <2>8, <2>9, RowsAdded
  <2>11. guard' # None => Remembers(guard'.terminal, events')
    <3>1. g.terminal \cup {r.mode : r \in Exits(more)} \subseteq AfterQuote(g, n).terminal
      BY <2>4, <2>7, QuoteExits
    <3> QED
      BY <2>2, <2>10, <3>1
  <2> QED
    BY <2>10, <2>11 DEF RepeatInv
<1>2. ASSUME NEW adverse \in BOOLEAN, Footprint(adverse) PROVE RepeatInv'
  <2> DEFINE more == QuoteRows(guard, quote) \cup FootprintRows(guard, quote, adverse)
  <2>1. clock' = clock + 1 /\ clock < MaxMessages /\ guard # None /\ quote # None
        /\ guard' = AfterFootprint(guard, quote, adverse) /\ events' = events \cup more
    BY <1>2 DEF Footprint
  <2>2. /\ Sound(guard, mfe, best, events) /\ quote \in Nets /\ guard \in Guard
        /\ mfe \in Nat /\ best \in Nat /\ clock' \in 1..MaxMessages
    BY <2>1, ProtectionAssumption DEF ProtectionInv, TypeOK, Sound
  <2>3. AfterQuote(guard, quote) \in Guard
    BY <2>2, QuoteIsSound DEF Sound
  <2>4. /\ \A r \in more : r.at = clock' /\ r.mode \notin guard.terminal
        /\ guard.terminal \cup {r.mode : r \in Exits(more)} \subseteq guard'.terminal
    BY <2>1, <2>2, <2>3, FootprintExits
  <2>5. IsFiniteSet(more)
    BY FewRows, FS_Union
  <2>6. Remembers(guard.terminal, events)
    BY <2>1 DEF RepeatInv
  <2> HIDE DEF more
  <2>7. \A r \in Exits(more) : r.mode \notin guard.terminal
    BY <2>4 DEF Exits
  <2> QED
    BY <2>1, <2>4, <2>5, <2>6, <2>7, RowsAdded DEF RepeatInv
<1>3. CASE Disconnect \/ NewDay \/ Kill \/ UNCHANGED vars
  <2>1. clock' = clock /\ events' = events /\ (guard' = guard \/ guard' = None)
    BY <1>3 DEF Disconnect, NewDay, Kill, vars
  <2> QED
    BY <2>1 DEF RepeatInv, ExitsOnceInHistory
<1> QED
  BY <1>1, <1>2, <1>3 DEF Next

(* No mode exits a second time but where profit_shadow_history hid its exit *)
(* behind as many later rows as it returns.                                 *)
THEOREM ExitsOnce == Spec => []ExitsOnceInHistory
<1>1. Init => RepeatInv
  BY FS_EmptySet DEF Init, RepeatInv, ExitsOnceInHistory
<1>2. ProtectionInv /\ RepeatInv /\ [Next]_vars => RepeatInv'
  BY RepeatNext
<1>3. RepeatInv => ExitsOnceInHistory
  BY DEF RepeatInv
<1> QED
  BY <1>1, <1>2, <1>3, ProtectionInvAlways, PTL DEF Spec
=============================================================================
