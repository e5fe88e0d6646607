--------------------------- MODULE LevelStoreProofs ---------------------------
(***************************************************************************)
(* Broken levels stay broken, for every market and every parameter of the   *)
(* detector: breaks on record are never moved, they happened, nothing that  *)
(* may be used holds a pivot they were made of, and what may be used is     *)
(* unbroken.                                                               *)
(*                                                                         *)
(* The argument is about one refresh.  Its second look for breaks finds     *)
(* none, because a level breaks no earlier than its lowest pivot does and   *)
(* broken pivots are set aside before levels are made; so what is kept in   *)
(* memory is what was detected, and what is stored agrees with it on every  *)
(* break.                                                                  *)
(*                                                                         *)
(* Two consequences need more: nothing but breaks and the history limit     *)
(* ends a level, because groups cover the pivots they are made of and       *)
(* windows once seen stay seen; and a restart finds the levels in use       *)
(* unless the table has a stale one, because detecting twice is detecting   *)
(* once.                                                                   *)
(***************************************************************************)
EXTENDS LevelStore, TLAPS, WellFoundedInduction, FiniteSetTheorems

(* Every nonempty set of naturals has its least element.                    *)
LEMMA LeastNatural ==
  ASSUME NEW T \in SUBSET Nat, T # {}
  PROVE  Min(T) \in T /\ \A y \in T : Min(T) <= y
<1> DEFINE Less == {ss \in Nat \X Nat : ss[1] < ss[2]}
<1>1. IsWellFoundedOn(Less, Nat)
  BY NatLessThanWellFounded, Zenon DEF OpToRel
<1>2. PICK x \in T : \A y \in T : ~ (<<y, x>> \in Less)
  <2> HIDE DEF Less
  <2> QED BY <1>1, WFMin
<1>3. ASSUME NEW y \in T PROVE x <= y
  <2>1. x \in Nat /\ y \in Nat
    OBVIOUS
  <2>2. ~ (y < x)
    BY <1>2, <2>1
  <2> QED
    BY <2>1, <2>2
<1> QED
  BY <1>3 DEF Min

(* Bars at hand: a function of bucket times.                                *)
IsBars(b) == DOMAIN b \subseteq Nat \ {0} /\ \A t \in DOMAIN b : b[t] \in Nat

(* The first break is a breaking bar, or 0 if there is none.                *)
LEMMA FirstBreaks ==
  ASSUME NEW i, NEW b, IsBars(b)
  PROVE  /\ FirstBreak(i, b) \in Nat
         /\ FirstBreak(i, b) = 0 <=> BreakingBars(i, b) = {}
         /\ FirstBreak(i, b) # 0 => FirstBreak(i, b) \in BreakingBars(i, b)
<1>1. BreakingBars(i, b) \subseteq Nat \ {0}
  BY DEF IsBars, BreakingBars
<1> DEFINE B == BreakingBars(i, b)
<1>2. CASE B = {}
  BY <1>2 DEF FirstBreak
<1>3. CASE B # {}
  <2>1. B \in SUBSET Nat /\ B # {}
    BY <1>1, <1>3
  <2>2. Min(B) \in B
    BY <2>1, LeastNatural
  <2> QED
    BY <1>1, <1>3, <2>2 DEF FirstBreak
<1> QED
  BY <1>2, <1>3

LEMMA MergedBreaks ==
  ASSUME NEW old \in Nat \cup {None}, NEW new \in Nat
  PROVE  /\ old \in {None, 0} => Merged(old, new) = new
         /\ old = new => Merged(old, new) = old
<1>1. CASE old \in {None, 0}
  BY <1>1 DEF Merged
<1>2. CASE old \notin {None, 0} /\ new = 0
  BY <1>2 DEF Merged
<1>3. CASE old \notin {None, 0} /\ new # 0 /\ old = new
  <2>1. Min({old, new}) = old
    BY <1>3, LeastNatural
  <2> QED
    BY <1>3, <2>1 DEF Merged
<1> QED
  BY <1>1, <1>2, <1>3

LEMMA PivotIds ==
  ASSUME NEW p \in Pivots
  PROVE  /\ PivotId(p) \in Ids
         /\ \A q : PivotId(p) = PivotId(q) => p = q
         /\ PivotId(p).of = {p} /\ PivotId(p).kind = "pivot"
<1>1. PivotId(p) \in Ids
  BY DEF Ids
<1>2. PivotId(p).of = {p} /\ PivotId(p).kind = "pivot"
  BY DEF PivotId
<1>3. ASSUME NEW q, PivotId(p) = PivotId(q)
      PROVE  p = q
  <2>1. PivotId(q).of = {q}
    BY DEF PivotId
  <2> QED
    BY <1>2, <1>3, <2>1
<1> QED
  BY <1>1, <1>2, <1>3

(* Rows and memory that know the same breaks.                               *)
Agree(old, rows) == \A i \in Broken(old) \cup Broken(rows) : old[i] = rows[i]

(* Marking levels that are not known to be broken records their break and   *)
(* touches no other level.                                                  *)
LEMMA Marking ==
  ASSUME NEW rows \in Rows, NEW b, IsBars(b), NEW some \in SUBSET Ids,
         \A i \in some : FirstBreak(i, b) # 0 /\ i \notin Broken(rows)
  PROVE  /\ Marked(rows, some, b) \in Rows
         /\ \A i \in some : /\ Marked(rows, some, b)[i] = FirstBreak(i, b)
                            /\ Marked(rows, some, b)[i] \in BreakingBars(i, b)
         /\ \A i \in Ids \ some : Marked(rows, some, b)[i] = rows[i]
<1>1. ASSUME NEW i \in some
      PROVE  /\ Marked(rows, some, b)[i] = FirstBreak(i, b)
             /\ FirstBreak(i, b) \in Nat
             /\ FirstBreak(i, b) \in BreakingBars(i, b)
  <2>1. /\ FirstBreak(i, b) \in Nat
        /\ FirstBreak(i, b) \in BreakingBars(i, b)
    BY FirstBreaks
  <2>2. rows[i] \in {None, 0}
    BY DEF Broken
  <2>3. Merged(rows[i], FirstBreak(i, b)) = FirstBreak(i, b)
    BY <2>2 DEF Merged
  <2> QED
    BY <2>1, <2>3 DEF Marked
<1>2. \A i \in Ids \ some : Marked(rows, some, b)[i] = rows[i]
  BY DEF Marked
<1>3. ASSUME NEW i \in Ids PROVE Marked(rows, some, b)[i] \in Nat \cup {None}
  BY <1>1, <1>2 DEF Rows
<1>4. Marked(rows, some, b) = [i \in Ids |-> Marked(rows, some, b)[i]]
  BY DEF Marked
<1>5. Marked(rows, some, b) \in Rows
  BY <1>3, <1>4 DEF Rows
<1> QED
  BY <1>1, <1>2, <1>5

(* A level made of pivots that did not break by themselves is unbroken: a    *)
(* run of closes beyond it would be beyond the lowest of them.              *)
LEMMA UnbrokenTogether ==
  ASSUME NEW g \in SUBSET Pivots, g # {}, NEW b, IsBars(b),
         \A p \in g : BreakingBars(PivotId(p), b) = {}
  PROVE  BreakingBars(ClusterId(g), b) = {}
<1> USE LevelAssumption
<1>1. PICK low \in g : \A p \in g : PriceOf[low] <= PriceOf[p]
  <2> DEFINE T == {PriceOf[p] : p \in g}
  <2>1. T \in SUBSET Nat /\ T # {}
    OBVIOUS
  <2>2. Min(T) \in T /\ \A y \in T : Min(T) <= y
    <3> HIDE DEF T
    <3> QED BY <2>1, LeastNatural
  <2>3. PICK low \in g : PriceOf[low] = Min(T)
    BY <2>2
  <2>4. \A p \in g : PriceOf[p] \in T
    OBVIOUS
  <2> HIDE DEF T
  <2> QED
    BY <2>2, <2>3, <2>4
<1>2. \A t : AfterConfirmation(ClusterId(g), t) => AfterConfirmation(PivotId(low), t)
  BY DEF AfterConfirmation, ClusterId, PivotId
<1>3. \A c \in Nat : Beyond(ClusterId(g), c) => Beyond(PivotId(low), c)
  BY <1>1 DEF Beyond, ClusterId, PivotId
<1>4. BreakingBars(ClusterId(g), b) \subseteq BreakingBars(PivotId(low), b)
  <2> SUFFICES ASSUME NEW t \in BreakingBars(ClusterId(g), b)
               PROVE  t \in BreakingBars(PivotId(low), b)
    OBVIOUS
  <2>1. \A u \in (t - ConfirmingCloses + 1)..t :
          /\ u \in DOMAIN b /\ AfterConfirmation(PivotId(low), u)
          /\ Beyond(PivotId(low), b[u])
    BY <1>2, <1>3 DEF BreakingBars, IsBars
  <2> QED
    BY <2>1 DEF BreakingBars
<1> QED
  BY <1>4

(* What a detection says of the levels broken before it and of those it      *)
(* makes.                                                                   *)
LEMMA Detecting ==
  ASSUME NEW rows \in Rows, NEW b, IsBars(b)
  PROVE  /\ Detected(rows, b) \in Rows
         /\ \A i \in Broken(rows) : Detected(rows, b)[i] = rows[i]
         /\ \A i \in Broken(Detected(rows, b)) \ Broken(rows) :
              Detected(rows, b)[i] \in BreakingBars(i, b)
         /\ \A i \in Active(Detected(rows, b)) :
              /\ BreakingBars(i, b) = {}
              /\ \A j \in Broken(Detected(rows, b)) : i.of \cap j.of = {}
<1> DEFINE free  == IF Cardinality(DOMAIN b) < MinBars THEN {} ELSE Candidates(b) \ Consumed(rows)
           lost  == {p \in free : PivotBreak(p, rows, b) # 0}
           made  == {ClusterId(g) : g \in (SUBSET (free \ lost)) \cap Groups[free \ lost]}
           found == Detected(rows, b)
<1>1. free \subseteq Pivots \ Consumed(rows)
  BY DEF Candidates
<1>2. \A i \in Ids : found[i] =
        IF \E p \in lost : i = PivotId(p)
        THEN PivotBreak(CHOOSE p \in lost : i = PivotId(p), rows, b)
        ELSE IF i \in Broken(rows) THEN rows[i]
        ELSE IF i \in made THEN 0 ELSE None
  BY DEF Detected
<1> HIDE DEF free, made, found
<1>3. \A p \in lost : PivotId(p) \in Ids /\ found[PivotId(p)] = PivotBreak(p, rows, b)
  <2> SUFFICES ASSUME NEW p \in lost
               PROVE  PivotId(p) \in Ids /\ found[PivotId(p)] = PivotBreak(p, rows, b)
    OBVIOUS
  <2>1. p \in Pivots
    BY <1>1
  <2>2. PivotId(p) \in Ids /\ \A q : PivotId(p) = PivotId(q) => p = q
    BY <2>1, PivotIds
  <2>3. (CHOOSE q \in lost : PivotId(p) = PivotId(q)) = p
    BY <2>2
  <2> QED
    BY <1>2, <2>2, <2>3
<1>4. \A p \in Pivots :
        /\ PivotBreak(p, rows, b) \in Nat
        /\ PivotId(p) \in Broken(rows) => PivotBreak(p, rows, b) = rows[PivotId(p)] /\ PivotBreak(p, rows, b) # 0
        /\ PivotId(p) \notin Broken(rows) => PivotBreak(p, rows, b) = FirstBreak(PivotId(p), b)
  <2> SUFFICES ASSUME NEW p \in Pivots
               PROVE  /\ PivotBreak(p, rows, b) \in Nat
                      /\ PivotId(p) \in Broken(rows) => PivotBreak(p, rows, b) = rows[PivotId(p)] /\ PivotBreak(p, rows, b) # 0
                      /\ PivotId(p) \notin Broken(rows) => PivotBreak(p, rows, b) = FirstBreak(PivotId(p), b)
    OBVIOUS
  <2>1. FirstBreak(PivotId(p), b) \in Nat
    BY FirstBreaks
  <2> QED
    BY <2>1 DEF PivotBreak, Broken, Rows
<1> HIDE DEF lost
<1>5. ASSUME NEW i \in Broken(rows) PROVE found[i] = rows[i]
  <2>1. CASE \E p \in lost : i = PivotId(p)
    BY <1>1, <1>3, <1>4, <1>5, <2>1 DEF lost
  <2>2. CASE ~ \E p \in lost : i = PivotId(p)
    BY <1>2, <1>5, <2>2 DEF Broken
  <2> QED
    BY <2>1, <2>2
<1>6. ASSUME NEW i \in Broken(found), i \notin Broken(rows)
      PROVE  found[i] \in BreakingBars(i, b) /\ \E p \in lost : i = PivotId(p)
  <2>1. PICK p \in lost : i = PivotId(p)
    BY <1>2, <1>6 DEF Broken
  <2>2. p \in Pivots /\ found[i] = FirstBreak(i, b)
    BY <1>1, <1>3, <1>4, <1>6, <2>1 DEF lost
  <2>3. FirstBreak(i, b) # 0
    BY <1>6, <2>2 DEF Broken
  <2> QED
    BY <2>1, <2>2, <2>3, FirstBreaks
<1>7. ASSUME NEW i \in Active(found)
      PROVE  \E g \in SUBSET (free \ lost) : g # {} /\ i = ClusterId(g)
  <2>1. ~ \E p \in lost : i = PivotId(p)
    BY <1>1, <1>3, <1>4, <1>7 DEF lost, Active
  <2>2. i \in Ids /\ i \in made
    BY LevelAssumption, <1>2, <1>7, <2>1 DEF Active, Broken
  <2>3. PICK g \in SUBSET (free \ lost) : i = ClusterId(g)
    BY <2>2 DEF made
  <2>4. g # {}
    <3>1. i.of = g
      BY <2>3 DEF ClusterId
    <3>2. i.of # {}
      BY <2>2 DEF Ids, PivotId, ClusterId
    <3> QED
      BY <3>1, <3>2
  <2> QED
    BY <2>3, <2>4
<1>8. ASSUME NEW g \in SUBSET (free \ lost), g # {}
      PROVE  BreakingBars(ClusterId(g), b) = {}
  <2>1. ASSUME NEW p \in g PROVE BreakingBars(PivotId(p), b) = {}
    <3>1. p \in Pivots /\ PivotBreak(p, rows, b) = 0
      BY <1>1 DEF lost
    <3>2. FirstBreak(PivotId(p), b) = 0
      BY <1>4, <3>1
    <3> QED
      BY <3>2, FirstBreaks
  <2>2. g \in SUBSET Pivots
    BY <1>1
  <2> QED
    BY <1>8, <2>1, <2>2, UnbrokenTogether
<1>9. ASSUME NEW g \in SUBSET (free \ lost), NEW j \in Broken(found)
      PROVE  g \cap j.of = {}
  <2>1. CASE \E p \in lost : j = PivotId(p)
    BY <2>1 DEF PivotId
  <2>2. CASE ~ \E p \in lost : j = PivotId(p)
    <3>1. j \in Broken(rows) /\ j \in Ids
      BY <1>6, <2>2 DEF Broken
    <3>2. CASE j.kind = "cluster"
      <4>1. j.of \subseteq Consumed(rows)
        BY <3>1, <3>2 DEF Consumed
      <4> QED
        BY <1>1, <4>1
    <3>3. CASE j.kind # "cluster"
      <4>1. PICK p \in Pivots : j = PivotId(p)
        BY <3>1, <3>3 DEF Ids, ClusterId
      <4>2. PivotBreak(p, rows, b) # 0 /\ j.of = {p}
        BY <1>4, <3>1, <4>1, PivotIds
      <4>3. p \in free => p \in lost
        BY <4>2 DEF lost
      <4> QED
        BY <4>2, <4>3
    <3> QED
      BY <3>2, <3>3
  <2> QED
    BY <2>1, <2>2
<1>10. found \in Rows
  <2>1. ASSUME NEW i \in Ids PROVE found[i] \in Nat \cup {None}
    <3>1. CASE \E p \in lost : i = PivotId(p)
      BY <1>1, <1>3, <1>4, <3>1 DEF lost
    <3>2. CASE ~ \E p \in lost : i = PivotId(p)
      BY <1>2, <3>2 DEF Rows
    <3> QED
      BY <3>1, <3>2
  <2>2. found = [i \in Ids |-> found[i]]
    BY DEF found, Detected
  <2> QED
    BY <2>1, <2>2 DEF Rows
<1>11. ASSUME NEW i \in Active(found)
       PROVE  /\ BreakingBars(i, b) = {}
              /\ \A j \in Broken(found) : i.of \cap j.of = {}
  <2>1. PICK g \in SUBSET (free \ lost) : g # {} /\ i = ClusterId(g)
    BY <1>7
  <2>2. i.of = g
    BY <2>1 DEF ClusterId
  <2> QED
    BY <1>8, <1>9, <2>1, <2>2
<1> QED
  BY <1>5, <1>6, <1>10, <1>11 DEF found

(* One refresh.  What was in memory and what is stored know the same breaks  *)
(* before and after it; breaks stay, new ones are in the bars at hand, and   *)
(* what may be used afterwards is unbroken and free of broken pivots.       *)
Kept(rows, new, b) ==
  /\ new \in Rows
  /\ \A i \in Broken(rows) : new[i] = rows[i]
  /\ \A i \in Broken(new) \ Broken(rows) : new[i] \in BreakingBars(i, b)

LEMMA Marks ==
  ASSUME NEW old \in Rows, NEW rows \in Rows, NEW b, IsBars(b), Agree(old, rows),
         NEW some \in SUBSET Breaking(old, b)
  PROVE  Kept(rows, Marked(rows, some, b), b)
<1>1. some \in SUBSET Ids
  BY DEF Breaking, Active
<1>2. \A i \in some : FirstBreak(i, b) # 0 /\ i \notin Broken(rows)
  BY DEF Breaking, Active, Agree, Broken
<1>3. /\ Marked(rows, some, b) \in Rows
      /\ \A i \in some : Marked(rows, some, b)[i] \in BreakingBars(i, b)
      /\ \A i \in Ids \ some : Marked(rows, some, b)[i] = rows[i]
  BY <1>1, <1>2, Marking
<1> QED
  BY <1>2, <1>3 DEF Kept, Broken

LEMMA Refreshing ==
  ASSUME NEW old \in Rows, NEW rows \in Rows, NEW b, IsBars(b), Agree(old, rows)
  PROVE  LET new == Refreshed(old, rows, b)
         IN  /\ Kept(rows, new.table, b)
             /\ new.levels \in Rows
             /\ Agree(new.levels, new.table)
             /\ \A i \in Active(new.levels) :
                  /\ BreakingBars(i, b) = {}
                  /\ \A j \in Broken(new.table) : i.of \cap j.of = {}
             /\ \E before \in Rows :
                  /\ new.levels = Detected(before, b)
                  /\ Breaking(old, b) = {} => before = old
<1> DEFINE some    == Breaking(old, b)
           journal == Marked(rows, some, b)
           memory  == [i \in Ids |-> IF i \in some THEN journal[i] ELSE old[i]]
           found   == Detected(memory, b)
           stored  == Upserted(journal, found)
           kept    == Retained(memory, stored, found)
           late    == Breaking(kept, b)
           final   == Marked(stored, late, b)
<1>1. Refreshed(old, rows, b) =
        [table |-> final, levels |-> [i \in Ids |-> IF i \in late THEN final[i] ELSE kept[i]]]
  BY DEF Refreshed
<1>2. Kept(rows, journal, b)
  BY Marks
<1>3. /\ \A i \in some : journal[i] \notin {None, 0}
      /\ \A i \in Ids \ some : journal[i] = rows[i]
  <2>1. some \in SUBSET Ids
    BY DEF Breaking, Active
  <2>2. \A i \in some : FirstBreak(i, b) # 0 /\ i \notin Broken(rows)
    BY DEF Breaking, Active, Agree, Broken
  <2>3. /\ \A i \in some : journal[i] = FirstBreak(i, b)
        /\ \A i \in Ids \ some : journal[i] = rows[i]
    BY <2>1, <2>2, Marking
  <2>4. \A i \in some : FirstBreak(i, b) \in Nat
    BY FirstBreaks
  <2> QED
    BY LevelAssumption, <2>2, <2>3, <2>4
<1>4. memory \in Rows /\ Agree(memory, journal)
  <2> HIDE DEF some, journal
  <2>1. memory \in Rows
    BY <1>2 DEF Kept, Rows
  <2>2. \A i \in Ids : memory[i] = IF i \in some THEN journal[i] ELSE old[i]
    OBVIOUS
  <2> QED
    BY <1>3, <2>1, <2>2 DEF Agree, Broken
<1> HIDE DEF memory
<1>5. /\ found \in Rows
      /\ \A i \in Broken(memory) : found[i] = memory[i]
      /\ \A i \in Broken(found) \ Broken(memory) : found[i] \in BreakingBars(i, b)
      /\ \A i \in Active(found) :
           /\ BreakingBars(i, b) = {}
           /\ \A j \in Broken(found) : i.of \cap j.of = {}
  BY <1>4, Detecting
<1> HIDE DEF journal, found
<1>6. \A i \in Ids : stored[i] =
        IF i \in Broken(journal) \/ found[i] = None THEN journal[i] ELSE found[i]
  <2> SUFFICES ASSUME NEW i \in Ids
               PROVE  stored[i] = IF i \in Broken(journal) \/ found[i] = None
                                  THEN journal[i] ELSE found[i]
    OBVIOUS
  <2>1. journal[i] \in Nat \cup {None} /\ found[i] \in Nat \cup {None}
    BY <1>2, <1>5 DEF Kept, Rows
  <2>2. i \in Broken(journal) => found[i] = journal[i] /\ found[i] # None
    BY <1>4, <1>5 DEF Agree, Broken
  <2>3. found[i] # None =>
          /\ journal[i] \in {None, 0} => Merged(journal[i], found[i]) = found[i]
          /\ journal[i] = found[i] => Merged(journal[i], found[i]) = journal[i]
    BY <2>1, MergedBreaks
  <2>4. i \in Broken(journal) <=> journal[i] \notin {None, 0}
    BY DEF Broken
  <2> QED
    BY <2>2, <2>3, <2>4 DEF Upserted
<1>7. kept = found
  <2>1. \A i \in Ids : kept[i] = found[i]
    BY <1>4, <1>5, <1>6 DEF Retained, Agree, Broken
  <2>2. kept = [i \in Ids |-> kept[i]]
    BY DEF Retained
  <2>3. found = [i \in Ids |-> found[i]]
    BY <1>5 DEF Rows
  <2> QED
    BY <2>1, <2>2, <2>3
<1>8. late = {}
  BY <1>5, <1>7, FirstBreaks DEF Breaking
<1>9. stored \in Rows
  <2>1. \A i \in Ids : stored[i] \in Nat \cup {None}
    BY <1>2, <1>5, <1>6 DEF Kept, Rows
  <2>2. stored = [i \in Ids |-> stored[i]]
    BY DEF Upserted
  <2> QED
    BY <2>1, <2>2 DEF Rows
<1> HIDE DEF stored, kept, late
<1>10. final = stored
  <2>1. \A i \in Ids : final[i] = stored[i]
    BY <1>8 DEF Marked
  <2>2. final = [i \in Ids |-> final[i]]
    BY DEF Marked
  <2>3. stored = [i \in Ids |-> stored[i]]
    BY <1>9 DEF Rows
  <2> QED
    BY <2>1, <2>2, <2>3
<1>11. /\ Refreshed(old, rows, b).table = stored
       /\ Refreshed(old, rows, b).levels = found
  <2>1. found = [i \in Ids |-> found[i]]
    BY <1>5 DEF Rows
  <2> QED
    BY <1>1, <1>7, <1>8, <1>10, <2>1
<1>12. Broken(found) = Broken(stored) /\ Agree(found, stored)
  BY <1>4, <1>5, <1>6 DEF Agree, Broken
<1>13. Kept(rows, stored, b)
  <2>1. \A i \in Broken(rows) : i \in Broken(journal) /\ stored[i] = rows[i]
    BY <1>2, <1>6 DEF Kept, Broken
  <2>2. ASSUME NEW i \in Broken(stored), i \notin Broken(rows)
        PROVE  stored[i] \in BreakingBars(i, b)
    <3>1. CASE i \in Broken(journal)
      BY <1>2, <1>6, <2>2, <3>1 DEF Kept, Broken
    <3>2. CASE i \notin Broken(journal)
      BY <1>4, <1>5, <1>6, <1>12, <2>2, <3>2 DEF Agree, Broken
    <3> QED
      BY <3>1, <3>2
  <2> QED
    BY <1>9, <2>1, <2>2 DEF Kept
<1>14. \E before \in Rows :
         /\ Refreshed(old, rows, b).levels = Detected(before, b)
         /\ Breaking(old, b) = {} => before = old
  <2>1. Breaking(old, b) = {} => memory = old
    BY DEF memory, Rows
  <2> QED
    BY <1>4, <1>11, <2>1 DEF found
<1> HIDE DEF found
<1> QED
  BY <1>5, <1>11, <1>12, <1>13, <1>14
-----------------------------------------------------------------------------
(* The inductive invariant.  Besides the properties themselves: memory and   *)
(* table know the same breaks while a session runs, and memory is empty      *)
(* otherwise.                                                               *)
LevelInv ==
  /\ TypeOK
  /\ up => Agree(levels, table)
  /\ ~up => levels = NoLevels /\ bars = NoBars
  /\ NoRevival
  /\ ActiveAreUnbroken
  /\ BreaksHappened

(* Bars at hand are bars of the market m.                                   *)
BarsOf(b, m) == DOMAIN b \subseteq DOMAIN m /\ \A t \in DOMAIN b : b[t] = m[t]

LEMMA MarketBars ==
  ASSUME NEW m \in Seq(Closes), NEW b, BarsOf(b, m)
  PROVE  IsBars(b)
<1>1. DOMAIN m \subseteq Nat \ {0} /\ \A t \in DOMAIN m : m[t] \in Closes
  OBVIOUS
<1>2. \A t \in DOMAIN m : m[t] \in Nat
  BY <1>1, LevelAssumption
<1> QED
  BY <1>1, <1>2 DEF BarsOf, IsBars

LEMMA LatestBars ==
  ASSUME NEW m \in Seq(Closes), NEW b, BarsOf(b, m)
  PROVE  BarsOf(Latest(b), m)
BY DEF BarsOf, Latest, Restrict

(* The market goes on and never takes a bar back.                           *)
Continues(m, n) ==
  n \in Seq(Closes) /\ DOMAIN m \subseteq DOMAIN n /\ \A t \in DOMAIN m : n[t] = m[t]

LEMMA MarketContinues ==
  ASSUME closes \in Seq(Closes), NEW close \in Closes, MarketMoves(close)
  PROVE  /\ Continues(closes, closes')
         /\ \A b : BarsOf(b, closes) => BarsOf(b, closes')
         /\ BarsOf(bars, closes) => BarsOf(WithBar(close), closes')
<1>1. closes' = Append(closes, close)
  BY DEF MarketMoves
<1>2. Continues(closes, closes')
  BY <1>1 DEF Continues
<1>3. ASSUME BarsOf(bars, closes) PROVE BarsOf(WithBar(close), closes')
  <2> DEFINE more == [t \in DOMAIN bars \cup {Len(closes) + 1} |->
                        IF t \in DOMAIN bars THEN bars[t] ELSE close]
  <2>1. BarsOf(more, closes')
    BY <1>1, <1>3 DEF BarsOf
  <2>2. WithBar(close) = Latest(more)
    BY DEF WithBar
  <2>3. closes' \in Seq(Closes)
    BY <1>2 DEF Continues
  <2> HIDE DEF more
  <2> QED
    BY <2>1, <2>2, <2>3, LatestBars
<1> QED
  BY <1>2, <1>3 DEF Continues, BarsOf

(* A break on record happened in the market m.                              *)
Happened(rows, m) ==
  \A i \in Broken(rows) : \A u \in (rows[i] - ConfirmingCloses + 1)..rows[i] :
    u \in DOMAIN m /\ AfterConfirmation(i, u) /\ Beyond(i, m[u])

(* It still has when the market went on and new breaks were found in it.     *)
LEMMA StillHappened ==
  ASSUME NEW m, NEW n, Continues(m, n), NEW rows, NEW new, Happened(rows, m),
         NEW b, BarsOf(b, n), Kept(rows, new, b)
  PROVE  Happened(new, n)
<1> SUFFICES ASSUME NEW i \in Broken(new),
                    NEW u \in (new[i] - ConfirmingCloses + 1)..new[i]
             PROVE  u \in DOMAIN n /\ AfterConfirmation(i, u) /\ Beyond(i, n[u])
  BY DEF Happened
<1>1. CASE i \in Broken(rows)
  BY <1>1 DEF Kept, Happened, Continues
<1>2. CASE i \notin Broken(rows)
  <2>1. new[i] \in BreakingBars(i, b)
    BY <1>2 DEF Kept
  <2>2. u \in DOMAIN b /\ AfterConfirmation(i, u) /\ Beyond(i, b[u])
    BY <2>1 DEF BreakingBars
  <2> QED
    BY <2>2 DEF BarsOf
<1> QED
  BY <1>1, <1>2

LEMMA NothingKnown ==
  /\ NoLevels \in Rows
  /\ Active(NoLevels) = {}
  /\ Broken(NoLevels) = {}
  /\ \A m : BarsOf(NoBars, m)
BY LevelAssumption DEF NoLevels, NoBars, Rows, Active, Broken, BarsOf

(* A refresh keeps the invariant and every break on record.                 *)
LEMMA RefreshKeeps ==
  ASSUME LevelInv, NEW old \in Rows, Agree(old, table), NEW b,
         Continues(closes, closes'), BarsOf(b, closes'), Refresh(old, b),
         bars' = b, up' = TRUE, quarantined' \in BOOLEAN
  PROVE  LevelInv' /\ Kept(table, table', b)
<1> DEFINE new == Refreshed(old, table, b)
<1>1. table \in Rows /\ closes \in Seq(Closes) /\ closes' \in Seq(Closes)
  BY DEF LevelInv, TypeOK, Continues
<1>2. IsBars(b)
  BY <1>1, MarketBars
<1>3. table' = new.table /\ levels' = new.levels
  BY DEF Refresh
<1>4. /\ Kept(table, new.table, b)
      /\ new.levels \in Rows
      /\ Agree(new.levels, new.table)
      /\ \A i \in Active(new.levels) :
           /\ BreakingBars(i, b) = {}
           /\ \A j \in Broken(new.table) : i.of \cap j.of = {}
  BY <1>1, <1>2, Refreshing
<1> HIDE DEF new
<1>5. TypeOK'
  <2>1. DOMAIN closes' = 1..Len(closes')
    BY <1>1
  <2> QED
    BY <1>1, <1>3, <1>4, <2>1 DEF TypeOK, Kept, BarsOf
<1>6. NoRevival'
  BY <1>3, <1>4 DEF NoRevival, Active, Broken
<1>7. ActiveAreUnbroken'
  <2>1. \A i \in Active(levels') : BreakingBars(i, b) = {}
    BY <1>3, <1>4
  <2>2. ASSUME NEW i \in Active(levels'), NEW t \in DOMAIN b, AfterConfirmation(i, t)
        PROVE  \E u \in (t - ConfirmingCloses + 1)..t :
                 u \notin DOMAIN b \/ ~AfterConfirmation(i, u) \/ ~Beyond(i, b[u])
    BY <2>1 DEF BreakingBars
  <2> QED
    BY <2>2 DEF ActiveAreUnbroken, Active
<1>8. BreaksHappened'
  <2>1. Happened(table, closes)
    BY DEF LevelInv, BreaksHappened, Happened
  <2>2. Happened(table', closes')
    BY <1>3, <1>4, <2>1, StillHappened
  <2> QED
    BY <2>2 DEF BreaksHappened, Happened, Broken
<1>9. Agree(levels, table)'
  BY <1>3, <1>4 DEF Agree, Broken
<1> QED
  BY <1>3, <1>4, <1>5, <1>6, <1>7, <1>8, <1>9 DEF LevelInv

(* So does one that is stopped halfway and ends the session, or finds none.  *)
LEMMA TornRefreshKeeps ==
  ASSUME LevelInv, NEW old \in Rows, Agree(old, table), NEW b,
         Continues(closes, closes'), BarsOf(b, closes'), TornRefresh(old, b),
         up' = FALSE, quarantined' \in BOOLEAN, bars' = NoBars, levels' = NoLevels
  PROVE  LevelInv' /\ Kept(table, table', b)
<1>1. table \in Rows /\ closes \in Seq(Closes) /\ closes' \in Seq(Closes)
  BY DEF LevelInv, TypeOK, Continues
<1>2. IsBars(b)
  BY <1>1, MarketBars
<1>3. Kept(table, table', b)
  <2>1. CASE \E some \in SUBSET Breaking(old, b) : table' = Marked(table, some, b)
    BY <1>1, <1>2, <2>1, Marks
  <2>2. CASE table' = Refreshed(old, table, b).table
    BY <1>1, <1>2, <2>2, Refreshing
  <2> QED
    BY <2>1, <2>2 DEF TornRefresh
<1>4. TypeOK'
  BY <1>1, <1>3, NothingKnown DEF TypeOK, Kept, NoBars
<1>5. NoRevival' /\ ActiveAreUnbroken'
  BY NothingKnown DEF NoRevival, ActiveAreUnbroken, Active
<1>6. BreaksHappened'
  <2>1. Happened(table, closes)
    BY DEF LevelInv, BreaksHappened, Happened
  <2>2. Happened(table', closes')
    BY <1>3, <2>1, StillHappened
  <2> QED
    BY <2>2 DEF BreaksHappened, Happened, Broken
<1> QED
  BY <1>3, <1>4, <1>5, <1>6 DEF LevelInv

LEMMA LevelInvInit == Init => LevelInv
<1> SUFFICES ASSUME Init PROVE LevelInv
  OBVIOUS
<1>1. TypeOK
  <2>1. closes = <<>> /\ closes \in Seq(Closes)
    BY DEF Init
  <2>2. DOMAIN bars = {}
    BY DEF Init, NoBars
  <2>3. up \in BOOLEAN /\ quarantined \in BOOLEAN /\ levels \in Rows /\ table \in Rows
    BY NothingKnown DEF Init
  <2> QED
    BY <2>1, <2>2, <2>3 DEF TypeOK
<1>2. NoRevival /\ ActiveAreUnbroken /\ BreaksHappened
  BY NothingKnown DEF Init, NoRevival, ActiveAreUnbroken, BreaksHappened
<1> QED
  BY <1>1, <1>2 DEF Init, LevelInv

(* Every step keeps the invariant and the breaks on record.                 *)
LEMMA LevelInvNext ==
  ASSUME LevelInv, [Next]_vars
  PROVE  LevelInv' /\ \A i \in Broken(table) : table'[i] = table[i]
<1>1. /\ closes \in Seq(Closes) /\ levels \in Rows /\ table \in Rows
      /\ BarsOf(bars, closes)
  <2>1. DOMAIN closes = 1..Len(closes)
    BY DEF LevelInv, TypeOK
  <2> QED
    BY <2>1 DEF LevelInv, TypeOK, BarsOf
<1>2. Agree(table, table) /\ Continues(closes, closes) /\ BarsOf(History, closes)
  BY <1>1, LatestBars DEF Agree, Continues, History, BarsOf
<1>3. ASSUME NEW close \in Closes, Bar(close)
      PROVE  LevelInv' /\ \A i \in Broken(table) : table'[i] = table[i]
  <2>1. MarketMoves(close) /\ up /\ bars' = WithBar(close) /\ Refresh(levels, WithBar(close))
    BY <1>3 DEF Bar
  <2>2. Continues(closes, closes') /\ BarsOf(WithBar(close), closes')
    BY <1>1, <2>1, MarketContinues
  <2>3. Agree(levels, table) /\ up' = TRUE /\ quarantined' \in BOOLEAN
    BY <1>3 DEF Bar, LevelInv, TypeOK
  <2>4. LevelInv' /\ Kept(table, table', WithBar(close))
    BY <1>1, <2>1, <2>2, <2>3, RefreshKeeps
  <2> QED
    BY <2>4 DEF Kept
<1>4. ASSUME NEW close \in Closes, TornBar(close)
      PROVE  LevelInv' /\ \A i \in Broken(table) : table'[i] = table[i]
  <2>1. MarketMoves(close) /\ up /\ SessionOver /\ TornRefresh(levels, WithBar(close))
    BY <1>4 DEF TornBar
  <2>2. Continues(closes, closes') /\ BarsOf(WithBar(close), closes')
    BY <1>1, <2>1, MarketContinues
  <2>3. Agree(levels, table)
    BY <2>1 DEF LevelInv
  <2>4. LevelInv' /\ Kept(table, table', WithBar(close))
    BY <1>1, <2>1, <2>2, <2>3, TornRefreshKeeps DEF SessionOver
  <2> QED
    BY <2>4 DEF Kept
<1>5. CASE Bootstrap
  <2>1. LevelInv' /\ Kept(table, table', History)
    BY <1>1, <1>2, <1>5, RefreshKeeps DEF Bootstrap
  <2> QED
    BY <2>1 DEF Kept
<1>6. CASE TornBootstrap
  <2>1. up' = FALSE /\ quarantined' \in BOOLEAN /\ bars' = NoBars /\ levels' = NoLevels
    BY <1>6 DEF TornBootstrap, LevelInv, TypeOK
  <2>2. closes' = closes /\ TornRefresh(table, History)
    BY <1>6 DEF TornBootstrap
  <2>3. LevelInv' /\ Kept(table, table', History)
    BY <1>1, <1>2, <2>1, <2>2, TornRefreshKeeps
  <2> QED
    BY <2>3 DEF Kept
<1>7. ASSUME table' = table, Continues(closes, closes'), quarantined' \in BOOLEAN,
             \/ up' = up /\ bars' = bars /\ levels' = levels
             \/ SessionOver
      PROVE  LevelInv' /\ \A i \in Broken(table) : table'[i] = table[i]
  <2>1. BreaksHappened'
    <3>1. Happened(table, closes)
      BY DEF LevelInv, BreaksHappened, Happened
    <3>2. Kept(table, table, NoBars) /\ BarsOf(NoBars, closes')
      BY <1>1, NothingKnown DEF Kept
    <3>3. Happened(table, closes')
      BY <1>7, <3>1, <3>2, StillHappened
    <3> QED
      BY <1>7, <3>3 DEF BreaksHappened, Happened, Broken
  <2>2. closes' \in Seq(Closes) /\ DOMAIN closes \subseteq DOMAIN closes' /\ \A t \in DOMAIN closes : closes'[t] = closes[t]
    BY <1>7 DEF Continues
  <2>3. DOMAIN closes = 1..Len(closes) /\ DOMAIN closes' = 1..Len(closes')
    BY <1>1, <2>2
  <2>4. CASE up' = up /\ bars' = bars /\ levels' = levels
    <3>1. TypeOK'
      BY <1>1, <1>7, <2>2, <2>3, <2>4 DEF LevelInv, TypeOK, BarsOf
    <3>2. NoRevival' /\ ActiveAreUnbroken'
      BY <1>7, <2>4 DEF LevelInv, NoRevival, ActiveAreUnbroken, Active, Broken
    <3> QED
      BY <1>7, <2>1, <2>4, <3>1, <3>2 DEF LevelInv, Agree, Broken
  <2>5. CASE SessionOver
    <3>1. TypeOK'
      BY <1>1, <1>7, <2>2, <2>5, NothingKnown DEF TypeOK, SessionOver, NoBars
    <3>2. NoRevival' /\ ActiveAreUnbroken'
      BY <2>5, NothingKnown DEF SessionOver, NoRevival, ActiveAreUnbroken, Active
    <3> QED
      BY <1>7, <2>1, <2>5, <3>1, <3>2 DEF LevelInv, SessionOver
  <2> QED
    BY <1>7, <2>4, <2>5
<1>8. ASSUME NEW close \in Closes, MissedBar(close) \/ BarWhileDown(close)
      PROVE  LevelInv' /\ \A i \in Broken(table) : table'[i] = table[i]
  <2>1. MarketMoves(close)
    BY <1>8 DEF MissedBar, BarWhileDown
  <2>2. Continues(closes, closes')
    BY <1>1, <2>1, MarketContinues
  <2>3. quarantined' \in BOOLEAN
    BY <1>8 DEF MissedBar, BarWhileDown, LevelInv, TypeOK
  <2>4. table' = table /\ up' = up /\ bars' = bars /\ levels' = levels
    BY <1>8 DEF MissedBar, BarWhileDown
  <2> QED
    BY <1>7, <2>2, <2>3, <2>4
<1>9. CASE Stop
  BY <1>2, <1>7, <1>9 DEF Stop, SessionOver
<1>10. CASE UNCHANGED vars
  BY <1>2, <1>7, <1>10 DEF vars, LevelInv, TypeOK
<1> QED
  BY <1>3, <1>4, <1>5, <1>6, <1>8, <1>9, <1>10 DEF Next

THEOREM LevelInvAlways == Spec => []LevelInv
<1>1. LevelInv /\ [Next]_vars => LevelInv'
  BY LevelInvNext
<1> QED
  BY <1>1, LevelInvInit, PTL DEF Spec

(* Every variable of the level store keeps its type, and the bars at hand    *)
(* are bars of the market (app.py's state.bars).                            *)
THEOREM LevelsTyped == Spec => []TypeOK
BY LevelInvAlways, PTL DEF LevelInv

(* No level in use holds a pivot of a level that is on record as broken: the *)
(* detector's tombstones work through recalculation, kills and restarts.    *)
THEOREM BrokenStayOut == Spec => []NoRevival
BY LevelInvAlways, PTL DEF LevelInv

(* What the strategy may use was not broken by any bar at hand.             *)
THEOREM ActiveUnbroken == Spec => []ActiveAreUnbroken
BY LevelInvAlways, PTL DEF LevelInv

(* Every break on record is one the market made.                            *)
THEOREM BreaksAreReal == Spec => []BreaksHappened
BY LevelInvAlways, PTL DEF LevelInv

(* A break on record is absorbing: _merge_level never moves or clears one.   *)
THEOREM BreaksAbsorb == Spec => BreaksStand
<1>1. LevelInv /\ [Next]_vars => [\A i \in Broken(table) : table'[i] = table[i]]_table
  BY LevelInvNext
<1> QED
  BY <1>1, LevelInvAlways, PTL DEF Spec, BreaksStand
-----------------------------------------------------------------------------
(* What _merge_candidates makes of a set of pivots: groups of it that leave   *)
(* none of them out.  Groups is a recursive function, so it is first shown   *)
(* that its equation has a solution.                                        *)
Lowest(S)  == CHOOSE p \in S : \A q \in S : PriceOf[p] <= PriceOf[q]
Near(S)    == {q \in S : PriceOf[q] <= PriceOf[Lowest(S)] + Tolerance}

LEMMA LowestIn ==
  ASSUME NEW S \in SUBSET Pivots, S # {}
  PROVE  Lowest(S) \in S /\ Lowest(S) \in Near(S)
<1> USE LevelAssumption
<1> DEFINE T == {PriceOf[p] : p \in S}
<1>1. T \in SUBSET Nat /\ T # {}
  OBVIOUS
<1>2. \A p \in S : PriceOf[p] \in T
  OBVIOUS
<1>3. PICK low \in S : PriceOf[low] = Min(T)
  <2>1. Min(T) \in T
    <3> HIDE DEF T
    <3> QED BY <1>1, LeastNatural
  <2> QED
    BY <2>1
<1>4. \A y \in T : Min(T) <= y
  <2> HIDE DEF T
  <2> QED BY <1>1, LeastNatural
<1> HIDE DEF T
<1>5. \A q \in S : PriceOf[low] <= PriceOf[q]
  BY <1>2, <1>3, <1>4
<1>6. Lowest(S) \in S
  BY <1>5 DEF Lowest
<1>7. PriceOf[Lowest(S)] \in Nat
  BY <1>6
<1> QED
  BY <1>6, <1>7 DEF Near

(* The rest of a set of pivots is smaller than the set.                     *)
LEMMA RestIsSmaller ==
  ASSUME NEW S \in SUBSET Pivots, S # {}
  PROVE  /\ S \ Near(S) \in SUBSET Pivots
         /\ Cardinality(S) \in Nat /\ Cardinality(S \ Near(S)) \in Nat
         /\ Cardinality(S \ Near(S)) < Cardinality(S)
<1>1. IsFiniteSet(S)
  BY LevelAssumption, FS_Subset
<1> PICK low \in S : low = Lowest(S)
  BY LowestIn
<1>2. S \ Near(S) \subseteq S \ {low}
  BY LowestIn
<1>3. IsFiniteSet(S \ {low}) /\ Cardinality(S \ {low}) = Cardinality(S) - 1
  BY <1>1, FS_RemoveElement
<1>4. IsFiniteSet(S \ Near(S)) /\ Cardinality(S \ Near(S)) <= Cardinality(S \ {low})
  BY <1>2, <1>3, FS_Subset
<1>5. Cardinality(S) \in Nat /\ Cardinality(S \ Near(S)) \in Nat /\ Cardinality(S \ {low}) \in Nat
  BY <1>1, <1>3, <1>4, FS_CardinalityType
<1> QED
  BY <1>3, <1>4, <1>5

(* One step of the merging.                                                 *)
Merging(h, S) == IF S = {} THEN {} ELSE {Near(S)} \cup h[S \ Near(S)]

MergesUpTo(h, n) ==
  \A S \in SUBSET Pivots : Cardinality(S) <= n => h[S] = Merging(h, S)

LEMMA PartialMerges ==
  ASSUME NEW n \in Nat
  PROVE  \E h : MergesUpTo(h, n)
<1> DEFINE Bad == {k \in Nat : \A h : ~MergesUpTo(h, k)}
<1> SUFFICES ASSUME Bad # {}
             PROVE  FALSE
  OBVIOUS
<1>1. PICK k \in Bad : \A m \in Bad : k <= m
  <2>1. Bad \in SUBSET Nat
    OBVIOUS
  <2> HIDE DEF Bad
  <2> QED
    BY <2>1, LeastNatural
<1>2. k # 0
  <2> DEFINE empty == [S \in SUBSET Pivots |-> {}]
  <2>1. ASSUME NEW S \in SUBSET Pivots, Cardinality(S) <= 0
        PROVE  S = {}
    <3>1. S # {} => /\ Cardinality(S) \in Nat /\ Cardinality(S \ Near(S)) \in Nat
                    /\ Cardinality(S \ Near(S)) < Cardinality(S)
      BY RestIsSmaller
    <3> QED
      BY <2>1, <3>1
  <2>2. MergesUpTo(empty, 0)
    BY <2>1 DEF MergesUpTo, Merging
  <2> QED
    BY <1>1, <2>2
<1>3. PICK g : MergesUpTo(g, k - 1)
  <2>1. k - 1 \in Nat /\ k - 1 \notin Bad
    BY <1>1, <1>2
  <2> QED
    BY <2>1
<1> DEFINE h == [S \in SUBSET Pivots |-> Merging(g, S)]
<1>4. ASSUME NEW S \in SUBSET Pivots, Cardinality(S) <= k
      PROVE  h[S] = Merging(h, S)
  <2>1. CASE S = {}
    BY <2>1 DEF Merging
  <2>2. CASE S # {}
    <3> PICK R \in SUBSET Pivots : R = S \ Near(S)
      OBVIOUS
    <3>1. Cardinality(R) <= k - 1
      BY <1>1, <1>4, <2>2, RestIsSmaller
    <3>2. g[R] = Merging(g, R)
      BY <1>3, <3>1 DEF MergesUpTo
    <3>3. h[R] = g[R]
      BY <3>2
    <3> QED
      BY <2>2, <3>3 DEF Merging
  <2> QED
    BY <2>1, <2>2
<1> HIDE DEF h
<1>5. MergesUpTo(h, k)
  BY <1>4 DEF MergesUpTo
<1> QED
  BY <1>1, <1>5

LEMMA GroupsMerge ==
  ASSUME NEW S \in SUBSET Pivots
  PROVE  Groups[S] = Merging(Groups, S)
<1>1. PICK g : MergesUpTo(g, Cardinality(Pivots))
  BY LevelAssumption, FS_CardinalityType, PartialMerges
<1> DEFINE h == [R \in SUBSET Pivots |-> g[R]]
<1>2. ASSUME NEW R \in SUBSET Pivots
      PROVE  h[R] = Merging(h, R)
  <2>1. Cardinality(R) <= Cardinality(Pivots)
    BY LevelAssumption, FS_Subset
  <2>2. g[R] = Merging(g, R)
    BY <1>1, <2>1 DEF MergesUpTo
  <2> QED
    BY <2>2 DEF Merging
<1>3. h = [R \in SUBSET Pivots |-> Merging(h, R)]
  <2>1. h = [R \in SUBSET Pivots |-> h[R]]
    OBVIOUS
  <2> HIDE DEF h
  <2> QED
    BY <1>2, <2>1
<1> HIDE DEF h
<1>4. Groups = [R \in SUBSET Pivots |-> Merging(Groups, R)]
  BY <1>3 DEF Groups, Merging, Near, Lowest
<1> QED
  BY <1>4

(* Every pivot of a set is in one of its groups.                            *)
LEMMA GroupsCover ==
  ASSUME NEW S \in SUBSET Pivots, NEW p \in S
  PROVE  \E g \in Groups[S] : p \in g /\ g \subseteq S
<1> DEFINE Covered(R) == \A q \in R : \E g \in Groups[R] : q \in g /\ g \subseteq R
           Bad        == {R \in SUBSET Pivots : ~Covered(R)}
           sizes      == {Cardinality(R) : R \in Bad}
<1> SUFFICES ASSUME Bad # {}
             PROVE  FALSE
  OBVIOUS
<1>1. \A R \in SUBSET Pivots : Cardinality(R) \in Nat
  BY LevelAssumption, FS_Subset, FS_CardinalityType
<1>2. sizes \in SUBSET Nat /\ sizes # {}
  BY <1>1
<1>3. Min(sizes) \in sizes /\ \A n \in sizes : Min(sizes) <= n
  <2> HIDE DEF sizes
  <2> QED
    BY <1>2, LeastNatural
<1>4. PICK R \in Bad : Cardinality(R) = Min(sizes)
  BY <1>3
<1>5. \A Q \in Bad : Cardinality(R) <= Cardinality(Q)
  BY <1>3, <1>4
<1>6. R # {}
  OBVIOUS
<1>7. PICK Q \in SUBSET Pivots : Q = R \ Near(R)
  OBVIOUS
<1>8. Covered(Q)
  <2>1. Cardinality(Q) < Cardinality(R) /\ Cardinality(Q) \in Nat /\ Cardinality(R) \in Nat
    BY <1>6, <1>7, RestIsSmaller
  <2>2. Q \notin Bad
    BY <1>5, <2>1
  <2> QED
    BY <2>2
<1>9. Groups[R] = {Near(R)} \cup Groups[Q]
  BY <1>6, <1>7, GroupsMerge DEF Merging
<1>10. Near(R) \subseteq R
  BY DEF Near
<1>11. Covered(R)
  BY <1>7, <1>8, <1>9, <1>10
<1> QED
  BY <1>11

(* The bars that are kept: at most HistoryLimit, and one fewer than there    *)
(* were at most when there was one too many.                                *)
LEMMA LatestSize ==
  ASSUME NEW b, IsBars(b), IsFiniteSet(DOMAIN b)
  PROVE  /\ IsFiniteSet(DOMAIN Latest(b))
         /\ Cardinality(DOMAIN Latest(b)) <= HistoryLimit
         /\ Cardinality(DOMAIN b) <= HistoryLimit + 1 =>
              Cardinality(DOMAIN Latest(b)) >= Cardinality(DOMAIN b) - 1
<1> DEFINE D     == DOMAIN b
           at(t) == {u \in D : u >= t}
           K     == {t \in D : Cardinality(at(t)) <= HistoryLimit}
<1>1. DOMAIN Latest(b) = K
  BY DEF Latest, Restrict
<1>2. D \subseteq Nat /\ IsFiniteSet(D)
  BY DEF IsBars
<1>3. HistoryLimit \in Nat \ {0}
  BY LevelAssumption
<1> HIDE DEF D
<1>4. \A t : at(t) \subseteq D
  OBVIOUS
<1>5. \A t : IsFiniteSet(at(t)) /\ Cardinality(at(t)) \in Nat
  <2> HIDE DEF at
  <2> QED
    BY <1>2, <1>4, FS_Subset, FS_CardinalityType
<1>6. K \subseteq D
  OBVIOUS
<1>7. IsFiniteSet(K) /\ Cardinality(K) \in Nat /\ Cardinality(D) \in Nat
  <2> HIDE DEF K
  <2> QED
    BY <1>2, <1>6, FS_Subset, FS_CardinalityType
<1>8. Cardinality(K) <= HistoryLimit
  <2>1. CASE K = {}
    <3> HIDE DEF K
    <3> QED
      BY <1>3, <2>1, FS_EmptySet
  <2>2. CASE K # {}
    <3>1. K \in SUBSET Nat
      BY <1>2, <1>6
    <3> PICK m \in K : \A t \in K : m <= t
      <4> HIDE DEF K
      <4> QED BY <2>2, <3>1, LeastNatural
    <3>2. K \subseteq at(m)
      BY <1>2
    <3>3. Cardinality(at(m)) <= HistoryLimit
      OBVIOUS
    <3>4. Cardinality(K) <= Cardinality(at(m))
      <4> HIDE DEF K, at
      <4> QED BY <1>5, <3>2, FS_Subset
    <3> HIDE DEF K, at
    <3> QED
      BY <1>3, <1>5, <1>7, <3>3, <3>4
  <2> QED
    BY <2>1, <2>2
<1>9. ASSUME Cardinality(D) <= HistoryLimit + 1
      PROVE  Cardinality(K) >= Cardinality(D) - 1
  <2>1. ASSUME NEW t \in D \ K, NEW u \in D \ K, t < u
        PROVE  FALSE
    <3>1. Cardinality(at(u)) > HistoryLimit
      BY <1>3, <1>5, <2>1
    <3>2. at(u) \cup {t} \subseteq D /\ t \notin at(u)
      BY <1>2, <2>1
    <3> PICK later : later = at(u)
      OBVIOUS
    <3>3. IsFiniteSet(later) /\ Cardinality(later) \in Nat
      BY <1>5
    <3>4. IsFiniteSet(later \cup {t}) /\ Cardinality(later \cup {t}) = Cardinality(later) + 1
      BY <3>2, <3>3, FS_AddElement
    <3>5. Cardinality(later \cup {t}) <= Cardinality(D)
      BY <1>2, <3>2, FS_Subset
    <3>6. Cardinality(later) > HistoryLimit
      BY <3>1
    <3> HIDE DEF at, K
    <3> QED
      BY <1>3, <1>7, <1>9, <3>3, <3>4, <3>5, <3>6
  <2>2. ASSUME NEW t \in D \ K, NEW u \in D \ K
        PROVE  t = u
    <3>1. t \in Nat /\ u \in Nat
      BY <1>2
    <3>2. ~(t < u) /\ ~(u < t)
      BY <2>1
    <3> QED
      BY <3>1, <3>2
  <2> HIDE DEF K
  <2>3. CASE D \ K = {}
    <3>1. K = D
      BY <1>6, <2>3
    <3> QED
      BY <1>7, <3>1
  <2>4. CASE D \ K # {}
    <3>1. PICK t \in D \ K : TRUE
      BY <2>4
    <3>2. K = D \ {t}
      BY <1>6, <2>2, <3>1
    <3>3. Cardinality(D \ {t}) = Cardinality(D) - 1
      BY <1>2, <3>1, FS_RemoveElement
    <3> QED
      BY <1>7, <3>2, <3>3
  <2> QED
    BY <2>3, <2>4
<1> HIDE DEF K
<1> QED
  BY <1>1, <1>7, <1>8, <1>9 DEF D

(* The windows of usable levels were seen, and there were bars enough to     *)
(* look for levels; there are never fewer while the session runs.           *)
SeenIn(p, m) ==
  \A u \in (OriginOf[p] - HalfLeft)..Confirmation(p) : u \in DOMAIN m /\ m[u] <= PriceOf[p]

SeenInv ==
  /\ IsFiniteSet(DOMAIN bars)
  /\ Cardinality(DOMAIN bars) <= HistoryLimit
  /\ \A p \in PivotsOf(levels) :
       Cardinality(DOMAIN bars) >= MinBars /\ SeenIn(p, closes)

(* The parts of a detection: pivots that may be used, those among them that  *)
(* broke on their own, and the levels the others make up.                   *)
Free(rows, b) == IF Cardinality(DOMAIN b) < MinBars THEN {} ELSE Candidates(b) \ Consumed(rows)
Lost(rows, b) == {p \in Free(rows, b) : PivotBreak(p, rows, b) # 0}
Made(rows, b) ==
  {ClusterId(g) : g \in (SUBSET (Free(rows, b) \ Lost(rows, b))) \cap Groups[Free(rows, b) \ Lost(rows, b)]}

(* What each of them becomes.                                               *)
LEMMA DetectedIs ==
  ASSUME NEW rows \in Rows, NEW b, IsBars(b)
  PROVE  LET found == Detected(rows, b)
         IN  /\ \A i \in Broken(rows) : found[i] = rows[i] /\ i \in Broken(found)
             /\ \A p \in Lost(rows, b) :
                  /\ p \in Pivots /\ PivotId(p) \in Broken(found)
                  /\ found[PivotId(p)] = PivotBreak(p, rows, b)
             /\ \A i \in Ids : i \notin Broken(rows) /\ (\A p \in Lost(rows, b) : i # PivotId(p)) =>
                  found[i] = IF i \in Made(rows, b) THEN 0 ELSE None
             /\ found = [i \in Ids |-> found[i]]
<1> DEFINE found == Detected(rows, b)
<1>1. found = [i \in Ids |->
        IF \E p \in Lost(rows, b) : i = PivotId(p)
        THEN PivotBreak(CHOOSE p \in Lost(rows, b) : i = PivotId(p), rows, b)
        ELSE IF i \in Broken(rows) THEN rows[i]
        ELSE IF i \in Made(rows, b) THEN 0 ELSE None]
  BY DEF Detected, Free, Lost, Made
<1>2. \A i \in Broken(rows) : found[i] = rows[i] /\ i \in Broken(found)
  BY Detecting DEF Broken
<1> HIDE DEF found
<1>3. ASSUME NEW p \in Lost(rows, b)
      PROVE  /\ p \in Pivots /\ PivotId(p) \in Broken(found)
             /\ found[PivotId(p)] = PivotBreak(p, rows, b)
  <2>1. p \in Pivots /\ PivotBreak(p, rows, b) # 0
    BY DEF Lost, Free, Candidates
  <2>2. PivotId(p) \in Ids /\ \A q : PivotId(p) = PivotId(q) => p = q
    BY <2>1, PivotIds
  <2>3. (CHOOSE q \in Lost(rows, b) : PivotId(p) = PivotId(q)) = p
    BY <2>2
  <2>4. found[PivotId(p)] = PivotBreak(p, rows, b)
    BY <1>1, <2>2, <2>3
  <2>5. FirstBreak(PivotId(p), b) \in Nat
    BY FirstBreaks
  <2>6. PivotBreak(p, rows, b) \notin {None, 0}
    BY <2>1, <2>5, LevelAssumption DEF PivotBreak, Broken
  <2> QED
    BY <2>1, <2>2, <2>4, <2>6 DEF Broken
<1>4. ASSUME NEW i \in Ids, i \notin Broken(rows), \A p \in Lost(rows, b) : i # PivotId(p)
      PROVE  found[i] = IF i \in Made(rows, b) THEN 0 ELSE None
  BY <1>1, <1>4
<1>5. found = [i \in Ids |-> found[i]]
  BY <1>1
<1> QED
  BY <1>2, <1>3, <1>4, <1>5 DEF found

(* What a detection makes levels of, and where the pivots go it could use.   *)
LEMMA DetectedPivots ==
  ASSUME NEW rows \in Rows, NEW b, IsBars(b), NEW found, found = Detected(rows, b)
  PROVE  /\ \A p \in PivotsOf(found) :
              p \in Candidates(b) /\ ~(Cardinality(DOMAIN b) < MinBars)
         /\ \A p \in Candidates(b) : ~(Cardinality(DOMAIN b) < MinBars) =>
              p \in PivotsOf(found) \/ \E j \in Broken(found) : p \in j.of
<1> DEFINE free == Free(rows, b)
           lost == Lost(rows, b)
           made == Made(rows, b)
<1>1. free \subseteq Pivots /\ lost \subseteq free
  BY DEF Free, Lost, Candidates
<1>2. \A i \in Ids : i \notin Broken(rows) /\ (\A p \in lost : i # PivotId(p)) =>
        found[i] = IF i \in made THEN 0 ELSE None
  BY DetectedIs
<1>3. \A i \in Broken(rows) : found[i] = rows[i] /\ i \in Broken(found)
  BY DetectedIs
<1>4. ASSUME NEW p \in lost
      PROVE  PivotId(p) \in Broken(found) /\ p \in PivotId(p).of
  BY DetectedIs DEF PivotId
<1>5. ASSUME NEW p \in PivotsOf(found)
      PROVE  p \in free
  <2>1. PICK i \in Active(found) : p \in i.of
    BY DEF PivotsOf
  <2>2. i \in Ids /\ found[i] = 0
    BY <2>1 DEF Active
  <2>3. ~ \E q \in lost : i = PivotId(q)
    BY <1>4, <2>2 DEF Broken
  <2>4. i \notin Broken(rows)
    BY <1>3, <2>2 DEF Broken
  <2>5. i \in made
    BY <1>2, <2>2, <2>3, <2>4, LevelAssumption
  <2>6. PICK g \in SUBSET (free \ lost) : i = ClusterId(g)
    BY <2>5 DEF Made
  <2> QED
    BY <2>1, <2>6 DEF ClusterId
<1>6. ASSUME NEW p \in free
      PROVE  p \in PivotsOf(found) \/ \E j \in Broken(found) : p \in j.of
  <2>1. CASE p \in lost
    BY <1>4, <2>1
  <2>2. CASE p \notin lost
    <3>1. free \ lost \in SUBSET Pivots /\ p \in free \ lost
      BY <1>1, <2>2
    <3>2. PICK g \in Groups[free \ lost] : p \in g /\ g \subseteq free \ lost
      <4> HIDE DEF free, lost
      <4> QED BY <3>1, GroupsCover
    <3>3. ClusterId(g) \in made /\ ClusterId(g) \in Ids /\ p \in ClusterId(g).of
      <4>1. g \in SUBSET Pivots /\ g # {}
        BY <3>1, <3>2
      <4>2. ClusterId(g) \in made
        BY <3>2 DEF Made
      <4> HIDE DEF made, free, lost
      <4> QED
        BY <3>2, <4>1, <4>2 DEF Ids, ClusterId
    <3>4. ~ \E q \in lost : ClusterId(g) = PivotId(q)
      <4>1. ClusterId(g).kind = "cluster" /\ \A q : PivotId(q).kind = "pivot"
        BY DEF ClusterId, PivotId
      <4> QED
        BY <4>1
    <3>5. CASE ClusterId(g) \in Broken(rows)
      BY <1>3, <3>3, <3>5
    <3>6. CASE ClusterId(g) \notin Broken(rows)
      <4>1. found[ClusterId(g)] = 0
        BY <1>2, <3>3, <3>4, <3>6
      <4> QED
        BY <3>3, <4>1 DEF PivotsOf, Active
    <3> QED
      BY <3>5, <3>6
  <2> QED
    BY <2>1, <2>2
<1>7. ASSUME NEW p \in Consumed(rows)
      PROVE  \E j \in Broken(found) : p \in j.of
  BY <1>3 DEF Consumed
<1> QED
  BY <1>5, <1>6, <1>7 DEF Free

(* A market that goes on keeps what it showed.                              *)
LEMMA StillSeen ==
  ASSUME NEW p, NEW m, NEW n, Continues(m, n), SeenIn(p, m)
  PROVE  SeenIn(p, n)
BY DEF SeenIn, Continues

(* The levels in use after a refresh.                                       *)
LEMMA RefreshSees ==
  ASSUME LevelInv, NEW old \in Rows, Agree(old, table), NEW b, NEW m \in Seq(Closes),
         BarsOf(b, m), Refresh(old, b)
  PROVE  /\ \A p \in PivotsOf(levels') : Cardinality(DOMAIN b) \in Nat =>
              Cardinality(DOMAIN b) >= MinBars /\ SeenIn(p, m)
         /\ \A p \in Candidates(b) : ~(Cardinality(DOMAIN b) < MinBars) =>
              p \in PivotsOf(levels') \/ \E j \in Broken(levels') : p \in j.of
<1>1. IsBars(b) /\ table \in Rows
  BY MarketBars DEF LevelInv, TypeOK
<1>2. PICK memory \in Rows : levels' = Detected(memory, b)
  <2>1. \E memory \in Rows : Refreshed(old, table, b).levels = Detected(memory, b)
    BY <1>1, Refreshing
  <2> QED
    BY <2>1 DEF Refresh
<1>3. PICK found : found = levels'
  OBVIOUS
<1>4. /\ \A p \in PivotsOf(found) :
           p \in Candidates(b) /\ ~(Cardinality(DOMAIN b) < MinBars)
      /\ \A p \in Candidates(b) : ~(Cardinality(DOMAIN b) < MinBars) =>
           p \in PivotsOf(found) \/ \E j \in Broken(found) : p \in j.of
  BY <1>1, <1>2, <1>3, DetectedPivots
<1>5. \A p \in Candidates(b) : SeenIn(p, m)
  BY DEF Candidates, SeenIn, BarsOf
<1>6. PivotsOf(levels)' = PivotsOf(found) /\ Broken(levels)' = Broken(found)
  BY <1>3 DEF PivotsOf, Active, Broken
<1>7. MinBars \in Nat
  BY LevelAssumption
<1> QED
  BY <1>3, <1>4, <1>5, <1>6, <1>7

(* One bar more, and one fewer at most.                                     *)
LEMMA WithBarSize ==
  ASSUME LevelInv, SeenInv, NEW close \in Closes
  PROVE  /\ IsFiniteSet(DOMAIN WithBar(close))
         /\ Cardinality(DOMAIN WithBar(close)) <= HistoryLimit
         /\ Cardinality(DOMAIN WithBar(close)) >= Cardinality(DOMAIN bars)
<1> DEFINE next == Len(closes) + 1
           more == [t \in DOMAIN bars \cup {next} |-> IF t \in DOMAIN bars THEN bars[t] ELSE close]
<1>1. /\ closes \in Seq(Closes) /\ DOMAIN bars \subseteq 1..Len(closes) /\ Len(closes) \in Nat
      /\ \A t \in DOMAIN bars : bars[t] = closes[t]
  BY DEF LevelInv, TypeOK
<1>2. \A t \in DOMAIN bars : bars[t] \in Nat
  <2>1. IsBars(bars)
    BY <1>1, MarketBars DEF BarsOf
  <2> QED
    BY <2>1 DEF IsBars
<1>3. IsBars(more)
  BY <1>1, <1>2, LevelAssumption DEF IsBars
<1>4. DOMAIN more = DOMAIN bars \cup {next} /\ next \notin DOMAIN bars
  BY <1>1
<1>5. WithBar(close) = Latest(more)
  BY DEF WithBar
<1> HIDE DEF more, next
<1>6. IsFiniteSet(DOMAIN more) /\ Cardinality(DOMAIN more) = Cardinality(DOMAIN bars) + 1
  BY <1>4, FS_AddElement DEF SeenInv
<1>7. Cardinality(DOMAIN bars) \in Nat /\ Cardinality(DOMAIN bars) <= HistoryLimit /\ HistoryLimit \in Nat
  BY FS_CardinalityType, LevelAssumption DEF SeenInv
<1>8. /\ IsFiniteSet(DOMAIN Latest(more))
      /\ Cardinality(DOMAIN Latest(more)) <= HistoryLimit
      /\ Cardinality(DOMAIN more) <= HistoryLimit + 1 =>
           Cardinality(DOMAIN Latest(more)) >= Cardinality(DOMAIN more) - 1
  BY <1>3, <1>6, LatestSize
<1>9. Cardinality(DOMAIN Latest(more)) \in Nat
  BY <1>8, FS_CardinalityType
<1> QED
  BY <1>5, <1>6, <1>7, <1>8, <1>9

(* Where a pivot of a usable level goes in a step of a running session.      *)
Stays(p) ==
  \/ p \in PivotsOf(levels')
  \/ \E j \in Broken(levels') : p \in j.of
  \/ \E u \in (OriginOf[p] - HalfLeft)..Confirmation(p) : u \notin DOMAIN bars'

LEMMA UsablePivots ==
  ASSUME LevelInv, NEW p \in PivotsOf(levels)
  PROVE  p \in Pivots
BY DEF PivotsOf, Active, Ids, PivotId, ClusterId

(* A completed bar.                                                         *)
LEMMA BarSees ==
  ASSUME LevelInv, SeenInv, NEW close \in Closes, Bar(close)
  PROVE  SeenInv' /\ \A p \in PivotsOf(levels) : Stays(p)
<1> PICK b : b = WithBar(close)
  OBVIOUS
<1>1. MarketMoves(close) /\ up /\ bars' = b /\ Refresh(levels, b)
  BY DEF Bar
<1>2. /\ closes \in Seq(Closes) /\ levels \in Rows /\ BarsOf(bars, closes) /\ Agree(levels, table)
  <2>1. DOMAIN closes = 1..Len(closes)
    BY DEF LevelInv, TypeOK
  <2> QED
    BY <1>1, <2>1 DEF LevelInv, TypeOK, BarsOf
<1>3. Continues(closes, closes') /\ BarsOf(b, closes') /\ closes' \in Seq(Closes)
  BY <1>1, <1>2, MarketContinues DEF Continues
<1>4. /\ IsFiniteSet(DOMAIN b) /\ Cardinality(DOMAIN b) <= HistoryLimit
      /\ Cardinality(DOMAIN b) >= Cardinality(DOMAIN bars)
  BY WithBarSize
<1>5. Cardinality(DOMAIN b) \in Nat /\ Cardinality(DOMAIN bars) \in Nat /\ MinBars \in Nat
  BY <1>4, FS_CardinalityType, LevelAssumption DEF SeenInv
<1>6. PICK m : m = closes'
  OBVIOUS
<1>7. /\ \A p \in PivotsOf(levels') : Cardinality(DOMAIN b) >= MinBars /\ SeenIn(p, m)
      /\ \A p \in Candidates(b) : ~(Cardinality(DOMAIN b) < MinBars) =>
           p \in PivotsOf(levels') \/ \E j \in Broken(levels') : p \in j.of
  BY <1>1, <1>2, <1>3, <1>5, <1>6, RefreshSees
<1>8. SeenInv'
  BY <1>1, <1>4, <1>6, <1>7 DEF SeenInv, SeenIn, PivotsOf, Active
<1>9. ASSUME NEW p \in PivotsOf(levels),
             \A u \in (OriginOf[p] - HalfLeft)..Confirmation(p) : u \in DOMAIN bars'
      PROVE  p \in PivotsOf(levels') \/ \E j \in Broken(levels') : p \in j.of
  <2>1. p \in Pivots /\ SeenIn(p, closes) /\ Cardinality(DOMAIN bars) >= MinBars
    BY UsablePivots DEF SeenInv
  <2>2. SeenIn(p, m)
    BY <1>3, <1>6, <2>1, StillSeen
  <2>3. p \in Candidates(b)
    BY <1>1, <1>3, <1>6, <1>9, <2>1, <2>2 DEF Candidates, SeenIn, BarsOf
  <2>4. ~(Cardinality(DOMAIN b) < MinBars)
    BY <1>4, <1>5, <2>1
  <2> QED
    BY <1>7, <2>3, <2>4
<1> QED
  BY <1>8, <1>9 DEF Stays

(* The start of a session.                                                  *)
LEMMA BootstrapSees ==
  ASSUME LevelInv, Bootstrap
  PROVE  SeenInv'
<1> PICK b : b = History
  OBVIOUS
<1> PICK m \in Seq(Closes) : m = closes
  BY DEF LevelInv, TypeOK
<1>1. bars' = b /\ closes' = m /\ Refresh(table, b)
  BY DEF Bootstrap
<1>2. BarsOf(m, m) /\ IsBars(m)
  BY MarketBars DEF BarsOf
<1>3. BarsOf(b, m)
  BY <1>2, LatestBars DEF History
<1>4. DOMAIN m = 1..Len(m) /\ Len(m) \in Nat /\ IsFiniteSet(DOMAIN m)
  <2>1. DOMAIN m = 1..Len(m) /\ Len(m) \in Nat
    OBVIOUS
  <2> QED
    BY <2>1, FS_Interval
<1>5. IsFiniteSet(DOMAIN b) /\ Cardinality(DOMAIN b) <= HistoryLimit
  BY <1>2, <1>4, LatestSize DEF History
<1>6. Cardinality(DOMAIN b) \in Nat
  BY <1>5, FS_CardinalityType
<1>7. \A p \in PivotsOf(levels') : Cardinality(DOMAIN b) >= MinBars /\ SeenIn(p, m)
  <2>1. table \in Rows /\ Agree(table, table)
    BY DEF LevelInv, TypeOK, Agree
  <2> QED
    BY <1>1, <1>3, <1>6, <2>1, RefreshSees
<1> QED
  BY <1>1, <1>5, <1>7 DEF SeenInv, SeenIn, PivotsOf, Active

LEMMA NothingSeen ==
  ASSUME bars = NoBars, levels = NoLevels
  PROVE  SeenInv
<1>1. DOMAIN bars = {} /\ PivotsOf(levels) = {}
  BY NothingKnown DEF NoBars, PivotsOf
<1> QED
  BY <1>1, FS_EmptySet, LevelAssumption DEF SeenInv

(* Every step.                                                              *)
LEMMA StepSees ==
  ASSUME LevelInv, SeenInv, [Next]_vars
  PROVE  SeenInv' /\ (up /\ up' => \A p \in PivotsOf(levels) : Stays(p))
<1>1. closes \in Seq(Closes) /\ (~up => bars = NoBars /\ levels = NoLevels)
  BY DEF LevelInv, TypeOK
<1>2. ASSUME bars' = NoBars, levels' = NoLevels, ~up \/ ~up'
      PROVE  SeenInv' /\ (up /\ up' => \A p \in PivotsOf(levels) : Stays(p))
  <2>1. DOMAIN bars' = {} /\ PivotsOf(levels)' = {}
    BY <1>2, NothingKnown DEF NoBars, PivotsOf, Active
  <2>2. SeenInv'
    BY <2>1, FS_EmptySet, LevelAssumption DEF SeenInv
  <2> QED
    BY <1>2, <2>2
<1>3. ASSUME bars' = bars, levels' = levels, Continues(closes, closes')
      PROVE  SeenInv' /\ \A p \in PivotsOf(levels) : Stays(p)
  <2>1. \A p \in PivotsOf(levels) : SeenIn(p, closes')
    BY <1>3, StillSeen DEF SeenInv
  <2> QED
    BY <1>3, <2>1 DEF SeenInv, SeenIn, Stays, PivotsOf, Active
<1>4. ASSUME NEW close \in Closes, Bar(close)
      PROVE  SeenInv' /\ \A p \in PivotsOf(levels) : Stays(p)
  BY <1>4, BarSees
<1>5. ASSUME NEW close \in Closes, MissedBar(close) \/ BarWhileDown(close)
      PROVE  SeenInv' /\ \A p \in PivotsOf(levels) : Stays(p)
  <2>1. MarketMoves(close) /\ bars' = bars /\ levels' = levels
    BY <1>5 DEF MissedBar, BarWhileDown
  <2>2. Continues(closes, closes')
    BY <1>1, <2>1, MarketContinues
  <2> QED
    BY <1>3, <2>1, <2>2
<1>6. ASSUME SessionOver
      PROVE  SeenInv' /\ (up /\ up' => \A p \in PivotsOf(levels) : Stays(p))
  BY <1>2, <1>6 DEF SessionOver
<1>7. CASE Bootstrap
  <2>1. ~up
    BY <1>7 DEF Bootstrap
  <2> QED
    BY <1>7, <2>1, BootstrapSees
<1>8. CASE TornBootstrap
  BY <1>1, <1>2, <1>8 DEF TornBootstrap
<1>9. CASE UNCHANGED vars
  BY <1>1, <1>3, <1>9 DEF vars, Continues
<1> QED
  BY <1>4, <1>5, <1>6, <1>7, <1>8, <1>9 DEF Next, TornBar, Stop

(* A pivot of a usable level stays in one while the session runs, unless a   *)
(* break took it or its window left the retained bars.                      *)
THEOREM LevelsEndForAReason == Spec => NothingElseEndsALevel
<1>1. Init => SeenInv
  BY NothingSeen DEF Init
<1>2. LevelInv /\ SeenInv /\ [Next]_vars => SeenInv'
  BY StepSees
<1>3. LevelInv /\ SeenInv /\ [Next]_vars =>
        [up /\ up' => \A p \in PivotsOf(levels) :
           \/ p \in PivotsOf(levels')
           \/ \E j \in Broken(levels') : p \in j.of
           \/ \E u \in (OriginOf[p] - HalfLeft)..Confirmation(p) : u \notin DOMAIN bars']_vars
  BY StepSees DEF Stays
<1> QED
  BY <1>1, <1>2, <1>3, LevelInvAlways, PTL DEF Spec, NothingElseEndsALevel
-----------------------------------------------------------------------------
(* Detection over the same bars, from rows that know the breaks it left,     *)
(* finds the same levels.                                                   *)
LEMMA DetectedAgain ==
  ASSUME NEW before \in Rows, NEW b, IsBars(b), NEW found, found = Detected(before, b),
         NEW rows \in Rows, Agree(found, rows)
  PROVE  Detected(rows, b) = found
<1> DEFINE again == Detected(rows, b)
<1>1. /\ \A i \in Broken(before) : found[i] = before[i] /\ i \in Broken(found)
      /\ \A p \in Lost(before, b) :
           /\ p \in Pivots /\ PivotId(p) \in Broken(found)
           /\ found[PivotId(p)] = PivotBreak(p, before, b)
      /\ \A i \in Ids : i \notin Broken(before) /\ (\A p \in Lost(before, b) : i # PivotId(p)) =>
           found[i] = IF i \in Made(before, b) THEN 0 ELSE None
      /\ found = [i \in Ids |-> found[i]]
  BY DetectedIs
<1>2. /\ \A i \in Broken(rows) : again[i] = rows[i] /\ i \in Broken(again)
      /\ \A p \in Lost(rows, b) :
           /\ p \in Pivots /\ PivotId(p) \in Broken(again)
           /\ again[PivotId(p)] = PivotBreak(p, rows, b)
      /\ \A i \in Ids : i \notin Broken(rows) /\ (\A p \in Lost(rows, b) : i # PivotId(p)) =>
           again[i] = IF i \in Made(rows, b) THEN 0 ELSE None
      /\ again = [i \in Ids |-> again[i]]
  BY DetectedIs
<1> HIDE DEF again
<1>3. Broken(rows) = Broken(found) /\ \A i \in Broken(rows) : rows[i] = found[i]
  BY DEF Agree, Broken
<1>4. \A i \in Broken(found) : i \in Broken(before) \/ \E p \in Lost(before, b) : i = PivotId(p)
  BY <1>1 DEF Broken
<1>5. Consumed(rows) = Consumed(before)
  <2>1. \A i \in Ids : i.kind = "cluster" => (i \in Broken(rows) <=> i \in Broken(before))
    <3>1. \A p : PivotId(p).kind = "pivot"
      BY DEF PivotId
    <3> QED
      BY <1>1, <1>3, <1>4, <3>1
  <2> QED
    BY <2>1 DEF Consumed, Broken
<1>6. Free(rows, b) = Free(before, b) /\ Free(before, b) \subseteq Pivots
  BY <1>5 DEF Free, Candidates
<1>7. ASSUME NEW p \in Free(before, b)
      PROVE  PivotBreak(p, rows, b) = PivotBreak(p, before, b)
  <2>1. p \in Pivots /\ PivotId(p) \in Ids /\ \A q : PivotId(p) = PivotId(q) => p = q
    BY <1>6, PivotIds
  <2>2. CASE PivotBreak(p, before, b) # 0
    <3>1. p \in Lost(before, b)
      BY <2>2 DEF Lost
    <3> QED
      BY <1>1, <1>3, <3>1 DEF PivotBreak
  <2>3. CASE PivotBreak(p, before, b) = 0
    <3>1. p \notin Lost(before, b)
      BY <2>3 DEF Lost
    <3>2. PivotId(p) \notin Broken(before) /\ FirstBreak(PivotId(p), b) = 0
      BY <2>3 DEF PivotBreak, Broken
    <3>3. PivotId(p) \notin Broken(rows)
      BY <1>3, <1>4, <2>1, <3>1, <3>2
    <3> QED
      BY <2>3, <3>2, <3>3 DEF PivotBreak
  <2> QED
    BY <2>2, <2>3
<1>8. Lost(rows, b) = Lost(before, b)
  BY <1>6, <1>7 DEF Lost
<1>9. Made(rows, b) = Made(before, b)
  BY <1>6, <1>8 DEF Made
<1>10. ASSUME NEW i \in Ids PROVE again[i] = found[i]
  <2>1. CASE i \in Broken(rows)
    BY <1>2, <1>3, <2>1
  <2>2. CASE i \notin Broken(rows)
    <3>1. i \notin Broken(before) /\ \A p \in Lost(before, b) : i # PivotId(p)
      BY <1>1, <1>3, <2>2
    <3> QED
      BY <1>1, <1>2, <1>8, <1>9, <2>2, <3>1
  <2> QED
    BY <2>1, <2>2
<1> QED
  BY <1>1, <1>2, <1>10 DEF again

(* What is in use is what a detection found in the bars at hand.            *)
InUse == up => \E before \in Rows : levels = Detected(before, bars)

LEMMA StepDetects ==
  ASSUME LevelInv, InUse, [Next]_vars
  PROVE  InUse'
<1>1. ASSUME NEW old \in Rows, Agree(old, table), NEW b, NEW m \in Seq(Closes), BarsOf(b, m),
             Refresh(old, b), bars' = b
      PROVE  InUse'
  <2>1. table \in Rows /\ IsBars(b)
    BY <1>1, MarketBars DEF LevelInv, TypeOK
  <2>2. levels' = Refreshed(old, table, b).levels
    BY <1>1 DEF Refresh
  <2>3. \E before \in Rows : levels' = Detected(before, b)
    BY <1>1, <2>1, <2>2, Refreshing
  <2> QED
    BY <1>1, <2>3 DEF InUse
<1>2. ASSUME ~up' PROVE InUse'
  BY <1>2 DEF InUse
<1>3. ASSUME up' = up, bars' = bars, levels' = levels PROVE InUse'
  BY <1>3 DEF InUse
<1>4. ASSUME NEW close \in Closes, Bar(close)
      PROVE  InUse'
  <2> PICK b : b = WithBar(close)
    OBVIOUS
  <2>1. MarketMoves(close) /\ up /\ bars' = b /\ Refresh(levels, b)
    BY <1>4 DEF Bar
  <2>2. closes \in Seq(Closes) /\ levels \in Rows /\ Agree(levels, table) /\ BarsOf(bars, closes)
    <3>1. DOMAIN closes = 1..Len(closes)
      BY DEF LevelInv, TypeOK
    <3> QED
      BY <2>1, <3>1 DEF LevelInv, TypeOK, BarsOf
  <2>3. closes' \in Seq(Closes) /\ BarsOf(b, closes')
    BY <2>1, <2>2, MarketContinues DEF Continues
  <2> QED
    BY <1>1, <2>1, <2>2, <2>3
<1>5. ASSUME NEW close \in Closes, MissedBar(close) \/ BarWhileDown(close) \/ TornBar(close)
      PROVE  InUse'
  BY <1>2, <1>3, <1>5 DEF MissedBar, BarWhileDown, TornBar, SessionOver
<1>6. CASE Bootstrap
  <2> PICK b : b = History
    OBVIOUS
  <2> PICK m \in Seq(Closes) : m = closes
    BY DEF LevelInv, TypeOK
  <2>1. bars' = b /\ Refresh(table, b)
    BY <1>6 DEF Bootstrap
  <2>2. table \in Rows /\ Agree(table, table)
    BY DEF LevelInv, TypeOK, Agree
  <2>3. BarsOf(b, m)
    BY MarketBars, LatestBars DEF History, BarsOf
  <2> QED
    BY <1>1, <2>1, <2>2, <2>3
<1>7. CASE TornBootstrap \/ Stop
  BY <1>2, <1>3, <1>7 DEF TornBootstrap, Stop, SessionOver
<1>8. CASE UNCHANGED vars
  BY <1>3, <1>8 DEF vars
<1> QED
  BY <1>4, <1>5, <1>6, <1>7, <1>8 DEF Next

(* Starting again over the same bars finds the levels in use, every one of   *)
(* them, unless a level that the table still has as active is broken by      *)
(* those bars (bootstrap, _refresh_level_lifecycle): rows that regrouping    *)
(* left active are all that can make a restart differ.                      *)
THEOREM RestartFindsUnlessStale ==
  Spec => [](up /\ Breaking(table, bars) = {} => Refreshed(table, table, bars).levels = levels)
<1>1. Init => InUse
  BY DEF Init, InUse
<1>2. LevelInv /\ InUse /\ [Next]_vars => InUse'
  BY StepDetects
<1>3. ASSUME LevelInv, InUse, up, Breaking(table, bars) = {}
      PROVE  Refreshed(table, table, bars).levels = levels
  <2>1. closes \in Seq(Closes) /\ table \in Rows /\ Agree(table, table) /\ Agree(levels, table)
    BY <1>3 DEF LevelInv, TypeOK, Agree
  <2>2. IsBars(bars)
    <3>1. DOMAIN closes = 1..Len(closes)
      BY <2>1
    <3>2. BarsOf(bars, closes)
      BY <1>3, <3>1 DEF LevelInv, TypeOK, BarsOf
    <3> QED
      BY <2>1, <3>2, MarketBars
  <2>3. Refreshed(table, table, bars).levels = Detected(table, bars)
    BY <1>3, <2>1, <2>2, Refreshing
  <2>4. Detected(table, bars) = levels
    BY <1>3, <2>1, <2>2, DetectedAgain DEF InUse
  <2> QED
    BY <2>3, <2>4
<1>4. LevelInv /\ InUse =>
        (up /\ Breaking(table, bars) = {} => Refreshed(table, table, bars).levels = levels)
  BY <1>3
<1> QED
  BY <1>1, <1>2, <1>4, LevelInvAlways, PTL DEF Spec

(* In particular the levels that may be used.                               *)
COROLLARY RestartFindsUsable == Spec => [](Breaking(table, bars) = {} => RestartFindsTheSame)
<1>1. (up /\ Breaking(table, bars) = {} => Refreshed(table, table, bars).levels = levels)
        => (Breaking(table, bars) = {} => RestartFindsTheSame)
  BY DEF RestartFindsTheSame
<1> QED
  BY <1>1, RestartFindsUnlessStale, PTL
=============================================================================
