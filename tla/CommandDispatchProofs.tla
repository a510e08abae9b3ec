----------------------- MODULE CommandDispatchProofs -----------------------
(***************************************************************************)
(* What holds of the four programs whatever they are called with: of each   *)
(* function by itself, and of main, which runs one of them.                *)
(***************************************************************************)
EXTENDS CommandDispatch, TLAPS, FiniteSetTheorems, WellFoundedInduction

SpeakerP == INSTANCE SpeakerSessionProofs WITH phase <- speaker_phase, result <- speaker_result

(* The two gardeners stay in the row until they have met, and no can runs  *)
(* negative.                                                               *)
WateringInv ==
  /\ TypeOK
  /\ Suits(plants, capacityA) /\ Suits(plants, capacityB)
  /\ posa + posb = Len(plants) + 1
  /\ posa <= posb + 1
  /\ vala <= capacityA /\ valb <= capacityB

(* A watering leaves a can neither negative nor above its capacity.        *)
LEMMA LevelType ==
  ASSUME NEW v \in Nat, NEW n \in Nat, NEW c \in Nat, n <= c, v <= c
  PROVE  Level(v, n, c) \in 0..c /\ Refill(v, n) \in 0..1
BY DEF Level, Refill

(* Plant i of a suitable row: what it needs fits in a full can. *)
LEMMA NeedFits ==
  ASSUME WateringInv, NEW i \in 1..Len(plants)
  PROVE  /\ plants[i] \in Nat /\ capacityA \in Nat /\ capacityB \in Nat
         /\ plants[i] <= capacityA /\ plants[i] <= capacityB
<1>1. plants \in Seq(Nat) /\ capacityA \in Nat /\ capacityB \in Nat
  BY InputAssumption DEF WateringInv, TypeOK
<1>2. i \in DOMAIN plants
  BY <1>1
<1>3. QED
  BY <1>1, <1>2 DEF WateringInv, Suits

(* Each turn of the loop keeps the gardeners in the row and the cans full  *)
(* enough.                                                                 *)
LEMMA WateringStep == WateringInv /\ [Next]_vars => WateringInv'
<1> SUFFICES ASSUME WateringInv, [Next]_vars PROVE WateringInv'
  OBVIOUS
<1>0. Len(plants) \in Nat /\ vala \in Nat /\ valb \in Nat /\ res \in Nat
  BY InputAssumption DEF WateringInv, TypeOK
<1>1. CASE WaterBothEnds
  <2>1. posa \in 1..Len(plants) /\ posb \in 1..Len(plants)
    BY <1>0, <1>1 DEF WaterBothEnds, WateringInv, TypeOK
  <2>2. /\ vala' \in 0..capacityA /\ valb' \in 0..capacityB
        /\ res' \in Nat
    <3>1. vala' \in 0..capacityA /\ Refill(vala, plants[posa]) \in 0..1
      BY <1>0, <1>1, <2>1, LevelType, NeedFits DEF WaterBothEnds, WateringInv
    <3>2. valb' \in 0..capacityB /\ Refill(valb, plants[posb]) \in 0..1
      BY <1>0, <1>1, <2>1, LevelType, NeedFits DEF WaterBothEnds, WateringInv
    <3>3. QED
      BY SMTT(30), <1>0, <1>1, <3>1, <3>2 DEF WaterBothEnds
  <2>3. capacityA \in Nat /\ capacityB \in Nat
    BY <2>1, NeedFits
  <2>4. /\ posa' = posa + 1 /\ posb' = posb - 1
        /\ UNCHANGED <<plants, capacityA, capacityB, phase>>
    BY <1>1 DEF WaterBothEnds
  <2>5. TypeOK'
    <3>1. posa' \in Nat \ {0} /\ posb' \in Nat
      BY <1>0, <2>1, <2>4
    <3>2. {vala', valb', res'} \subseteq Nat
      BY <2>2, <2>3
    <3>3. QED
      BY <2>4, <3>1, <3>2 DEF WateringInv, TypeOK
  <2>6. posa' + posb' = Len(plants') + 1 /\ posa' <= posb' + 1
    <3>1. posa < posb /\ posa + posb = Len(plants) + 1
      BY <1>1 DEF WaterBothEnds, WateringInv
    <3>2. QED
      BY <1>0, <2>1, <2>4, <3>1
  <2>7. vala' <= capacityA' /\ valb' <= capacityB'
    BY <2>2, <2>3, <2>4
  <2>8. Suits(plants', capacityA') /\ Suits(plants', capacityB')
    BY <2>4 DEF WateringInv
  <2>9. QED
    BY <2>5, <2>6, <2>7, <2>8 DEF WateringInv, Suits
<1>2. CASE LastPlant
  <2>1. posa \in 1..Len(plants) /\ posb \in 1..Len(plants)
    BY <1>0, <1>2 DEF LastPlant, WateringInv, TypeOK
  <2>2. res' \in Nat
    <3>1. Refill(vala, plants[posa]) \in 0..1
      BY <1>0, <2>1, LevelType, NeedFits DEF WateringInv
    <3>2. Refill(valb, plants[posb]) \in 0..1
      BY <1>0, <2>1, LevelType, NeedFits DEF WateringInv
    <3>3. QED
      BY <1>0, <1>2, <3>1, <3>2 DEF LastPlant
  <2>3. QED
    BY <1>2, <2>2 DEF LastPlant, WateringInv, TypeOK, Suits
<1>3. CASE NoPlantLeft
  BY <1>3 DEF NoPlantLeft, WateringInv, TypeOK, Suits
<1>4. CASE UNCHANGED vars
  BY <1>4 DEF vars, WateringInv, TypeOK, Suits
<1>5. QED
  BY <1>1, <1>2, <1>3, <1>4 DEF Next

LEMMA WateringBegins == Init => WateringInv
BY InputAssumption DEF Init, WateringInv, TypeOK, Suits

-----------------------------------------------------------------------------
(***************************************************************************)
(* Refilling when the can is too low is the best one can do.  What a plan   *)
(* takes from the can is a sum over plants, which grows plant by plant; the *)
(* invariant says of each gardener's share that some plan does as well as   *)
(* the code (Reached) and none does better (NoBetter).                      *)
(***************************************************************************)
(* Natural numbers of which something is false have a least one.            *)
LEMMA Least ==
  ASSUME NEW T \in SUBSET Nat, T # {}
  PROVE  \E x \in T : \A y \in T : x <= y
<1>1. \E x \in T : \A y \in T : ~(<<y, x>> \in OpToRel(<, Nat))
  BY WFMin, NatLessThanWellFounded
<1>2. \A x, y \in Nat : y < x => <<y, x>> \in OpToRel(<, Nat)
  <2> TAKE x, y \in Nat
  <2>1. <<y, x>> \in Nat \X Nat /\ <<y, x>>[1] = y /\ <<y, x>>[2] = x
    OBVIOUS
  <2> QED BY <2>1 DEF OpToRel
<1>3. PICK x \in T : \A y \in T : ~(<<y, x>> \in OpToRel(<, Nat))
  BY <1>1
<1>4. \A y \in T : ~(y < x)
  BY <1>2, <1>3
<1>5. T \subseteq Nat
  OBVIOUS
<1> QED BY <1>4, <1>5

(* SumOf's recursive function.  There is one, whatever the row; and it      *)
(* looks at no plant beyond those that are summed.                          *)
Sums(h, row, from, to) == h = [k \in (from - 1)..to |-> IF k < from THEN 0 ELSE h[k - 1] + row[k]]

LEMMA SumsExist ==
  ASSUME NEW row, NEW from \in Nat, NEW n \in Nat
  PROVE  \E h : Sums(h, row, from, from - 1 + n)
<1> DEFINE T == {u \in Nat : ~\E h : Sums(h, row, from, from - 1 + u)}
<1>1. SUFFICES ASSUME T # {} PROVE FALSE
  OBVIOUS
<1>2. PICK u \in T : \A y \in T : u <= y
  BY <1>1, Least
<1> HIDE DEF T
<1>3. u \in Nat /\ ~\E h : Sums(h, row, from, from - 1 + u)
  BY DEF T
<1>4. CASE u = 0
  <2>1. Sums([k \in (from - 1)..(from - 1) |-> 0], row, from, from - 1)
    BY DEF Sums
  <2>2. from - 1 + u = from - 1
    BY <1>4
  <2> QED BY <1>3, <2>1, <2>2
<1>5. CASE u # 0
  <2> DEFINE e == from - 1 + u
  <2>1. u - 1 \in Nat /\ u - 1 \notin T /\ e \in Int /\ e >= from /\ e - 1 = from - 1 + (u - 1)
    BY <1>2, <1>3, <1>5
  <2>2. \E h : Sums(h, row, from, e - 1)
    BY <2>1 DEF T
  <2> HIDE DEF e
  <2>3. PICK h : Sums(h, row, from, e - 1)
    BY <2>2
  <2> DEFINE g == [k \in (from - 1)..e |-> IF k = e THEN h[e - 1] + row[e] ELSE h[k]]
  <2>4. h = [k \in (from - 1)..(e - 1) |-> IF k < from THEN 0 ELSE h[k - 1] + row[k]]
    BY <2>3 DEF Sums
  <2>5. ASSUME NEW k \in (from - 1)..e PROVE g[k] = IF k < from THEN 0 ELSE g[k - 1] + row[k]
    <3>1. CASE k = e
      <4>1. g[e - 1] = h[e - 1] /\ g[e] = h[e - 1] + row[e]
        BY <2>1
      <4> QED BY <2>1, <3>1, <4>1
    <3>2. CASE k # e
      <4>1. k \in (from - 1)..(e - 1) /\ g[k] = h[k]
        BY <2>1, <3>2
      <4>2. k >= from => k - 1 \in (from - 1)..e /\ k - 1 # e /\ g[k - 1] = h[k - 1]
        BY <2>1, <4>1
      <4> QED BY <2>4, <4>1, <4>2
    <3> QED BY <3>1, <3>2
  <2>6. g = [k \in (from - 1)..e |-> IF k < from THEN 0 ELSE g[k - 1] + row[k]]
    <3>1. g = [k \in (from - 1)..e |-> g[k]]
      OBVIOUS
    <3> HIDE DEF g
    <3> QED BY <2>5, <3>1
  <2>7. Sums(g, row, from, e)
    <3> HIDE DEF g
    <3> QED BY <2>6 DEF Sums
  <2> QED BY <1>3, <2>7 DEF e
<1> QED BY <1>4, <1>5

Alike(h, g, from, last) ==
  /\ from \in Nat /\ last \in Int /\ last >= from - 1
  /\ \E row, row2 : \E to, to2 \in Int :
       /\ Sums(h, row, from, to) /\ Sums(g, row2, from, to2)
       /\ last <= to /\ last <= to2 /\ \A k \in from..last : row[k] = row2[k]

LEMMA SumsAgree ==
  ASSUME NEW from, NEW last, NEW h, NEW g, Alike(h, g, from, last)
  PROVE  h[last] = g[last]
<1>a. PICK row, row2 : \E to, to2 \in Int :
        /\ Sums(h, row, from, to) /\ Sums(g, row2, from, to2)
        /\ last <= to /\ last <= to2 /\ \A k \in from..last : row[k] = row2[k]
  BY Zenon DEF Alike
<1>b. PICK to \in Int, to2 \in Int :
        /\ Sums(h, row, from, to) /\ Sums(g, row2, from, to2)
        /\ last <= to /\ last <= to2 /\ \A k \in from..last : row[k] = row2[k]
  BY Zenon, <1>a
<1>c. from \in Nat /\ last \in Int /\ last >= from - 1
  BY DEF Alike
<1> DEFINE T == {u \in Nat : from - 1 + u <= last /\ h[from - 1 + u] # g[from - 1 + u]}
<1>1. SUFFICES ASSUME T # {} PROVE FALSE
  <2> DEFINE x == last - (from - 1)
  <2>1. x \in Nat /\ from - 1 + x = last
    BY <1>c
  <2> HIDE DEF x
  <2>2. last <= last
    BY <1>c
  <2> QED BY <2>1, <2>2
<1>2. PICK u \in T : \A y \in T : u <= y
  BY <1>1, Least
<1> HIDE DEF T
<1>3. u \in Nat /\ from - 1 + u <= last /\ h[from - 1 + u] # g[from - 1 + u]
  BY DEF T
<1> DEFINE e == from - 1 + u
<1>4. e \in (from - 1)..to /\ e \in (from - 1)..to2 /\ e \in Int /\ e <= last /\ (u = 0 <=> e < from)
  BY <1>b, <1>c, <1>3
<1>5. u # 0 => h[e - 1] = g[e - 1]
  <2> SUFFICES ASSUME u # 0 PROVE h[e - 1] = g[e - 1]
    OBVIOUS
  <2>1. u - 1 \in Nat /\ u - 1 \notin T /\ e - 1 = from - 1 + (u - 1) /\ e - 1 <= last
    BY <1>c, <1>2, <1>3
  <2> HIDE DEF e
  <2> QED BY <2>1 DEF T
<1>6. h[e] # g[e]
  BY <1>3
<1> HIDE DEF e
<1>7. h[e] = (IF e < from THEN 0 ELSE h[e - 1] + row[e]) /\ g[e] = (IF e < from THEN 0 ELSE g[e - 1] + row2[e])
  BY <1>b, <1>4 DEF Sums
<1>8. e >= from => row[e] = row2[e]
  BY <1>b, <1>4
<1> QED BY <1>b, <1>c, <1>4, <1>5, <1>6, <1>7, <1>8

LEMMA SumOfIs ==
  ASSUME NEW row, NEW from \in Nat, NEW to \in Int, to >= from - 1
  PROVE  \E h : Sums(h, row, from, to) /\ SumOf(row, from, to) = h[to]
<1> DEFINE upTo == CHOOSE h : Sums(h, row, from, to)
<1>1. Sums(upTo, row, from, to)
  <2>1. to - (from - 1) \in Nat /\ from - 1 + (to - (from - 1)) = to
    OBVIOUS
  <2>2. \E h : Sums(h, row, from, to)
    BY <2>1, SumsExist
  <2> QED BY <2>2
<1>2. CASE to >= from
  <2>1. SumOf(row, from, to) = upTo[to]
    BY <1>2 DEF SumOf, Sums
  <2> HIDE DEF upTo
  <2> QED BY <1>1, <2>1
<1>3. CASE to < from
  <2>1. SumOf(row, from, to) = 0
    BY <1>3 DEF SumOf
  <2> HIDE DEF upTo
  <2>2. upTo[to] = 0
    BY <1>1, <1>3 DEF Sums
  <2> QED BY <1>1, <2>1, <2>2
<1> QED BY <1>2, <1>3

(* A sum is of the plants alone, and grows by the last of them.             *)
LEMMA SumOfSame ==
  ASSUME NEW row, NEW row2, NEW from \in Nat, NEW to \in Int, to >= from - 1,
         \A k \in from..to : row[k] = row2[k]
  PROVE  SumOf(row, from, to) = SumOf(row2, from, to)
<1>1. PICK h : Sums(h, row, from, to) /\ SumOf(row, from, to) = h[to]
  BY SumOfIs
<1>2. PICK g : Sums(g, row2, from, to) /\ SumOf(row2, from, to) = g[to]
  BY SumOfIs
<1>3. Alike(h, g, from, to)
  BY <1>1, <1>2 DEF Alike
<1>4. h[to] = g[to]
  BY <1>3, SumsAgree
<1> QED BY <1>1, <1>2, <1>4

LEMMA SumOfStep ==
  ASSUME NEW row, NEW from \in Nat, NEW to \in Int, to >= from
  PROVE  SumOf(row, from, to) = SumOf(row, from, to - 1) + row[to]
<1>1. PICK h : Sums(h, row, from, to) /\ SumOf(row, from, to) = h[to]
  BY SumOfIs
<1>2. PICK g : Sums(g, row, from, to - 1) /\ SumOf(row, from, to - 1) = g[to - 1]
  BY SumOfIs
<1>3. Alike(h, g, from, to - 1)
  <2> DEFINE last == to - 1
  <2>1. last \in Int /\ last >= from - 1 /\ last <= to
    OBVIOUS
  <2>2. Sums(g, row, from, last)
    BY <1>2
  <2> HIDE DEF last
  <2>3. Alike(h, g, from, last)
    BY <1>1, <2>1, <2>2 DEF Alike
  <2> QED BY <2>3 DEF last
<1>4. h[to - 1] = g[to - 1]
  BY <1>3, SumsAgree
<1>5. h[to] = h[to - 1] + row[to]
  BY <1>1 DEF Sums
<1> QED BY <1>1, <1>2, <1>4, <1>5

LEMMA SumOfNone ==
  ASSUME NEW row, NEW from \in Nat
  PROVE  SumOf(row, from, from - 1) = 0
BY DEF SumOf

-----------------------------------------------------------------------------
(* Rows of plants, and a row with one plant more.                           *)
Row(row) ==
  /\ Len(row) \in Nat /\ DOMAIN row = 1..Len(row)
  /\ \A k \in 1..Len(row) : row[k] \in Nat
Grown(row, longer) ==
  /\ Row(row) /\ Row(longer) /\ Len(longer) = Len(row) + 1
  /\ \A k \in 1..Len(row) : longer[k] = row[k]

(* What has been taken from the can since stop i, up to plant j.            *)
Taken(row, i, j) == SumOf(row, IF i = 0 THEN 1 ELSE i, j)

Latest(stops, i) == i \in {0} \cup stops /\ \A s \in stops : s <= i

LEMMA TakenType ==
  ASSUME NEW row, Row(row), NEW i \in Nat, NEW j \in Nat, i <= j, j <= Len(row)
  PROVE  Taken(row, i, j) \in Nat
<1> DEFINE from == IF i = 0 THEN 1 ELSE i
           T == {u \in Nat : from - 1 + u <= j /\ SumOf(row, from, from - 1 + u) \notin Nat}
<1>1. from \in Nat /\ from >= 1 /\ from - 1 <= j
  OBVIOUS
<1> HIDE DEF from
<1>2. T = {}
  <2> SUFFICES ASSUME T # {} PROVE FALSE
    OBVIOUS
  <2>1. PICK u \in T : \A y \in T : u <= y
    BY Least
  <2>2. u \in Nat /\ from - 1 + u <= j /\ SumOf(row, from, from - 1 + u) \notin Nat
    OBVIOUS
  <2>3. CASE u = 0
    <3>1. from - 1 + u = from - 1
      BY <1>1, <2>3
    <3> QED BY <1>1, <2>2, <3>1, SumOfNone
  <2>4. CASE u # 0
    <3> DEFINE to == from - 1 + u
    <3>1. /\ u - 1 \in Nat /\ ~(u <= u - 1) /\ from - 1 + (u - 1) = to - 1 /\ to - 1 <= j
          /\ to \in Int /\ to >= from /\ to \in 1..Len(row)
      BY <1>1, <2>2, <2>4 DEF Row
    <3>2. SumOf(row, from, to - 1) \in Nat
      <4>1. u - 1 \notin T
        BY <2>1, <3>1
      <4> HIDE DEF to
      <4> QED BY <3>1, <4>1
    <3>3. SumOf(row, from, to) \notin Nat
      BY <2>2
    <3> HIDE DEF to, T
    <3>4. SumOf(row, from, to) = SumOf(row, from, to - 1) + row[to]
      BY <1>1, <3>1, SumOfStep
    <3>5. row[to] \in Nat
      BY <3>1 DEF Row
    <3> QED BY <3>2, <3>3, <3>4, <3>5
  <2> QED BY <2>3, <2>4
<1>3. j - (from - 1) \in Nat /\ from - 1 + (j - (from - 1)) = j
  BY <1>1
<1>4. SumOf(row, from, j) \in Nat
  <2> DEFINE x == j - (from - 1)
  <2>1. x \in Nat /\ from - 1 + x = j
    BY <1>3
  <2> HIDE DEF x
  <2> QED BY <1>2, <2>1
<1> QED BY <1>4 DEF Taken, from

LEMMA TakenSame ==
  ASSUME NEW row, NEW longer, Grown(row, longer), NEW i \in Nat, NEW j \in Nat, i <= j, j <= Len(row)
  PROVE  Taken(longer, i, j) = Taken(row, i, j)
<1> DEFINE from == IF i = 0 THEN 1 ELSE i
<1>1. from \in Nat /\ from >= 1 /\ j \in Int /\ j >= from - 1
  OBVIOUS
<1> HIDE DEF from
<1>2. \A k \in from..j : longer[k] = row[k]
  BY <1>1 DEF Grown, Row
<1>3. SumOf(longer, from, j) = SumOf(row, from, j)
  BY <1>1, <1>2, SumOfSame
<1> QED BY <1>3 DEF Taken, from

(* The last plant takes its need, from a can filled before or just now.     *)
LEMMA TakenMore ==
  ASSUME NEW row, NEW longer, Grown(row, longer), NEW i \in Nat, i <= Len(row)
  PROVE  /\ Taken(longer, i, Len(longer)) = Taken(row, i, Len(row)) + longer[Len(longer)]
         /\ Taken(longer, Len(longer), Len(longer)) = longer[Len(longer)]
<1> DEFINE from == IF i = 0 THEN 1 ELSE i
           n == Len(longer)
<1>1. /\ from \in Nat /\ n \in Nat /\ n >= 1 /\ n - 1 = Len(row) /\ n >= from /\ longer[n] \in Nat
      /\ i <= n - 1 /\ n - 1 <= Len(row) /\ n - 1 \in Nat
  BY DEF Grown, Row
<1> HIDE DEF from, n
<1>2. SumOf(longer, from, n) = SumOf(longer, from, n - 1) + longer[n]
  BY <1>1, SumOfStep
<1>3. Taken(longer, i, n - 1) = Taken(row, i, n - 1)
  BY <1>1, TakenSame
<1>4. SumOf(longer, n, n) = SumOf(longer, n, n - 1) + longer[n] /\ SumOf(longer, n, n - 1) = 0
  BY <1>1, SumOfStep, SumOfNone
<1>5. Taken(longer, i, n) = Taken(row, i, n - 1) + longer[n]
  BY <1>2, <1>3 DEF Taken, from
<1>6. Taken(longer, n, n) = longer[n]
  BY <1>1, <1>4 DEF Taken
<1> QED BY <1>1, <1>5, <1>6 DEF n

LEMMA LatestExists ==
  ASSUME NEW n \in Nat, NEW stops \in SUBSET (1..n)
  PROVE  \E i \in 0..n : Latest(stops, i)
<1> DEFINE T == {u \in Nat : \A s \in stops : s <= u}
<1>1. n \in T
  OBVIOUS
<1>2. PICK u \in T : \A y \in T : u <= y
  BY <1>1, Least
<1>3. u \in 0..n /\ \A s \in stops : s <= u
  BY <1>1, <1>2
<1>4. ASSUME u # 0, u \notin stops PROVE FALSE
  <2>1. u - 1 \in Nat /\ ~(u <= u - 1)
    BY <1>3, <1>4
  <2>2. \A s \in stops : s <= u - 1
    <3> TAKE s \in stops
    <3>1. s \in Nat /\ s <= u /\ s # u
      BY <1>3, <1>4
    <3> QED BY <1>3, <3>1
  <2> QED BY <1>2, <2>1, <2>2
<1>5. Latest(stops, u)
  BY <1>3, <1>4 DEF Latest
<1> QED BY <1>3, <1>5

(* Between i and j nobody refills.                                          *)
Free(stops, i, j) == i <= j /\ \A s \in stops : ~(i < s /\ s <= j)

LEMMA PlanMeans ==
  ASSUME NEW row, NEW capacity, NEW stops
  PROVE  Plan(row, capacity, stops) <=>
           \A i \in {0} \cup stops : \A j \in DOMAIN row : Free(stops, i, j) => Taken(row, i, j) <= capacity
BY Zenon DEF Plan, Free, Taken

(* A plan for the longer row is one for the shorter.                        *)
LEMMA PlanShrinks ==
  ASSUME NEW row, NEW longer, Grown(row, longer), NEW capacity, NEW stops \in SUBSET (DOMAIN longer),
         Plan(longer, capacity, stops)
  PROVE  Plan(row, capacity, stops \ {Len(longer)})
<1> DEFINE S == stops \ {Len(longer)}
<1>1. /\ DOMAIN row = 1..Len(row) /\ DOMAIN longer = 1..Len(longer) /\ Len(row) \in Nat
      /\ Len(longer) = Len(row) + 1
  BY DEF Grown, Row
<1>2. S \subseteq 1..Len(row)
  BY <1>1
<1>3. ASSUME NEW i \in {0} \cup S, NEW j \in DOMAIN row, Free(S, i, j) PROVE Taken(row, i, j) <= capacity
  <2>1. i \in Nat /\ j \in Nat /\ i <= j /\ j <= Len(row) /\ j \in DOMAIN longer /\ i \in {0} \cup stops
    BY <1>1, <1>2, <1>3 DEF Free
  <2>2. Free(stops, i, j)
    BY <1>1, <1>3, <2>1 DEF Free
  <2>3. Taken(longer, i, j) <= capacity
    BY <2>1, <2>2, PlanMeans
  <2> QED BY <2>1, <2>3, TakenSame
<1> HIDE DEF S
<1>4. Plan(row, capacity, S)
  BY <1>3, PlanMeans
<1> QED BY <1>4 DEF S

(* A plan for the shorter row will do for the longer, if the can holds out  *)
(* or with a refill for the last plant.                                     *)
LEMMA PlanGoesOn ==
  ASSUME NEW row, NEW longer, Grown(row, longer), NEW capacity, NEW stops \in SUBSET (DOMAIN row),
         Plan(row, capacity, stops), NEW i, Latest(stops, i), Taken(longer, i, Len(longer)) <= capacity
  PROVE  Plan(longer, capacity, stops)
<1>1. /\ DOMAIN row = 1..Len(row) /\ DOMAIN longer = 1..Len(longer) /\ Len(row) \in Nat
      /\ Len(longer) = Len(row) + 1
  BY DEF Grown, Row
<1>2. stops \subseteq 1..Len(row)
  BY <1>1
<1>3. ASSUME NEW k \in {0} \cup stops, NEW j \in DOMAIN longer, Free(stops, k, j) PROVE Taken(longer, k, j) <= capacity
  <2>1. CASE j \in DOMAIN row
    <3>1. k \in Nat /\ j \in Nat /\ k <= j /\ j <= Len(row)
      BY <1>1, <1>2, <1>3, <2>1 DEF Free
    <3>2. Taken(row, k, j) <= capacity
      BY <1>3, <2>1, PlanMeans
    <3> QED BY <3>1, <3>2, TakenSame
  <2>2. CASE j = Len(longer)
    <3>1. \A s \in stops : s <= k
      <4> TAKE s \in stops
      <4>1. s \in Nat /\ s <= j /\ k \in Nat
        BY <1>1, <1>2, <2>2
      <4>2. ~(k < s /\ s <= j)
        BY <1>3 DEF Free
      <4> QED BY <4>1, <4>2
    <3>2. k = i
      <4>1. i \in {0} \cup stops /\ \A s \in stops : s <= i
        BY DEF Latest
      <4> QED BY <1>2, <3>1, <4>1
    <3> QED BY <2>2, <3>2
  <2> QED BY <1>1, <2>1, <2>2
<1> QED BY <1>3, PlanMeans

LEMMA PlanRefills ==
  ASSUME NEW row, NEW longer, Grown(row, longer), NEW capacity \in Nat, NEW stops \in SUBSET (DOMAIN row),
         Plan(row, capacity, stops), longer[Len(longer)] <= capacity
  PROVE  Plan(longer, capacity, stops \cup {Len(longer)})
<1> DEFINE n == Len(longer)
           S == stops \cup {n}
<1>1. /\ DOMAIN row = 1..Len(row) /\ DOMAIN longer = 1..n /\ Len(row) \in Nat
      /\ n = Len(row) + 1 /\ Row(row)
  BY DEF Grown, Row
<1>2. stops \subseteq 1..Len(row)
  BY <1>1
<1> HIDE DEF n
<1>3. ASSUME NEW k \in {0} \cup S, NEW j \in DOMAIN longer, Free(S, k, j) PROVE Taken(longer, k, j) <= capacity
  <2>1. CASE j \in DOMAIN row
    <3>1. k \in Nat /\ j \in Nat /\ k <= j /\ j <= Len(row) /\ k \in {0} \cup stops
      BY <1>1, <1>2, <1>3, <2>1 DEF Free
    <3>2. Free(stops, k, j)
      BY <1>3 DEF Free
    <3>3. Taken(row, k, j) <= capacity
      BY <2>1, <3>1, <3>2, PlanMeans
    <3> QED BY <3>1, <3>3, TakenSame
  <2>2. CASE j = n
    <3>1. k = n
      <4>1. ~(k < n /\ n <= j) /\ k <= j /\ k \in Int
        BY <1>1, <1>2, <1>3 DEF Free
      <4> QED BY <1>1, <2>2, <4>1
    <3>2. 0 \in Nat /\ 0 <= Len(row)
      BY <1>1
    <3>3. Taken(longer, n, n) = longer[n]
      BY <3>2, TakenMore DEF n
    <3> QED BY <2>2, <3>1, <3>3 DEF n
  <2> QED BY <1>1, <2>1, <2>2
<1> HIDE DEF S
<1>4. Plan(longer, capacity, S)
  BY <1>3, PlanMeans
<1> QED BY <1>4 DEF S, n

(* The greedy gardener: some plan has as few refills and leaves as much, no *)
(* plan has fewer, and none with as few leaves more in the can.             *)
Reached(row, capacity, v, r) ==
  \E stops \in SUBSET (DOMAIN row) :
    /\ Plan(row, capacity, stops) /\ Cardinality(stops) = r
    /\ \E i \in Nat : Latest(stops, i) /\ i <= Len(row) /\ v + Taken(row, i, Len(row)) = capacity

NoBetter(row, capacity, v, r) ==
  \A stops \in SUBSET (DOMAIN row) : Plan(row, capacity, stops) =>
    /\ Cardinality(stops) >= r
    /\ Cardinality(stops) = r => \A i : Latest(stops, i) => capacity <= v + Taken(row, i, Len(row))

Best(row, capacity, v, r) ==
  /\ v \in Nat /\ r \in Nat /\ capacity \in Nat /\ v <= capacity /\ Row(row)
  /\ Reached(row, capacity, v, r) /\ NoBetter(row, capacity, v, r)

(* One plant more.                                                          *)
Watered(row, longer, capacity, v, r) ==
  /\ Grown(row, longer) /\ Best(row, capacity, v, r) /\ longer[Len(longer)] <= capacity

LEMMA StopsAreFinite ==
  ASSUME NEW row, Row(row), NEW stops \in SUBSET (DOMAIN row)
  PROVE  IsFiniteSet(stops) /\ Cardinality(stops) \in Nat
<1> DEFINE n == Len(row)
<1>1. n \in Int /\ 1 \in Int /\ stops \in SUBSET (1..n)
  BY DEF Row
<1> HIDE DEF n
<1>2. IsFiniteSet(1..n)
  BY <1>1, FS_Interval
<1>3. IsFiniteSet(stops)
  BY <1>1, <1>2, FS_Subset
<1> QED BY <1>3, FS_CardinalityType

LEMMA ReachedGrows ==
  ASSUME NEW row, NEW longer, NEW capacity, NEW v, NEW r, Watered(row, longer, capacity, v, r)
  PROVE  LET d == longer[Len(longer)] IN Reached(longer, capacity, Level(v, d, capacity), r + Refill(v, d))
<1> DEFINE N == Len(longer)
           d == longer[N]
           n == Len(row)
<1>1. /\ Grown(row, longer) /\ Row(row) /\ Row(longer) /\ n \in Nat /\ N = n + 1 /\ d \in Nat /\ d <= capacity
      /\ v \in Nat /\ r \in Nat /\ capacity \in Nat /\ DOMAIN row = 1..n /\ DOMAIN longer = 1..N
  BY DEF Watered, Best, Grown, Row
<1>2. PICK stops \in SUBSET (DOMAIN row) :
        /\ Plan(row, capacity, stops) /\ Cardinality(stops) = r
        /\ \E i \in Nat : Latest(stops, i) /\ i <= n /\ v + Taken(row, i, n) = capacity
  BY Zenon DEF Watered, Best, Reached
<1>3. PICK i \in Nat : Latest(stops, i) /\ i <= n /\ v + Taken(row, i, n) = capacity
  BY <1>2
<1>4. /\ Taken(longer, i, N) = Taken(row, i, n) + d /\ Taken(longer, N, N) = d /\ Taken(row, i, n) \in Nat
  <2>1. i \in Nat /\ i <= Len(row) /\ Len(row) \in Nat /\ Len(row) <= Len(row)
    BY <1>1, <1>3
  <2>2. Taken(row, i, Len(row)) \in Nat
    BY <1>1, <2>1, TakenType
  <2> QED BY <1>1, <2>1, <2>2, TakenMore
<1> HIDE DEF N, d, n
<1>5. CASE v < d
  <2> DEFINE more == stops \cup {N}
  <2>1. Plan(longer, capacity, more)
    BY <1>1, <1>2, PlanRefills DEF N, d
  <2>2. Cardinality(more) = r + 1
    <3>1. N \notin stops
      BY <1>1
    <3> QED BY <1>1, <1>2, <3>1, StopsAreFinite, FS_AddElement
  <2>3. Latest(more, N) /\ N \in Nat /\ N <= N
    BY <1>1 DEF Latest
  <2>4. more \in SUBSET (DOMAIN longer)
    BY <1>1
  <2>5. Level(v, d, capacity) = capacity - d /\ Refill(v, d) = 1 /\ (capacity - d) + d = capacity
    BY <1>1, <1>5 DEF Level, Refill
  <2> HIDE DEF more
  <2>6. Reached(longer, capacity, Level(v, d, capacity), r + Refill(v, d))
    BY <1>4, <2>1, <2>2, <2>3, <2>4, <2>5 DEF Reached, N
  <2> QED BY <2>6 DEF d, N
<1>6. CASE v >= d
  <2> DEFINE t == Taken(row, i, n)
  <2>1. Taken(longer, i, N) <= capacity /\ (v - d) + Taken(longer, i, N) = capacity
    <3>1. t \in Nat /\ v + t = capacity /\ Taken(longer, i, N) = t + d
      BY <1>3, <1>4
    <3> HIDE DEF t
    <3> QED BY <1>1, <1>6, <3>1
  <2>2. Plan(longer, capacity, stops)
    BY <1>1, <1>2, <1>3, <2>1, PlanGoesOn DEF N
  <2>3. stops \in SUBSET (DOMAIN longer) /\ i <= N
    BY <1>1, <1>3
  <2>4. Level(v, d, capacity) = v - d /\ Refill(v, d) = 0 /\ r + 0 = r
    BY <1>1, <1>6 DEF Level, Refill
  <2>5. Reached(longer, capacity, Level(v, d, capacity), r + Refill(v, d))
    BY <1>2, <1>3, <2>1, <2>2, <2>3, <2>4 DEF Reached, N
  <2> QED BY <2>5 DEF d, N
<1> QED BY <1>1, <1>5, <1>6

LEMMA NoBetterGrows ==
  ASSUME NEW row, NEW longer, NEW capacity, NEW v, NEW r, Watered(row, longer, capacity, v, r)
  PROVE  LET d == longer[Len(longer)] IN NoBetter(longer, capacity, Level(v, d, capacity), r + Refill(v, d))
<1> DEFINE N == Len(longer)
           d == longer[N]
           n == Len(row)
           v1 == Level(v, d, capacity)
           r1 == r + Refill(v, d)
<1>1. /\ Grown(row, longer) /\ Row(row) /\ Row(longer) /\ n \in Nat /\ N = n + 1 /\ d \in Nat /\ d <= capacity
      /\ v \in Nat /\ r \in Nat /\ capacity \in Nat /\ DOMAIN row = 1..n /\ DOMAIN longer = 1..N
  BY DEF Watered, Best, Grown, Row
<1>2. (v < d /\ v1 = capacity - d /\ r1 = r + 1) \/ (v >= d /\ v1 = v - d /\ r1 = r)
  BY <1>1 DEF Level, Refill
<1>3. NoBetter(row, capacity, v, r)
  BY DEF Watered, Best
<1> HIDE DEF N, d, n, v1, r1
<1>4. SUFFICES ASSUME NEW stops \in SUBSET (DOMAIN longer), Plan(longer, capacity, stops)
               PROVE  /\ Cardinality(stops) >= r1
                      /\ Cardinality(stops) = r1 => \A i : Latest(stops, i) => capacity <= v1 + Taken(longer, i, N)
  BY DEF NoBetter, N, d, v1, r1
<1> DEFINE fewer == stops \ {N}
<1>5. Plan(row, capacity, fewer)
  BY <1>1, <1>4, PlanShrinks DEF N
<1>6. fewer \in SUBSET (DOMAIN row)
  BY <1>1
<1>7. IsFiniteSet(stops) /\ Cardinality(stops) \in Nat
  BY <1>1, StopsAreFinite
<1>8. /\ IsFiniteSet(fewer) /\ Cardinality(fewer) \in Nat
      /\ Cardinality(fewer) = IF N \in stops THEN Cardinality(stops) - 1 ELSE Cardinality(stops)
  BY <1>1, <1>6, <1>7, StopsAreFinite, FS_RemoveElement
<1>9. /\ Cardinality(fewer) >= r
      /\ Cardinality(fewer) = r => \A i : Latest(fewer, i) => capacity <= v + Taken(row, i, n)
  BY <1>3, <1>5, <1>6 DEF NoBetter, n
<1>10. CASE N \in stops
  <2>1. ASSUME NEW i, Latest(stops, i) PROVE i = N
    <3>1. i \in 0..N /\ N <= i
      BY <1>1, <1>10, <2>1 DEF Latest
    <3> QED BY <1>1, <3>1
  <2>2. 0 \in Nat /\ 0 <= Len(row)
    BY <1>1 DEF n
  <2>3. Taken(longer, N, N) = d
    BY <1>1, <2>2, TakenMore DEF N, d
  <2>4. Cardinality(stops) >= r + 1
    BY <1>1, <1>7, <1>8, <1>9, <1>10
  <2>5. Cardinality(stops) >= r1
    BY <1>1, <1>2, <1>7, <2>4
  <2>6. Cardinality(stops) = r1 => v1 = capacity - d
    BY <1>1, <1>2, <1>7, <2>4
  <2>7. (capacity - d) + d = capacity
    BY <1>1
  <2>8. ASSUME Cardinality(stops) = r1, NEW i, Latest(stops, i) PROVE capacity <= v1 + Taken(longer, i, N)
    BY <1>1, <2>1, <2>3, <2>6, <2>7, <2>8
  <2> QED BY <2>5, <2>8
<1>11. CASE N \notin stops
  <2>1. fewer = stops
    BY <1>11
  <2>2. ASSUME NEW i, Latest(stops, i)
        PROVE  /\ i \in Nat /\ i <= n /\ Taken(row, i, n) \in Nat
               /\ Taken(longer, i, N) = Taken(row, i, n) + d /\ Taken(longer, i, N) <= capacity
    <3>1. i \in {0} \cup stops /\ \A s \in stops : s <= i
      BY <2>2 DEF Latest
    <3>2. i \in Nat /\ i <= n /\ i <= N
      BY <1>1, <1>11, <3>1
    <3>3. Free(stops, i, N)
      <4>1. \A s \in stops : ~(i < s)
        BY <1>1, <3>1, <3>2
      <4> QED BY <3>2, <4>1 DEF Free
    <3>4. N \in DOMAIN longer
      BY <1>1
    <3>5. Taken(longer, i, N) <= capacity
      BY <1>4, <3>1, <3>3, <3>4, PlanMeans
    <3>6. Taken(row, i, n) \in Nat
      BY <1>1, <3>2, TakenType DEF n
    <3>7. Taken(longer, i, N) = Taken(row, i, n) + d
      BY <1>1, <3>2, TakenMore DEF n, N, d
    <3> QED BY <3>2, <3>5, <3>6, <3>7
  <2>3. CASE Cardinality(stops) = r
    <3>1. ASSUME NEW i, Latest(stops, i) PROVE v >= d /\ capacity <= (v - d) + Taken(longer, i, N)
      <4> DEFINE t == Taken(row, i, n)
                 x == Taken(longer, i, N)
      <4>1. t \in Nat /\ x = t + d /\ x <= capacity /\ capacity <= v + t
        BY <1>9, <2>1, <2>2, <2>3, <3>1
      <4> HIDE DEF t, x
      <4>2. v >= d /\ capacity <= (v - d) + x
        BY <1>1, <4>1
      <4> QED BY <4>2 DEF x
    <3>2. \E i : Latest(stops, i)
      <4>1. n \in Nat /\ stops \in SUBSET (1..n)
        BY <1>1, <1>6, <2>1
      <4> QED BY <4>1, LatestExists
    <3>3. v >= d
      BY <3>1, <3>2
    <3>4. v1 = v - d /\ r1 = r
      BY <1>1, <1>2, <3>3
    <3> QED BY <1>1, <2>3, <3>1, <3>4
  <2>4. CASE Cardinality(stops) # r
    <3>1. Cardinality(stops) >= r + 1
      <4> DEFINE many == Cardinality(stops)
      <4>1. many \in Nat /\ many >= r /\ many # r
        BY <1>7, <1>9, <2>1, <2>4
      <4> HIDE DEF many
      <4>2. many >= r + 1
        BY <1>1, <4>1
      <4> QED BY <4>2 DEF many
    <3>2. Cardinality(stops) >= r1 /\ (Cardinality(stops) = r1 => v1 = capacity - d)
      BY <1>1, <1>2, <1>7, <3>1
    <3>3. ASSUME v1 = capacity - d, NEW i, Latest(stops, i) PROVE capacity <= v1 + Taken(longer, i, N)
      <4> DEFINE t == Taken(row, i, n)
                 x == Taken(longer, i, N)
      <4>1. t \in Nat /\ x = t + d
        BY <2>2, <3>3
      <4> HIDE DEF t, x
      <4>2. capacity <= (capacity - d) + x
        BY <1>1, <4>1
      <4> QED BY <3>3, <4>2 DEF x
    <3> QED BY <3>2, <3>3
  <2> QED BY <2>3, <2>4
<1> QED BY <1>10, <1>11

LEMMA BestGrows ==
  ASSUME NEW row, NEW longer, NEW capacity, NEW v, NEW r, Watered(row, longer, capacity, v, r)
  PROVE  LET d == longer[Len(longer)] IN Best(longer, capacity, Level(v, d, capacity), r + Refill(v, d))
<1> DEFINE d == longer[Len(longer)]
<1>1. /\ Row(longer) /\ d \in Nat /\ d <= capacity /\ v \in Nat /\ v <= capacity /\ r \in Nat /\ capacity \in Nat
  BY DEF Watered, Best, Grown, Row
<1>2. Reached(longer, capacity, Level(v, d, capacity), r + Refill(v, d))
  BY ReachedGrows
<1>3. NoBetter(longer, capacity, Level(v, d, capacity), r + Refill(v, d))
  BY NoBetterGrows
<1> HIDE DEF d
<1>4. Level(v, d, capacity) \in Nat /\ Level(v, d, capacity) <= capacity /\ r + Refill(v, d) \in Nat
  BY <1>1 DEF Level, Refill
<1>5. Best(longer, capacity, Level(v, d, capacity), r + Refill(v, d))
  BY <1>1, <1>2, <1>3, <1>4 DEF Best
<1> QED BY <1>5 DEF d

(* Nothing watered, nothing refilled.                                       *)
LEMMA BestBegins ==
  ASSUME NEW row, Row(row), Len(row) = 0, NEW capacity \in Nat
  PROVE  Best(row, capacity, capacity, 0)
<1>1. DOMAIN row = {} /\ Taken(row, 0, 0) = 0
  <2>1. SumOf(row, 1, 0) = 0
    BY DEF SumOf
  <2> QED BY <2>1 DEF Row, Taken
<1>2. Plan(row, capacity, {}) /\ Cardinality({}) = 0
  BY <1>1, FS_EmptySet DEF Plan
<1>3. Latest({}, 0) /\ \A i : Latest({}, i) => i = 0
  BY DEF Latest
<1>4. Reached(row, capacity, capacity, 0)
  <2>1. capacity + 0 = capacity /\ 0 \in Nat /\ 0 <= Len(row)
    OBVIOUS
  <2>2. \E i \in Nat : Latest({}, i) /\ i <= Len(row) /\ capacity + Taken(row, i, Len(row)) = capacity
    BY <1>1, <1>3, <2>1
  <2>3. {} \in SUBSET (DOMAIN row)
    OBVIOUS
  <2> QED BY <1>2, <2>2, <2>3 DEF Reached
<1>5. NoBetter(row, capacity, capacity, 0)
  <2> SUFFICES ASSUME NEW stops \in SUBSET (DOMAIN row)
               PROVE  /\ Cardinality(stops) >= 0
                      /\ \A i : Latest(stops, i) => capacity <= capacity + Taken(row, i, Len(row))
    BY DEF NoBetter
  <2>1. stops = {}
    BY <1>1
  <2>2. ASSUME NEW i, Latest(stops, i) PROVE capacity <= capacity + Taken(row, i, Len(row))
    <3>1. Taken(row, i, Len(row)) = 0
      BY <1>1, <1>3, <2>1, <2>2
    <3> QED BY <3>1
  <2> QED BY <1>2, <2>1, <2>2
<1> QED BY <1>4, <1>5 DEF Best

(* What the greedy gardener does is the least there is.                     *)
LEMMA BestIsFewest ==
  ASSUME NEW row, NEW capacity, NEW v, NEW r, Best(row, capacity, v, r)
  PROVE  FewestRefills(row, capacity) = r
<1> DEFINE T == {Cardinality(stops) : stops \in {S \in SUBSET (DOMAIN row) : Plan(row, capacity, S)}}
<1>1. r \in T
  BY Zenon DEF Best, Reached
<1>2. \A y \in T : r <= y
  <2> TAKE y \in T
  <2>1. PICK stops \in SUBSET (DOMAIN row) : Plan(row, capacity, stops) /\ y = Cardinality(stops)
    BY Zenon
  <2>2. Cardinality(stops) >= r
    BY <2>1 DEF Best, NoBetter
  <2>3. Cardinality(stops) \in Nat /\ r \in Nat
    BY StopsAreFinite DEF Best
  <2> QED BY <2>1, <2>2, <2>3
<1>3. T \subseteq Int /\ r \in Int
  BY StopsAreFinite DEF Best
<1>4. FewestRefills(row, capacity) = Sets!Min(T)
  BY Zenon DEF FewestRefills
<1> HIDE DEF T
<1>5. Sets!Min(T) = r
  <2>1. \A x \in T : (\A y \in T : x <= y) => x = r
    <3> TAKE x \in T
    <3>1. HAVE \A y \in T : x <= y
    <3>2. x <= r /\ r <= x /\ x \in Int
      BY <1>1, <1>2, <1>3, <3>1
    <3> QED BY <1>3, <3>2
  <2> QED BY <1>1, <1>2, <2>1 DEF Sets!Min
<1> QED BY <1>4, <1>5

LEMMA SharesAreRows ==
  ASSUME plants \in Seq(Nat), NEW n \in 0..Len(plants)
  PROVE  /\ Row(AlicesShare(n)) /\ Len(AlicesShare(n)) = n /\ \A i \in 1..n : AlicesShare(n)[i] = plants[i]
         /\ Row(BobsShare(n)) /\ Len(BobsShare(n)) = Len(plants) - n
         /\ \A i \in 1..(Len(plants) - n) : BobsShare(n)[i] = plants[Len(plants) + 1 - i]
<1>1. Len(plants) \in Nat /\ n \in Nat /\ n <= Len(plants) /\ \A i \in 1..Len(plants) : plants[i] \in Nat
  OBVIOUS
<1>2. AlicesShare(n) = [i \in 1..n |-> plants[i]]
  BY <1>1 DEF AlicesShare
<1>3. /\ Len(AlicesShare(n)) = n /\ DOMAIN AlicesShare(n) = 1..n
      /\ \A i \in 1..n : AlicesShare(n)[i] = plants[i] /\ plants[i] \in Nat
  BY <1>1, <1>2
<1> DEFINE rest == Len(plants) - n
<1>4. rest \in Nat /\ \A i \in 1..rest : Len(plants) + 1 - i \in 1..Len(plants)
  BY <1>1
<1>5. BobsShare(n) = [i \in 1..rest |-> plants[Len(plants) + 1 - i]]
  BY DEF BobsShare
<1> HIDE DEF rest
<1>6. /\ Len(BobsShare(n)) = rest /\ DOMAIN BobsShare(n) = 1..rest
      /\ \A i \in 1..rest : BobsShare(n)[i] = plants[Len(plants) + 1 - i] /\ plants[Len(plants) + 1 - i] \in Nat
  BY <1>1, <1>4, <1>5
<1>7. Row(AlicesShare(n))
  BY <1>1, <1>3 DEF Row
<1>8. Row(BobsShare(n))
  BY <1>4, <1>6 DEF Row
<1> QED BY <1>3, <1>6, <1>7, <1>8 DEF rest

LEMMA SharesGrow ==
  ASSUME plants \in Seq(Nat), NEW k \in 1..Len(plants)
  PROVE  /\ Grown(AlicesShare(k - 1), AlicesShare(k)) /\ AlicesShare(k)[Len(AlicesShare(k))] = plants[k]
         /\ Grown(BobsShare(k), BobsShare(k - 1)) /\ BobsShare(k - 1)[Len(BobsShare(k - 1))] = plants[k]
<1> DEFINE p == k - 1
           L == Len(plants)
<1>1. L \in Nat /\ p \in 0..L /\ k \in 0..L /\ p \in Nat /\ k = p + 1 /\ p \in 0..Len(plants) /\ k \in 0..Len(plants)
      /\ k <= L
  OBVIOUS
<1> HIDE DEF p, L
<1>2. /\ Row(AlicesShare(p)) /\ Len(AlicesShare(p)) = p /\ \A i \in 1..p : AlicesShare(p)[i] = plants[i]
      /\ Row(BobsShare(p)) /\ Len(BobsShare(p)) = L - p
      /\ \A i \in 1..(L - p) : BobsShare(p)[i] = plants[L + 1 - i]
  BY <1>1, SharesAreRows DEF L
<1>3. /\ Row(AlicesShare(k)) /\ Len(AlicesShare(k)) = k /\ \A i \in 1..k : AlicesShare(k)[i] = plants[i]
      /\ Row(BobsShare(k)) /\ Len(BobsShare(k)) = L - k
      /\ \A i \in 1..(L - k) : BobsShare(k)[i] = plants[L + 1 - i]
  BY <1>1, SharesAreRows DEF L
<1>4. k \in 1..k /\ \A i \in 1..p : i \in 1..k
  BY <1>1
<1>5. L - p = (L - k) + 1 /\ L - p \in 1..(L - p) /\ L + 1 - (L - p) = k /\ \A i \in 1..(L - k) : i \in 1..(L - p)
  BY <1>1
<1>6. Grown(AlicesShare(p), AlicesShare(k)) /\ AlicesShare(k)[k] = plants[k]
  BY <1>1, <1>2, <1>3, <1>4 DEF Grown
<1>7. Grown(BobsShare(k), BobsShare(p)) /\ BobsShare(p)[L - p] = plants[k]
  BY <1>2, <1>3, <1>5 DEF Grown
<1> QED BY <1>2, <1>3, <1>6, <1>7 DEF p

(* The gardeners' shares so far, each watered as well as can be.            *)
GreedyInv ==
  /\ phase = "loop" =>
       \E a, b : /\ Best(AlicesShare(posa - 1), capacityA, vala, a)
                /\ Best(BobsShare(posb), capacityB, valb, b)
                /\ res = a + b
  /\ phase = "done" => GreedyIsOptimal

(* A plant of the row for whoever comes to it.                              *)
LEMMA PlantWatered ==
  ASSUME WateringInv, NEW k \in 1..Len(plants), NEW v, NEW r
  PROVE  /\ Best(AlicesShare(k - 1), capacityA, v, r) =>
              Best(AlicesShare(k), capacityA, Level(v, plants[k], capacityA), r + Refill(v, plants[k]))
         /\ Best(BobsShare(k), capacityB, v, r) =>
              Best(BobsShare(k - 1), capacityB, Level(v, plants[k], capacityB), r + Refill(v, plants[k]))
<1>1. plants \in Seq(Nat) /\ plants[k] <= capacityA /\ plants[k] <= capacityB
  BY InputAssumption, NeedFits DEF WateringInv, TypeOK
<1>2. /\ Grown(AlicesShare(k - 1), AlicesShare(k)) /\ AlicesShare(k)[Len(AlicesShare(k))] = plants[k]
      /\ Grown(BobsShare(k), BobsShare(k - 1)) /\ BobsShare(k - 1)[Len(BobsShare(k - 1))] = plants[k]
  BY <1>1, SharesGrow
<1>3. ASSUME Best(AlicesShare(k - 1), capacityA, v, r)
      PROVE  Best(AlicesShare(k), capacityA, Level(v, plants[k], capacityA), r + Refill(v, plants[k]))
  <2>1. Watered(AlicesShare(k - 1), AlicesShare(k), capacityA, v, r)
    BY <1>1, <1>2, <1>3 DEF Watered
  <2> QED BY <1>2, <2>1, BestGrows
<1>4. ASSUME Best(BobsShare(k), capacityB, v, r)
      PROVE  Best(BobsShare(k - 1), capacityB, Level(v, plants[k], capacityB), r + Refill(v, plants[k]))
  <2>1. Watered(BobsShare(k), BobsShare(k - 1), capacityB, v, r)
    BY <1>1, <1>2, <1>4 DEF Watered
  <2> QED BY <1>2, <2>1, BestGrows
<1> QED BY <1>3, <1>4

LEMMA MinOfOne == \A x \in Nat : Sets!Min({x}) = x
BY DEF Sets!Min

LEMMA MinOfTwo ==
  ASSUME NEW x \in Nat, NEW y \in Nat
  PROVE  Sets!Min({x, y}) = IF x <= y THEN x ELSE y
<1> DEFINE T == {x, y}
           l == IF x <= y THEN x ELSE y
<1>1. l \in T /\ \A z \in T : l <= z
  OBVIOUS
<1>2. ASSUME NEW z \in T, \A w \in T : z <= w PROVE z = l
  <2>1. z <= l /\ l <= z /\ z \in Nat /\ l \in Nat
    BY <1>1, <1>2
  <2> QED BY <2>1
<1> HIDE DEF T, l
<1>3. Sets!Min(T) = l
  BY <1>1, <1>2 DEF Sets!Min
<1> QED BY <1>3 DEF T, l

LEMMA GreedyBegins == Init => GreedyInv
<1> SUFFICES ASSUME Init PROVE GreedyInv
  OBVIOUS
<1>1. /\ plants \in Seq(Nat) /\ capacityA \in Nat /\ capacityB \in Nat /\ posa = 1 /\ posb = Len(plants)
      /\ vala = capacityA /\ valb = capacityB /\ res = 0 /\ phase = "loop"
  BY InputAssumption DEF Init
<1>2. 0 \in 0..Len(plants) /\ Len(plants) \in 0..Len(plants) /\ Len(plants) - Len(plants) = 0 /\ posa - 1 = 0
  BY <1>1
<1>3. Row(AlicesShare(0)) /\ Len(AlicesShare(0)) = 0 /\ Row(BobsShare(posb)) /\ Len(BobsShare(posb)) = 0
  BY <1>1, <1>2, SharesAreRows
<1>4. Best(AlicesShare(0), capacityA, vala, 0) /\ Best(BobsShare(posb), capacityB, valb, 0)
  BY <1>1, <1>3, BestBegins
<1>5. Best(AlicesShare(posa - 1), capacityA, vala, 0) /\ Best(BobsShare(posb), capacityB, valb, 0) /\ res = 0 + 0
  BY <1>1, <1>2, <1>4
<1> QED BY <1>1, <1>5 DEF GreedyInv

LEMMA GreedyStep == WateringInv /\ GreedyInv /\ [Next]_vars => GreedyInv'
<1> SUFFICES ASSUME WateringInv, GreedyInv, [Next]_vars PROVE GreedyInv'
  OBVIOUS
<1>1. /\ plants \in Seq(Nat) /\ Len(plants) \in Nat /\ posa \in Nat /\ posb \in Nat /\ posa >= 1
      /\ posa + posb = Len(plants) + 1 /\ posa <= posb + 1
  BY InputAssumption DEF WateringInv, TypeOK
<1>2. CASE UNCHANGED vars
  BY <1>2 DEF vars, GreedyInv, GreedyIsOptimal, RefillsOfShares, AlicesShare, BobsShare
<1>3. ASSUME phase = "loop", plants' = plants, capacityA' = capacityA, capacityB' = capacityB PROVE
        \A n : RefillsOfShares(n, n)' = RefillsOfShares(n, n)
  BY <1>3 DEF RefillsOfShares, AlicesShare, BobsShare
<1>4. ASSUME phase = "loop"
      PROVE  \E a, b : /\ Best(AlicesShare(posa - 1), capacityA, vala, a)
                      /\ Best(BobsShare(posb), capacityB, valb, b)
                      /\ res = a + b
  BY Zenon, <1>4 DEF GreedyInv
<1>5. CASE WaterBothEnds
  <2>1. /\ phase = "loop" /\ phase' = "loop" /\ plants' = plants /\ capacityA' = capacityA /\ capacityB' = capacityB
        /\ posa \in 1..Len(plants) /\ posb \in 1..Len(plants) /\ posa' - 1 = posa /\ posb' = posb - 1
        /\ vala' = Level(vala, plants[posa], capacityA) /\ valb' = Level(valb, plants[posb], capacityB)
        /\ res' = res + Refill(vala, plants[posa]) + Refill(valb, plants[posb])
    BY <1>1, <1>5 DEF WaterBothEnds
  <2>2. PICK a, b : /\ Best(AlicesShare(posa - 1), capacityA, vala, a)
                    /\ Best(BobsShare(posb), capacityB, valb, b)
                    /\ res = a + b
    BY <1>4, <2>1
  <2> DEFINE a1 == a + Refill(vala, plants[posa])
             b1 == b + Refill(valb, plants[posb])
  <2>3. Best(AlicesShare(posa), capacityA, vala', a1) /\ Best(BobsShare(posb - 1), capacityB, valb', b1)
    BY <2>1, <2>2, PlantWatered
  <2>4. res' = a1 + b1
    <3>1. a \in Nat /\ b \in Nat /\ Refill(vala, plants[posa]) \in Nat /\ Refill(valb, plants[posb]) \in Nat
      BY <2>2 DEF Best, Refill
    <3> QED BY <2>1, <2>2, <3>1
  <2>5. AlicesShare(posa - 1)' = AlicesShare(posa) /\ BobsShare(posb)' = BobsShare(posb - 1)
    BY <2>1 DEF AlicesShare, BobsShare
  <2> HIDE DEF a1, b1
  <2>6. (\E x, y : /\ Best(AlicesShare(posa - 1), capacityA, vala, x)
                  /\ Best(BobsShare(posb), capacityB, valb, y)
                  /\ res = x + y)'
    BY <2>1, <2>3, <2>4, <2>5
  <2> QED BY <2>1, <2>6 DEF GreedyInv
<1>6. CASE LastPlant
  <2>1. /\ phase = "loop" /\ phase' = "done" /\ plants' = plants /\ capacityA' = capacityA /\ capacityB' = capacityB
        /\ posa \in 1..Len(plants) /\ posb = posa /\ posa' = posa /\ posb' = posa
        /\ res' = IF vala >= valb THEN res + Refill(vala, plants[posa]) ELSE res + Refill(valb, plants[posa])
    BY <1>1, <1>6 DEF LastPlant
  <2>2. PICK a, b : /\ Best(AlicesShare(posa - 1), capacityA, vala, a)
                    /\ Best(BobsShare(posa), capacityB, valb, b)
                    /\ res = a + b
    BY <1>4, <2>1
  <2> DEFINE d == plants[posa]
             x == Refill(vala, d)
             y == Refill(valb, d)
  <2>3. /\ FewestRefills(AlicesShare(posa - 1), capacityA) = a /\ FewestRefills(BobsShare(posa), capacityB) = b
        /\ FewestRefills(AlicesShare(posa), capacityA) = a + x /\ FewestRefills(BobsShare(posa - 1), capacityB) = b + y
    BY <2>1, <2>2, PlantWatered, BestIsFewest
  <2>4. /\ a \in Nat /\ b \in Nat /\ x \in Nat /\ y \in Nat /\ vala \in Nat /\ valb \in Nat
        /\ (vala >= valb => x <= y) /\ (vala < valb => y <= x)
    <3>1. a \in Nat /\ b \in Nat /\ vala \in Nat /\ valb \in Nat
      BY <2>2 DEF Best
    <3>2. d \in Nat
      BY <1>1, <2>1
    <3> HIDE DEF d
    <3> QED BY <3>1, <3>2 DEF Refill
  <2>5. RefillsOfShares(posa, posa) = (a + x) + b /\ RefillsOfShares(posa - 1, posa - 1) = a + (b + y)
    BY <2>3 DEF RefillsOfShares
  <2>6. res' = IF vala >= valb THEN (a + b) + x ELSE (a + b) + y
    BY <2>1, <2>2
  <2> HIDE DEF d, x, y
  <2>7. (a + x) + b \in Nat /\ a + (b + y) \in Nat
    BY <2>4
  <2>8. Sets!Min({a + (b + y), (a + x) + b}) = res'
    BY <2>4, <2>6, <2>7, MinOfTwo
  <2>9. {RefillsOfShares(n, n) : n \in {posa - 1, posa}} = {a + (b + y), (a + x) + b}
    BY <2>5
  <2>10. {RefillsOfShares(n, n)' : n \in {posa - 1, posa}} = {RefillsOfShares(n, n) : n \in {posa - 1, posa}}
    BY <1>3, <2>1
  <2>11. GreedyIsOptimal'
    BY <2>1, <2>8, <2>9, <2>10 DEF GreedyIsOptimal
  <2> QED BY <2>1, <2>11 DEF GreedyInv
<1>7. CASE NoPlantLeft
  <2>1. /\ phase = "loop" /\ phase' = "done" /\ plants' = plants /\ capacityA' = capacityA /\ capacityB' = capacityB
        /\ posa' = posa /\ posb' = posb /\ posb = posa - 1 /\ res' = res
    BY <1>1, <1>7 DEF NoPlantLeft
  <2>2. PICK a, b : /\ Best(AlicesShare(posa - 1), capacityA, vala, a)
                    /\ Best(BobsShare(posb), capacityB, valb, b)
                    /\ res = a + b
    BY <1>4, <2>1
  <2>3. RefillsOfShares(posb, posb) = a + b /\ a + b \in Nat
    BY <2>1, <2>2, BestIsFewest DEF RefillsOfShares, Best
  <2>4. Sets!Min({a + b}) = res'
    BY <2>1, <2>2, <2>3, MinOfOne
  <2>5. {RefillsOfShares(n, n)' : n \in {posa - 1, posb}} = {a + b}
    BY <1>3, <2>1, <2>3
  <2>6. GreedyIsOptimal'
    BY <2>1, <2>4, <2>5 DEF GreedyIsOptimal
  <2> QED BY <2>1, <2>6 DEF GreedyInv
<1> QED BY <1>2, <1>5, <1>6, <1>7 DEF Next

LEMMA GreedyMeans == GreedyInv /\ WateringInv => GreedyIsOptimal
<1> SUFFICES ASSUME GreedyInv, WateringInv PROVE GreedyIsOptimal
  OBVIOUS
<1>1. phase \in {"loop", "done"}
  BY DEF WateringInv, TypeOK
<1>2. CASE phase = "loop"
  <2>1. PICK a, b : /\ Best(AlicesShare(posa - 1), capacityA, vala, a)
                    /\ Best(BobsShare(posb), capacityB, valb, b)
                    /\ res = a + b
    BY Zenon, <1>2 DEF GreedyInv
  <2>2. RefillsOfShares(posa - 1, posb) = res
    BY <2>1, BestIsFewest DEF RefillsOfShares
  <2> QED BY <1>2, <2>2 DEF GreedyIsOptimal
<1> QED BY <1>1, <1>2 DEF GreedyInv
-----------------------------------------------------------------------------
(* The tools around ffmpeg: how far the setup has come, what is held at     *)
(* which point of it, how far the film has come.                            *)
ToolSteps ==
  /\ tool_phase = "setup" => tool_step < Len(Tool!Setup[tool])
  /\ tool_phase \in {"loop", "delete"} => tool_step = Len(Tool!Setup[tool])
  /\ tool_phase = "delete" => tool = "command"

ToolHolds ==
  /\ "file" \in held => (tool = "record" /\ tool_step >= 7) \/ (tool = "film" /\ "output" \in held)
  /\ tool = "film" /\ tool_phase \in {"setup", "loop"} /\ tool_step >= 1 => "output" \in held
  /\ "input" \in held => tool \in {"record", "jpg", "rtsp"}
  /\ tool = "command" /\ tool_phase = "setup" => "directory" \notin held

ToolFilm ==
  /\ tool = "record" /\ tool_step < 8 => film # "headed"
  /\ tool = "record" /\ tool_phase \in {"setup", "loop"} => lost = 0
  /\ tool = "command" => files + left <= MaxImages

ToolsAreTidy == Tool!Closed /\ Tool!TrailerTried /\ Tool!OnePacketLost /\ Tool!NothingTemporary

ToolInv == Tool!TypeOK /\ ToolSteps /\ ToolHolds /\ ToolFilm /\ ToolsAreTidy

(* The calls of each tool, by their place in its setup.                     *)
LEMMA SetupLengths ==
  /\ Len(Tool!Setup["record"]) = 8 /\ Len(Tool!Setup["jpg"]) = 7 /\ Len(Tool!Setup["rtsp"]) = 9
  /\ Len(Tool!Setup["film"]) = 9 /\ Len(Tool!Setup["command"]) = 2
BY DEF Tool!Setup

LEMMA RecordCalls ==
  ASSUME NEW k \in 0..7, NEW call, call = Tool!Setup["record"][k + 1]
  PROVE  /\ (call = "file" <=> k = 6) /\ (call = "header" <=> k = 7) /\ (call = "stream" <=> k = 4)
         /\ call \in {"alloc", "open", "info", "output", "stream", "params", "file", "header"}
<1>1. k = 0 \/ k = 1 \/ k = 2 \/ k = 3 \/ k = 4 \/ k = 5 \/ k = 6 \/ k = 7
  OBVIOUS
<1> QED BY <1>1 DEF Tool!Setup

LEMMA JpgCalls ==
  ASSUME NEW k \in 0..6, NEW call, call = Tool!Setup["jpg"][k + 1]
  PROVE  /\ call \in {"video", "decoder"} => k < 5
         /\ call \in {"alloc", "open", "info", "video", "decoder", "codec", "frame"}
<1>1. k = 0 \/ k = 1 \/ k = 2 \/ k = 3 \/ k = 4 \/ k = 5 \/ k = 6
  OBVIOUS
<1> QED BY <1>1 DEF Tool!Setup

LEMMA RtspCalls ==
  ASSUME NEW k \in 0..8, NEW call, call = Tool!Setup["rtsp"][k + 1]
  PROVE  call \in {"frame", "alloc", "open", "info", "video", "decoder", "codec", "codec_open", "sws"}
<1>1. k = 0 \/ k = 1 \/ k = 2 \/ k = 3 \/ k = 4 \/ k = 5 \/ k = 6 \/ k = 7 \/ k = 8
  OBVIOUS
<1> QED BY <1>1 DEF Tool!Setup

LEMMA FilmCalls ==
  ASSUME NEW k \in 0..8, NEW call, call = Tool!Setup["film"][k + 1]
  PROVE  /\ k = 0 => call = "output"
         /\ call = "file" => k = 5
         /\ call \in {"output", "encoder", "stream", "codec", "codec_open", "file", "header", "frame", "buffer"}
<1>1. k = 0 \/ k = 1 \/ k = 2 \/ k = 3 \/ k = 4 \/ k = 5 \/ k = 6 \/ k = 7 \/ k = 8
  OBVIOUS
<1> QED BY <1>1 DEF Tool!Setup

LEMMA CommandCalls ==
  ASSUME NEW k \in 0..1, NEW call, call = Tool!Setup["command"][k + 1]
  PROVE  call = (IF k = 0 THEN "sort" ELSE "directory")
<1>1. k = 0 \/ k = 1
  OBVIOUS
<1> QED BY <1>1 DEF Tool!Setup

(* What the next call can be.                                               *)
LEMMA NextCalls ==
  ASSUME Tool!TypeOK, ToolSteps, tool_phase = "setup"
  PROVE  /\ tool_step \in Nat /\ tool_step + 1 \in 0..Len(Tool!Setup[tool])
         /\ Len(Tool!Setup[tool]) \in Nat /\ tool \in Tool!Tools
         /\ tool = "record" =>
              /\ tool_step \in 0..7 /\ (Tool!NextCall = "file" <=> tool_step = 6)
              /\ (Tool!NextCall = "header" <=> tool_step = 7) /\ (Tool!NextCall = "stream" <=> tool_step = 4)
              /\ Tool!NextCall \in {"alloc", "open", "info", "output", "stream", "params", "file", "header"}
         /\ tool = "jpg" =>
              /\ Tool!NextCall \in {"video", "decoder"} => tool_step < 5
              /\ Tool!NextCall \in {"alloc", "open", "info", "video", "decoder", "codec", "frame"}
         /\ tool = "rtsp" =>
              Tool!NextCall \in {"frame", "alloc", "open", "info", "video", "decoder", "codec", "codec_open", "sws"}
         /\ tool = "film" =>
              /\ tool_step = 0 => Tool!NextCall = "output"
              /\ Tool!NextCall = "file" => tool_step = 5
              /\ Tool!NextCall \in {"output", "encoder", "stream", "codec", "codec_open", "file", "header", "frame", "buffer"}
         /\ tool = "command" =>
              tool_step \in 0..1 /\ Tool!NextCall = (IF tool_step = 0 THEN "sort" ELSE "directory")
<1>1. tool \in Tool!Tools /\ tool_step \in 0..Len(Tool!Setup[tool]) /\ tool_step < Len(Tool!Setup[tool])
  BY DEF Tool!TypeOK, ToolSteps
<1>2. Len(Tool!Setup[tool]) \in Nat
  BY <1>1, SetupLengths DEF Tool!Tools
<1>3. CASE tool = "record"
  BY <1>1, <1>3, SetupLengths, RecordCalls DEF Tool!NextCall
<1>4. CASE tool = "jpg"
  BY <1>1, <1>4, SetupLengths, JpgCalls DEF Tool!NextCall
<1>5. CASE tool = "rtsp"
  BY <1>1, <1>5, SetupLengths, RtspCalls DEF Tool!NextCall
<1>6. CASE tool = "film"
  BY <1>1, <1>6, SetupLengths, FilmCalls DEF Tool!NextCall
<1>7. CASE tool = "command"
  BY <1>1, <1>7, SetupLengths, CommandCalls DEF Tool!NextCall
<1> QED BY <1>1, <1>2, <1>3, <1>4, <1>5, <1>6, <1>7 DEF Tool!Tools

(* Giving back leaves no file open and no camera.                           *)
LEMMA GivenBack ==
  ASSUME NEW things, Tool!GiveBack(things), tool \in {"record", "jpg", "rtsp", "film"}
  PROVE  \/ tool_phase' = "crashed" /\ tool_result' = tool_result /\ held' = things /\ tool = "film"
         \/ /\ tool_phase' = "returned" /\ tool_result' = "ok" /\ held' \subseteq things
            /\ tool \in {"record", "jpg", "rtsp"} => "input" \notin held'
            /\ tool \in {"record", "film"} => "file" \notin held'
<1>1. CASE tool = "film"
  BY <1>1 DEF Tool!GiveBack, Tool!Crash, Tool!Return
<1>2. CASE tool = "record"
  BY <1>2 DEF Tool!GiveBack, Tool!Crash, Tool!Return
<1>3. CASE tool \in {"jpg", "rtsp"}
  BY <1>3 DEF Tool!GiveBack, Tool!Crash, Tool!Return
<1> QED BY <1>1, <1>2, <1>3

LEMMA SucceedStep ==
  ASSUME Tool!Constants, ToolInv, Tool!Succeed
  PROVE  ToolInv'
<1>0. Tool!TypeOK /\ ToolSteps /\ ToolHolds /\ ToolFilm /\ ToolsAreTidy /\ tool_phase = "setup"
  BY DEF ToolInv, Tool!Succeed
<1>1. /\ held' = (held \cup Tool!Takes(Tool!NextCall)) \ (IF Tool!NextCall = "open" THEN {"options"} ELSE {})
      /\ film' = (IF Tool!NextCall = "file" THEN "open" ELSE IF Tool!NextCall = "header" THEN "headed" ELSE film)
      /\ tool_step' = tool_step + 1
      /\ tool_phase' = (IF tool_step + 1 = Len(Tool!Setup[tool]) THEN "loop" ELSE "setup")
      /\ UNCHANGED <<tool, due, lost, left, files, tool_result>>
  BY DEF Tool!Succeed, Tool!Ready
<1>2. tool_step + 1 \in 0..Len(Tool!Setup[tool]) /\ Len(Tool!Setup[tool]) \in Nat /\ tool_step \in Nat
  BY <1>0, NextCalls
<1>3. Tool!Takes(Tool!NextCall) \subseteq Tool!Resources
  BY DEF Tool!Takes, Tool!Resources
<1>4. Tool!TypeOK'
  <2>1. held' \subseteq Tool!Resources /\ film' \in {"none", "open", "headed", "whole", "spoilt"}
    BY <1>0, <1>1, <1>3 DEF Tool!TypeOK
  <2>2. tool' \in Tool!Tools /\ tool_phase' \in {"setup", "loop", "delete", "returned", "crashed"}
        /\ tool_step' \in 0..Len(Tool!Setup[tool'])
    BY <1>0, <1>1, <1>2 DEF Tool!TypeOK
  <2> QED BY <1>0, <1>1, <2>1, <2>2 DEF Tool!TypeOK
<1>5. ToolSteps'
  BY <1>1, <1>2 DEF ToolSteps
<1>6. ToolHolds'
  <2>1. ASSUME "file" \in held' PROVE (tool = "record" /\ tool_step + 1 >= 7) \/ (tool = "film" /\ "output" \in held')
    <3>1. "file" \in held \/ Tool!NextCall = "file"
      BY <1>1, <2>1 DEF Tool!Takes
    <3>2. CASE "file" \in held
      BY <1>0, <1>1, <1>2, <3>2 DEF ToolHolds
    <3>3. CASE Tool!NextCall = "file"
      <4>1. tool \in {"record", "film"}
        BY <1>0, <3>3, NextCalls DEF Tool!Tools
      <4>2. tool = "record" => tool_step = 6
        BY <1>0, <3>3, NextCalls
      <4>3. tool = "film" => tool_step = 5
        BY <1>0, <3>3, NextCalls
      <4> QED BY <1>0, <1>1, <4>1, <4>2, <4>3 DEF ToolHolds
    <3> QED BY <3>1, <3>2, <3>3
  <2>2. ASSUME tool = "film" PROVE "output" \in held'
    <3>1. CASE tool_step = 0
      BY <1>0, <1>1, <2>2, <3>1, NextCalls DEF Tool!Takes
    <3>2. CASE tool_step # 0
      BY <1>0, <1>1, <1>2, <2>2, <3>2 DEF ToolHolds
    <3> QED BY <3>1, <3>2
  <2>3. ASSUME "input" \in held' PROVE tool \in {"record", "jpg", "rtsp"}
    <3>1. "input" \in held \/ Tool!NextCall \in {"alloc", "open"}
      BY <1>1, <2>3 DEF Tool!Takes
    <3> QED BY <1>0, <3>1, NextCalls DEF ToolHolds, Tool!Tools
  <2>4. ASSUME tool = "command", tool_phase' = "setup" PROVE "directory" \notin held'
    <3>1. tool_step = 0 /\ Tool!NextCall = "sort"
      BY <1>0, <1>1, <2>4, NextCalls, SetupLengths
    <3> QED BY <1>0, <1>1, <2>4, <3>1 DEF ToolHolds, Tool!Takes
  <2> QED BY <1>1, <1>2, <2>1, <2>2, <2>3, <2>4 DEF ToolHolds
<1>7. ToolFilm'
  <2>1. tool = "record" /\ tool_step + 1 < 8 => film' # "headed"
    BY <1>0, <1>1, <1>2, NextCalls DEF ToolFilm
  <2> QED BY <1>0, <1>1, <2>1 DEF ToolFilm
<1>8. ToolsAreTidy'
  BY <1>0, <1>1 DEF ToolsAreTidy, Tool!Closed, Tool!TrailerTried, Tool!OnePacketLost, Tool!NothingTemporary
<1> QED BY <1>4, <1>5, <1>6, <1>7, <1>8 DEF ToolInv

(* What a failure in the setup leaves, tool by tool.                        *)
LEMMA FailsHow ==
  ASSUME Tool!TypeOK, ToolSteps, Tool!FailCall
  PROVE  /\ tool_phase = "setup" /\ tool_step' = tool_step + 1 /\ UNCHANGED <<tool, film, due, lost, left, files>>
         /\ \/ /\ tool_phase' = (IF tool_step + 1 = Len(Tool!Setup[tool]) THEN "loop" ELSE "setup") /\ held' = held
               /\ tool_result' = tool_result /\ tool \in {"record", "rtsp"} /\ (tool = "record" => tool_step = 7)
            \/ /\ tool_phase' = "crashed" /\ tool_result' = tool_result /\ held' \subseteq held /\ tool \in {"film", "command"}
               /\ tool = "film" => ("output" \in held' <=> "output" \in held)
            \/ /\ tool_phase' = "returned" /\ held' \subseteq held
               /\ \/ tool = "record" /\ (tool_result' = "error" \/ (tool_result' = "ok" /\ tool_step = 4)) /\ tool_step # 7
                  \/ tool = "jpg" /\ (tool_result' = "error" \/ (tool_result' = "ok" /\ tool_step < 5))
                  \/ tool = "command" /\ tool_result' = "error" /\ held' = held
                  \/ tool = "rtsp" /\ tool_result' = "ok" /\ "input" \notin held'
                  \/ tool = "film" /\ tool_result' = "ok" /\ "file" \notin held'
<1>1. /\ tool_phase = "setup" /\ tool_step' = tool_step + 1 /\ UNCHANGED <<tool, film, due, lost, left, files>>
      /\ tool \in Tool!Tools /\ Tool!OnFailure(Tool!NextCall) # "never"
  BY DEF Tool!FailCall, Tool!TypeOK
<1> DEFINE things == held \ IF Tool!NextCall = "open" THEN {"input"} ELSE {}
<1>2. /\ Tool!OnFailure(Tool!NextCall) = "ignored" =>
             /\ held' = things /\ tool_phase' = (IF tool_step + 1 = Len(Tool!Setup[tool]) THEN "loop" ELSE "setup")
             /\ tool_result' = tool_result
      /\ Tool!OnFailure(Tool!NextCall) = "goto" => Tool!GiveBack(things)
      /\ Tool!OnFailure(Tool!NextCall) = "return" => tool_phase' = "returned" /\ tool_result' = "error" /\ held' = things
      /\ Tool!OnFailure(Tool!NextCall) = "return last" => tool_phase' = "returned" /\ tool_result' = "ok" /\ held' = things
      /\ Tool!OnFailure(Tool!NextCall) = "throw" => tool_phase' = "crashed" /\ tool_result' = tool_result /\ held' = things
  BY DEF Tool!FailCall, Tool!Ready, Tool!Return, Tool!Crash
<1>3. things \subseteq held /\ (Tool!NextCall # "open" => things = held) /\ ("output" \in things <=> "output" \in held)
  OBVIOUS
<1> HIDE DEF things
<1>4. CASE tool = "record"
  <2>1. Tool!OnFailure(Tool!NextCall) =
          (IF Tool!NextCall = "alloc" THEN "never" ELSE IF Tool!NextCall = "header" THEN "ignored"
           ELSE IF Tool!NextCall = "stream" THEN "return last" ELSE "return")
    BY <1>1, <1>4, NextCalls DEF Tool!OnFailure
  <2> QED BY <1>1, <1>2, <1>3, <1>4, <2>1, NextCalls
<1>5. CASE tool = "jpg"
  <2>1. Tool!OnFailure(Tool!NextCall) =
          (IF Tool!NextCall \in {"alloc", "codec", "frame"} THEN "never"
           ELSE IF Tool!NextCall \in {"video", "decoder"} THEN "return last" ELSE "return")
    BY <1>1, <1>5, NextCalls DEF Tool!OnFailure
  <2> QED BY <1>1, <1>2, <1>3, <1>5, <2>1, NextCalls
<1>6. CASE tool = "rtsp"
  <2>1. Tool!OnFailure(Tool!NextCall) =
          (IF Tool!NextCall \in {"alloc", "codec", "frame"} THEN "never" ELSE IF Tool!NextCall = "sws" THEN "ignored" ELSE "goto")
    BY <1>1, <1>6, NextCalls DEF Tool!OnFailure
  <2> QED BY <1>1, <1>2, <1>3, <1>6, <2>1, GivenBack
<1>7. CASE tool = "film"
  <2>1. Tool!OnFailure(Tool!NextCall) = "goto"
    BY <1>1, <1>7, NextCalls DEF Tool!OnFailure
  <2> QED BY <1>1, <1>2, <1>3, <1>7, <2>1, GivenBack
<1>8. CASE tool = "command"
  <2>1. Tool!OnFailure(Tool!NextCall) = (IF Tool!NextCall = "sort" THEN "throw" ELSE "return") /\ Tool!NextCall # "open"
    BY <1>1, <1>8, NextCalls DEF Tool!OnFailure
  <2> QED BY <1>1, <1>2, <1>3, <1>8, <2>1
<1> QED BY <1>1, <1>4, <1>5, <1>6, <1>7, <1>8 DEF Tool!Tools

LEMMA FailCallStep ==
  ASSUME Tool!Constants, ToolInv, Tool!FailCall
  PROVE  ToolInv'
<1>0. Tool!TypeOK /\ ToolSteps /\ ToolHolds /\ ToolFilm /\ ToolsAreTidy
  BY DEF ToolInv
<1>1. /\ tool_phase = "setup" /\ tool_step' = tool_step + 1 /\ UNCHANGED <<tool, film, due, lost, left, files>>
  BY <1>0, FailsHow
<1>2. /\ tool_phase' \in {"setup", "loop", "returned", "crashed"} /\ held' \subseteq held
      /\ tool_result' \in {tool_result, "ok", "error"}
  BY <1>0, FailsHow
<1>3. tool_step + 1 \in 0..Len(Tool!Setup[tool]) /\ Len(Tool!Setup[tool]) \in Nat /\ tool_step \in Nat
  BY <1>0, <1>1, NextCalls
<1>4. Tool!TypeOK'
  <2>1. held' \subseteq Tool!Resources /\ tool_result' \in {"none", "ok", "error"}
    BY <1>0, <1>2 DEF Tool!TypeOK
  <2>2. tool_step' \in 0..Len(Tool!Setup[tool'])
    BY <1>1, <1>3
  <2> QED BY <1>0, <1>1, <1>2, <2>1, <2>2 DEF Tool!TypeOK
<1>5. ToolSteps'
  <2>1. tool_phase' \in {"setup", "loop"} => tool_phase' = (IF tool_step + 1 = Len(Tool!Setup[tool]) THEN "loop" ELSE "setup")
    BY <1>0, FailsHow
  <2> QED BY <1>1, <1>2, <1>3, <2>1 DEF ToolSteps
<1>6. ToolHolds'
  <2>1. tool = "film" => ("output" \in held' <=> "output" \in held) \/ "file" \notin held'
    BY <1>0, FailsHow
  <2>2. tool = "film" => tool_phase' \in {"returned", "crashed"}
    BY <1>0, FailsHow
  <2>3. tool = "command" => tool_phase' \in {"returned", "crashed"}
    BY <1>0, FailsHow
  <2> QED BY <1>0, <1>1, <1>2, <1>3, <2>1, <2>2, <2>3 DEF ToolHolds
<1>7. ToolFilm'
  BY <1>0, <1>1, <1>3 DEF ToolFilm
<1>8. ToolsAreTidy'
  <2>0. Len(Tool!Setup["record"]) = 8 /\ Len(Tool!Setup["jpg"]) = 7
    BY SetupLengths
  <2>1. Tool!OnePacketLost'
    BY <1>0, <1>1 DEF ToolsAreTidy, Tool!OnePacketLost
  <2>2. Tool!NothingTemporary'
    BY <1>0, <1>1, FailsHow DEF ToolHolds, Tool!NothingTemporary
  <2>3. ASSUME tool_phase' = "returned"
        PROVE  /\ "file" \notin held'
               /\ tool = "rtsp" \/ (tool_step + 1 = Len(Tool!Setup[tool]) /\ tool_result' = "ok") => "input" \notin held'
               /\ tool = "record" /\ tool_result' = "ok" => film # "headed"
    <3>1. CASE tool = "record"
      <4>1. (tool_result' = "error" \/ (tool_result' = "ok" /\ tool_step = 4)) /\ tool_step # 7
        BY <1>0, <2>3, <3>1, FailsHow
      <4>2. tool_step \in 0..7
        BY <1>0, <1>1, <3>1, NextCalls
      <4>3. "file" \notin held /\ film # "headed"
        BY <1>0, <3>1, <4>1, <4>2 DEF ToolHolds, ToolFilm
      <4>4. Len(Tool!Setup[tool]) = 8
        BY <2>0, <3>1
      <4>5. ~(tool_step + 1 = Len(Tool!Setup[tool]) /\ tool_result' = "ok")
        BY <4>1, <4>2, <4>4
      <4> QED BY <1>2, <3>1, <4>3, <4>5
    <3>2. CASE tool = "jpg"
      <4>1. tool_result' = "error" \/ (tool_result' = "ok" /\ tool_step < 5)
        BY <1>0, <2>3, <3>2, FailsHow
      <4>2. Len(Tool!Setup[tool]) = 7
        BY <2>0, <3>2
      <4>3. ~(tool_step + 1 = Len(Tool!Setup[tool]) /\ tool_result' = "ok")
        BY <1>3, <4>1, <4>2
      <4> QED BY <1>0, <1>2, <3>2, <4>3 DEF ToolHolds
    <3>3. CASE tool = "command"
      BY <1>0, <1>2, <2>3, <3>3, FailsHow DEF ToolHolds
    <3>4. CASE tool = "rtsp"
      BY <1>0, <1>2, <2>3, <3>4, FailsHow DEF ToolHolds
    <3>5. CASE tool = "film"
      BY <1>0, <1>2, <2>3, <3>5, FailsHow DEF ToolHolds
    <3> QED BY <1>0, <3>1, <3>2, <3>3, <3>4, <3>5 DEF Tool!TypeOK, Tool!Tools
  <2>4. Tool!Closed' /\ Tool!TrailerTried'
    BY <1>1, <2>3 DEF Tool!Closed, Tool!TrailerTried
  <2> QED BY <2>1, <2>2, <2>4 DEF ToolsAreTidy
<1> QED BY <1>4, <1>5, <1>6, <1>7, <1>8 DEF ToolInv

(* The end of a loop: the trailer, and what is held is given back.          *)
LEMMA FinishHow ==
  ASSUME Tool!TypeOK, Tool!Finish \/ (Tool!GiveBack(held \cup {"packet"}) /\ film' = film),
         tool \in {"record", "jpg", "rtsp", "film"}
  PROVE  /\ film' \in {"none", "open", "headed", "whole", "spoilt"}
         /\ held' \subseteq held \cup {"packet"}
         /\ \/ tool_phase' = "crashed" /\ tool_result' = tool_result /\ ("output" \in held => "output" \in held')
            \/ /\ tool_phase' = "returned" /\ tool_result' = "ok"
               /\ tool \in {"record", "jpg", "rtsp"} => "input" \notin held'
               /\ tool \in {"record", "film"} => "file" \notin held'
<1>1. CASE Tool!GiveBack(held) /\ film' \in (IF film = "headed" THEN {"whole", "spoilt"} ELSE {film})
  <2>1. film' \in {"none", "open", "headed", "whole", "spoilt"} /\ film' # "headed"
    BY <1>1 DEF Tool!TypeOK
  <2>2. Tool!GiveBack(held)
    BY <1>1
  <2> QED BY <2>1, <2>2, GivenBack
<1>2. CASE film = "open" /\ Tool!Crash /\ UNCHANGED <<held, film>>
  BY <1>2 DEF Tool!Crash
<1>3. CASE Tool!GiveBack(held \cup {"packet"}) /\ film' = film
  <2>1. film' \in {"none", "open", "headed", "whole", "spoilt"}
    BY <1>3 DEF Tool!TypeOK
  <2> QED BY <1>3, <2>1, GivenBack
<1> QED BY <1>1, <1>2, <1>3 DEF Tool!Finish

LEMMA FinishStep ==
  ASSUME Tool!Constants, ToolInv, tool_phase = "loop", tool \in {"record", "jpg", "rtsp", "film"},
         Tool!Finish \/ (tool = "film" /\ Tool!GiveBack(held \cup {"packet"}) /\ film' = film),
         lost' = lost \/ (tool = "record" /\ due /\ lost' = lost + 1),
         left' \in 0..MaxImages, UNCHANGED <<tool, tool_step, due, files>>
  PROVE  ToolInv'
<1>0. Tool!TypeOK /\ ToolSteps /\ ToolHolds /\ ToolFilm /\ ToolsAreTidy
  BY DEF ToolInv
<1>1. /\ film' \in {"none", "open", "headed", "whole", "spoilt"}
      /\ held' \subseteq held \cup {"packet"}
      /\ \/ tool_phase' = "crashed" /\ tool_result' = tool_result
         \/ /\ tool_phase' = "returned" /\ tool_result' = "ok"
            /\ tool \in {"record", "jpg", "rtsp"} => "input" \notin held'
            /\ tool \in {"record", "film"} => "file" \notin held'
  BY <1>0, FinishHow
<1>2. tool = "record" /\ tool_phase' = "returned" => film' # "headed"
  <2>1. tool = "record" => Tool!Finish
    OBVIOUS
  <2> QED BY <1>0, <1>1, <2>1 DEF Tool!Finish, Tool!Crash
<1>3. tool = "film" => ("output" \in held' \/ "file" \notin held')
  BY <1>0, <1>1, FinishHow DEF ToolHolds
<1>4. lost' \in Nat /\ (tool = "record" => lost' <= IF due THEN 1 ELSE 0)
  BY <1>0 DEF Tool!TypeOK, ToolFilm, ToolsAreTidy, Tool!OnePacketLost
<1>5. Tool!TypeOK'
  <2>1. held' \subseteq Tool!Resources
    BY <1>0, <1>1 DEF Tool!TypeOK, Tool!Resources
  <2> QED BY <1>0, <1>1, <1>4, <2>1 DEF Tool!TypeOK
<1>6. ToolSteps'
  BY <1>1 DEF ToolSteps
<1>7. ToolHolds'
  BY <1>0, <1>1, <1>3 DEF ToolHolds
<1>8. ToolFilm'
  <2>1. tool = "record" => tool_step = 8
    BY <1>0, SetupLengths DEF ToolSteps
  <2> QED BY <1>0, <1>1, <2>1 DEF ToolFilm
<1>9. ToolsAreTidy'
  <2>1. tool_phase' = "returned" => "file" \notin held' /\ "input" \notin held'
    BY <1>0, <1>1 DEF ToolHolds
  <2> QED BY <1>1, <1>2, <1>4, <2>1 DEF ToolsAreTidy, Tool!Closed, Tool!TrailerTried, Tool!OnePacketLost, Tool!NothingTemporary
<1> QED BY <1>5, <1>6, <1>7, <1>8, <1>9 DEF ToolInv

(* A turn of a loop that goes on, or ends in a crash.                       *)
LEMMA TurnStep ==
  ASSUME Tool!Constants, ToolInv, tool_phase = "loop", tool_phase' \in {"loop", "crashed"},
         tool \in {"record", "jpg", "rtsp", "film"}, lost' \in Nat, tool = "record" => lost' = lost,
         left' \in 0..MaxImages, due' \in BOOLEAN, due' = due \/ due' = TRUE,
         UNCHANGED <<tool, tool_step, held, film, files, tool_result>>
  PROVE  ToolInv'
BY DEF ToolInv, Tool!TypeOK, ToolSteps, ToolHolds, ToolFilm, ToolsAreTidy, Tool!Closed, Tool!TrailerTried,
       Tool!OnePacketLost, Tool!NothingTemporary

LEMMA LoopStep ==
  ASSUME Tool!Constants, ToolInv,
         Tool!DeadlinePasses \/ Tool!Goes \/ Tool!FilmImage \/ Tool!FilmEnds
  PROVE  ToolInv'
<1>0. due \in BOOLEAN /\ lost \in Nat /\ left \in 0..MaxImages /\ MaxImages \in Nat
  BY DEF ToolInv, Tool!TypeOK, Tool!Constants
<1>1. CASE Tool!DeadlinePasses
  BY <1>0, <1>1, TurnStep DEF Tool!DeadlinePasses
<1>2. CASE Tool!RecordFrame
  <2>1. CASE due
    BY <1>0, <1>2, <2>1, FinishStep DEF Tool!RecordFrame
  <2>2. CASE ~due
    BY <1>0, <1>2, <2>2, TurnStep DEF Tool!RecordFrame, Tool!Crash
  <2> QED BY <2>1, <2>2
<1>3. CASE Tool!RtspFrame
  BY <1>0, <1>3, TurnStep DEF Tool!RtspFrame, Tool!Crash
<1>4. CASE Tool!JpgFrame
  BY <1>0, <1>4, TurnStep DEF Tool!JpgFrame, Tool!Crash
<1>5. CASE Tool!StreamEnds
  BY <1>0, <1>5, FinishStep DEF Tool!StreamEnds
<1>6. CASE Tool!FilmImage
  <2>1. tool = "film" /\ tool_phase = "loop" /\ left > 0 /\ UNCHANGED <<tool, tool_step, due, lost, files>>
    BY <1>6 DEF Tool!FilmImage
  <2>2. left - 1 \in 0..MaxImages
    BY <1>0, <2>1
  <2>3. CASE left' = left - 1 /\ UNCHANGED <<tool_phase, held, film, tool_result>>
    BY <1>0, <2>1, <2>2, <2>3, TurnStep
  <2>4. CASE Tool!Finish /\ left' = left
    BY <1>0, <2>1, <2>4, FinishStep
  <2>5. CASE Tool!GiveBack(held \cup {"packet"}) /\ left' = left - 1 /\ film' = film
    BY <1>0, <2>1, <2>2, <2>5, FinishStep
  <2> QED BY <1>6, <2>3, <2>4, <2>5 DEF Tool!FilmImage
<1>7. CASE Tool!FilmEnds
  BY <1>0, <1>7, FinishStep DEF Tool!FilmEnds
<1> QED BY <1>1, <1>2, <1>3, <1>4, <1>5, <1>6, <1>7 DEF Tool!Goes

(* The ffmpeg command: its images, its run, and what is deleted after.      *)
LEMMA CommandStep ==
  ASSUME Tool!Constants, ToolInv, Tool!WriteFile \/ Tool!RunCommand \/ Tool!Delete
  PROVE  ToolInv'
<1>0. Tool!TypeOK /\ ToolSteps /\ ToolHolds /\ ToolFilm /\ ToolsAreTidy /\ MaxImages \in Nat
  BY DEF ToolInv, Tool!Constants
<1>1. CASE Tool!WriteFile
  <2>1. left' \in 0..MaxImages /\ files' \in 0..MaxImages /\ files' + left' <= MaxImages
    <3>1. tool = "command" /\ left > 0 /\ left' = left - 1 /\ (files' = files \/ files' = files + 1)
      BY <1>1 DEF Tool!WriteFile
    <3>2. left \in 0..MaxImages /\ files \in 0..MaxImages /\ files + left <= MaxImages
      BY <1>0, <3>1 DEF Tool!TypeOK, ToolFilm
    <3> QED BY <1>0, <3>1, <3>2
  <2>2. /\ tool = "command" /\ tool_phase = "loop"
        /\ UNCHANGED <<tool, tool_phase, tool_step, held, film, due, lost, tool_result>>
    BY <1>1 DEF Tool!WriteFile
  <2> QED BY <2>1, <2>2 DEF ToolInv, Tool!TypeOK, ToolSteps, ToolHolds, ToolFilm, ToolsAreTidy, Tool!Closed,
       Tool!TrailerTried, Tool!OnePacketLost, Tool!NothingTemporary
<1>2. CASE Tool!RunCommand
  <2>1. /\ tool = "command" /\ tool_phase = "loop" /\ film' \in {film, "whole"} /\ tool_phase' = "delete"
        /\ UNCHANGED <<tool, tool_step, held, due, lost, left, files, tool_result>>
    BY <1>2 DEF Tool!RunCommand
  <2> QED BY <2>1 DEF ToolInv, Tool!TypeOK, ToolSteps, ToolHolds, ToolFilm, ToolsAreTidy, Tool!Closed,
       Tool!TrailerTried, Tool!OnePacketLost, Tool!NothingTemporary
<1>3. CASE Tool!Delete
  <2>1. tool_phase = "delete" /\ UNCHANGED <<tool, tool_step, film, due, lost, left>>
    BY <1>3 DEF Tool!Delete
  <2>2. CASE files > 0
    <3>1. files' = files - 1 /\ UNCHANGED <<tool_phase, held, tool_result>>
      BY <1>3, <2>2 DEF Tool!Delete
    <3>2. files' \in 0..MaxImages /\ (tool = "command" => files' + left <= MaxImages)
      BY <1>0, <2>2, <3>1 DEF Tool!TypeOK, ToolFilm
    <3> QED BY <2>1, <3>1, <3>2 DEF ToolInv, Tool!TypeOK, ToolSteps, ToolHolds, ToolFilm, ToolsAreTidy, Tool!Closed,
         Tool!TrailerTried, Tool!OnePacketLost, Tool!NothingTemporary
  <2>3. CASE ~(files > 0)
    <3>1. tool_phase' = "returned" /\ tool_result' = "ok" /\ held' = held \ {"directory"} /\ files' = files
      BY <1>3, <2>3 DEF Tool!Delete, Tool!Return
    <3>2. tool = "command"
      BY <1>0, <2>1 DEF ToolSteps
    <3> QED BY <2>1, <3>1, <3>2 DEF ToolInv, Tool!TypeOK, ToolSteps, ToolHolds, ToolFilm, ToolsAreTidy, Tool!Closed,
         Tool!TrailerTried, Tool!OnePacketLost, Tool!NothingTemporary
  <2> QED BY <2>2, <2>3
<1> QED BY <1>1, <1>2, <1>3

LEMMA ToolStep == Tool!Constants /\ ToolInv /\ [Tool!Next]_ffmpeg => ToolInv'
<1> SUFFICES ASSUME Tool!Constants, ToolInv, [Tool!Next]_ffmpeg PROVE ToolInv'
  OBVIOUS
<1>1. CASE UNCHANGED ffmpeg
  BY <1>1 DEF ffmpeg, ToolInv, Tool!TypeOK, ToolSteps, ToolHolds, ToolFilm, ToolsAreTidy, Tool!Closed,
       Tool!TrailerTried, Tool!OnePacketLost, Tool!NothingTemporary
<1> QED BY <1>1, SucceedStep, FailCallStep, LoopStep, CommandStep DEF Tool!Next, Tool!Works

LEMMA ToolInit == Tool!Constants /\ Tool!Init => ToolInv
<1> SUFFICES ASSUME Tool!Constants, Tool!Init PROVE ToolInv
  OBVIOUS
<1>1. tool \in Tool!Tools /\ left \in 0..MaxImages /\ MaxImages \in Nat
  BY DEF Tool!Init, Tool!Constants
<1> DEFINE last == Len(Tool!Setup[tool])
<1>2. last = 8 \/ last = 7 \/ last = 9 \/ last = 2
  BY <1>1, SetupLengths DEF Tool!Tools
<1> HIDE DEF last
<1>3. last \in Nat /\ 0 < last /\ 0 \in 0..last
  BY <1>2
<1>4. tool_step = 0 /\ tool_step < Len(Tool!Setup[tool]) /\ tool_step \in 0..Len(Tool!Setup[tool])
  BY <1>3 DEF last, Tool!Init
<1>5. due = FALSE /\ lost = 0 /\ files = 0 /\ held = {} /\ tool_phase = "setup"
  BY DEF Tool!Init
<1>6. Tool!TypeOK
  <2>1. due \in BOOLEAN /\ film = "none" /\ tool_result = "none"
    BY DEF Tool!Init
  <2>2. 0 \in 0..MaxImages /\ 0 \in Nat
    BY <1>1
  <2> QED BY <1>1, <1>4, <1>5, <2>1, <2>2 DEF Tool!TypeOK
<1>7. ToolSteps
  BY <1>4, <1>5 DEF ToolSteps
<1>8. ToolHolds
  BY <1>4, <1>5 DEF ToolHolds
<1>9. ToolFilm
  BY <1>1, <1>5 DEF ToolFilm, Tool!Init
<1>10. ToolsAreTidy
  BY <1>5 DEF ToolsAreTidy, Tool!Closed, Tool!TrailerTried, Tool!OnePacketLost, Tool!NothingTemporary
<1> QED BY <1>6, <1>7, <1>8, <1>9, <1>10 DEF ToolInv
-----------------------------------------------------------------------------
(* The sleeper.  Where a thread goes, and what becomes of the mutex.        *)
SleeperAt == {"works", "enters", "checks", "blocks", "waits", "woken", "timed out", "last"}
MainAt == {"sleeps", "sets", "notifies", "joins"}

LEMMA SleeperTypes ==
  Sleep!TypeOK <=>
    /\ terminate \in BOOLEAN /\ m \in Threads \cup {Main, Sleep!Nobody}
    /\ DOMAIN at = Threads \cup {Main} /\ at[Main] \in MainAt
    /\ \A t \in Threads : at[t] \in SleeperAt
    /\ \A t \in Threads \cup {Main} : at[t] \in Sleep!Holding <=> m = t
BY DEF Sleep!TypeOK, SleeperAt, MainAt

(* One thread moves: it takes the mutex when nobody has it, gives it back,  *)
(* or keeps to the side of it where it was.                                 *)
LEMMA OneMoves ==
  ASSUME Sleep!Constants, Sleep!TypeOK, NEW t \in Threads \cup {Main}, NEW where, Sleep!Goto(t, where),
         IF t = Main THEN where \in MainAt ELSE where \in SleeperAt, terminate' \in BOOLEAN,
         \/ m = Sleep!Nobody /\ m' = t /\ where \in Sleep!Holding
         \/ at[t] \in Sleep!Holding /\ m' = Sleep!Nobody /\ where \notin Sleep!Holding
         \/ m' = m /\ (where \in Sleep!Holding <=> at[t] \in Sleep!Holding)
  PROVE  Sleep!TypeOK'
<1>1. /\ m \in Threads \cup {Main, Sleep!Nobody} /\ DOMAIN at = Threads \cup {Main} /\ at[Main] \in MainAt
      /\ \A u \in Threads : at[u] \in SleeperAt
      /\ \A u \in Threads \cup {Main} : at[u] \in Sleep!Holding <=> m = u
  BY SleeperTypes
<1>2. DOMAIN at' = Threads \cup {Main} /\ at'[t] = where /\ \A u \in (Threads \cup {Main}) \ {t} : at'[u] = at[u]
  BY <1>1 DEF Sleep!Goto
<1>3. at'[Main] \in MainAt /\ \A u \in Threads : at'[u] \in SleeperAt
  BY <1>1, <1>2 DEF Sleep!Constants
<1>4. m' \in Threads \cup {Main, Sleep!Nobody} /\ \A u \in Threads \cup {Main} : at'[u] \in Sleep!Holding <=> m' = u
  BY <1>1, <1>2 DEF Sleep!Constants
<1> QED BY <1>2, <1>3, <1>4 DEF Sleep!TypeOK, SleeperAt, MainAt

LEMMA SleeperStep ==
  ASSUME Sleep!Constants, Sleep!TypeOK, [Sleep!Next]_sleeper
  PROVE  Sleep!TypeOK'
<1>0. terminate \in BOOLEAN /\ Threads \subseteq Threads \cup {Main} /\ Main \notin Threads
  BY SleeperTypes DEF Sleep!Constants
<1>1. ASSUME NEW t \in Threads, Sleep!Steps(t) \/ Sleep!WakeUp(t) \/ Sleep!TimeOut(t)
      PROVE  Sleep!TypeOK'
  <2>1. CASE Sleep!Enter(t) \/ Sleep!WakeUp(t) \/ Sleep!TimeOut(t)
    BY <1>0, <2>1, OneMoves DEF Sleep!Enter, Sleep!WakeUp, Sleep!TimeOut, SleeperAt, Sleep!Holding
  <2>2. CASE Sleep!LockToWait(t) \/ Sleep!LockToReturn(t)
    BY <1>0, <2>2, OneMoves DEF Sleep!LockToWait, Sleep!LockToReturn, Sleep!Lock, SleeperAt, Sleep!Holding
  <2>3. CASE Sleep!Check(t)
    BY <1>0, <2>3, OneMoves DEF Sleep!Check, Sleep!Leave, SleeperAt, Sleep!Holding
  <2>4. CASE Sleep!Block(t) \/ Sleep!ReturnTimedOut(t)
    BY <1>0, <2>4, OneMoves DEF Sleep!Block, Sleep!ReturnTimedOut, Sleep!Leave, SleeperAt, Sleep!Holding
  <2> QED BY <1>1, <2>1, <2>2, <2>3, <2>4 DEF Sleep!Steps
<1>2. CASE Sleep!LockToInterrupt
  BY <1>0, <1>2, OneMoves DEF Sleep!LockToInterrupt, Sleep!Lock, MainAt, Sleep!Holding
<1>3. CASE Sleep!Set
  BY <1>0, <1>3, OneMoves DEF Sleep!Set, MainAt, Sleep!Holding
<1>4. CASE Sleep!NotifyAll
  <2>1. /\ at[Main] = "notifies" /\ m' = Sleep!Nobody /\ terminate' = terminate
        /\ DOMAIN at' = Threads \cup {Main} /\ at'[Main] = "joins"
        /\ \A t \in Threads : at'[t] = IF at[t] = "waits" THEN "woken" ELSE at[t]
    BY <1>0, <1>4 DEF Sleep!NotifyAll
  <2>2. m = Main
    BY <2>1, SleeperTypes DEF Sleep!Holding
  <2>3. \A t \in Threads : at[t] \notin Sleep!Holding /\ at'[t] \notin Sleep!Holding /\ at'[t] \in SleeperAt
    BY <1>0, <2>1, <2>2, SleeperTypes DEF Sleep!Holding, SleeperAt
  <2>4. at'[Main] \notin Sleep!Holding /\ at'[Main] \in MainAt
    BY <2>1 DEF Sleep!Holding, MainAt
  <2>5. \A t \in Threads \cup {Main} : t # Sleep!Nobody
    BY DEF Sleep!Constants
  <2> QED BY <1>0, <2>1, <2>3, <2>4, <2>5 DEF Sleep!TypeOK, SleeperAt, MainAt
<1>5. CASE UNCHANGED sleeper
  BY <1>5 DEF sleeper, Sleep!TypeOK
<1> QED BY <1>1, <1>2, <1>3, <1>4, <1>5 DEF Sleep!Next, Sleep!Interrupt

LEMMA SleeperInit == Sleep!Constants /\ Sleep!Init => Sleep!TypeOK
<1> SUFFICES ASSUME Sleep!Constants, Sleep!Init PROVE Sleep!TypeOK
  OBVIOUS
<1>1. /\ terminate = FALSE /\ m = Sleep!Nobody /\ DOMAIN at = Threads \cup {Main} /\ at[Main] = "sleeps"
      /\ \A t \in Threads : at[t] = "works"
  BY DEF Sleep!Init, Sleep!Constants
<1>2. \A t \in Threads \cup {Main} : at[t] \notin Sleep!Holding /\ t # Sleep!Nobody
  BY <1>1 DEF Sleep!Holding, Sleep!Constants
<1> QED BY <1>1, <1>2 DEF Sleep!TypeOK

(* Only a thread that finds the flag set goes back to work before its time. *)
LEMMA SleepOn ==
  ASSUME Sleep!Constants, Sleep!TypeOK, [Sleep!Next]_sleeper, NEW t \in Threads,
         at[t] = "checks", at'[t] = "works"
  PROVE  terminate
<1>1. DOMAIN at = Threads \cup {Main} /\ t \in Threads \cup {Main} /\ Main \notin Threads
  BY SleeperTypes DEF Sleep!Constants
<1>2. ASSUME NEW u \in Threads, Sleep!Steps(u) \/ Sleep!WakeUp(u) \/ Sleep!TimeOut(u)
      PROVE  terminate
  <2>1. at'[t] # at[t] => u = t
    BY <1>1, <1>2 DEF Sleep!Steps, Sleep!WakeUp, Sleep!TimeOut, Sleep!Enter, Sleep!LockToWait, Sleep!LockToReturn,
           Sleep!Check, Sleep!Block, Sleep!ReturnTimedOut, Sleep!Lock, Sleep!Leave, Sleep!Goto
  <2>2. u = t
    BY <2>1
  <2>3. Sleep!Check(t)
    BY <1>2, <2>2 DEF Sleep!Steps, Sleep!WakeUp, Sleep!TimeOut, Sleep!Enter, Sleep!LockToWait, Sleep!LockToReturn,
           Sleep!Check, Sleep!Block, Sleep!ReturnTimedOut, Sleep!Lock, Sleep!Leave
  <2> QED BY <1>1, <2>3 DEF Sleep!Check, Sleep!Goto
<1>3. ASSUME Sleep!Interrupt \/ UNCHANGED sleeper PROVE FALSE
  BY <1>1, <1>3 DEF Sleep!Interrupt, Sleep!LockToInterrupt, Sleep!Set, Sleep!NotifyAll, Sleep!Lock, Sleep!Goto, sleeper
<1> QED BY <1>2, <1>3 DEF Sleep!Next
-----------------------------------------------------------------------------
(* The tracker.  Ids are not given twice, and the index knows no other: this *)
(* is why an entry cannot come into it a second time.                       *)
IdsOnce == \A i, j \in DOMAIN targets : targets[i].id = targets[j].id => i = j
IndexKnows == \A e \in DOMAIN rtree : \E i \in DOMAIN targets : targets[i].id = e[2]

IndexType ==
  /\ targets \in Seq([id : Ids, position : Positions]) /\ moves \in 0..MaxMoves
  /\ rtree = [e \in DOMAIN rtree |-> 1] /\ DOMAIN rtree \subseteq Positions \X Ids /\ IsFiniteSet(DOMAIN rtree)

AnswerType ==
  Track!Cardinality(answer) <= Radius /\ \A a \in answer : a[2] \in Ids \cup {Track!PastTheEnd}

IndexInv == IndexType /\ AnswerType /\ IdsOnce /\ IndexKnows /\ Track!EveryTargetFound

(* The Cardinality that the tracker's module has is the one of the theorems *)
(* about finite sets.                                                       *)
LEMMA SameCardinality == \A S : Track!Cardinality(S) = Cardinality(S)
BY DEF Track!Cardinality, Cardinality

(* What the index is after an entry has come, and after one that is, or is  *)
(* not, there has been renewed.                                             *)
LEMMA Inserted ==
  ASSUME NEW bag, bag = [e \in DOMAIN bag |-> 1], NEW e, e \notin DOMAIN bag
  PROVE  Track!Insert(bag, e) = [f \in DOMAIN bag \cup {e} |-> 1]
BY DEF Track!Insert, Track!SetToBag, Track!(+)

LEMMA Removed ==
  ASSUME NEW bag, bag = [e \in DOMAIN bag |-> 1], NEW e
  PROVE  Track!Remove(bag, e) = [f \in DOMAIN bag \ {e} |-> 1]
<1>1. {d \in DOMAIN bag : (IF d \in {e} THEN 1 - 1 ELSE 1) > 0} = DOMAIN bag \ {e}
  OBVIOUS
<1> QED BY <1>1 DEF Track!Remove, Track!SetToBag, Track!(-)

LEMMA Renewed ==
  ASSUME NEW bag, bag = [e \in DOMAIN bag |-> 1], NEW e
  PROVE  Track!Insert(Track!Remove(bag, e), e) = [f \in DOMAIN bag \cup {e} |-> 1]
<1> DEFINE rest == Track!Remove(bag, e)
<1>0. rest = [f \in DOMAIN bag \ {e} |-> 1]
  BY Removed
<1> HIDE DEF rest
<1>1. DOMAIN rest = DOMAIN bag \ {e} /\ rest = [f \in DOMAIN rest |-> 1] /\ e \notin DOMAIN rest
  BY <1>0
<1>2. Track!Insert(rest, e) = [f \in DOMAIN rest \cup {e} |-> 1]
  BY <1>1, Inserted
<1>3. DOMAIN rest \cup {e} = DOMAIN bag \cup {e}
  BY <1>1
<1> QED BY <1>2, <1>3 DEF rest

LEMMA TargetIs ==
  ASSUME targets \in Seq([id : Ids, position : Positions]), NEW i \in DOMAIN targets
  PROVE  targets[i] \in [id : Ids, position : Positions]
<1> DEFINE Target == [id : Ids, position : Positions]
<1> HIDE DEF Target
<1>1. targets \in Seq(Target)
  BY DEF Target
<1>2. targets[i] \in Target
  BY <1>1
<1> QED BY <1>2 DEF Target

LEMMA FirstIs ==
  ASSUME targets \in Seq([id : Ids, position : Positions]), IdsOnce, NEW i \in DOMAIN targets
  PROVE  Track!First(targets[i].id) = i
<1> DEFINE Found(k) == targets[k].id = targets[i].id /\ \A j \in 1..(k - 1) : targets[j].id # targets[i].id
<1>1. Found(i)
  <2>1. \A j \in 1..(i - 1) : j \in DOMAIN targets /\ j # i
    OBVIOUS
  <2> QED BY <2>1 DEF IdsOnce
<1>2. Track!First(targets[i].id) = CHOOSE k \in DOMAIN targets : Found(k)
  BY DEF Track!First
<1>3. \A k \in DOMAIN targets : Found(k) => k = i
  BY DEF IdsOnce
<1> HIDE DEF Found
<1> QED BY <1>1, <1>2, <1>3

LEMMA TrackerTypes == IndexInv => Track!TypeOK /\ Track!EveryTargetFound /\ Track!OnceEach
<1> SUFFICES ASSUME IndexInv PROVE Track!TypeOK /\ Track!EveryTargetFound /\ Track!OnceEach
  OBVIOUS
<1>1. \A e \in DOMAIN rtree : rtree[e] = 1
  BY DEF IndexInv, IndexType
<1>2. rtree \in [DOMAIN rtree -> {n \in Nat : n > 0}]
  BY DEF IndexInv, IndexType
<1>3. Track!IsABag(rtree) /\ Track!BagToSet(rtree) = DOMAIN rtree
  BY <1>2 DEF Track!IsABag, Track!BagToSet
<1>4. Track!TypeOK
  BY <1>3 DEF IndexInv, IndexType, AnswerType, Track!TypeOK
<1> QED BY <1>1, <1>3, <1>4 DEF IndexInv, Track!OnceEach

LEMMA AddStep ==
  ASSUME Track!Constants, IndexInv, NEW id \in Ids, NEW position \in Positions, Track!addTarget(id, position)
  PROVE  IndexInv'
<1> DEFINE new == [id |-> id, position |-> position]
<1>1. /\ \A i \in DOMAIN targets : targets[i].id # id
      /\ targets' = Append(targets, new) /\ rtree' = Track!Insert(rtree, <<position, id>>)
      /\ answer' = {} /\ moves' = moves
  BY DEF Track!addTarget
<1>2. new \in [id : Ids, position : Positions] /\ new.id = id /\ new.position = position
  OBVIOUS
<1>3. targets \in Seq([id : Ids, position : Positions]) /\ rtree = [e \in DOMAIN rtree |-> 1]
  BY DEF IndexInv, IndexType
<1> HIDE DEF new
<1>4. /\ targets' \in Seq([id : Ids, position : Positions])
      /\ DOMAIN targets' = DOMAIN targets \cup {Len(targets) + 1} /\ Len(targets) + 1 \notin DOMAIN targets
      /\ targets'[Len(targets) + 1] = new /\ \A i \in DOMAIN targets : targets'[i] = targets[i]
  BY <1>1, <1>2, <1>3
<1>5. <<position, id>> \notin DOMAIN rtree
  BY <1>1 DEF IndexInv, IndexKnows
<1>6. rtree' = [e \in DOMAIN rtree \cup {<<position, id>>} |-> 1]
  BY <1>1, <1>3, <1>5, Inserted
<1>7. DOMAIN rtree' = DOMAIN rtree \cup {<<position, id>>} /\ rtree' = [e \in DOMAIN rtree' |-> 1]
  BY <1>6
<1>8. IndexType'
  <2>1. IsFiniteSet(DOMAIN rtree \cup {<<position, id>>})
    BY FS_AddElement, IsFiniteSet(DOMAIN rtree) DEF IndexInv, IndexType
  <2>2. DOMAIN rtree' \subseteq Positions \X Ids
    BY <1>7 DEF IndexInv, IndexType
  <2> QED BY <1>1, <1>4, <1>7, <2>1, <2>2 DEF IndexInv, IndexType
<1>9. AnswerType'
  <2>1. Track!Cardinality(answer') = 0 /\ answer' = {}
    BY <1>1, FS_EmptySet, SameCardinality
  <2> QED BY <2>1 DEF AnswerType, Track!Constants
<1>10. IdsOnce'
  BY <1>1, <1>2, <1>4 DEF IndexInv, IdsOnce
<1>11. IndexKnows'
  BY <1>2, <1>4, <1>7 DEF IndexInv, IndexKnows
<1>12. Track!EveryTargetFound'
  BY <1>2, <1>4, <1>7 DEF IndexInv, Track!EveryTargetFound, Track!Entry, Track!BagIn, Track!BagToSet
<1> QED BY <1>8, <1>9, <1>10, <1>11, <1>12 DEF IndexInv

LEMMA MoveStep ==
  ASSUME Track!Constants, IndexInv, NEW id \in Ids, NEW position \in Positions, Track!updateTargetPosition(id, position)
  PROVE  IndexInv'
<1>1. PICK i \in DOMAIN targets : targets[i].id = id
  BY DEF Track!updateTargetPosition
<1>2. targets \in Seq([id : Ids, position : Positions]) /\ rtree = [e \in DOMAIN rtree |-> 1]
  BY DEF IndexInv, IndexType
<1>3. Track!First(id) = i
  BY <1>1, <1>2, FirstIs DEF IndexInv
<1>4. /\ targets' = [targets EXCEPT ![i].position = position]
      /\ rtree' = Track!Insert(Track!Remove(rtree, Track!Entry(targets'[i])), Track!Entry(targets'[i]))
      /\ answer' = {} /\ moves' = moves + 1 /\ moves < MaxMoves
  BY <1>3 DEF Track!updateTargetPosition
<1>5. targets[i] \in [id : Ids, position : Positions]
  BY <1>2, TargetIs
<1>6. /\ targets' \in Seq([id : Ids, position : Positions]) /\ DOMAIN targets' = DOMAIN targets
      /\ targets'[i].id = id /\ targets'[i].position = position
      /\ \A j \in DOMAIN targets : j # i => targets'[j] = targets[j]
      /\ \A j \in DOMAIN targets : targets'[j].id = targets[j].id
  BY <1>1, <1>2, <1>4, <1>5
<1>7. Track!Entry(targets'[i]) = <<position, id>>
  BY <1>6 DEF Track!Entry
<1>8. rtree' = [e \in DOMAIN rtree \cup {<<position, id>>} |-> 1]
  <2>1. rtree' = Track!Insert(Track!Remove(rtree, <<position, id>>), <<position, id>>)
    BY <1>4, <1>7
  <2> QED BY <1>2, <2>1, Renewed
<1>9. DOMAIN rtree' = DOMAIN rtree \cup {<<position, id>>} /\ rtree' = [e \in DOMAIN rtree' |-> 1]
  BY <1>8
<1>10. IndexType'
  <2>1. IsFiniteSet(DOMAIN rtree \cup {<<position, id>>})
    BY FS_AddElement, IsFiniteSet(DOMAIN rtree) DEF IndexInv, IndexType
  <2>3. DOMAIN rtree' \subseteq Positions \X Ids
    BY <1>9 DEF IndexInv, IndexType
  <2>2. moves' \in 0..MaxMoves
    BY <1>4 DEF IndexInv, IndexType, Track!Constants
  <2> QED BY <1>6, <1>9, <2>1, <2>2, <2>3 DEF IndexInv, IndexType
<1>11. AnswerType'
  <2>1. Track!Cardinality(answer') = 0 /\ answer' = {}
    BY <1>4, FS_EmptySet, SameCardinality
  <2> QED BY <2>1 DEF AnswerType, Track!Constants
<1>12. IdsOnce'
  BY <1>6 DEF IndexInv, IdsOnce
<1>13. IndexKnows'
  BY <1>1, <1>6, <1>9 DEF IndexInv, IndexKnows
<1>14. Track!EveryTargetFound'
  BY <1>6, <1>7, <1>9 DEF IndexInv, Track!EveryTargetFound, Track!Entry, Track!BagIn, Track!BagToSet
<1> QED BY <1>10, <1>11, <1>12, <1>13, <1>14 DEF IndexInv

(* While nothing is in the index twice its copies are its entries.          *)
LEMMA CopiesAre ==
  ASSUME IndexType
  PROVE  Track!Copies = (DOMAIN rtree) \X {1} /\ IsFiniteSet(Track!Copies)
<1>1. \A e \in DOMAIN rtree : 1..rtree[e] = {1}
  BY DEF IndexType
<1>2. Track!Copies = (DOMAIN rtree) \X {1}
  BY <1>1 DEF Track!Copies, Track!BagToSet
<1>3. IsFiniteSet((DOMAIN rtree) \X {1})
  BY FS_Product, FS_Singleton DEF IndexType
<1> QED BY <1>2, <1>3

LEMMA QueryStep ==
  ASSUME Track!Constants, IndexInv, NEW position \in Positions, Track!queryNearbyTargets(position)
  PROVE  IndexInv'
<1>1. targets' = targets /\ rtree' = rtree /\ moves' = moves
  BY DEF Track!queryNearbyTargets
<1>2. PICK found \in SUBSET Track!Copies :
        Track!Nearest(position, found) /\ answer' = {<<c[1], Track!Read(c[1][2])>> : c \in found}
  BY DEF Track!queryNearbyTargets
<1>3. Track!Copies = (DOMAIN rtree) \X {1} /\ IsFiniteSet(Track!Copies)
  BY CopiesAre DEF IndexInv
<1>4. Cardinality(answer') <= Cardinality(found) /\ Cardinality(found) \in Nat /\ Cardinality(answer') \in Nat
  <2> DEFINE f == [c \in found |-> <<c[1], Track!Read(c[1][2])>>]
  <2>1. f \in Surjection(found, answer')
    BY <1>2 DEF Surjection
  <2>2. IsFiniteSet(found)
    BY <1>3, FS_Subset
  <2> HIDE DEF f
  <2>3. IsFiniteSet(answer') /\ Cardinality(answer') <= Cardinality(found)
    BY <2>1, <2>2, FS_Surjection
  <2> QED BY <2>2, <2>3, FS_CardinalityType
<1>5. Cardinality(found) <= Radius
  <2>1. Cardinality(found) = (IF Cardinality(Track!Copies) < Radius THEN Cardinality(Track!Copies) ELSE Radius)
    BY <1>2, SameCardinality DEF Track!Nearest
  <2>2. Cardinality(Track!Copies) \in Nat /\ Radius \in Nat
    BY <1>3, FS_CardinalityType DEF Track!Constants
  <2> QED BY <2>1, <2>2
<1>6. \A a \in answer' : a[2] \in Ids \cup {Track!PastTheEnd}
  <2> SUFFICES ASSUME NEW c \in found PROVE Track!Read(c[1][2]) \in Ids \cup {Track!PastTheEnd}
    BY <1>2
  <2>1. c[1][2] \in Ids /\ Ids \subseteq Nat
    BY <1>2, <1>3 DEF IndexInv, IndexType, Track!Constants
  <2>2. CASE c[1][2] < Len(targets)
    <3>1. targets \in Seq([id : Ids, position : Positions]) /\ Len(targets) \in Nat
      BY DEF IndexInv, IndexType
    <3>2. c[1][2] + 1 \in DOMAIN targets
      <4>1. DOMAIN targets = 1..Len(targets)
        BY <3>1
      <4>2. \A id \in Nat : id < Len(targets) => id + 1 \in 1..Len(targets)
        BY <3>1
      <4> QED BY <2>1, <2>2, <4>1, <4>2
    <3>3. targets[c[1][2] + 1] \in [id : Ids, position : Positions]
      BY <3>1, <3>2, TargetIs
    <3> QED BY <2>2, <3>3 DEF Track!Read
  <2>3. CASE ~(c[1][2] < Len(targets))
    BY <2>3 DEF Track!Read
  <2> QED BY <2>2, <2>3
<1>7. AnswerType'
  <2>1. Radius \in Nat
    BY DEF Track!Constants
  <2> QED BY <1>4, <1>5, <1>6, <2>1, SameCardinality DEF AnswerType
<1> QED BY <1>1, <1>7 DEF IndexInv, IndexType, IdsOnce, IndexKnows, Track!EveryTargetFound, Track!Entry, Track!BagIn,
       Track!BagToSet

LEMMA TrackerStep == Track!Constants /\ IndexInv /\ [Track!Next]_tracking => IndexInv'
<1> SUFFICES ASSUME Track!Constants, IndexInv, [Track!Next]_tracking PROVE IndexInv'
  OBVIOUS
<1>1. CASE UNCHANGED tracking
  BY <1>1 DEF tracking, IndexInv, IndexType, AnswerType, IdsOnce, IndexKnows, Track!EveryTargetFound, Track!Entry,
       Track!BagIn, Track!BagToSet
<1> QED BY <1>1, AddStep, MoveStep, QueryStep DEF Track!Next

LEMMA TrackerInit == Track!Constants /\ Track!Init => IndexInv
<1> SUFFICES ASSUME Track!Constants, Track!Init PROVE IndexInv
  OBVIOUS
<1>1. targets = <<>> /\ answer = {} /\ moves = 0 /\ DOMAIN targets = {}
  BY DEF Track!Init
<1>2. rtree = [e \in {} |-> 1] /\ DOMAIN rtree = {}
  BY DEF Track!Init, Track!EmptyBag, Track!SetToBag
<1>3. Radius \in Nat /\ MaxMoves \in Nat
  BY DEF Track!Constants
<1>4. IndexType
  BY <1>1, <1>2, <1>3, FS_EmptySet DEF IndexType
<1>5. AnswerType
  <2>1. Track!Cardinality(answer) = 0
    BY <1>1, FS_EmptySet, SameCardinality
  <2> QED BY <1>1, <1>3, <2>1 DEF AnswerType
<1> QED BY <1>1, <1>2, <1>4, <1>5 DEF IndexInv, IdsOnce, IndexKnows, Track!EveryTargetFound
-----------------------------------------------------------------------------
(* base64_encode: bits wait by pairs, and every bit that came has gone or   *)
(* waits.                                                                   *)
PictureInv ==
  /\ Picture!FewBitsWait /\ in \in Seq(Bytes)
  /\ Len(out) \in Nat /\ out = [i \in 1..Len(out) |-> out[i]]

(* Joining two sequences, whatever they are of.                             *)
LEMMA Joined ==
  ASSUME NEW s, Len(s) \in Nat, s = [i \in 1..Len(s) |-> s[i]], NEW n \in Nat, NEW d, d = [i \in 1..n |-> d[i]]
  PROVE  /\ Len(d) = n /\ Len(s \o d) = Len(s) + n
         /\ s \o d = [i \in 1..Len(s \o d) |-> (s \o d)[i]]
<1> DEFINE S == {s[i] : i \in 1..Len(s)} \cup {d[i] : i \in 1..n}
<1>1. s \in [1..Len(s) -> S] /\ d \in [1..n -> S]
  OBVIOUS
<1> HIDE DEF S
<1>2. s \in Seq(S) /\ d \in Seq(S) /\ Len(d) = n
  BY <1>1
<1>3. s \o d \in Seq(S) /\ Len(s \o d) = Len(s) + n
  BY <1>2
<1> QED BY <1>2, <1>3

LEMMA PictureStep == PictureInv /\ [Picture!Next]_base64 => PictureInv'
<1> SUFFICES ASSUME PictureInv, [Picture!Next]_base64 PROVE PictureInv'
  OBVIOUS
<1>1. CASE UNCHANGED base64
  BY <1>1 DEF base64, PictureInv, Picture!FewBitsWait
<1>2. ASSUME NEW byte \in Bytes, Picture!Encode(byte) PROVE PictureInv'
  <2> DEFINE v == Picture!Wrapped(val * 256) + byte
             n == (bits + 8) \div 6 + 1
             digits == [k \in 1..n |-> Picture!Digit(Picture!Shifted(v, bits + 8 - 6 * (k - 1)))]
  <2>1. /\ out' = out \o digits /\ bits' = bits + 8 - 6 * Len(digits) /\ in' = Append(in, byte)
    BY <1>2 DEF Picture!Encode
  <2>2. bits \in {-6, -4, -2} /\ 6 * Len(out) + bits + 6 = 8 * Len(in)
    BY DEF PictureInv, Picture!FewBitsWait
  <2>3. n = (IF bits = -2 THEN 2 ELSE 1)
    BY <2>2
  <2>4. n \in Nat /\ digits = [i \in 1..n |-> digits[i]]
    BY <2>3
  <2> HIDE DEF n, digits
  <2>5. Len(digits) = n /\ Len(out') = Len(out) + n /\ out' = [i \in 1..Len(out') |-> out'[i]]
    BY <2>1, <2>4, Joined DEF PictureInv
  <2>6. in' \in Seq(Bytes) /\ Len(in') = Len(in) + 1 /\ Len(in) \in Nat /\ Len(out) \in Nat
    BY <2>1 DEF PictureInv
  <2>7. Picture!FewBitsWait'
    <3>1. bits' = bits + 8 - 6 * n
      BY <2>1, <2>5
    <3>2. bits' \in {-6, -4, -2}
      BY <2>2, <2>3, <3>1
    <3>3. 6 * Len(out') + bits' + 6 = 8 * Len(in')
      <4> DEFINE before == Len(out)
                 after == Len(out')
                 old == Len(in)
                 new == Len(in')
                 waiting == bits'
      <4>1. before \in Nat /\ old \in Nat /\ bits \in Int /\ n \in Nat
        BY <2>2, <2>4, <2>6
      <4>2. after = before + n /\ new = old + 1 /\ waiting = bits + 8 - 6 * n
        BY <2>5, <2>6, <3>1
      <4>3. 6 * before + bits + 6 = 8 * old
        BY <2>2
      <4> HIDE DEF before, after, old, new, waiting
      <4>4. 6 * after + waiting + 6 = 8 * new
        BY <4>1, <4>2, <4>3
      <4> QED BY <4>4 DEF after, new, waiting
    <3> QED BY <3>2, <3>3 DEF Picture!FewBitsWait
  <2> QED BY <2>4, <2>5, <2>6, <2>7 DEF PictureInv
<1> QED BY <1>1, <1>2 DEF Picture!Next

LEMMA PictureInit == Picture!Init => PictureInv
BY DEF Picture!Init, PictureInv, Picture!FewBitsWait

-----------------------------------------------------------------------------
(* A bit of a sequence of bytes or digits, zero behind its end; and the sum *)
(* that Number takes of them.                                               *)
BitOf(s, width, b) == IF b < width * Len(s) THEN Picture!Bit(s, width, b) ELSE 0

SumOfBits(h, row, s, width, from, to) ==
  /\ Sums(h, row, from, to) /\ Picture!Number(s, width, from, to) = h[to]
  /\ \A b \in from..to : row[b] = BitOf(s, width, b) * 2^(to - b)

LEMMA NumberIs ==
  ASSUME NEW s, NEW width, NEW from \in Nat, NEW to \in Nat, to >= from
  PROVE  \E h, row : SumOfBits(h, row, s, width, from, to)
<1> DEFINE term(b) == (IF b < width * Len(s) THEN Picture!Bit(s, width, b) ELSE 0) * 2^(to - b)
           Is(h) == h = [b \in (from - 1)..to |-> IF b < from THEN 0 ELSE h[b - 1] + term(b)]
           row == [b \in from..to |-> term(b)]
<1>1. \A h : Sums(h, row, from, to) <=> Is(h)
  <2> TAKE h
  <2>1. \A b \in (from - 1)..to : ~(b < from) => row[b] = term(b)
    OBVIOUS
  <2> HIDE DEF row, term
  <2> QED BY <2>1 DEF Sums
<1>2. PICK g : Sums(g, row, from, to)
  <2>1. to - from + 1 \in Nat /\ from - 1 + (to - from + 1) = to
    OBVIOUS
  <2> HIDE DEF row
  <2> QED BY <2>1, SumsExist
<1> DEFINE sum == CHOOSE h : Is(h)
<1>3. Is(sum)
  BY <1>1, <1>2
<1>4. Picture!Number(s, width, from, to) = sum[to]
  BY DEF Picture!Number
<1>5. \A b \in from..to : row[b] = BitOf(s, width, b) * 2^(to - b)
  BY DEF BitOf
<1> HIDE DEF sum, row, Is, term
<1>6. Sums(sum, row, from, to)
  BY <1>1, <1>3
<1> QED BY <1>4, <1>5, <1>6 DEF SumOfBits

LEMMA SumTerm ==
  ASSUME NEW h, NEW row, NEW from \in Nat, NEW to \in Nat, Sums(h, row, from, to), NEW b \in from..to
  PROVE  h[b] = h[b - 1] + row[b]
BY DEF Sums

LEMMA SumBegins ==
  ASSUME NEW h, NEW row, NEW from \in Nat, NEW to \in Nat, Sums(h, row, from, to), to >= from
  PROVE  h[from - 1] = 0
BY DEF Sums

(* Six bits, a digit; eight, a byte.                                        *)
LEMMA NumberOfSix ==
  ASSUME NEW s, NEW width, NEW n \in Nat, \A b \in n..(n + 5) : BitOf(s, width, b) \in {0, 1}
  PROVE  Picture!Number(s, width, n, n + 5) =
           32 * BitOf(s, width, n) + 16 * BitOf(s, width, n + 1) + 8 * BitOf(s, width, n + 2)
             + 4 * BitOf(s, width, n + 3) + 2 * BitOf(s, width, n + 4) + BitOf(s, width, n + 5)
<1> DEFINE B(i) == BitOf(s, width, n + i)
<1>1. PICK h, row : /\ Sums(h, row, n, n + 5) /\ Picture!Number(s, width, n, n + 5) = h[n + 5]
                    /\ \A b \in n..(n + 5) : row[b] = BitOf(s, width, b) * 2^(n + 5 - b)
  <2>1. n + 5 \in Nat /\ n + 5 >= n
    OBVIOUS
  <2>2. PICK h, row : SumOfBits(h, row, s, width, n, n + 5)
    BY <2>1, NumberIs
  <2> QED BY <2>2 DEF SumOfBits
<1>2. \A i \in 0..5 : B(i) \in {0, 1} /\ row[n + i] = B(i) * 2^(5 - i)
  <2> TAKE i \in 0..5
  <2>1. n + i \in n..(n + 5) /\ n + 5 - (n + i) = 5 - i
    OBVIOUS
  <2> QED BY <1>1, <2>1
<1>3. h[n - 1] = 0 /\ \A i \in 0..5 : h[n + i] = h[n + i - 1] + row[n + i]
  <2>1. h[n - 1] = 0
    BY <1>1, SumBegins
  <2>2. ASSUME NEW i \in 0..5 PROVE h[n + i] = h[n + i - 1] + row[n + i]
    <3>1. n + i \in n..(n + 5)
      OBVIOUS
    <3> QED BY <1>1, <3>1, SumTerm
  <2> QED BY <2>1, <2>2
<1>4. B(0) = BitOf(s, width, n)
  OBVIOUS
<1> HIDE DEF B
<1>5. /\ row[n + 0] = B(0) * 32 /\ row[n + 1] = B(1) * 16 /\ row[n + 2] = B(2) * 8
      /\ row[n + 3] = B(3) * 4 /\ row[n + 4] = B(4) * 2 /\ row[n + 5] = B(5)
  BY <1>2
<1>6. /\ h[n] = 32 * B(0) /\ h[n + 1] = 32 * B(0) + 16 * B(1) /\ h[n + 2] = 32 * B(0) + 16 * B(1) + 8 * B(2)
  BY <1>2, <1>3, <1>5
<1>7. /\ h[n + 3] = h[n + 2] + row[n + 3] /\ h[n + 4] = h[n + 3] + row[n + 4] /\ h[n + 5] = h[n + 4] + row[n + 5]
  BY <1>3
<1>8. h[n + 5] = 32 * B(0) + 16 * B(1) + 8 * B(2) + 4 * B(3) + 2 * B(4) + B(5)
  BY <1>2, <1>5, <1>6, <1>7
<1> QED BY <1>1, <1>4, <1>8 DEF B

LEMMA NumberOfEight ==
  ASSUME NEW s, NEW width, NEW n \in Nat, \A b \in n..(n + 7) : BitOf(s, width, b) \in {0, 1}
  PROVE  Picture!Number(s, width, n, n + 7) =
           128 * BitOf(s, width, n) + 64 * BitOf(s, width, n + 1) + 32 * BitOf(s, width, n + 2)
             + 16 * BitOf(s, width, n + 3) + 8 * BitOf(s, width, n + 4) + 4 * BitOf(s, width, n + 5)
             + 2 * BitOf(s, width, n + 6) + BitOf(s, width, n + 7)
<1> DEFINE B(i) == BitOf(s, width, n + i)
<1>1. PICK h, row : /\ Sums(h, row, n, n + 7) /\ Picture!Number(s, width, n, n + 7) = h[n + 7]
                    /\ \A b \in n..(n + 7) : row[b] = BitOf(s, width, b) * 2^(n + 7 - b)
  <2>1. n + 7 \in Nat /\ n + 7 >= n
    OBVIOUS
  <2>2. PICK h, row : SumOfBits(h, row, s, width, n, n + 7)
    BY <2>1, NumberIs
  <2> QED BY <2>2 DEF SumOfBits
<1>2. \A i \in 0..7 : B(i) \in {0, 1} /\ row[n + i] = B(i) * 2^(7 - i)
  <2> TAKE i \in 0..7
  <2>1. n + i \in n..(n + 7) /\ n + 7 - (n + i) = 7 - i
    OBVIOUS
  <2> QED BY <1>1, <2>1
<1>3. h[n - 1] = 0 /\ \A i \in 0..7 : h[n + i] = h[n + i - 1] + row[n + i]
  <2>1. h[n - 1] = 0
    BY <1>1, SumBegins
  <2>2. ASSUME NEW i \in 0..7 PROVE h[n + i] = h[n + i - 1] + row[n + i]
    <3>1. n + i \in n..(n + 7)
      OBVIOUS
    <3> QED BY <1>1, <3>1, SumTerm
  <2> QED BY <2>1, <2>2
<1>4. B(0) = BitOf(s, width, n)
  OBVIOUS
<1> HIDE DEF B
<1>5. /\ row[n + 0] = B(0) * 128 /\ row[n + 1] = B(1) * 64 /\ row[n + 2] = B(2) * 32 /\ row[n + 3] = B(3) * 16
      /\ row[n + 4] = B(4) * 8 /\ row[n + 5] = B(5) * 4 /\ row[n + 6] = B(6) * 2 /\ row[n + 7] = B(7)
  BY <1>2
<1>6. /\ h[n] = 128 * B(0) /\ h[n + 1] = 128 * B(0) + 64 * B(1) /\ h[n + 2] = 128 * B(0) + 64 * B(1) + 32 * B(2)
  BY <1>2, <1>3, <1>5
<1>7. /\ h[n + 3] = h[n + 2] + row[n + 3] /\ h[n + 4] = h[n + 3] + row[n + 4] /\ h[n + 5] = h[n + 4] + row[n + 5]
      /\ h[n + 6] = h[n + 5] + row[n + 6] /\ h[n + 7] = h[n + 6] + row[n + 7]
  BY <1>3
<1>8. h[n + 5] = 128 * B(0) + 64 * B(1) + 32 * B(2) + 16 * B(3) + 8 * B(4) + 4 * B(5)
  BY <1>2, <1>5, <1>6, <1>7
<1>9. h[n + 7] = 128 * B(0) + 64 * B(1) + 32 * B(2) + 16 * B(3) + 8 * B(4) + 4 * B(5) + 2 * B(6) + B(7)
  BY <1>2, <1>5, <1>7, <1>8
<1> QED BY <1>1, <1>4, <1>9 DEF B

(* The bits of a byte, and of what is put together from bits.               *)
LEMMA BitsOfDigit ==
  ASSUME NEW a \in {0, 1}, NEW b \in {0, 1}, NEW c \in {0, 1}, NEW d \in {0, 1}, NEW e \in {0, 1}, NEW f \in {0, 1},
         NEW x \in Int, x = 32 * a + 16 * b + 8 * c + 4 * d + 2 * e + f
  PROVE  /\ (x \div 32) % 2 = a /\ (x \div 16) % 2 = b /\ (x \div 8) % 2 = c
         /\ (x \div 4) % 2 = d /\ (x \div 2) % 2 = e /\ (x % 2) = f /\ x \in 0..63
OBVIOUS

LEMMA PowersOfTwo ==
  ASSUME NEW e \in 0..7
  PROVE  2^e \in {128, 64, 32, 16, 8, 4, 2, 1}
<1>1. CASE e = 0
  BY <1>1
<1>2. CASE e = 1
  BY <1>2
<1>3. CASE e = 2
  BY <1>3
<1>4. CASE e = 3
  BY <1>4
<1>5. CASE e = 4
  BY <1>5
<1>6. CASE e = 5
  BY <1>6
<1>7. CASE e = 6
  BY <1>7
<1>8. CASE e = 7
  BY <1>8
<1> QED BY <1>1, <1>2, <1>3, <1>4, <1>5, <1>6, <1>7, <1>8

(* Bit by position: the i-th element, from 0, and the j-th bit of it.       *)
ByteAt(s, i) == IF i < Len(s) THEN s[i + 1] ELSE 0

LEMMA BitOfByte ==
  ASSUME NEW s, Len(s) \in Nat, NEW i \in Nat, NEW j \in 0..7
  PROVE  BitOf(s, 8, 8 * i + j) = (ByteAt(s, i) \div 2^(7 - j)) % 2
<1>1. (8 * i + j) \div 8 = i /\ (8 * i + j) % 8 = j /\ (8 * i + j < 8 * Len(s) <=> i < Len(s))
  OBVIOUS
<1>2. (0 \div 2^(7 - j)) % 2 = 0
  <2> DEFINE e == 7 - j
  <2>1. e \in 0..7
    OBVIOUS
  <2> HIDE DEF e
  <2>2. 2^e \in {128, 64, 32, 16, 8, 4, 2, 1}
    BY <2>1, PowersOfTwo
  <2>3. (0 \div 2^e) % 2 = 0
    BY <2>2
  <2> QED BY <2>3 DEF e
<1>3. 8 - 1 - j = 7 - j
  OBVIOUS
<1> QED BY <1>1, <1>2, <1>3 DEF BitOf, ByteAt, Picture!Bit

LEMMA BitOfDigit ==
  ASSUME NEW s, Len(s) \in Nat, NEW i \in Nat, NEW j \in 0..5, i < Len(s)
  PROVE  BitOf(s, 6, 6 * i + j) = (s[i + 1] \div 2^(5 - j)) % 2
<1>1. (6 * i + j) \div 6 = i /\ (6 * i + j) % 6 = j /\ 6 * i + j < 6 * Len(s)
  OBVIOUS
<1>2. 6 - 1 - j = 5 - j
  OBVIOUS
<1> QED BY <1>1, <1>2 DEF BitOf, Picture!Bit

(* A digit is six bits of two bytes that follow each other.                 *)
Window(s, i) == 256 * ByteAt(s, i) + ByteAt(s, i + 1)

LEMMA BitsOfWindow ==
  ASSUME NEW s, Len(s) \in Nat, NEW i \in Nat, ByteAt(s, i) \in 0..255, ByteAt(s, i + 1) \in 0..255, NEW j \in 0..15
  PROVE  BitOf(s, 8, 8 * i + j) \in {0, 1}
<1>1. CASE j \in 0..7
  <2> DEFINE d == 2^(7 - j)
             x == ByteAt(s, i)
  <2>1. BitOf(s, 8, 8 * i + j) = (x \div d) % 2
    BY <1>1, BitOfByte
  <2>2. d \in {128, 64, 32, 16, 8, 4, 2, 1}
    <3>1. 7 - j \in 0..7
      BY <1>1
    <3> QED BY <3>1, PowersOfTwo
  <2> HIDE DEF d, x
  <2>3. x \in 0..255
    BY DEF x
  <2> QED BY <2>1, <2>2, <2>3
<1>2. CASE j \in 8..15
  <2> DEFINE c == j - 8
             d == 2^(7 - c)
             x == ByteAt(s, i + 1)
  <2>1. c \in 0..7 /\ 8 * i + j = 8 * (i + 1) + c /\ i + 1 \in Nat /\ 7 - c \in 0..7
    BY <1>2
  <2> HIDE DEF c
  <2>2. BitOf(s, 8, 8 * (i + 1) + c) = (x \div d) % 2
    BY <2>1, BitOfByte
  <2>3. d \in {128, 64, 32, 16, 8, 4, 2, 1}
    BY <2>1, PowersOfTwo
  <2> HIDE DEF d, x
  <2>4. x \in 0..255
    BY DEF x
  <2> QED BY <2>1, <2>2, <2>3, <2>4
<1> QED BY <1>1, <1>2

LEMMA SixBits ==
  ASSUME NEW w \in Int, NEW h \in Int, NEW q \in 0..63, NEW rest \in Nat
  PROVE  /\ w = 65536 * h + 1024 * q + rest /\ rest < 1024 => (w \div 1024) % 64 = q
         /\ w = 16384 * h + 256 * q + rest /\ rest < 256 => (w \div 256) % 64 = q
         /\ w = 4096 * h + 64 * q + rest /\ rest < 64 => (w \div 64) % 64 = q
         /\ w = 1024 * h + 16 * q + rest /\ rest < 16 => (w \div 16) % 64 = q
<1>1. 64 * h + q \in Int /\ (64 * h + q) % 64 = q
  OBVIOUS
<1>2. ASSUME w = 65536 * h + 1024 * q + rest, rest < 1024 PROVE (w \div 1024) % 64 = q
  <2>1. w \div 1024 = 64 * h + q
    BY <1>2
  <2> QED BY <1>1, <2>1
<1>3. ASSUME w = 16384 * h + 256 * q + rest, rest < 256 PROVE (w \div 256) % 64 = q
  <2>1. w \div 256 = 64 * h + q
    BY <1>3
  <2> QED BY <1>1, <2>1
<1>4. ASSUME w = 4096 * h + 64 * q + rest, rest < 64 PROVE (w \div 64) % 64 = q
  <2>1. w \div 64 = 64 * h + q
    BY <1>4
  <2> QED BY <1>1, <2>1
<1>5. ASSUME w = 1024 * h + 16 * q + rest, rest < 16 PROVE (w \div 16) % 64 = q
  <2>1. w \div 16 = 64 * h + q
    BY <1>5
  <2> QED BY <1>1, <2>1
<1> QED BY <1>2, <1>3, <1>4, <1>5

TwoBytes(x, y) ==
  /\ ((256 * x + y) \div 1024) % 64 =
       32 * ((x \div 128) % 2) + 16 * ((x \div 64) % 2) + 8 * ((x \div 32) % 2)
       + 4 * ((x \div 16) % 2) + 2 * ((x \div 8) % 2) + ((x \div 4) % 2)
  /\ ((256 * x + y) \div 256) % 64 =
       32 * ((x \div 32) % 2) + 16 * ((x \div 16) % 2) + 8 * ((x \div 8) % 2)
       + 4 * ((x \div 4) % 2) + 2 * ((x \div 2) % 2) + (x % 2)
  /\ ((256 * x + y) \div 64) % 64 =
       32 * ((x \div 8) % 2) + 16 * ((x \div 4) % 2) + 8 * ((x \div 2) % 2)
       + 4 * (x % 2) + 2 * ((y \div 128) % 2) + ((y \div 64) % 2)
  /\ ((256 * x + y) \div 16) % 64 =
       32 * ((x \div 2) % 2) + 16 * (x % 2) + 8 * ((y \div 128) % 2)
       + 4 * ((y \div 64) % 2) + 2 * ((y \div 32) % 2) + ((y \div 16) % 2)

LEMMA DigitsOfBytes ==
  ASSUME NEW x \in 0..255, NEW y \in 0..255
  PROVE  TwoBytes(x, y)
<1> DEFINE b0 == (x \div 128) % 2
           b1 == (x \div 64) % 2
           b2 == (x \div 32) % 2
           b3 == (x \div 16) % 2
           b4 == (x \div 8) % 2
           b5 == (x \div 4) % 2
           b6 == (x \div 2) % 2
           b7 == x % 2
           b8 == (y \div 128) % 2
           b9 == (y \div 64) % 2
           b10 == (y \div 32) % 2
           b11 == (y \div 16) % 2
           r == y % 16
           q0 == 32 * b0 + 16 * b1 + 8 * b2 + 4 * b3 + 2 * b4 + b5
           q2 == 32 * b2 + 16 * b3 + 8 * b4 + 4 * b5 + 2 * b6 + b7
           q4 == 32 * b4 + 16 * b5 + 8 * b6 + 4 * b7 + 2 * b8 + b9
           q6 == 32 * b6 + 16 * b7 + 8 * b8 + 4 * b9 + 2 * b10 + b11
<1>a. /\ b0 \in {0, 1} /\ b1 \in {0, 1} /\ b2 \in {0, 1} /\ b3 \in {0, 1} /\ b4 \in {0, 1} /\ b5 \in {0, 1}
      /\ b6 \in {0, 1} /\ b7 \in {0, 1} /\ b8 \in {0, 1} /\ b9 \in {0, 1} /\ b10 \in {0, 1}
      /\ b11 \in {0, 1} /\ r \in 0..15
  OBVIOUS
<1>b. x = 128 * b0 + 64 * b1 + 32 * b2 + 16 * b3 + 8 * b4 + 4 * b5 + 2 * b6 + b7
  BY SMTT(30)
<1>c. y = 128 * b8 + 64 * b9 + 32 * b10 + 16 * b11 + r
  OBVIOUS
<1>d. /\ ((256 * x + y) \div 1024) % 64 = q0 /\ ((256 * x + y) \div 256) % 64 = q2
      /\ ((256 * x + y) \div 64) % 64 = q4 /\ ((256 * x + y) \div 16) % 64 = q6
  <2> HIDE DEF b0, b1, b2, b3, b4, b5, b6, b7, b8, b9, b10, b11, r
  <2> DEFINE w == 256 * x + y
             r0 == 256 * (2 * b6 + b7) + y
             h2 == 2 * b0 + b1
             h4 == 8 * b0 + 4 * b1 + 2 * b2 + b3
             r4 == 32 * b10 + 16 * b11 + r
  <2>1. q0 \in 0..63 /\ q2 \in 0..63 /\ q4 \in 0..63 /\ q6 \in 0..63
    BY <1>a
  <2>2. w \in Int /\ r0 \in Nat /\ r0 < 1024 /\ h2 \in Int /\ h4 \in Int /\ r4 \in Nat /\ r4 < 64 /\ y < 256 /\ r < 16
    BY <1>a
  <2>3. w = 65536 * 0 + 1024 * q0 + r0
    BY <1>a, <1>b
  <2>4. w = 16384 * h2 + 256 * q2 + y
    BY <1>a, <1>b
  <2>5. w = 4096 * h4 + 64 * q4 + r4
    BY <1>a, <1>b, <1>c
  <2>6. w = 1024 * q0 + 16 * q6 + r
    BY <1>a, <1>b, <1>c
  <2> HIDE DEF q0, q2, q4, q6, w, r0, h2, h4, r4
  <2>7. (w \div 1024) % 64 = q0 /\ (w \div 256) % 64 = q2
    BY <2>1, <2>2, <2>3, <2>4, SMTT(30)
  <2>8. (w \div 64) % 64 = q4
    BY <2>1, <2>2, <2>5, SixBits
  <2>9. (w \div 16) % 64 = q6
    <3>1. r \in Nat /\ q0 \in Int
      BY <1>a, <2>1
    <3> QED BY <2>1, <2>2, <2>6, <3>1, SixBits, SMTT(30)
  <2> QED BY <2>7, <2>8, <2>9 DEF w
<1> QED BY <1>d DEF TwoBytes

LEMMA DigitOfWindow ==
  ASSUME NEW s, Len(s) \in Nat, NEW i \in Nat, ByteAt(s, i) \in 0..255, ByteAt(s, i + 1) \in 0..255,
         NEW o \in {0, 2, 4, 6}
  PROVE  Picture!Number(s, 8, 8 * i + o, 8 * i + o + 5) = (Window(s, i) \div 2^(10 - o)) % 64
<1> DEFINE B(j) == BitOf(s, 8, 8 * i + j)
           n == 8 * i + o
           x == ByteAt(s, i)
           y == ByteAt(s, i + 1)
           w == Window(s, i)
<1>1. n \in Nat /\ \A c \in 0..5 : n + c = 8 * i + (o + c) /\ o + c \in 0..15
  OBVIOUS
<1>2. \A b \in n..(n + 5) : BitOf(s, 8, b) \in {0, 1}
  <2> TAKE b \in n..(n + 5)
  <2> DEFINE c == b - n
  <2>1. b = 8 * i + (o + c) /\ o + c \in 0..15
    BY <1>1
  <2> QED BY <2>1, BitsOfWindow
<1>3. Picture!Number(s, 8, n, n + 5) =
        32 * BitOf(s, 8, n) + 16 * BitOf(s, 8, n + 1) + 8 * BitOf(s, 8, n + 2)
          + 4 * BitOf(s, 8, n + 3) + 2 * BitOf(s, 8, n + 4) + BitOf(s, 8, n + 5)
  BY <1>1, <1>2, NumberOfSix
<1>4. /\ BitOf(s, 8, n) = B(o) /\ BitOf(s, 8, n + 1) = B(o + 1) /\ BitOf(s, 8, n + 2) = B(o + 2)
      /\ BitOf(s, 8, n + 3) = B(o + 3) /\ BitOf(s, 8, n + 4) = B(o + 4) /\ BitOf(s, 8, n + 5) = B(o + 5)
  BY <1>1
<1>5. /\ \A j \in 0..7 : B(j) = (x \div 2^(7 - j)) % 2
      /\ \A j \in 0..7 : B(8 + j) = (y \div 2^(7 - j)) % 2
  <2>1. \A j \in 0..7 : B(j) = (x \div 2^(7 - j)) % 2
    BY BitOfByte
  <2>2. ASSUME NEW j \in 0..7 PROVE B(8 + j) = (y \div 2^(7 - j)) % 2
    <3>1. 8 * i + (8 + j) = 8 * (i + 1) + j /\ i + 1 \in Nat
      OBVIOUS
    <3>2. BitOf(s, 8, 8 * (i + 1) + j) = (ByteAt(s, i + 1) \div 2^(7 - j)) % 2
      BY <3>1, BitOfByte
    <3> QED BY <3>1, <3>2
  <2> QED BY <2>1, <2>2
<1>6. x \in 0..255 /\ y \in 0..255 /\ w = 256 * x + y
  BY DEF Window
<1> HIDE DEF B, n, x, y, w
<1>7. /\ B(0) = (x \div 128) % 2 /\ B(1) = (x \div 64) % 2 /\ B(2) = (x \div 32) % 2 /\ B(3) = (x \div 16) % 2
      /\ B(4) = (x \div 8) % 2 /\ B(5) = (x \div 4) % 2 /\ B(6) = (x \div 2) % 2 /\ B(7) = x % 2
  BY <1>5, <1>6
<1>8. /\ B(8) = (y \div 128) % 2 /\ B(9) = (y \div 64) % 2 /\ B(10) = (y \div 32) % 2 /\ B(11) = (y \div 16) % 2
  BY <1>5, <1>6
<1>9. Picture!Number(s, 8, n, n + 5) = 32 * B(o) + 16 * B(o + 1) + 8 * B(o + 2) + 4 * B(o + 3) + 2 * B(o + 4) + B(o + 5)
  BY <1>3, <1>4, SMTT(30)
<1>e. TwoBytes(x, y)
  BY <1>6, DigitsOfBytes
<1>10. CASE o = 0
  <2>1. 32 * B(0) + 16 * B(1) + 8 * B(2) + 4 * B(3) + 2 * B(4) + B(5) = (w \div 1024) % 64
    BY <1>6, <1>7, <1>8, <1>e, ZenonT(60) DEF TwoBytes
  <2> QED BY <1>9, <1>10, <2>1 DEF n, w
<1>11. CASE o = 2
  <2>1. 32 * B(2) + 16 * B(3) + 8 * B(4) + 4 * B(5) + 2 * B(6) + B(7) = (w \div 256) % 64
    BY <1>6, <1>7, <1>8, <1>e, ZenonT(60) DEF TwoBytes
  <2> QED BY <1>9, <1>11, <2>1 DEF n, w
<1>12. CASE o = 4
  <2>1. 32 * B(4) + 16 * B(5) + 8 * B(6) + 4 * B(7) + 2 * B(8) + B(9) = (w \div 64) % 64
    BY <1>6, <1>7, <1>8, <1>e, ZenonT(60) DEF TwoBytes
  <2> QED BY <1>9, <1>12, <2>1 DEF n, w
<1>13. CASE o = 6
  <2>1. 32 * B(6) + 16 * B(7) + 8 * B(8) + 4 * B(9) + 2 * B(10) + B(11) = (w \div 16) % 64
    BY <1>6, <1>7, <1>8, <1>e, ZenonT(60) DEF TwoBytes
  <2> QED BY <1>9, <1>13, <2>1 DEF n, w
<1> QED BY <1>10, <1>11, <1>12, <1>13 DEF n, w

-----------------------------------------------------------------------------
(* The accumulator is right as far as it is looked at: 14 bits.             *)
LEMMA WrappedIs ==
  ASSUME Picture!Constants, NEW n \in Int
  PROVE  \E e \in Int : Picture!Wrapped(n) = n + 16384 * e
<1> DEFINE half == Ints \div 2
           q == (n + half) \div Ints
           k == Ints \div 16384
<1>1. Ints \in Nat /\ Ints > 0 /\ Ints % 16384 = 0 /\ half \in Int
  BY DEF Picture!Constants
<1>2. Ints = 16384 * k /\ k \in Int
  BY <1>1
<1> HIDE DEF half, k
<1>3. (n + half) % Ints = n + half - Ints * q /\ q \in Int
  BY <1>1
<1> HIDE DEF q
<1>4. Ints * q = 16384 * (k * q) /\ k * q \in Int
  BY <1>2, <1>3
<1> DEFINE e == -(k * q)
<1>5. e \in Int /\ n + half - Ints * q - half = n + 16384 * e
  BY <1>1, <1>4
<1>6. Picture!Wrapped(n) = n + 16384 * e
  <2> DEFINE rest == (n + half) % Ints
  <2>1. Picture!Wrapped(n) = rest - half
    BY DEF Picture!Wrapped, half
  <2>2. rest = n + half - Ints * q
    BY <1>3
  <2> HIDE DEF e, rest
  <2> QED BY <1>1, <1>3, <1>5, <2>1, <2>2
<1> QED BY <1>5, <1>6

Shows(v, x, byte) ==
  /\ v \in Int /\ v % 256 = byte
  /\ (v \div 16) % 64 = ((256 * x + byte) \div 16) % 64
  /\ (v \div 64) % 64 = ((256 * x + byte) \div 64) % 64

LEMMA Accumulated ==
  ASSUME Picture!Constants, NEW u \in Int, NEW x \in 0..255, u % 256 = x, NEW byte \in 0..255
  PROVE  Shows(Picture!Wrapped(u * 256) + byte, x, byte)
<1> DEFINE v == Picture!Wrapped(u * 256) + byte
<1>1. PICK e \in Int : Picture!Wrapped(u * 256) = u * 256 + 16384 * e
  BY WrappedIs
<1> DEFINE q == u \div 256
           w == 256 * x + byte
           h == 4 * q + e
<1>2. q \in Int /\ u = 256 * q + x /\ w \in Int /\ h \in Int
  OBVIOUS
<1>3. v = w + 16384 * h
  BY <1>1, <1>2
<1> HIDE DEF v
<1>4. v % 256 = byte
  BY <1>2, <1>3
<1> HIDE DEF q, w, h
<1>5. v \div 16 = w \div 16 + 64 * (16 * h) /\ w \div 16 \in Int
  BY <1>2, <1>3
<1>6. v \div 64 = w \div 64 + 64 * (4 * h) /\ w \div 64 \in Int
  BY <1>2, <1>3
<1>7. \A a, b, c \in Int : a = b + 64 * c => a % 64 = b % 64
  OBVIOUS
<1>8. v \in Int /\ v \div 16 \in Int /\ v \div 64 \in Int /\ 16 * h \in Int /\ 4 * h \in Int
  BY <1>2, <1>3
<1>9. (v \div 16) % 64 = (w \div 16) % 64
  BY <1>5, <1>7, <1>8
<1>10. (v \div 64) % 64 = (w \div 64) % 64
  BY <1>6, <1>7, <1>8
<1> QED BY <1>4, <1>8, <1>9, <1>10 DEF w, v, Shows

(* The same of one byte.                                                    *)
ShowsLast(v, byte) ==
  /\ (v \div 4) % 64 = ((256 * byte + 0) \div 1024) % 64
  /\ v % 64 = ((256 * byte + 0) \div 256) % 64

LEMMA AccumulatedLast ==
  ASSUME NEW v, NEW x, NEW byte \in 0..255, Shows(v, x, byte)
  PROVE  ShowsLast(v, byte)
<1> DEFINE q == v \div 256
<1>0. v \in Int /\ v % 256 = byte
  BY DEF Shows
<1>1. q \in Int /\ v = 256 * q + byte
  BY <1>0
<1> HIDE DEF q
<1>2. v \div 4 = 64 * q + byte \div 4 /\ byte \div 4 \in 0..63
  BY <1>1
<1>3. (v \div 4) % 64 = byte \div 4
  BY <1>1, <1>2
<1>4. (256 * byte + 0) \div 1024 = byte \div 4 /\ (256 * byte + 0) \div 256 = byte
  OBVIOUS
<1>5. (256 * byte + 0) % 64 = 0 /\ v % 64 = byte % 64
  BY <1>1
<1> QED BY <1>2, <1>3, <1>4, <1>5 DEF ShowsLast

LEMMA SequenceOf ==
  ASSUME NEW S, NEW s \in Seq(S)
  PROVE  Len(s) \in Nat /\ s \in [1..Len(s) -> S] /\ \A k \in 1..Len(s) : s[k] \in S
OBVIOUS

LEMMA BytesAre ==
  ASSUME NEW s \in Seq(0..255)
  PROVE  /\ Len(s) \in Nat /\ \A i \in Nat : ByteAt(s, i) \in 0..255
         /\ \A b \in Nat : BitOf(s, 8, b) \in {0, 1}
<1>1. Len(s) \in Nat /\ \A i \in Nat : ByteAt(s, i) \in 0..255
  <2>1. Len(s) \in Nat /\ \A k \in 1..Len(s) : s[k] \in 0..255
    BY SequenceOf
  <2>2. \A i \in Nat : i < Len(s) => i + 1 \in 1..Len(s)
    BY <2>1
  <2> QED BY <2>1, <2>2 DEF ByteAt
<1>2. ASSUME NEW b \in Nat PROVE BitOf(s, 8, b) \in {0, 1}
  <2> DEFINE i == b \div 8
             j == b % 8
  <2>1. i \in Nat /\ i + 1 \in Nat /\ j \in 0..15 /\ b = 8 * i + j
    OBVIOUS
  <2> HIDE DEF i, j
  <2>2. BitOf(s, 8, 8 * i + j) \in {0, 1}
    BY <1>1, <2>1, BitsOfWindow
  <2> QED BY <2>1, <2>2
<1> QED BY <1>1, <1>2

(* A digit of a picture; one whose bits have all come stays.                *)
DigitIs(s, k) == Picture!Number(s, 8, 6 * (k - 1), 6 * k - 1)

StartsAt(k, i, o) == k \in Nat /\ i \in Nat /\ 6 * (k - 1) = 8 * i + o

LEMMA DigitAt ==
  ASSUME NEW s \in Seq(0..255), NEW k, NEW i, NEW o \in {0, 2, 4, 6}, StartsAt(k, i, o)
  PROVE  DigitIs(s, k) = (Window(s, i) \div 2^(10 - o)) % 64
<1>1. 6 * k - 1 = 8 * i + o + 5 /\ i \in Nat /\ i + 1 \in Nat
  BY DEF StartsAt
<1>2. ByteAt(s, i) \in 0..255 /\ ByteAt(s, i + 1) \in 0..255 /\ Len(s) \in Nat
  BY <1>1, BytesAre
<1>3. Picture!Number(s, 8, 8 * i + o, 8 * i + o + 5) = (Window(s, i) \div 2^(10 - o)) % 64
  BY <1>1, <1>2, DigitOfWindow
<1> QED BY <1>1, <1>3 DEF DigitIs, StartsAt

LEMMA DigitStays ==
  ASSUME NEW s \in Seq(0..255), NEW byte \in 0..255, NEW k \in Nat, k > 0, 6 * k <= 8 * Len(s)
  PROVE  DigitIs(Append(s, byte), k) = DigitIs(s, k)
<1> DEFINE t == Append(s, byte)
           n == 6 * (k - 1)
<1>1. t \in Seq(0..255) /\ n \in Nat /\ 6 * k - 1 = n + 5 /\ Len(s) \in Nat /\ Len(t) = Len(s) + 1
  OBVIOUS
<1>2. ASSUME NEW b \in n..(n + 5) PROVE BitOf(t, 8, b) = BitOf(s, 8, b)
  <2>1. b < 8 * Len(s) /\ b < 8 * Len(t) /\ b \div 8 + 1 \in 1..Len(s)
    BY <1>1
  <2>2. t[b \div 8 + 1] = s[b \div 8 + 1]
    BY <2>1
  <2> HIDE DEF t
  <2> QED BY <2>1, <2>2 DEF BitOf, Picture!Bit
<1> HIDE DEF t, n
<1>3. \A b \in n..(n + 5) : BitOf(t, 8, b) \in {0, 1} /\ BitOf(s, 8, b) \in {0, 1}
  <2>1. \A b \in n..(n + 5) : b \in Nat
    BY <1>1
  <2> QED BY <1>1, <2>1, BytesAre
<1>4. n \in n..(n + 5) /\ \A c \in 1..5 : n + c \in n..(n + 5)
  BY <1>1
<1>5. /\ BitOf(t, 8, n) = BitOf(s, 8, n) /\ BitOf(t, 8, n + 1) = BitOf(s, 8, n + 1)
      /\ BitOf(t, 8, n + 2) = BitOf(s, 8, n + 2) /\ BitOf(t, 8, n + 3) = BitOf(s, 8, n + 3)
      /\ BitOf(t, 8, n + 4) = BitOf(s, 8, n + 4) /\ BitOf(t, 8, n + 5) = BitOf(s, 8, n + 5)
  BY <1>2, <1>4, SMTT(30)
<1>6. Picture!Number(t, 8, n, n + 5) = Picture!Number(s, 8, n, n + 5)
  <2>1. Picture!Number(s, 8, n, n + 5) =
          32 * BitOf(s, 8, n) + 16 * BitOf(s, 8, n + 1) + 8 * BitOf(s, 8, n + 2)
            + 4 * BitOf(s, 8, n + 3) + 2 * BitOf(s, 8, n + 4) + BitOf(s, 8, n + 5)
    BY <1>1, <1>3, NumberOfSix
  <2>2. Picture!Number(t, 8, n, n + 5) =
          32 * BitOf(t, 8, n) + 16 * BitOf(t, 8, n + 1) + 8 * BitOf(t, 8, n + 2)
            + 4 * BitOf(t, 8, n + 3) + 2 * BitOf(t, 8, n + 4) + BitOf(t, 8, n + 5)
    BY <1>1, <1>3, NumberOfSix
  <2> QED BY <1>5, <2>1, <2>2
<1> QED BY <1>1, <1>6 DEF DigitIs, t, n

(* What the loop has pushed are the digits whose bits have come, and what   *)
(* it still needs of the bytes before is in the accumulator.                *)
DigitsInv ==
  /\ val \in Int /\ (in # <<>> => val % 256 = in[Len(in)])
  /\ \A k \in 1..Len(out) : out[k] = DigitIs(in, k)

(* The bits that wait, by the bytes that have come.                         *)
NextIs(s, v, byte) ==
  /\ v \in Int /\ ShowsLast(v, byte) /\ v % 256 = byte
  /\ bits = -4 => DigitIs(s, Len(out) + 1) = (v \div 16) % 64
  /\ bits = -2 => DigitIs(s, Len(out) + 1) = (v \div 64) % 64

LEMMA NextDigit ==
  ASSUME Picture!FewBitsWait, in \in Seq(0..255), Len(out) \in Nat, DigitsInv, Picture!Constants,
         NEW byte \in 0..255, NEW s, \/ s = Append(in, byte)
                                     \/ s = in /\ byte = 0
  PROVE  NextIs(s, Picture!Wrapped(val * 256) + byte, byte)
<1> DEFINE n == Len(in)
           l == Len(out)
           i == n - 1
           v == Picture!Wrapped(val * 256) + byte
<1>1. n \in Nat /\ l \in Nat /\ s \in Seq(0..255) /\ 6 * l + bits + 6 = 8 * n /\ bits \in {-6, -4, -2}
  <2>1. CASE s = Append(in, byte)
    BY <2>1 DEF Picture!FewBitsWait
  <2>2. CASE s = in
    BY <2>2 DEF Picture!FewBitsWait
  <2> QED BY <2>1, <2>2
<1>3. v \in Int /\ v % 256 = byte /\ ShowsLast(v, byte)
  <2> DEFINE x == val % 256
  <2>0. val \in Int
    BY DEF DigitsInv
  <2>1. val \in Int /\ val % 256 = x /\ x \in 0..255
    BY SMTT(30), <2>0
  <2> HIDE DEF x
  <2>2. Shows(v, x, byte)
    BY <2>1, Accumulated
  <2> HIDE DEF v
  <2>3. ShowsLast(v, byte)
    BY <2>2, AccumulatedLast
  <2> QED BY <2>2, <2>3 DEF Shows
<1>4. SUFFICES ASSUME bits # -6
               PROVE  /\ bits = -4 => DigitIs(s, l + 1) = (v \div 16) % 64
                      /\ bits = -2 => DigitIs(s, l + 1) = (v \div 64) % 64
  BY <1>3 DEF NextIs
<1>5. n > 0 /\ i \in Nat /\ i + 1 = n /\ in # <<>> /\ in[n] \in 0..255
  <2>1. n > 0 /\ i \in Nat /\ i + 1 = n
    <3> HIDE DEF n, l
    <3> QED BY <1>1, <1>4
  <2>2. \A k \in 1..Len(in) : in[k] \in 0..255
    BY SequenceOf
  <2> QED BY <2>1, <2>2
<1> DEFINE x == in[n]
<1>6. ByteAt(s, i) = x /\ ByteAt(s, i + 1) = byte
  BY <1>5 DEF ByteAt
<1>7. /\ (v \div 16) % 64 = ((256 * x + byte) \div 16) % 64
      /\ (v \div 64) % 64 = ((256 * x + byte) \div 64) % 64
  <2>1. val \in Int /\ val % 256 = x /\ x \in 0..255
    BY <1>5 DEF DigitsInv
  <2> HIDE DEF x
  <2>2. Shows(v, x, byte)
    BY <2>1, Accumulated
  <2> HIDE DEF v
  <2> QED BY <2>2 DEF Shows
<1>8. Window(s, i) = 256 * x + byte
  BY <1>6 DEF Window
<1> HIDE DEF n, l, i, x, v
<1>9. CASE bits = -4
  <2>1. StartsAt(l + 1, i, 6)
    BY <1>1, <1>5, <1>9 DEF StartsAt
  <2>2. DigitIs(s, l + 1) = (Window(s, i) \div 2^(10 - 6)) % 64
    BY <1>1, <1>5, <2>1, DigitAt
  <2> QED BY <1>7, <1>8, <1>9, <2>2
<1>10. CASE bits = -2
  <2>1. StartsAt(l + 1, i, 4)
    BY <1>1, <1>5, <1>10 DEF StartsAt
  <2>2. DigitIs(s, l + 1) = (Window(s, i) \div 2^(10 - 4)) % 64
    BY <1>1, <1>5, <2>1, DigitAt
  <2> QED BY <1>7, <1>8, <1>10, <2>2
<1> QED BY <1>1, <1>4, <1>9, <1>10

LEMMA JoinedAt ==
  ASSUME NEW s, Len(s) \in Nat, s = [i \in 1..Len(s) |-> s[i]], NEW n \in Nat, NEW d, d = [i \in 1..n |-> d[i]]
  PROVE  /\ \A i \in 1..Len(s) : (s \o d)[i] = s[i]
         /\ \A i \in 1..n : (s \o d)[Len(s) + i] = d[i]
<1> DEFINE S == {s[i] : i \in 1..Len(s)} \cup {d[i] : i \in 1..n}
<1>1. s \in [1..Len(s) -> S] /\ d \in [1..n -> S]
  OBVIOUS
<1> HIDE DEF S
<1>2. s \in Seq(S) /\ d \in Seq(S) /\ Len(d) = n
  BY <1>1
<1> QED BY <1>2

LEMMA DigitsStep ==
  ASSUME Picture!Constants, PictureInv, DigitsInv, [Picture!Next]_base64
  PROVE  DigitsInv'
<1>1. CASE UNCHANGED base64
  BY <1>1 DEF base64, DigitsInv
<1>2. ASSUME NEW byte \in Bytes, Picture!Encode(byte) PROVE DigitsInv'
  <2> DEFINE v == Picture!Wrapped(val * 256) + byte
             n == (bits + 8) \div 6 + 1
             digits == [k \in 1..n |-> Picture!Digit(Picture!Shifted(v, bits + 8 - 6 * (k - 1)))]
             t == Append(in, byte)
             l == Len(out)
  <2>1. out' = out \o digits /\ val' = v /\ in' = t
    BY <1>2 DEF Picture!Encode
  <2>2. /\ bits \in {-6, -4, -2} /\ 6 * l + bits + 6 = 8 * Len(in) /\ Picture!FewBitsWait
        /\ in \in Seq(Bytes) /\ l \in Nat /\ out = [k \in 1..l |-> out[k]]
    BY DEF PictureInv, Picture!FewBitsWait
  <2>3. byte \in 0..255 /\ in \in Seq(0..255) /\ t \in Seq(0..255) /\ Len(in) \in Nat
    BY <2>2 DEF Picture!Constants
  <2>4. n = (IF bits = -2 THEN 2 ELSE 1)
    BY <2>2
  <2>a. NextIs(t, v, byte)
    BY <2>2, <2>3, NextDigit
  <2>5. v \in Int /\ v % 256 = byte /\ ShowsLast(v, byte)
    <3> HIDE DEF v
    <3> QED BY <2>a DEF NextIs
  <2>6. val' \in Int /\ (in' # <<>> => val' % 256 = in'[Len(in')])
    BY <2>1, <2>3, <2>5
  <2>7. Len(digits) = n /\ Len(out') = l + n /\ out' = [k \in 1..(l + n) |-> out'[k]]
    <3>1. n \in Nat /\ digits = [k \in 1..n |-> digits[k]]
      BY <2>4
    <3> HIDE DEF n, digits
    <3> QED BY <2>1, <2>2, <3>1, Joined, SMTT(30)
  <2>8. ASSUME NEW k \in 1..l PROVE out'[k] = DigitIs(t, k)
    <3>1. out'[k] = out[k]
      <4> HIDE DEF digits, n
      <4> QED BY <2>1, <2>2, <2>4, <2>7
    <3>2. 6 * k <= 8 * Len(in) /\ k \in Nat /\ k > 0
      BY <2>2, <2>3
    <3>3. DigitIs(t, k) = DigitIs(in, k)
      BY <2>3, <3>2, DigitStays
    <3> QED BY <3>1, <3>3 DEF DigitsInv
  <2>9. out'[l + 1] = digits[1] /\ (n = 2 => out'[l + 2] = digits[2])
    <3>1. n \in Nat /\ digits = [k \in 1..n |-> digits[k]]
      BY <2>4
    <3> HIDE DEF n, digits
    <3>2. \A k \in 1..n : (out \o digits)[l + k] = digits[k]
      BY <2>2, <3>1, JoinedAt
    <3>3. 1 \in 1..n /\ (n = 2 => 2 \in 1..n)
      BY <2>4
    <3> QED BY <2>1, <3>2, <3>3
  <2>10. digits[1] = DigitIs(t, l + 1)
    <3>1. digits[1] = (v \div 2^(bits + 8)) % 64
      BY <2>2, <2>4 DEF Picture!Digit, Picture!Shifted
    <3>2. CASE bits = -6
      <4> DEFINE i == Len(in)
      <4>1. ByteAt(t, i) = byte /\ ByteAt(t, i + 1) = 0 /\ StartsAt(l + 1, i, 0)
        BY <2>2, <2>3, <3>2 DEF ByteAt, StartsAt
      <4>2. Window(t, i) = 256 * byte + 0
        BY <4>1 DEF Window
      <4> HIDE DEF i, t, l
      <4>3. DigitIs(t, l + 1) = (Window(t, i) \div 2^(10 - 0)) % 64
        BY <2>3, <4>1, DigitAt
      <4>4. DigitIs(t, l + 1) = ((256 * byte + 0) \div 1024) % 64
        BY <4>2, <4>3
      <4>5. (v \div 4) % 64 = ((256 * byte + 0) \div 1024) % 64
        BY <2>5 DEF ShowsLast
      <4> QED BY <3>1, <3>2, <4>4, <4>5
    <3>3. CASE bits = -4
      <4>1. DigitIs(t, l + 1) = (v \div 16) % 64
        BY <2>a, <3>3 DEF NextIs
      <4> QED BY <3>1, <3>3, <4>1
    <3>4. CASE bits = -2
      <4>1. DigitIs(t, l + 1) = (v \div 64) % 64
        BY <2>a, <3>4 DEF NextIs
      <4> QED BY <3>1, <3>4, <4>1
    <3> QED BY <2>2, <3>2, <3>3, <3>4
  <2>11. n = 2 => digits[2] = DigitIs(t, l + 2)
    <3> SUFFICES ASSUME n = 2 PROVE digits[2] = DigitIs(t, l + 2)
      OBVIOUS
    <3>1. bits = -2
      BY <2>2, <2>4
    <3>2. digits[2] = (v \div 2^0) % 64
      BY <3>1 DEF Picture!Digit, Picture!Shifted
    <3> DEFINE i == Len(in)
    <3>3. ByteAt(t, i) = byte /\ ByteAt(t, i + 1) = 0 /\ StartsAt(l + 2, i, 2)
      BY <2>2, <2>3, <3>1 DEF ByteAt, StartsAt
    <3>4. Window(t, i) = 256 * byte + 0
      BY <3>3 DEF Window
    <3> HIDE DEF i, t, l
    <3>5. DigitIs(t, l + 2) = (Window(t, i) \div 2^(10 - 2)) % 64
      BY <2>3, <3>3, DigitAt
    <3>6. DigitIs(t, l + 2) = ((256 * byte + 0) \div 256) % 64
      BY <3>4, <3>5
    <3>7. v % 64 = ((256 * byte + 0) \div 256) % 64 /\ v \div 1 = v
      BY <2>5 DEF ShowsLast
    <3> QED BY <3>2, <3>6, <3>7
  <2>12. ASSUME NEW k \in 1..Len(out') PROVE out'[k] = DigitIs(in', k)
    <3>1. k \in 1..l \/ k = l + 1 \/ (n = 2 /\ k = l + 2)
      BY <2>2, <2>4, <2>7
    <3> HIDE DEF n, digits, t
    <3> QED BY <2>1, <2>8, <2>9, <2>10, <2>11, <3>1
  <2> QED BY <2>6, <2>12 DEF DigitsInv
<1> QED BY <1>1, <1>2 DEF Picture!Next

LEMMA DigitsBegin == Picture!Init => DigitsInv
BY DEF Picture!Init, DigitsInv

(* The digits of a picture, and those the encoder ends with.                *)
DigitsOf(s) == [k \in 1..((8 * Len(s) + 5) \div 6) |-> DigitIs(s, k)]
Pushed == IF bits > -6 THEN Append(out, Picture!Digit(Picture!Shifted(Picture!Wrapped(val * 256), bits + 8))) ELSE out

LEMMA DigitsOfLeft ==
  ASSUME NEW n \in Nat, NEW l \in Nat, NEW b \in {-4, -2}, 6 * l + b + 6 = 8 * n
  PROVE  (8 * n + 5) \div 6 = l + 1
<1>1. CASE b = -4
  <2>1. 8 * n + 5 = 6 * (l + 1) + 1
    BY <1>1
  <2> QED BY <2>1
<1>2. CASE b = -2
  <2>1. 8 * n + 5 = 6 * (l + 1) + 3
    BY <1>2
  <2> QED BY <2>1
<1> QED BY <1>1, <1>2

LEMMA PushedAre ==
  ASSUME Picture!Constants, PictureInv, DigitsInv
  PROVE  Pushed = DigitsOf(in)
<1> DEFINE l == Len(out)
           n == Len(in)
           w == Picture!Wrapped(val * 256) + 0
<1>1. /\ bits \in {-6, -4, -2} /\ 6 * l + bits + 6 = 8 * n /\ Picture!FewBitsWait
      /\ in \in Seq(Bytes) /\ l \in Nat /\ out = [k \in 1..l |-> out[k]]
  BY DEF PictureInv, Picture!FewBitsWait
<1>2. in \in Seq(0..255) /\ n \in Nat
  BY <1>1 DEF Picture!Constants
<1>3. CASE bits = -6
  <2>1. (8 * n + 5) \div 6 = l
    <3> HIDE DEF n, l
    <3>1. 8 * n + 5 = 6 * l + 5 /\ l \in Nat
      BY <1>1, <1>2, <1>3
    <3>2. \A i \in Nat : (6 * i + 5) \div 6 = i
      OBVIOUS
    <3> QED BY <3>1, <3>2
  <2>2. Pushed = out
    BY <1>3 DEF Pushed
  <2>3. DigitsOf(in) = [k \in 1..l |-> DigitIs(in, k)]
    BY <2>1 DEF DigitsOf
  <2>4. \A k \in 1..l : out[k] = DigitIs(in, k)
    BY DEF DigitsInv
  <2> HIDE DEF l
  <2> QED BY <1>1, <2>2, <2>3, <2>4
<1>4. CASE bits \in {-4, -2}
  <2>1. (8 * n + 5) \div 6 = l + 1
    <3> HIDE DEF n, l
    <3> QED BY <1>1, <1>2, <1>4, DigitsOfLeft
  <2>2. NextIs(in, w, 0)
    BY <1>1, <1>2, NextDigit DEF DigitsInv
  <2> DEFINE d == Picture!Digit(Picture!Shifted(Picture!Wrapped(val * 256), bits + 8))
  <2>3. d = DigitIs(in, l + 1)
    <3>1. w \in Int /\ w = Picture!Wrapped(val * 256)
      <4>1. PICK e \in Int : Picture!Wrapped(val * 256) = val * 256 + 16384 * e
        <5>1. val * 256 \in Int
          BY DEF DigitsInv
        <5> QED BY <5>1, WrappedIs
      <4> QED BY <4>1 DEF DigitsInv
    <3>2. d = (w \div 2^(bits + 8)) % 64
      BY <3>1 DEF Picture!Digit, Picture!Shifted
    <3> HIDE DEF w, d
    <3>3. CASE bits = -4
      BY <2>2, <3>2, <3>3 DEF NextIs
    <3>4. CASE bits = -2
      BY <2>2, <3>2, <3>4 DEF NextIs
    <3> QED BY <1>4, <3>3, <3>4
  <2>4. Pushed = Append(out, d)
    BY <1>4 DEF Pushed
  <2>5. DigitsOf(in) = [k \in 1..(l + 1) |-> DigitIs(in, k)]
    BY <2>1 DEF DigitsOf
  <2>6. \A k \in 1..l : out[k] = DigitIs(in, k)
    BY DEF DigitsInv
  <2> HIDE DEF d
  <2>7. Append(out, d) = [k \in 1..(l + 1) |-> IF k = l + 1 THEN d ELSE out[k]]
    <3> DEFINE S == {out[k] : k \in 1..l} \cup {d}
    <3>1. out \in [1..l -> S] /\ d \in S
      BY <1>1
    <3> HIDE DEF S
    <3>2. out \in Seq(S)
      BY <1>1, <3>1
    <3>3. Append(out, d) \in Seq(S) /\ Len(Append(out, d)) = l + 1
      BY <3>1, <3>2
    <3>4. \A k \in 1..(l + 1) : Append(out, d)[k] = (IF k = l + 1 THEN d ELSE out[k])
      BY <1>1, <3>1, <3>2
    <3>5. Append(out, d) = [k \in 1..(l + 1) |-> Append(out, d)[k]]
      <4> DEFINE t == Append(out, d)
      <4>0. t \in Seq(S) /\ Len(t) = l + 1
        BY <3>3
      <4> HIDE DEF t
      <4>2. t \in [1..Len(t) -> S]
        BY <4>0, SequenceOf
      <4>1. t = [k \in 1..Len(t) |-> t[k]]
        BY <4>2
      <4> QED BY <4>0, <4>1 DEF t
    <3> HIDE DEF l
    <3> QED BY <3>4, <3>5
  <2> HIDE DEF l
  <2> QED BY <1>1, <2>3, <2>4, <2>5, <2>6, <2>7
<1> QED BY <1>1, <1>3, <1>4

LEMMA EncodedIs ==
  ASSUME NEW s
  PROVE  Picture!Encoded(s) = Picture!Padded(DigitsOf(s))
BY DEF Picture!Encoded, DigitsOf, DigitIs

LEMMA EncodesMeans ==
  ASSUME Picture!Constants, PictureInv, DigitsInv
  PROVE  Picture!EncodesAsBase64
<1>1. Picture!base64_encode = Picture!Padded(Pushed)
  BY DEF Picture!base64_encode, Pushed
<1> QED BY <1>1, PushedAre, EncodedIs DEF Picture!EncodesAsBase64

(* Back from digits to bytes.                                               *)
DigitsGive(s, D) == s \in Seq(0..255) /\ D = DigitsOf(s)

LEMMA DigitsAre ==
  ASSUME NEW s, NEW D, DigitsGive(s, D)
  PROVE  /\ Len(s) \in Nat /\ Len(D) = (8 * Len(s) + 5) \div 6 /\ Len(D) \in Nat
         /\ D \in Seq(0..63)
         /\ \A k \in 1..Len(D) : D[k] = DigitIs(s, k)
<1> DEFINE l == (8 * Len(s) + 5) \div 6
<1>1. Len(s) \in Nat /\ l \in Nat /\ s \in Seq(0..255) /\ D = [k \in 1..l |-> DigitIs(s, k)]
  BY DEF DigitsGive, DigitsOf
<1>2. ASSUME NEW k \in 1..l PROVE DigitIs(s, k) \in 0..63
  <2> DEFINE n == 6 * (k - 1)
             a == BitOf(s, 8, n)
             b == BitOf(s, 8, n + 1)
             c == BitOf(s, 8, n + 2)
             d == BitOf(s, 8, n + 3)
             e == BitOf(s, 8, n + 4)
             f == BitOf(s, 8, n + 5)
  <2>1. /\ n \in Nat /\ 6 * k - 1 = n + 5 /\ n + 1 \in Nat /\ n + 2 \in Nat
        /\ n + 3 \in Nat /\ n + 4 \in Nat /\ n + 5 \in Nat
    OBVIOUS
  <2> HIDE DEF n
  <2>2. \A i \in n..(n + 5) : BitOf(s, 8, i) \in {0, 1}
    <3>1. \A i \in n..(n + 5) : i \in Nat
      BY <2>1
    <3> QED BY <1>1, <3>1, BytesAre
  <2>3. Picture!Number(s, 8, n, n + 5) = 32 * a + 16 * b + 8 * c + 4 * d + 2 * e + f
    BY <2>1, <2>2, NumberOfSix
  <2>4. a \in {0, 1} /\ b \in {0, 1} /\ c \in {0, 1} /\ d \in {0, 1} /\ e \in {0, 1} /\ f \in {0, 1}
    BY <1>1, <2>1, BytesAre
  <2> HIDE DEF a, b, c, d, e, f
  <2>5. 32 * a + 16 * b + 8 * c + 4 * d + 2 * e + f \in 0..63
    BY <2>4
  <2> QED BY <2>1, <2>3, <2>5 DEF DigitIs, n
<1> HIDE DEF l
<1>3. D \in [1..l -> 0..63] /\ \A k \in 1..l : D[k] = DigitIs(s, k)
  BY <1>1, <1>2
<1>4. D \in Seq(0..63) /\ Len(D) = l
  BY <1>1, <1>3
<1> QED BY <1>1, <1>3, <1>4 DEF l

(* The j-th bit of a digit is that of the picture.                          *)
LEMMA BitOfSix ==
  ASSUME NEW s, NEW D, DigitsGive(s, D), NEW i \in Nat, i < Len(D), NEW j \in 0..5
  PROVE  BitOf(D, 6, 6 * i + j) = BitOf(s, 8, 6 * i + j)
<1> DEFINE n == 6 * i
           B(o) == BitOf(s, 8, n + o)
           x == D[i + 1]
<1>1. Len(D) \in Nat /\ i + 1 \in 1..Len(D) /\ x = DigitIs(s, i + 1) /\ s \in Seq(0..255)
  BY DigitsAre DEF DigitsGive
<1>2. n \in Nat /\ n + 0 = n /\ \A b \in n..(n + 5) : b \in Nat
  OBVIOUS
<1>3. \A b \in n..(n + 5) : BitOf(s, 8, b) \in {0, 1}
  BY <1>1, <1>2, BytesAre
<1>4. x = Picture!Number(s, 8, n, n + 5)
  <2>1. 6 * (i + 1 - 1) = n /\ 6 * (i + 1) - 1 = n + 5
    OBVIOUS
  <2> HIDE DEF n, x
  <2> QED BY <1>1, <2>1 DEF DigitIs
<1>5. BitOf(D, 6, n + j) = (x \div 2^(5 - j)) % 2
  BY <1>1, BitOfDigit
<1>6. \A o \in 0..5 : n + o \in n..(n + 5)
  BY <1>2
<1>7. \A o \in 0..5 : B(o) \in {0, 1}
  <2> HIDE DEF n
  <2> QED BY <1>3, <1>6
<1>8. x = 32 * BitOf(s, 8, n) + 16 * B(1) + 8 * B(2) + 4 * B(3) + 2 * B(4) + B(5)
  BY <1>2, <1>3, <1>4, NumberOfSix
<1>9. BitOf(s, 8, n) = B(0)
  BY <1>2
<1> HIDE DEF n, B, x
<1> DEFINE a == B(0)
           b == B(1)
           c == B(2)
           d == B(3)
           e == B(4)
           f == B(5)
<1>10. a \in {0, 1} /\ b \in {0, 1} /\ c \in {0, 1} /\ d \in {0, 1} /\ e \in {0, 1} /\ f \in {0, 1}
  BY <1>7
<1>11. x = 32 * a + 16 * b + 8 * c + 4 * d + 2 * e + f
  BY <1>8, <1>9
<1> HIDE DEF a, b, c, d, e, f
<1>12. x \in Int
  BY <1>10, <1>11
<1>13. /\ (x \div 32) % 2 = a /\ (x \div 16) % 2 = b /\ (x \div 8) % 2 = c
       /\ (x \div 4) % 2 = d /\ (x \div 2) % 2 = e /\ (x % 2) = f
  BY <1>10, <1>11, <1>12, BitsOfDigit
<1>14. (x \div 2^(5 - j)) % 2 = B(j)
  <2>0. x \div 1 = x
    BY <1>12
  <2>1. CASE j = 0
    BY <1>13, <2>1 DEF a
  <2>2. CASE j = 1
    BY <1>13, <2>2 DEF b
  <2>3. CASE j = 2
    BY <1>13, <2>3 DEF c
  <2>4. CASE j = 3
    BY <1>13, <2>4 DEF d
  <2>5. CASE j = 4
    BY <1>13, <2>5 DEF e
  <2>6. CASE j = 5
    BY <1>13, <2>0, <2>6 DEF f
  <2> QED BY <2>1, <2>2, <2>3, <2>4, <2>5, <2>6
<1> QED BY <1>5, <1>14 DEF B, n

LEMMA ByteIs ==
  ASSUME NEW s, NEW D, DigitsGive(s, D), NEW k \in 1..Len(s)
  PROVE  Picture!Number(D, 6, 8 * (k - 1), 8 * k - 1) = s[k]
<1> DEFINE n == 8 * (k - 1)
           x == s[k]
<1>1. /\ Len(s) \in Nat /\ Len(D) = (8 * Len(s) + 5) \div 6 /\ Len(D) \in Nat /\ D \in Seq(0..63)
      /\ s \in Seq(0..255)
  BY DigitsAre DEF DigitsGive
<1>2. k - 1 \in Nat /\ n \in Nat /\ n + 7 = 8 * k - 1 /\ x \in 0..255 /\ n + 0 = n /\ k - 1 < Len(s)
  BY <1>1, SequenceOf
<1>3. ASSUME NEW o \in 0..7 PROVE BitOf(D, 6, n + o) = (x \div 2^(7 - o)) % 2
  <2> DEFINE i == (n + o) \div 6
             j == (n + o) % 6
  <2>1. i \in Nat /\ j \in 0..5 /\ n + o = 6 * i + j
    BY <1>2
  <2>2. 6 * Len(D) >= 8 * Len(s) /\ n + o < 8 * Len(s)
    BY <1>1, <1>2
  <2> HIDE DEF i, j
  <2>3. i < Len(D)
    BY <1>1, <2>1, <2>2
  <2>4. BitOf(D, 6, 6 * i + j) = BitOf(s, 8, 6 * i + j)
    BY <2>1, <2>3, BitOfSix
  <2>5. BitOf(s, 8, n + o) = (ByteAt(s, k - 1) \div 2^(7 - o)) % 2
    BY <1>1, <1>2, BitOfByte
  <2>6. ByteAt(s, k - 1) = x
    <3>1. k - 1 + 1 = k
      OBVIOUS
    <3> QED BY <1>2, <3>1 DEF ByteAt
  <2> QED BY <2>1, <2>4, <2>5, <2>6
<1> DEFINE B(o) == BitOf(D, 6, n + o)
<1>4. \A o \in 0..7 : B(o) = (x \div 2^(7 - o)) % 2
  BY <1>3
<1>5. BitOf(D, 6, n) = B(0)
  BY <1>2
<1>6. /\ B(0) = (x \div 128) % 2 /\ B(1) = (x \div 64) % 2 /\ B(2) = (x \div 32) % 2 /\ B(3) = (x \div 16) % 2
      /\ B(4) = (x \div 8) % 2 /\ B(5) = (x \div 4) % 2 /\ B(6) = (x \div 2) % 2 /\ B(7) = x % 2
  <2> HIDE DEF B, x
  <2> QED BY <1>2, <1>4
<1>7. \A b \in n..(n + 7) : BitOf(D, 6, b) \in {0, 1}
  <2> SUFFICES ASSUME NEW b \in n..(n + 7) PROVE BitOf(D, 6, b) \in {0, 1}
    OBVIOUS
  <2> DEFINE o == b - n
  <2>1. o \in 0..7 /\ b = n + o
    BY <1>2
  <2> HIDE DEF o
  <2>2. B(o) \in {0, 1}
    <3>1. o = 0 \/ o = 1 \/ o = 2 \/ o = 3 \/ o = 4 \/ o = 5 \/ o = 6 \/ o = 7
      BY <2>1
    <3> HIDE DEF B, x
    <3> QED BY <1>2, <1>6, <3>1, SMTT(30)
  <2> QED BY <2>1, <2>2
<1>8. Picture!Number(D, 6, n, n + 7) =
        128 * BitOf(D, 6, n) + 64 * B(1) + 32 * B(2) + 16 * B(3) + 8 * B(4) + 4 * B(5) + 2 * B(6) + B(7)
  <2> HIDE DEF n
  <2> QED BY <1>2, <1>7, NumberOfEight, SMTT(30)
<1> HIDE DEF n, B, x
<1>9. x = 128 * ((x \div 128) % 2) + 64 * ((x \div 64) % 2) + 32 * ((x \div 32) % 2) + 16 * ((x \div 16) % 2)
           + 8 * ((x \div 8) % 2) + 4 * ((x \div 4) % 2) + 2 * ((x \div 2) % 2) + (x % 2)
  BY <1>2
<1>10. Picture!Number(D, 6, n, n + 7) = x
  BY <1>5, <1>6, <1>8, <1>9
<1> QED BY <1>2, <1>10 DEF n, x

(* The encoder's padding ends the last group, and is what it leaves out.    *)
PaddedBy(t, D, p) ==
  /\ p \in 0..3 /\ t \in Seq(0..64) /\ Len(t) = Len(D) + p /\ Len(t) % 4 = 0
  /\ \A k \in 1..Len(D) : t[k] = D[k]
  /\ \A k \in (Len(D) + 1)..(Len(D) + p) : t[k] = 64

LEMMA PaddedIs ==
  ASSUME NEW D \in Seq(0..63)
  PROVE  \E p : PaddedBy(Picture!Padded(D), D, p)
<1> DEFINE p == (4 - (Len(D) % 4)) % 4
           l == Len(D)
           z == [k \in 1..p |-> 64]
           t == Picture!Padded(D)
<1>1. l \in Nat /\ p \in 0..3 /\ (l + p) % 4 = 0
  <2>1. l \in Nat
    OBVIOUS
  <2> HIDE DEF l
  <2> QED BY <2>1 DEF l
<1>2. t = D \o z
  BY DEF Picture!Padded, Picture!Pad
<1>3. D \in Seq(0..64) /\ z \in Seq(0..64) /\ Len(z) = p
  <2>1. D \in [1..l -> 0..63] /\ \A k \in 1..l : D[k] \in 0..63
    BY SequenceOf
  <2>2. D \in [1..l -> 0..64]
    <3> HIDE DEF l
    <3>1. D = [k \in 1..l |-> D[k]] /\ \A k \in 1..l : D[k] \in 0..64
      BY <2>1
    <3> QED BY <3>1
  <2>3. z \in [1..p -> 0..64]
    OBVIOUS
  <2> DEFINE S == 0..64
  <2>4. D \in [1..l -> S] /\ z \in [1..p -> S]
    BY <2>2, <2>3
  <2> HIDE DEF S, z, p
  <2>5. D \in Seq(S) /\ z \in Seq(S) /\ Len(z) = p
    BY <1>1, <2>4
  <2> QED BY <2>5 DEF S
<1>4. \A k \in 1..p : z[k] = 64
  OBVIOUS
<1> HIDE DEF z, p
<1> DEFINE S == 0..64
<1>a. D \in Seq(S) /\ z \in Seq(S)
  BY <1>3
<1> HIDE DEF S
<1>5. D \o z \in Seq(S) /\ Len(D \o z) = l + p
  BY <1>1, <1>3, <1>a
<1>6. \A k \in 1..l : (D \o z)[k] = D[k]
  BY <1>1, <1>3, <1>a
<1>7. \A k \in (l + 1)..(l + p) : (D \o z)[k] = 64
  <2> TAKE k \in (l + 1)..(l + p)
  <2>1. k - l \in 1..p /\ k \in 1..(l + p) /\ k > l
    BY <1>1
  <2>2. (D \o z)[k] = z[k - l]
    BY <1>1, <1>3, <1>a, <2>1
  <2> QED BY <1>4, <2>1, <2>2
<1> HIDE DEF t
<1>8. PaddedBy(t, D, p)
  BY <1>1, <1>2, <1>5, <1>6, <1>7 DEF S, PaddedBy
<1> QED BY <1>8 DEF t

LEMMA BeginningIs ==
  ASSUME NEW S, NEW T, NEW s \in Seq(S), NEW t \in Seq(T), Len(s) <= Len(t), \A k \in 1..Len(s) : t[k] = s[k]
  PROVE  SubSeq(t, 1, Len(s)) = s
<1> DEFINE u == SubSeq(t, 1, Len(s))
<1>1. Len(s) \in Nat /\ s \in [1..Len(s) -> S]
  BY SequenceOf
<1>2. u \in Seq(T) /\ Len(u) = Len(s) /\ \A k \in 1..Len(s) : u[k] = t[k]
  BY <1>1
<1> HIDE DEF u
<1>3. u \in [1..Len(s) -> T]
  BY <1>2, SequenceOf
<1>4. u = s
  BY <1>1, <1>2, <1>3
<1> QED BY <1>4 DEF u

LEMMA LongIs ==
  ASSUME NEW n \in Nat
  PROVE  Picture!Cardinality(1..n) = n
<1>1. Picture!Cardinality(1..n) = Cardinality(1..n)
  BY DEF Picture!Cardinality, Cardinality
<1>2. Cardinality(1..n) = IF 1 > n THEN 0 ELSE n - 1 + 1
  BY FS_Interval
<1> QED BY <1>1, <1>2

(* What is decoded of it is the picture.                                    *)
LEMMA DecodedIs ==
  ASSUME NEW s \in Seq(0..255)
  PROVE  LET t == Picture!Encoded(s)
         IN t \in Seq(0..64) /\ Len(t) >= Len(s) /\ Picture!Decoded(t) = s
<1> DEFINE D == DigitsOf(s)
           t == Picture!Padded(D)
           l == Len(D)
<1>1. DigitsGive(s, D)
  BY DEF DigitsGive
<1> HIDE DEF D
<1>2. Len(s) \in Nat /\ l = (8 * Len(s) + 5) \div 6 /\ l \in Nat /\ D \in Seq(0..63)
  BY <1>1, DigitsAre
<1>3. PICK p : PaddedBy(t, D, p)
  BY <1>2, PaddedIs
<1> HIDE DEF t
<1>a. /\ p \in Nat /\ t \in Seq(0..64) /\ Len(t) = l + p /\ Len(t) % 4 = 0 /\ Len(t) \in Nat
      /\ \A k \in 1..l : t[k] = D[k]
      /\ \A k \in (l + 1)..(l + p) : t[k] = 64
  BY <1>2, <1>3 DEF PaddedBy
<1>4. SubSeq(t, 1, Len(t) - (Len(t) % 4)) = t
  <2> DEFINE n == Len(t)
  <2>1. n \in Nat /\ n % 4 = 0
    BY <1>a
  <2> HIDE DEF n
  <2>2. n - (n % 4) = n
    BY <2>1
  <2>3. SubSeq(t, 1, n) = t
    BY <1>a, BeginningIs DEF n
  <2> QED BY <2>2, <2>3 DEF n
<1>5. {k \in DOMAIN t : t[k] < 64} = 1..l
  <2>1. DOMAIN t = 1..(l + p)
    BY <1>2, <1>a, SequenceOf
  <2>2. \A k \in 1..l : D[k] \in 0..63
    BY <1>2, SequenceOf
  <2> HIDE DEF l
  <2>3. \A k \in 1..(l + p) : k \in 1..l \/ k \in (l + 1)..(l + p)
    BY <1>2
  <2>4. \A k \in 1..l : t[k] < 64 /\ k \in 1..(l + p)
    <3> TAKE k \in 1..l
    <3>1. t[k] = D[k] /\ D[k] \in 0..63
      BY <1>a, <2>2
    <3>2. l \in Nat /\ p \in Nat
      BY <1>2, <1>a
    <3>3. \A x \in 0..63 : x < 64
      OBVIOUS
    <3>4. t[k] \in 0..63
      BY <3>1
    <3>5. t[k] < 64
      BY <3>3, <3>4
    <3>6. k \in 1..(l + p)
      BY <3>2
    <3> QED BY <3>5, <3>6
  <2>5. \A k \in (l + 1)..(l + p) : ~(t[k] < 64)
    BY <1>a
  <2> QED BY <2>1, <2>3, <2>4, <2>5
<1>6. Picture!Cardinality(1..l) = l
  <2> HIDE DEF l
  <2> QED BY <1>2, LongIs
<1>b. l <= Len(t)
  <2> HIDE DEF l
  <2>1. Len(t) = l + p /\ p \in Nat
    BY <1>a
  <2>2. l \in Nat
    BY <1>2
  <2> QED BY <2>1, <2>2
<1>7. SubSeq(t, 1, l) = D
  BY <1>2, <1>a, <1>b, BeginningIs
<1>8. Picture!Decoded(t) = [k \in 1..((6 * l) \div 8) |-> Picture!Number(D, 6, 8 * (k - 1), 8 * k - 1)]
  BY <1>4, <1>5, <1>6, <1>7 DEF Picture!Decoded, Picture!Pad
<1>9. (6 * l) \div 8 = Len(s)
  BY <1>2
<1>10. Picture!Decoded(t) = s
  <2>1. s \in [1..Len(s) -> 0..255]
    BY SequenceOf
  <2>2. s = [k \in 1..Len(s) |-> s[k]]
    BY <2>1
  <2>3. \A k \in 1..Len(s) : Picture!Number(D, 6, 8 * (k - 1), 8 * k - 1) = s[k]
    BY <1>1, ByteIs
  <2> QED BY <1>8, <1>9, <2>2, <2>3
<1>11. Len(t) >= Len(s)
  <2> HIDE DEF l
  <2> QED BY <1>2, <1>9, <1>b
<1>12. Picture!Encoded(s) = t
  BY EncodedIs DEF D, t
<1> QED BY <1>a, <1>10, <1>11, <1>12

LEMMA SavedMeans ==
  ASSUME in \in Seq(0..255)
  PROVE  Picture!SavedBeginsWithPicture
<1> DEFINE t == Picture!Encoded(in)
           n == Len(t) - Len(in)
           z == [k \in 1..n |-> 0]
           saved == Picture!Saved(t)
           S == 0..255
<1>1. t \in Seq(0..64) /\ Len(t) >= Len(in) /\ Picture!Decoded(t) = in
  BY DecodedIs
<1>2. saved = in \o z
  BY <1>1 DEF Picture!Saved, Picture!own_base64_decode
<1>3. Len(in) \in Nat /\ Len(t) \in Nat /\ n \in Nat /\ Len(t) = Len(in) + n
  <2>1. Len(in) \in Nat /\ Len(t) \in Nat
    BY <1>1, SequenceOf
  <2> QED BY <1>1, <2>1
<1> HIDE DEF t, n, saved
<1>4. in \in Seq(S) /\ z \in Seq(S) /\ Len(z) = n
  <2>1. z \in [1..n -> S]
    OBVIOUS
  <2>2. in \in Seq(S)
    OBVIOUS
  <2> HIDE DEF S, z
  <2> QED BY <1>3, <2>1, <2>2
<1>5. \A k \in 1..n : z[k] = 0
  OBVIOUS
<1> HIDE DEF S, z
<1>6. saved \in Seq(S) /\ Len(saved) = Len(t)
  <2>1. in \o z \in Seq(S) /\ Len(in \o z) = Len(in) + Len(z)
    BY <1>4
  <2> QED BY <1>2, <1>3, <1>4, <2>1
<1>7. \A k \in (Len(in) + 1)..Len(saved) : saved[k] = 0
  <2> TAKE k \in (Len(in) + 1)..Len(saved)
  <2>1. k - Len(in) \in 1..n /\ k \in 1..(Len(in) + n) /\ k > Len(in)
    BY <1>3, <1>6
  <2>2. (in \o z)[k] = z[k - Len(in)]
    BY <1>3, <1>4, <2>1
  <2> QED BY <1>2, <1>5, <2>1, <2>2
<1>8. Picture!IsPrefix(in, saved)
  <2>1. \A k \in 1..Len(in) : saved[k] = in[k]
    BY <1>2, <1>3, <1>4
  <2>2. Len(in) <= Len(saved)
    BY <1>3, <1>6
  <2>3. SubSeq(saved, 1, Len(in)) = SubSeq(in, 1, Len(in))
    <3> DEFINE u == SubSeq(saved, 1, Len(in))
               w == SubSeq(in, 1, Len(in))
    <3>1. u \in Seq(S) /\ Len(u) = Len(in) /\ \A k \in 1..Len(in) : u[k] = saved[k]
      BY <1>3, <1>6, <2>2
    <3>2. w \in Seq(S) /\ Len(w) = Len(in) /\ \A k \in 1..Len(in) : w[k] = in[k]
      BY <1>3, <1>4
    <3> HIDE DEF u, w
    <3>3. u \in [1..Len(in) -> S] /\ w \in [1..Len(in) -> S]
      BY <3>1, <3>2, SequenceOf
    <3>4. u = w
      BY <2>1, <3>1, <3>2, <3>3
    <3> QED BY <3>4 DEF u, w
  <2> QED BY <2>2, <2>3 DEF Picture!IsPrefix
<1> QED BY <1>6, <1>7, <1>8 DEF Picture!SavedBeginsWithPicture, saved, t
-----------------------------------------------------------------------------
(* The speaker and the upload have proofs of their own; what they prove     *)
(* speaks of the same definitions.                                          *)
LEMMA SameSpeaker ==
  /\ Speaker!Constants => SpeakerP!Constants
  /\ Speaker!Init => SpeakerP!Init
  /\ Speaker!Next => SpeakerP!Next
  /\ UNCHANGED speaker => UNCHANGED SpeakerP!vars
<1>1. Speaker!Constants => SpeakerP!Constants
  BY DEF Speaker!Constants, SpeakerP!Constants
<1>2. Speaker!Init => SpeakerP!Init
  BY DEF Speaker!Init, SpeakerP!Init, Speaker!Samples, SpeakerP!Samples, Speaker!NoRequest, SpeakerP!NoRequest
<1>3. UNCHANGED speaker => UNCHANGED SpeakerP!vars
  BY DEF speaker, SpeakerP!vars, SpeakerP!client, SpeakerP!service
<1>4. Speaker!Next => SpeakerP!Next
  <2>1. Speaker!Script = SpeakerP!Script
    BY DEF Speaker!Script, SpeakerP!Script, Speaker!First, SpeakerP!First, Speaker!Plays, SpeakerP!Plays
  <2>2. Speaker!Samples = SpeakerP!Samples /\ Speaker!Ops = SpeakerP!Ops /\ Speaker!NoRequest = SpeakerP!NoRequest
    BY DEF Speaker!Samples, SpeakerP!Samples, Speaker!Ops, SpeakerP!Ops, Speaker!Lists, SpeakerP!Lists, Speaker!NoRequest,
           SpeakerP!NoRequest
  <2>3. \A op : Speaker!Call(op) => SpeakerP!Call(op)
    BY <2>1, <2>2 DEF Speaker!Call, SpeakerP!Call, Speaker!Chosen, SpeakerP!Chosen, Speaker!service, SpeakerP!service
  <2>4. Speaker!Input \/ Speaker!Serve \/ Speaker!Refuse \/ Speaker!PlayedOut \/ Speaker!Lost =>
        SpeakerP!Input \/ SpeakerP!Serve \/ SpeakerP!Refuse \/ SpeakerP!PlayedOut \/ SpeakerP!Lost
    BY <2>2 DEF Speaker!Input, SpeakerP!Input, Speaker!Serve, SpeakerP!Serve, Speaker!Refuse, SpeakerP!Refuse, Speaker!PlayedOut, SpeakerP!PlayedOut,
       Speaker!Lost, SpeakerP!Lost, Speaker!client, SpeakerP!client, Speaker!service, SpeakerP!service
  <2>5. \A ok : Speaker!Return(ok) => SpeakerP!Return(ok)
    BY <2>1, <2>2 DEF Speaker!Return, SpeakerP!Return, Speaker!First, SpeakerP!First, Speaker!service, SpeakerP!service
  <2>6. \A op : Speaker!CodeOnly(op) => SpeakerP!CodeOnly(op)
    BY <2>2, <2>5 DEF Speaker!CodeOnly, SpeakerP!CodeOnly, Speaker!Answered, SpeakerP!Answered, Speaker!Success,
       SpeakerP!Success, Speaker!Credentials, SpeakerP!Credentials, Speaker!Collected, SpeakerP!Collected
  <2>7. Speaker!Login => SpeakerP!Login
    BY <2>2, <2>5 DEF Speaker!Login, SpeakerP!Login, Speaker!Answered, SpeakerP!Answered, Speaker!Success,
       SpeakerP!Success, Speaker!Collected, SpeakerP!Collected
  <2>8. Speaker!GetDeviceList => SpeakerP!GetDeviceList
    BY <2>2, <2>5 DEF Speaker!GetDeviceList, SpeakerP!GetDeviceList, Speaker!Page, SpeakerP!Page, Speaker!Answered,
       SpeakerP!Answered, Speaker!Success, SpeakerP!Success, Speaker!Credentials, SpeakerP!Credentials
  <2>9. Speaker!GetMusicListByDeviceId => SpeakerP!GetMusicListByDeviceId
    BY <2>2, <2>5 DEF Speaker!GetMusicListByDeviceId, SpeakerP!GetMusicListByDeviceId, Speaker!Page, SpeakerP!Page,
       Speaker!Answered, SpeakerP!Answered, Speaker!Success, SpeakerP!Success, Speaker!Credentials, SpeakerP!Credentials
  <2>10. Speaker!GetMusicListByUserId => SpeakerP!GetMusicListByUserId
    BY <2>2, <2>5 DEF Speaker!GetMusicListByUserId, SpeakerP!GetMusicListByUserId, Speaker!Page, SpeakerP!Page,
       Speaker!Answered, SpeakerP!Answered, Speaker!Success, SpeakerP!Success, Speaker!Credentials, SpeakerP!Credentials
  <2>11. Speaker!Answer => SpeakerP!Answer
    BY <2>6, <2>7, <2>8, <2>9, <2>10 DEF Speaker!Answer, SpeakerP!Answer,
       Speaker!GetUserInfoByUserID, SpeakerP!GetUserInfoByUserID, Speaker!GetDeviceVolume, SpeakerP!GetDeviceVolume,
       Speaker!UploadFile, SpeakerP!UploadFile, Speaker!DeleteFile, SpeakerP!DeleteFile,
       Speaker!PlayMusic, SpeakerP!PlayMusic, Speaker!CanclePlayMusic, SpeakerP!CanclePlayMusic
  <2> QED BY <2>2, <2>3, <2>4, <2>11 DEF Speaker!Next, SpeakerP!Next
<1> QED BY <1>1, <1>2, <1>3, <1>4

LEMMA SameSpeakerPromises ==
  /\ SpeakerP!OneSession => Speaker!OneSession
  /\ SpeakerP!ZeroMeansSilent => Speaker!ZeroMeansSilent
  /\ SpeakerP!WholeOrEmpty => Speaker!WholeOrEmpty
  /\ SpeakerP!TypeOK => Speaker!TypeOK
<1>1. Speaker!Samples = SpeakerP!Samples /\ Speaker!Plays = SpeakerP!Plays
  BY DEF Speaker!Samples, SpeakerP!Samples, Speaker!Plays, SpeakerP!Plays
<1>2. Speaker!Script = SpeakerP!Script
  BY <1>1 DEF Speaker!Script, SpeakerP!Script, Speaker!First, SpeakerP!First
<1>3. Speaker!Ops = SpeakerP!Ops /\ Speaker!Logins = SpeakerP!Logins
  BY DEF Speaker!Ops, SpeakerP!Ops, Speaker!Lists, SpeakerP!Lists, Speaker!Logins, SpeakerP!Logins
<1> QED BY <1>1, <1>2, <1>3 DEF Speaker!OneSession, SpeakerP!OneSession, Speaker!ZeroMeansSilent, SpeakerP!ZeroMeansSilent,
       Speaker!WholeOrEmpty, SpeakerP!WholeOrEmpty, Speaker!TypeOK, SpeakerP!TypeOK

-----------------------------------------------------------------------------
(***************************************************************************)
(* httplib_upload_file_and_push_record.                                     *)
(***************************************************************************)

(* The request that is awaited was written; a request was only sent again   *)
(* when every one before it was closed.                                     *)
TriesOK ==
  /\ upload_phase = "await" => step # "ended" /\ Upload!Current \in written
  /\ \A s \in Upload!Steps, n \in 1..Tries : <<s, n>> \in written => \A k \in 1..Tries : k < n => <<s, k>> \in closed
  /\ step # "ended" => \A k \in 1..Tries : k < try => <<step, k>> \in closed

(* The program goes on to the token and the record only with the image up.  *)
StepsOK ==
  /\ step \in {"token", "push"} => Upload!Uploaded
  /\ \A n \in 1..Tries : <<"push", n>> \in written => Upload!Uploaded

UploadInv == Upload!TypeOK /\ TriesOK /\ StepsOK /\ Upload!ZeroMeansRecorded

LEMMA UploadTypes == Upload!Constants /\ Upload!TypeOK /\ TriesOK /\ [Upload!Next]_upload => Upload!TypeOK'
<1> SUFFICES ASSUME Upload!Constants, Upload!TypeOK, TriesOK, [Upload!Next]_upload PROVE Upload!TypeOK'
  OBVIOUS
<1> USE DEF Upload!Constants
<1>1. CASE Upload!Write
  BY <1>1 DEF Upload!Write, Upload!TypeOK, Upload!Requests, Upload!Current, Upload!Steps
<1>2. CASE Upload!ConnectFails \/ Upload!Timeout
  BY <1>2 DEF Upload!ConnectFails, Upload!Timeout, Upload!Fail, Upload!Crash, Upload!TypeOK
<1>3. CASE Upload!Closed
  BY <1>3 DEF Upload!Closed, Upload!Fail, Upload!TypeOK, TriesOK
<1>4. CASE \E r \in Upload!Requests : Upload!Perform(r)
  BY <1>4 DEF Upload!Perform, Upload!program, Upload!TypeOK
<1>5. CASE Upload!UploadAnswered \/ Upload!TokenAnswered \/ Upload!PushAnswered
  BY <1>5 DEF Upload!UploadAnswered, Upload!TokenAnswered, Upload!PushAnswered, Upload!Answered, Upload!Unreadable,
       Upload!Goto, Upload!Fail, Upload!TypeOK, Upload!Steps
<1>6. CASE UNCHANGED upload
  BY <1>6 DEF upload, Upload!TypeOK
<1> QED BY <1>1, <1>2, <1>3, <1>4, <1>5, <1>6 DEF Upload!Next

(* What was performed stays performed.                                      *)
LEMMA UploadMonotone ==
  ASSUME [Upload!Next]_upload
  PROVE  /\ performed \subseteq performed' /\ closed \subseteq closed'
         /\ Upload!Uploaded => Upload!Uploaded'
         /\ Upload!Records # {} => Upload!Records' # {}
<1>1. performed \subseteq performed' /\ closed \subseteq closed'
  BY DEF Upload!Next, Upload!Write, Upload!ConnectFails, Upload!Timeout, Upload!Closed, Upload!Perform,
       Upload!UploadAnswered, Upload!TokenAnswered, Upload!PushAnswered, Upload!Answered,
       Upload!Unreadable, upload
<1> QED BY <1>1 DEF Upload!Uploaded, Upload!Records

LEMMA UploadStep == Upload!Constants /\ UploadInv /\ [Upload!Next]_upload => UploadInv'
<1> SUFFICES ASSUME Upload!Constants, UploadInv, [Upload!Next]_upload PROVE UploadInv'
  OBVIOUS
<1> USE DEF UploadInv, Upload!Constants
<1>0. Upload!TypeOK'
  BY UploadTypes
<1>1. CASE Upload!Write
  <2>1. /\ written' = written \cup {<<step, try>>} /\ step' = step /\ try' = try
        /\ upload_phase' = "await" /\ step # "ended" /\ closed' = closed
        /\ performed' = performed /\ upload_result' = upload_result
    BY <1>1 DEF Upload!Write, Upload!Current
  <2>2. TriesOK'
    BY <2>1 DEF TriesOK, Upload!Current, Upload!TypeOK
  <2>3. StepsOK'
    BY <2>1, UploadMonotone DEF StepsOK
  <2> QED BY <1>0, <2>1, <2>2, <2>3, UploadMonotone DEF Upload!ZeroMeansRecorded
<1>2. CASE step' = "ended" /\ upload_phase' = "connect" /\ written' = written /\ upload_result' # "zero"
  <2>1. TriesOK'
    BY <1>2, UploadMonotone DEF TriesOK
  <2> QED BY <1>0, <1>2, <2>1, UploadMonotone DEF StepsOK, Upload!ZeroMeansRecorded
<1>3. CASE Upload!Closed /\ step' # "ended"
  <2>1. /\ closed' = closed \cup {<<step, try>>} /\ step' = step /\ try' = try + 1 /\ upload_phase' = "connect"
        /\ written' = written /\ performed' = performed /\ upload_result' = upload_result
    BY <1>3 DEF Upload!Closed, Upload!Current, Upload!Fail
  <2>2. TriesOK'
    <3>1. \A k \in 1..Tries : k < try + 1 => k < try \/ k = try
      BY DEF Upload!TypeOK
    <3> QED BY <2>1, <3>1 DEF TriesOK
  <2> QED BY <1>0, <2>1, <2>2, UploadMonotone DEF StepsOK, Upload!ZeroMeansRecorded
<1>4. CASE (\E r \in Upload!Requests : Upload!Perform(r)) \/ UNCHANGED upload
  <2>1. /\ step' = step /\ upload_result' = upload_result /\ upload_phase' = upload_phase
        /\ try' = try /\ written' = written /\ closed' = closed
    BY <1>4 DEF Upload!Perform, Upload!program, upload
  <2>2. TriesOK'
    BY <2>1 DEF TriesOK, Upload!Current
  <2> QED BY <1>0, <2>1, <2>2, UploadMonotone DEF StepsOK, Upload!ZeroMeansRecorded
<1>5. CASE \E next \in {"token", "push", "ended"} :
                    /\ Upload!Goto(next) /\ step # "ended" /\ Upload!Current \in performed
                    /\ UNCHANGED <<written, performed, closed>>
                    /\ next = (IF step = "upload" THEN "token" ELSE IF step = "token" THEN "push" ELSE "ended")
  <2>1. /\ step' = (IF step = "upload" THEN "token" ELSE IF step = "token" THEN "push" ELSE "ended")
        /\ upload_phase' = "connect" /\ try' = 1 /\ <<step, try>> \in performed /\ step \in Upload!Steps
        /\ written' = written /\ performed' = performed /\ closed' = closed
        /\ upload_result' = "zero" => step = "push"
    <3>1. PICK next \in {"token", "push", "ended"} :
                    /\ Upload!Goto(next) /\ step # "ended" /\ Upload!Current \in performed
                    /\ UNCHANGED <<written, performed, closed>>
                    /\ next = (IF step = "upload" THEN "token" ELSE IF step = "token" THEN "push" ELSE "ended")
      BY <1>5
    <3>2. /\ step' = next /\ upload_phase' = "connect" /\ try' = 1
          /\ upload_result' = (IF next = "ended" THEN "zero" ELSE "none")
      BY <3>1 DEF Upload!Goto
    <3>3. step \in Upload!Steps
      BY <3>1 DEF Upload!TypeOK
    <3> QED BY <3>1, <3>2, <3>3 DEF Upload!Current, Upload!Steps
  <2>2. TriesOK'
    BY <2>1 DEF TriesOK
  <2>3. step = "upload" => Upload!Uploaded
    BY <2>1 DEF Upload!Uploaded, Upload!TypeOK
  <2>4. step' \in {"token", "push"} => Upload!Uploaded'
    BY <2>1, <2>3, UploadMonotone DEF StepsOK, Upload!Steps
  <2>5. StepsOK'
    BY <2>1, <2>4, UploadMonotone DEF StepsOK
  <2>6. step = "push" => Upload!Records # {} /\ Upload!Uploaded
    BY <2>1 DEF Upload!Records, StepsOK, Upload!TypeOK
  <2> QED BY <1>0, <2>1, <2>2, <2>5, <2>6, UploadMonotone DEF Upload!ZeroMeansRecorded
<1>6. CASE Upload!UploadAnswered \/ Upload!TokenAnswered \/ Upload!PushAnswered
  <2>1. CASE Upload!Fail /\ UNCHANGED written
    BY <1>2, <2>1 DEF Upload!Fail
  <2>2. CASE ~(Upload!Fail /\ UNCHANGED written)
    BY <1>5, <1>6, <2>2 DEF Upload!UploadAnswered, Upload!TokenAnswered, Upload!PushAnswered, Upload!Answered,
         Upload!Unreadable
  <2> QED BY <2>1, <2>2
<1>7. CASE Upload!ConnectFails \/ Upload!Timeout \/ Upload!Closed
  <2>1. CASE Upload!Fail /\ UNCHANGED written
    BY <1>2, <2>1 DEF Upload!Fail
  <2>2. CASE Upload!Closed /\ ~Upload!Fail
    BY <1>3, <2>2 DEF Upload!Closed, TriesOK
  <2>3. CASE Upload!Crash /\ UNCHANGED written
    BY <1>2, <2>3 DEF Upload!Crash
  <2> QED BY <1>7, <2>1, <2>2, <2>3 DEF Upload!ConnectFails, Upload!Timeout, Upload!Closed
<1> QED BY <1>1, <1>4, <1>6, <1>7 DEF Upload!Next

(* Who is not alone in a set has another one beside him.                    *)
LEMMA TwoMembers ==
  ASSUME NEW S, Cardinality(S) > 1
  PROVE  \E x, y \in S : x # y
<1>1. S # {}
  BY FS_EmptySet
<1>2. PICK x \in S : TRUE
  BY <1>1
<1>3. S # {x}
  BY FS_Singleton
<1> QED BY <1>2, <1>3

LEMMA UploadInit == Upload!Constants /\ Upload!Init => UploadInv
BY DEF Upload!Constants, Upload!Init, UploadInv, Upload!TypeOK, Upload!Steps, Upload!Requests, TriesOK, StepsOK,
     Upload!ZeroMeansRecorded

LEMMA UploadMeans ==
  Upload!Constants /\ UploadInv => Upload!RecordAfterImage /\ Upload!ZeroMeansRecorded /\ Upload!TwiceOnlyIfClosed
<1> SUFFICES ASSUME Upload!Constants, UploadInv
             PROVE  Upload!RecordAfterImage /\ Upload!ZeroMeansRecorded /\ Upload!TwiceOnlyIfClosed
  OBVIOUS
<1>1. \A n \in Upload!Records : n \in 1..Tries /\ <<"push", n>> \in written
  BY DEF UploadInv, Upload!TypeOK, Upload!Records
<1>2. Upload!RecordAfterImage
  BY <1>1 DEF UploadInv, StepsOK, Upload!RecordAfterImage
<1>3. ASSUME Cardinality(Upload!Records) > 1 PROVE \E n \in Upload!Records : <<"push", n>> \in closed
  <2>1. PICK x \in Upload!Records, y \in Upload!Records : x # y
    BY <1>3, TwoMembers
  <2>2. PICK n \in Upload!Records, k \in Upload!Records : n < k
    <3>1. x \in Int /\ y \in Int
      BY DEF Upload!Constants, Upload!Records
    <3>2. x < y \/ y < x
      BY <2>1, <3>1
    <3> QED BY <3>2
  <2> QED BY <1>1, <2>2 DEF UploadInv, TriesOK, Upload!Steps
<1>4. Upload!Cardinality(Upload!Records) = Cardinality(Upload!Records)
  BY DEF Upload!Cardinality, Cardinality
<1> QED BY <1>2, <1>3, <1>4 DEF UploadInv, Upload!TwiceOnlyIfClosed
-----------------------------------------------------------------------------
(* The whole: main runs one function, and the others stay where they are.   *)
DispatchInv ==
  /\ WateringInv /\ GreedyInv /\ SpeakerP!TypeInv /\ UploadInv /\ ToolInv
  /\ Sleep!TypeOK /\ IndexInv /\ PictureInv /\ DigitsInv

LEMMA EachSteps ==
  ASSUME [DispatchNext]_all
  PROVE  /\ [Next]_vars /\ [Speaker!Next]_speaker /\ [Upload!Next]_upload /\ [Tool!Next]_ffmpeg
         /\ [Sleep!Next]_sleeper /\ [Track!Next]_tracking /\ [Picture!Next]_base64
<1>1. CASE Lookup \/ Return \/ UNCHANGED all
  <2>1. UNCHANGED functions
    BY <1>1 DEF Lookup, Return, all
  <2> QED BY <2>1 DEF functions
<1>2. CASE CallWatering \/ CallSpeaker \/ CallUpload \/ CallTool \/ CallSleeper \/ CallTracker \/ CallPicture
  BY <1>2 DEF CallWatering, CallSpeaker, CallUpload, CallTool, CallSleeper, CallTracker, CallPicture
<1> QED BY <1>1, <1>2 DEF DispatchNext

LEMMA DispatchBegins == DispatchInit => DispatchInv
<1> SUFFICES ASSUME DispatchInit PROVE DispatchInv
  OBVIOUS
<1>1. Init /\ Speaker!Init /\ Upload!Init /\ Tool!Init /\ Sleep!Init /\ Track!Init /\ Picture!Init
  BY DEF DispatchInit
<1>2. SpeakerP!TypeInv
  BY <1>1, FunctionsAssumption, SameSpeaker, SpeakerP!TypeInit
<1>3. UploadInv
  BY <1>1, FunctionsAssumption, UploadInit
<1> QED BY <1>1, <1>2, <1>3, FunctionsAssumption, WateringBegins, GreedyBegins, ToolInit, SleeperInit, TrackerInit,
       PictureInit, DigitsBegin
    DEF DispatchInv

LEMMA DispatchStep == DispatchInv /\ [DispatchNext]_all => DispatchInv'
<1> SUFFICES ASSUME DispatchInv, [DispatchNext]_all PROVE DispatchInv'
  OBVIOUS
<1>1. /\ [Next]_vars /\ [Speaker!Next]_speaker /\ [Upload!Next]_upload /\ [Tool!Next]_ffmpeg
      /\ [Sleep!Next]_sleeper /\ [Track!Next]_tracking /\ [Picture!Next]_base64
  BY EachSteps
<1>2. SpeakerP!TypeInv'
  BY <1>1, FunctionsAssumption, SameSpeaker, SpeakerP!TypeStep DEF DispatchInv
<1>3. UploadInv'
  BY <1>1, FunctionsAssumption, UploadStep DEF DispatchInv
<1>4. WateringInv' /\ GreedyInv' /\ ToolInv' /\ Sleep!TypeOK'
  BY <1>1, FunctionsAssumption, WateringStep, GreedyStep, ToolStep, SleeperStep DEF DispatchInv
<1>5. IndexInv' /\ PictureInv' /\ DigitsInv'
  BY <1>1, FunctionsAssumption, TrackerStep, PictureStep, DigitsStep DEF DispatchInv
<1> QED BY <1>2, <1>3, <1>4, <1>5 DEF DispatchInv

LEMMA DispatchMeans ==
  DispatchInv => /\ TypeOK /\ GreedyIsOptimal /\ GoodMeansDone /\ NothingHalf /\ IndexInStep
                 /\ EncodesAsBase64 /\ Sleep!TypeOK
<1> SUFFICES ASSUME DispatchInv
             PROVE  /\ TypeOK /\ GreedyIsOptimal /\ GoodMeansDone /\ NothingHalf /\ IndexInStep
                    /\ EncodesAsBase64 /\ Sleep!TypeOK
  OBVIOUS
<1>1. Speaker!TypeOK /\ Speaker!OneSession /\ Speaker!ZeroMeansSilent /\ Speaker!WholeOrEmpty
  BY SpeakerP!SpeakerMeans, SameSpeakerPromises DEF DispatchInv, SpeakerP!TypeInv
<1>2. Upload!TypeOK /\ Upload!RecordAfterImage /\ Upload!ZeroMeansRecorded /\ Upload!TwiceOnlyIfClosed
  BY FunctionsAssumption, UploadMeans DEF DispatchInv, UploadInv
<1>3. Tool!TypeOK /\ Tool!Closed /\ Tool!TrailerTried /\ Tool!OnePacketLost /\ Tool!NothingTemporary
  BY DEF DispatchInv, ToolInv, ToolsAreTidy
<1>4. Track!TypeOK /\ Track!EveryTargetFound /\ Track!OnceEach
  BY TrackerTypes DEF DispatchInv
<1>5. TypeOK /\ GreedyIsOptimal /\ Sleep!TypeOK
  BY GreedyMeans DEF DispatchInv, WateringInv
<1>6. EncodesAsBase64
  <2>1. Picture!Constants /\ Picture!FewBitsWait /\ PictureInv /\ DigitsInv
    BY FunctionsAssumption DEF DispatchInv, PictureInv
  <2>2. in \in Seq(0..255)
    BY <2>1 DEF Picture!Constants, PictureInv
  <2> QED BY <2>1, <2>2, EncodesMeans, SavedMeans DEF EncodesAsBase64
<1> QED BY <1>1, <1>2, <1>3, <1>4, <1>5, <1>6 DEF GoodMeansDone, NothingHalf, IndexInStep

LEMMA DispatchAlways == DispatchSpec => []DispatchInv
BY DispatchBegins, DispatchStep, PTL DEF DispatchSpec
-----------------------------------------------------------------------------
(* code_2105 keeps every local in its range and every index inside the row, *)
(* whatever the demands and the sizes of the cans.                          *)
THEOREM TypeCorrect == DispatchSpec => []TypeOK
BY DispatchAlways, DispatchMeans, PTL

(* The refills code_2105 counts are the fewest there could be, for rows of  *)
(* any length, any demands and any two cans that are large enough: at every *)
(* turn for the plants watered so far, and at the end for the whole row,    *)
(* whoever takes the plant where the two meet.                              *)
THEOREM GreedyIsBest == DispatchSpec => []GreedyIsOptimal
BY DispatchAlways, DispatchMeans, PTL

(* What a good result of a function means, for any number of items, tries   *)
(* and images: five pieces were started and the device is silent, record    *)
(* and image are there.                                                     *)
THEOREM GoodResultsAreTrue == DispatchSpec => []GoodMeansDone
BY DispatchAlways, DispatchMeans, PTL

(* What a failure on the way leaves: whole sessions, lists that are whole   *)
(* or empty, no record without its image, no recording that was closed      *)
(* without trying its trailer, no file, camera or directory that is not     *)
(* given back.                                                              *)
THEOREM NothingIsHalfDone == DispatchSpec => []NothingHalf
BY DispatchAlways, DispatchMeans, PTL

(* For any number of tries and whatever fails, is late or is performed when *)
(* nobody waits any more: 0 means image and record, a record has its image, *)
(* and a second record only follows an orderly close.                       *)
THEOREM RecordsAreRight ==
  DispatchSpec => [](Upload!RecordAfterImage /\ Upload!ZeroMeansRecorded /\ Upload!TwiceOnlyIfClosed)
<1>1. DispatchInv => Upload!RecordAfterImage /\ Upload!ZeroMeansRecorded /\ Upload!TwiceOnlyIfClosed
  BY FunctionsAssumption, UploadMeans DEF DispatchInv
<1> QED BY <1>1, DispatchAlways, PTL

(* For any targets, places and moves the index holds every target where it  *)
(* is, and no entry twice; and no answer is longer than what was asked for. *)
THEOREM IndexStaysInStep == DispatchSpec => []IndexInStep
BY DispatchAlways, DispatchMeans, PTL

(* For any picture: the text base64_encode returns is the base64 of it,    *)
(* though its accumulator overflows and is never cleared, as 14 bits of an  *)
(* int are all it looks at; it holds back no more than four bits and pushes *)
(* every other; and what is decoded of the text and saved begins with the   *)
(* picture and goes on with zeros.                                          *)
THEOREM PicturesAreEncoded == DispatchSpec => []EncodesAsBase64
BY DispatchAlways, DispatchMeans, PTL

(* The mutex of the sleeper has one holder, who is where it is held, for    *)
(* any number of threads; and no thread goes back to work before its time   *)
(* but after interrupt().                                                   *)
THEOREM SleepersSleepOn == DispatchSpec => []Sleep!TypeOK /\ Sleep!SleepsLong
<1>1. ASSUME Sleep!TypeOK, [DispatchNext]_all
      PROVE  [\A t \in Threads : at[t] = "checks" /\ at'[t] = "works" => terminate]_(Sleep!vars)
  <2>1. [Sleep!Next]_sleeper
    BY <1>1, EachSteps
  <2> QED BY <1>1, <2>1, FunctionsAssumption, SleepOn
<1>2. DispatchSpec => [][DispatchNext]_all
  BY PTL DEF DispatchSpec
<1>3. DispatchSpec => []Sleep!TypeOK
  BY DispatchAlways, DispatchMeans, PTL
<1> QED BY <1>1, <1>2, <1>3, PTL DEF Sleep!SleepsLong
=============================================================================
