--------------------------- MODULE WateringPlants ---------------------------
(***************************************************************************)
(* code_2105 of leet_code/leet_code.cpp: Alice waters a row of plants from *)
(* the left, Bob from the right, each refilling a can when it holds too    *)
(* little for the next plant; the program counts the refills.  The inputs, *)
(* which the C++ function holds as three literals, are parameters here.    *)
(* Indices start at 1 instead of 0.                                        *)
(***************************************************************************)
EXTENDS Integers, Sequences, FiniteSets

Sets == INSTANCE FiniteSetsExt

CONSTANTS
  Rows,         (* the rows of plants to try: a set of sequences of demands  *)
  Capacities    (* the sizes of can to try                                   *)

(* The problem statement's precondition, met by the literals in the code:  *)
(* no plant needs more than a full can.                                    *)
ASSUME InputAssumption ==
  /\ Rows \subseteq Seq(Nat)
  /\ Capacities \subseteq Nat

VARIABLES plants, capacityA, capacityB,    (* the literals               *)
          posa, posb, vala, valb, res,     (* the locals of the loop     *)
          phase                            (* where the function stands  *)

vars == <<plants, capacityA, capacityB, posa, posb, vala, valb, res, phase>>

Suits(row, capacity) == \A i \in DOMAIN row : row[i] <= capacity

Init ==
  /\ plants \in Rows
  /\ capacityA \in {c \in Capacities : Suits(plants, c)}
  /\ capacityB \in {c \in Capacities : Suits(plants, c)}
  /\ posa = 1
  /\ posb = Len(plants)
  /\ vala = capacityA
  /\ valb = capacityB
  /\ res = 0
  /\ phase = "loop"

(* Mutants: the can is taken for full after a refill; a can is spent        *)
(* without a look at what it holds.                                        *)
LevelFull(val, need, capacity) ==
  IF val < need THEN capacity ELSE val - need
LevelUnchecked(val, need, capacity) == val - need

(* One watering: the level left in a can after a plant of need, and the    *)
(* refill it cost.                                                         *)
Level(val, need, capacity) ==
  IF val < need THEN capacity - need ELSE val - need
Refill(val, need) == IF val < need THEN 1 ELSE 0

(* The body of the while loop: Alice's plant, then Bob's. *)
WaterBothEnds ==
  /\ phase = "loop"
  /\ posa < posb
  /\ vala' = Level(vala, plants[posa], capacityA)
  /\ valb' = Level(valb, plants[posb], capacityB)
  /\ res' = res + Refill(vala, plants[posa]) + Refill(valb, plants[posb])
  /\ posa' = posa + 1
  /\ posb' = posb - 1
  /\ UNCHANGED <<plants, capacityA, capacityB, phase>>

(* After the loop: if one plant is left, the fuller can takes it, Alice's  *)
(* when they are level.                                                    *)
LastPlant ==
  /\ phase = "loop"
  /\ posa = posb
  /\ res' = IF vala >= valb THEN res + Refill(vala, plants[posa])
                            ELSE res + Refill(valb, plants[posb])
  /\ phase' = "done"
  /\ UNCHANGED <<plants, capacityA, capacityB, posa, posb, vala, valb>>

NoPlantLeft ==
  /\ phase = "loop"
  /\ posa > posb
  /\ phase' = "done"
  /\ UNCHANGED <<plants, capacityA, capacityB, posa, posb, vala, valb, res>>

Next == WaterBothEnds \/ LastPlant \/ NoPlantLeft

Spec == Init /\ [][Next]_vars /\ WF_vars(Next)

----------------------------------------------------------------------------
(* The reference: a gardener who must water row in order with a can of     *)
(* capacity may refill before any plant; a plan is the set of plants       *)
(* before which a refill happens.                                          *)
SumOf(row, from, to) ==
  LET upTo[k \in (from - 1)..to] == IF k < from THEN 0 ELSE upTo[k-1] + row[k]
  IN IF to < from THEN 0 ELSE upTo[to]

Plan(row, capacity, stops) ==
  \A i \in {0} \cup stops : \A j \in DOMAIN row :
     (i <= j /\ \A s \in stops : ~(i < s /\ s <= j))
       => SumOf(row, IF i = 0 THEN 1 ELSE i, j) <= capacity

FewestRefills(row, capacity) ==
  Sets!Min({Cardinality(stops) : stops \in {S \in SUBSET (DOMAIN row) : Plan(row, capacity, S)}})

AlicesShare(n) == SubSeq(plants, 1, n)
BobsShare(n)   == [i \in 1..(Len(plants) - n) |-> plants[Len(plants) + 1 - i]]

RefillsOfShares(a, b) ==
  FewestRefills(AlicesShare(a), capacityA) + FewestRefills(BobsShare(b), capacityB)

(* Refilling only when the can is too low is the best the gardeners can do: *)
(* no schedule of refills could have done with fewer for the plants already *)
(* watered, each from its side; and at the end none could for all plants,  *)
(* whichever of the two had taken the plant where they meet.               *)
GreedyIsOptimal ==
  /\ phase = "loop" => res = RefillsOfShares(posa - 1, posb)
  /\ phase = "done" => res = Sets!Min({RefillsOfShares(n, n) : n \in {posa - 1, posb}})

TypeOK ==
  /\ plants \in Rows
  /\ {capacityA, capacityB} \subseteq Capacities
  /\ posa \in Nat \ {0} /\ posb \in Nat
  /\ {vala, valb, res} \subseteq Nat
  /\ phase \in {"loop", "done"}
=============================================================================
