------------------------------- MODULE Tracker -------------------------------
(***************************************************************************)
(* The Tracker of test_tracking_algorithm: a vector of moving targets and   *)
(* an R-tree of where they are.  A target is known by its id, which the     *)
(* program never gives twice; places lie on a line.                         *)
(***************************************************************************)
EXTENDS Integers, Sequences, FiniteSets, Bags

CONSTANTS
  Ids,         (* ids of targets: the program's are 1, 2 and 3              *)
  Positions,   (* places, whole numbers                                     *)
  Radius,      (* what the program asks for as a radius                     *)
  MaxMoves     (* bound on the number of moves                              *)

Constants == Ids \subseteq Nat /\ Positions \subseteq Int /\ {Radius, MaxMoves} \subseteq Nat

VARIABLES
  targets,   (* the vector                                                  *)
  rtree,     (* its index: a bag of <<position, id>>                        *)
  answer,    (* what a query just returned: <<entry, target>>               *)
  moves      (* moves so far                                                *)

vars == <<targets, rtree, answer, moves>>

Init == targets = <<>> /\ rtree = EmptyBag /\ answer = {} /\ moves = 0

Entry(target) == <<target.position, target.id>>
Insert(bag, e) == bag (+) SetToBag({e})
Remove(bag, e) == bag (-) SetToBag({e})      (* nothing, if it is not there *)

addTarget(id, position) ==
  /\ \A i \in DOMAIN targets : targets[i].id # id
  /\ targets' = Append(targets, [id |-> id, position |-> position])
  /\ rtree' = Insert(rtree, <<position, id>>)
  /\ answer' = {} /\ UNCHANGED moves

First(id) == CHOOSE i \in DOMAIN targets : targets[i].id = id /\ \A j \in 1..(i - 1) : targets[j].id # id

(* Mutant: the old entry goes and the new one is forgotten.                 *)
updateRemoves(id, position) ==
  /\ moves < MaxMoves /\ moves' = moves + 1
  /\ \E i \in DOMAIN targets : targets[i].id = id
  /\ targets' = [targets EXCEPT ![First(id)].position = position]
  /\ rtree' = Remove(rtree, Entry(targets[First(id)]))
  /\ answer' = {}

(* The position is written first, so what is removed is the new entry and   *)
(* not the old one.                                                         *)
updateTargetPosition(id, position) ==
  /\ moves < MaxMoves /\ moves' = moves + 1
  /\ \E i \in DOMAIN targets : targets[i].id = id
  /\ targets' = [targets EXCEPT ![First(id)].position = position]
  /\ LET e == Entry(targets'[First(id)])
     IN rtree' = Insert(Remove(rtree, e), e)
  /\ answer' = {}

Distance(a, b) == IF a < b THEN b - a ELSE a - b

(* The entries, told apart by a number when one is there several times.     *)
Copies == UNION {{e} \X (1..rtree[e]) : e \in BagToSet(rtree)}

(* What the radius is taken for: the number of entries wanted.  Of entries  *)
(* as far away as each other any may come.                                  *)
Nearest(position, found) ==
  /\ Cardinality(found) = (IF Cardinality(Copies) < Radius THEN Cardinality(Copies) ELSE Radius)
  /\ \A c \in found, d \in Copies \ found :
       Distance(c[1][1], position) <= Distance(d[1][1], position)

(* The id is taken for an index into the vector, which starts at 0.         *)
PastTheEnd == -1
Read(id) == IF id < Len(targets) THEN targets[id + 1].id ELSE PastTheEnd

queryNearbyTargets(position) ==
  /\ \E found \in SUBSET Copies :
       /\ Nearest(position, found)
       /\ answer' = {<<c[1], Read(c[1][2])>> : c \in found}
  /\ UNCHANGED <<targets, rtree, moves>>

Next ==
  \E position \in Positions :
    \/ queryNearbyTargets(position)
    \/ \E id \in Ids : addTarget(id, position) \/ updateTargetPosition(id, position)

Spec == Init /\ [][Next]_vars
-----------------------------------------------------------------------------
TypeOK ==
  /\ targets \in Seq([id : Ids, position : Positions]) /\ IsABag(rtree)
  /\ BagToSet(rtree) \subseteq Positions \X Ids /\ moves \in 0..MaxMoves
  /\ Cardinality(answer) <= Radius /\ \A a \in answer : a[2] \in Ids \cup {PastTheEnd}

(* Every target is found where it is.                                       *)
EveryTargetFound == \A i \in DOMAIN targets : BagIn(Entry(targets[i]), rtree)

(* A place is in the index once for a target, however often it comes back.  *)
OnceEach == \A e \in BagToSet(rtree) : rtree[e] = 1

(* A target that has moved is found nowhere else.                           *)
FoundNowhereElse ==
  \A e \in BagToSet(rtree) : \E i \in DOMAIN targets : Entry(targets[i]) = e

(* A query returns the targets whose entries it found. The code does not    *)
(* keep this: it counts ids from 1 and positions from 0.                    *)
AnswerNamesTargets == \A a \in answer : a[2] = a[1][2]
=============================================================================
