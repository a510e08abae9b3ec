-------------------------- MODULE PathMatchingProofs --------------------------
(***************************************************************************)
(* Where a path leads, and which route it is taken for: for any patterns,   *)
(* and paths of any length and with any characters.                         *)
(***************************************************************************)
EXTENDS MCHttpServer, TLAPS, FiniteSetTheorems, SequenceTheorems, WellFoundedInduction

(* Some numbers have a least one.                                           *)
LEMMA Least ==
  ASSUME NEW T \in SUBSET Nat, T # {}
  PROVE  \E x \in T : \A y \in T : x <= y
<1>1. \E x \in T : \A y \in T : ~(<<y, x>> \in OpToRel(<, Nat))
  BY WFMin, NatLessThanWellFounded
<1>2. \A x, y \in Nat : y < x => <<y, x>> \in OpToRel(<, Nat)
  <2> TAKE x, y \in Nat
  <2>1. <<y, x>> \in Nat \X Nat /\ <<y, x>>[1] = y /\ <<y, x>>[2] = x
    OBVIOUS
  <2> QED BY <2>1 DEF OpToRel
<1>3. PICK x \in T : \A y \in T : ~(<<y, x>> \in OpToRel(<, Nat))
  BY <1>1
<1>4. \A y \in T : ~(y < x)
  BY <1>2, <1>3
<1>5. T \subseteq Nat
  OBVIOUS
<1>6. \A y \in T : x <= y
  BY <1>4, <1>5
<1> QED BY <1>6

-----------------------------------------------------------------------------
(***************************************************************************)
(* Where a path leads.  The level that is_valid_path counts is the steps    *)
(* down less the steps up, until these were more.                           *)
(***************************************************************************)
Leveled(h, cs, n) ==
  h = [k \in 0..n |->
         IF k = 0 THEN 0
         ELSE IF h[k - 1] = -1 THEN -1
         ELSE IF cs[k] = <<".">> THEN h[k - 1]
         ELSE IF cs[k] = <<".", ".">> THEN h[k - 1] - 1
         ELSE h[k - 1] + 1]

LEMMA LevelsExist ==
  ASSUME NEW cs, NEW n \in Nat
  PROVE  \E h : Leveled(h, cs, n)
<1> DEFINE T == {u \in Nat : ~\E h : Leveled(h, cs, u)}
<1>1. SUFFICES ASSUME T # {} PROVE FALSE
  OBVIOUS
<1>2. PICK u \in T : \A y \in T : u <= y
  BY <1>1, Least
<1> HIDE DEF T
<1>3. u \in Nat /\ ~\E h : Leveled(h, cs, u)
  BY DEF T
<1>4. CASE u = 0
  <2>1. Leveled([k \in 0..0 |-> 0], cs, 0)
    BY DEF Leveled
  <2> QED BY <1>3, <1>4, <2>1
<1>5. CASE u # 0
  <2>1. u - 1 \in Nat /\ u - 1 \notin T
    BY <1>2, <1>3, <1>5
  <2>2. PICK h : Leveled(h, cs, u - 1)
    BY <2>1 DEF T
  <2> DEFINE f == IF h[u - 1] = -1 THEN -1
                  ELSE IF cs[u] = <<".">> THEN h[u - 1]
                  ELSE IF cs[u] = <<".", ".">> THEN h[u - 1] - 1
                  ELSE h[u - 1] + 1
             g == [k \in 0..u |-> IF k = u THEN f ELSE h[k]]
  <2>3. ASSUME NEW k \in 0..u
        PROVE  g[k] = IF k = 0 THEN 0
                      ELSE IF g[k - 1] = -1 THEN -1
                      ELSE IF cs[k] = <<".">> THEN g[k - 1]
                      ELSE IF cs[k] = <<".", ".">> THEN g[k - 1] - 1
                      ELSE g[k - 1] + 1
    <3>1. CASE k = u
      <4>1. g[u - 1] = h[u - 1] /\ g[u] = f
        <5> HIDE DEF f
        <5> QED BY <1>3, <1>5
      <4> HIDE DEF g
      <4> QED BY <1>5, <3>1, <4>1
    <3>2. CASE k # u
      <4>1. k \in 0..(u - 1) /\ g[k] = h[k]
        BY <1>3, <3>2
      <4>2. k # 0 => g[k - 1] = h[k - 1]
        BY <1>3, <4>1
      <4>3. h[k] = IF k = 0 THEN 0
                   ELSE IF h[k - 1] = -1 THEN -1
                   ELSE IF cs[k] = <<".">> THEN h[k - 1]
                   ELSE IF cs[k] = <<".", ".">> THEN h[k - 1] - 1
                   ELSE h[k - 1] + 1
        BY Zenon, <2>2, <4>1 DEF Leveled
      <4> HIDE DEF g
      <4> QED BY <4>1, <4>2, <4>3
    <3> QED BY <3>1, <3>2
  <2>4. g = [k \in 0..u |-> g[k]]
    <3> HIDE DEF f
    <3> QED OBVIOUS
  <2> HIDE DEF g
  <2>5. Leveled(g, cs, u)
    BY Zenon, <2>3, <2>4 DEF Leveled
  <2> QED BY <1>3, <2>5
<1> QED BY <1>4, <1>5

Numbers(S, l) == l \in Nat /\ S \in SUBSET (1..l)

(* Those of some numbers that are n or less.                                *)
Upto(S, n) == {i \in S : i <= n}

LEMMA CountGrows ==
  ASSUME NEW l, NEW S, Numbers(S, l)
  PROVE  /\ Cardinality(Upto(S, 0)) = 0
         /\ \A k \in 1..l :
              /\ Cardinality(Upto(S, k - 1)) \in Nat
              /\ Cardinality(Upto(S, k)) = Cardinality(Upto(S, k - 1)) + (IF k \in S THEN 1 ELSE 0)
<1> USE DEF Numbers
<1>1. IsFiniteSet(1..l)
  BY FS_Interval
<1>2. \A k : IsFiniteSet(Upto(S, k)) /\ Cardinality(Upto(S, k)) \in Nat
  <2> TAKE k
  <2>1. Upto(S, k) \in SUBSET (1..l)
    BY DEF Upto
  <2> QED BY <1>1, <2>1, FS_Subset, FS_CardinalityType
<1>0. \A i \in S : i \in Int /\ i >= 1
  OBVIOUS
<1>3. Upto(S, 0) = {}
  <2> SUFFICES ASSUME NEW i \in Upto(S, 0) PROVE FALSE
    OBVIOUS
  <2>1. i \in S /\ i <= 0
    BY DEF Upto
  <2> QED BY <1>0, <2>1
<1>4. ASSUME NEW k \in 1..l
      PROVE  Cardinality(Upto(S, k)) = Cardinality(Upto(S, k - 1)) + (IF k \in S THEN 1 ELSE 0)
  <2>1. CASE k \in S
    <3>1. Upto(S, k) = Upto(S, k - 1) \cup {k} /\ k \notin Upto(S, k - 1)
      <4>1. \A i \in S : i <= k <=> i = k \/ i <= k - 1
        BY <1>0
      <4>2. k \in Int /\ ~(k <= k - 1)
        OBVIOUS
      <4>3. \A i : i \in Upto(S, k) <=> i \in S /\ i <= k
        BY DEF Upto
      <4>4. \A i : i \in Upto(S, k - 1) <=> i \in S /\ i <= k - 1
        BY DEF Upto
      <4> QED BY <2>1, <4>1, <4>2, <4>3, <4>4
    <3>2. Cardinality(Upto(S, k)) = Cardinality(Upto(S, k - 1)) + 1
      BY <1>2, <3>1, FS_AddElement
    <3> QED BY <2>1, <3>2
  <2>2. CASE k \notin S
    <3>1. Upto(S, k) = Upto(S, k - 1)
      <4>1. \A i \in S : i <= k <=> i <= k - 1
        BY <1>0, <2>2
      <4> QED BY <4>1 DEF Upto
    <3> QED BY <1>2, <2>2, <3>1
  <2> QED BY <2>1, <2>2
<1> QED BY <1>2, <1>3, <1>4, FS_EmptySet

Ups(cs) == {i \in 1..Len(cs) : cs[i] = <<".", ".">>}
Downs(cs) == {i \in 1..Len(cs) : cs[i] \notin {<<".">>, <<".", ".">>}}
Outside(cs, n) == Cardinality(Upto(Ups(cs), n)) > Cardinality(Upto(Downs(cs), n))

(* The level after k components.                                            *)
LevelOK(h, cs, k) ==
  /\ h[k] = -1 <=> \E n \in 0..k : Outside(cs, n)
  /\ h[k] # -1 => h[k] \in Nat /\ h[k] = Cardinality(Upto(Downs(cs), k)) - Cardinality(Upto(Ups(cs), k))

LEMMA LevelStep ==
  ASSUME NEW cs, Len(cs) \in Nat, NEW h, Leveled(h, cs, Len(cs)), NEW k \in 1..Len(cs), LevelOK(h, cs, k - 1)
  PROVE  LevelOK(h, cs, k)
<1> DEFINE U == Cardinality(Upto(Ups(cs), k - 1))
           D == Cardinality(Upto(Downs(cs), k - 1))
           U1 == Cardinality(Upto(Ups(cs), k))
           D1 == Cardinality(Upto(Downs(cs), k))
           x == h[k - 1]
           y == h[k]
<1>1. k \in Nat /\ k - 1 \in Nat /\ k \in 0..Len(cs) /\ k # 0
  OBVIOUS
<1>2. y = IF x = -1 THEN -1
          ELSE IF cs[k] = <<".">> THEN x
          ELSE IF cs[k] = <<".", ".">> THEN x - 1
          ELSE x + 1
  BY Zenon, <1>1 DEF Leveled
<1>3. /\ U \in Nat /\ D \in Nat /\ U1 = U + (IF k \in Ups(cs) THEN 1 ELSE 0)
      /\ D1 = D + (IF k \in Downs(cs) THEN 1 ELSE 0)
  <2>1. Ups(cs) \in SUBSET (1..Len(cs)) /\ Downs(cs) \in SUBSET (1..Len(cs))
    BY DEF Ups, Downs
  <2> DEFINE A == Ups(cs)
             B == Downs(cs)
             l == Len(cs)
  <2>2. Numbers(A, l) /\ Numbers(B, l) /\ k \in 1..l
    BY <2>1 DEF Numbers
  <2> HIDE DEF A, B, l
  <2>3. /\ Cardinality(Upto(A, k - 1)) \in Nat
        /\ Cardinality(Upto(A, k)) = Cardinality(Upto(A, k - 1)) + (IF k \in A THEN 1 ELSE 0)
    BY <2>2, CountGrows
  <2>4. /\ Cardinality(Upto(B, k - 1)) \in Nat
        /\ Cardinality(Upto(B, k)) = Cardinality(Upto(B, k - 1)) + (IF k \in B THEN 1 ELSE 0)
    BY <2>2, CountGrows
  <2> QED BY <2>3, <2>4 DEF A, B
<1>4. /\ x = -1 <=> \E n \in 0..(k - 1) : Outside(cs, n)
      /\ x # -1 => x \in Nat /\ x = D - U
  BY DEF LevelOK
<1>5. Outside(cs, k) <=> U1 > D1
  BY DEF Outside
<1>6. <<".">> # <<".", ".">>
  <2>1. Len(<<".">>) = 1 /\ Len(<<".", ".">>) = 2
    OBVIOUS
  <2> QED BY <2>1
<1>7. /\ k \in Ups(cs) <=> cs[k] = <<".", ".">>
      /\ k \in Downs(cs) <=> cs[k] # <<".", ".">> /\ cs[k] # <<".">>
  BY DEF Ups, Downs
<1> HIDE DEF U, D, U1, D1, x, y
<1>8. (\E n \in 0..k : Outside(cs, n)) <=> Outside(cs, k) \/ \E n \in 0..(k - 1) : Outside(cs, n)
  <2>1. \A n \in 0..k : n = k \/ n \in 0..(k - 1)
    BY <1>1
  <2>2. k \in 0..k /\ \A n \in 0..(k - 1) : n \in 0..k
    BY <1>1
  <2> QED BY <2>1, <2>2
<1>9. /\ y = -1 <=> x = -1 \/ U1 > D1
      /\ y # -1 => y \in Nat /\ y = D1 - U1
  <2>1. CASE x = -1
    BY <1>2, <2>1
  <2>2. CASE x # -1 /\ cs[k] = <<".">>
    <3>1. y = x /\ U1 = U /\ D1 = D
      BY <1>2, <1>3, <1>6, <1>7, <2>2
    <3> QED BY <1>3, <1>4, <2>2, <3>1
  <2>3. CASE x # -1 /\ cs[k] = <<".", ".">>
    <3>1. y = x - 1 /\ U1 = U + 1 /\ D1 = D
      BY <1>2, <1>3, <1>6, <1>7, <2>3
    <3> QED BY <1>3, <1>4, <2>3, <3>1
  <2>4. CASE x # -1 /\ cs[k] # <<".">> /\ cs[k] # <<".", ".">>
    <3>1. y = x + 1 /\ U1 = U /\ D1 = D + 1
      BY <1>2, <1>3, <1>7, <2>4
    <3> QED BY <1>3, <1>4, <2>4, <3>1
  <2> QED BY <2>1, <2>2, <2>3, <2>4
<1> QED BY <1>4, <1>5, <1>8, <1>9 DEF LevelOK, D1, U1, y

LEMMA LevelsCount ==
  ASSUME NEW cs, Len(cs) \in Nat
  PROVE  Path!Levels(cs)[Len(cs)] # -1 <=> \A n \in 0..Len(cs) : ~Outside(cs, n)
<1> DEFINE h == CHOOSE f : Leveled(f, cs, Len(cs))
<1>1. Leveled(h, cs, Len(cs))
  <2>1. \E f : Leveled(f, cs, Len(cs))
    BY LevelsExist
  <2> QED BY <2>1
<1>2. Path!Levels(cs) = h
  BY Zenon DEF Path!Levels, Leveled
<1> HIDE DEF h
<1> DEFINE T == {k \in Nat : k <= Len(cs) /\ ~LevelOK(h, cs, k)}
<1>3. T = {}
  <2> SUFFICES ASSUME T # {} PROVE FALSE
    OBVIOUS
  <2>1. PICK k \in T : \A y \in T : k <= y
    BY Least
  <2>2. k \in Nat /\ k <= Len(cs) /\ ~LevelOK(h, cs, k)
    OBVIOUS
  <2>3. CASE k = 0
    <3>1. h[0] = 0
      BY <1>1 DEF Leveled
    <3>2. Ups(cs) \in SUBSET (1..Len(cs)) /\ Downs(cs) \in SUBSET (1..Len(cs))
      BY DEF Ups, Downs
    <3>3. Cardinality(Upto(Ups(cs), 0)) = 0 /\ Cardinality(Upto(Downs(cs), 0)) = 0
      <4>1. Numbers(Ups(cs), Len(cs)) /\ Numbers(Downs(cs), Len(cs))
        BY <3>2 DEF Numbers
      <4> QED BY <4>1, CountGrows
    <3>4. ~\E n \in 0..0 : Outside(cs, n)
      BY <3>3 DEF Outside
    <3>5. LevelOK(h, cs, 0)
      BY <3>1, <3>3, <3>4 DEF LevelOK
    <3> QED BY <2>2, <2>3, <3>5
  <2>4. CASE k # 0
    <3>1. k - 1 \in Nat /\ k \in 1..Len(cs) /\ ~(k <= k - 1) /\ k - 1 <= Len(cs)
      BY <2>2, <2>4
    <3>2. LevelOK(h, cs, k - 1)
      BY <2>1, <3>1
    <3> HIDE DEF T
    <3> QED BY <1>1, <2>2, <3>1, <3>2, LevelStep
  <2> QED BY <2>3, <2>4
<1>4. LevelOK(h, cs, Len(cs))
  BY <1>3
<1> QED BY <1>2, <1>4 DEF LevelOK

LEMMA SameCount == \A S : Path!Cardinality(S) = Cardinality(S)
BY DEF Path!Cardinality, Cardinality

LEMMA ComponentsAreMany ==
  ASSUME Len(path) \in Nat
  PROVE  Len(Path!Components(path)) \in Nat /\ DOMAIN Path!Components(path) = 1..Len(Path!Components(path))
<1> DEFINE segments == Path!Segments(path)
           named == {n \in DOMAIN segments : segments[n] # <<>>}
           ends == Path!Slashes(path) \cup {Len(path)}
           l == Len(path)
<1>1. IsFiniteSet(ends)
  <2>1. ends \in SUBSET (0..l) /\ l \in Int /\ 0 \in Int
    BY DEF Path!Slashes
  <2> HIDE DEF l, ends
  <2> QED BY <2>1, FS_Interval, FS_Subset
<1>2. Cardinality(ends) \in Nat
  BY <1>1, FS_CardinalityType
<1> DEFINE a == Cardinality(ends)
<1>3. DOMAIN segments = 1..a
  BY SameCount DEF Path!Segments
<1> HIDE DEF segments, ends
<1>4. Cardinality(named) \in Nat
  <2>1. a \in Int /\ 1 \in Int /\ named \in SUBSET (1..a)
    BY <1>2, <1>3
  <2> HIDE DEF a, named
  <2> QED BY <2>1, FS_Interval, FS_Subset, FS_CardinalityType
<1> HIDE DEF named
<1> DEFINE c == Cardinality(named)
<1>5. Path!Components(path) = [n \in 1..c |-> segments[Path!Nth(named, n)]]
  BY SameCount DEF Path!Components, segments, named
<1> HIDE DEF c
<1>6. c \in Nat
  BY <1>4 DEF c
<1> QED BY <1>5, <1>6

LEMMA PathStaysInside == path \in Seq(Characters) => Path!ValidStaysInside
<1> SUFFICES ASSUME path \in Seq(Characters) PROVE Path!ValidStaysInside
  OBVIOUS
<1> DEFINE cs == Path!Components(path)
<1>1. Len(path) \in Nat
  OBVIOUS
<1>2. Len(cs) \in Nat /\ DOMAIN cs = 1..Len(cs)
  BY <1>1, ComponentsAreMany
<1>3. ASSUME NEW n \in 0..Len(cs)
      PROVE  LET begin == SubSeq(cs, 1, n)
                 Up == {i \in DOMAIN begin : begin[i] = <<".", ".">>}
                 Down == {i \in DOMAIN begin : begin[i] \notin {<<".">>, <<".", ".">>}}
             IN (Path!Cardinality(Up) <= Path!Cardinality(Down)) <=> ~Outside(cs, n)
  <2> HIDE DEF cs
  <2> DEFINE begin == SubSeq(cs, 1, n)
             Up == {i \in DOMAIN begin : begin[i] = <<".", ".">>}
             Down == {i \in DOMAIN begin : begin[i] \notin {<<".">>, <<".", ".">>}}
  <2>1. n \in Nat /\ n <= Len(cs) /\ begin = [i \in 1..n |-> cs[i]]
    <3>1. n \in Nat /\ n <= Len(cs)
      BY <1>2
    <3>2. 1 + (n - 1) = n /\ n - 1 + 1 = n
      BY <3>1
    <3> QED BY <1>2, <3>1, <3>2
  <2>2. DOMAIN begin = 1..n /\ \A i \in 1..n : begin[i] = cs[i] /\ i \in 1..Len(cs)
    BY <1>2, <2>1
  <2> HIDE DEF begin
  <2>3. \A i \in 1..Len(cs) : i <= n <=> i \in 1..n
    BY <1>2, <2>1
  <2>4. Up = Upto(Ups(cs), n) /\ Down = Upto(Downs(cs), n)
    BY <2>2, <2>3 DEF Upto, Ups, Downs
  <2>5. Cardinality(Upto(Ups(cs), n)) \in Nat /\ Cardinality(Upto(Downs(cs), n)) \in Nat
    <3> DEFINE l == Len(cs)
               A == Upto(Ups(cs), n)
               B == Upto(Downs(cs), n)
    <3>1. l \in Int /\ 1 \in Int /\ A \in SUBSET (1..l) /\ B \in SUBSET (1..l)
      BY <1>2 DEF Upto, Ups, Downs
    <3> HIDE DEF l, A, B
    <3>2. Cardinality(A) \in Nat /\ Cardinality(B) \in Nat
      BY <3>1, FS_Interval, FS_Subset, FS_CardinalityType
    <3> QED BY <3>2 DEF A, B
  <2> HIDE DEF Up, Down
  <2>6. (Path!Cardinality(Up) <= Path!Cardinality(Down)) <=> ~Outside(cs, n)
    BY <2>4, <2>5, SameCount DEF Outside
  <2> QED BY <2>6 DEF begin, Up, Down
<1>4. Path!Levels(cs)[Len(cs)] # -1 <=> \A n \in 0..Len(cs) : ~Outside(cs, n)
  <2> HIDE DEF cs
  <2> QED BY <1>2, LevelsCount
<1>5. Path!is_valid_path(path) <=>
        {"NUL", "\\"} \cap Path!ToSet(path) = {} /\ Path!Levels(cs)[Len(cs)] # -1
  BY Zenon DEF Path!is_valid_path
<1> QED BY Zenon, <1>3, <1>4, <1>5 DEF Path!ValidStaysInside

-----------------------------------------------------------------------------
(***************************************************************************)
(* Routes.  A text is cut at its slashes: cut n is where segment n ends,    *)
(* cut 0 stands before the text.  Pattern and path are compared from cut to *)
(* cut; that the matcher never splits either of them makes no difference.   *)
(***************************************************************************)
FoundAt(s, c, n, f) ==
  /\ f \in Nat /\ f <= Len(s)
  /\ n <= Len(s) => n <= f
  /\ \A y \in n..(f - 1) : Path!At(s, y) # c
  /\ f < Len(s) => n <= f /\ Path!At(s, f) = c

LEMMA FindIs ==
  ASSUME NEW s, Len(s) \in Nat, NEW c, NEW n \in Nat
  PROVE  FoundAt(s, c, n, Path!Find(s, c, n))
<1> DEFINE found == {i \in n..(Len(s) - 1) : Path!At(s, i) = c}
           f == CHOOSE i \in found : \A j \in found : i <= j
<1>1. Path!Find(s, c, n) = IF found = {} THEN Len(s) ELSE f
  BY Zenon DEF Path!Find
<1>2. \A y : y \in found <=> y \in n..(Len(s) - 1) /\ Path!At(s, y) = c
  OBVIOUS
<1>3. found \in SUBSET Nat
  OBVIOUS
<1> HIDE DEF found
<1>4. CASE found = {}
  <2>1. Path!Find(s, c, n) = Len(s)
    BY <1>1, <1>4
  <2> QED BY <1>2, <1>4, <2>1 DEF FoundAt
<1>5. CASE found # {}
  <2>1. f \in found /\ \A j \in found : f <= j
    <3>1. \E i \in found : \A j \in found : i <= j
      BY <1>3, <1>5, Least
    <3> QED BY <3>1
  <2>2. Path!Find(s, c, n) = f
    BY <1>1, <1>5
  <2> HIDE DEF f
  <2>3. f \in Nat /\ f < Len(s) /\ n <= f /\ Path!At(s, f) = c
    BY <1>2, <2>1
  <2>4. \A y \in n..(f - 1) : Path!At(s, y) # c
    <3> SUFFICES ASSUME NEW y \in n..(f - 1), Path!At(s, y) = c PROVE FALSE
      OBVIOUS
    <3>1. y \in n..(Len(s) - 1) /\ ~(f <= y)
      BY <2>3
    <3> QED BY <1>2, <2>1, <3>1
  <2> QED BY <2>2, <2>3, <2>4 DEF FoundAt
<1> QED BY <1>4, <1>5

LEMMA FoundOnce ==
  ASSUME NEW s, Len(s) \in Nat, NEW c, NEW n \in Nat, NEW f, FoundAt(s, c, n, f)
  PROVE  Path!Find(s, c, n) = f
<1> DEFINE g == Path!Find(s, c, n)
<1>1. FoundAt(s, c, n, g)
  BY FindIs
<1> HIDE DEF g
<1>2. f \in Nat /\ g \in Nat
  BY <1>1 DEF FoundAt
<1>3. ~(f < g)
  <2> SUFFICES ASSUME f < g PROVE FALSE
    OBVIOUS
  <2>1. f < Len(s) /\ n <= f /\ Path!At(s, f) = c
    BY <1>1, <1>2 DEF FoundAt
  <2>2. f \in n..(g - 1)
    BY <1>2, <2>1
  <2> QED BY <1>1, <2>1, <2>2 DEF FoundAt
<1>4. ~(g < f)
  <2> SUFFICES ASSUME g < f PROVE FALSE
    OBVIOUS
  <2>1. g < Len(s) /\ n <= g /\ Path!At(s, g) = c
    BY <1>1, <1>2 DEF FoundAt
  <2>2. g \in n..(f - 1)
    BY <1>2, <2>1
  <2> QED BY <2>1, <2>2 DEF FoundAt
<1>5. f = g
  BY <1>2, <1>3, <1>4
<1> QED BY <1>5 DEF g

PartOf(t, s, i, j) == t = [y \in 1..(j - i) |-> s[i + y]]

LEMMA PartIs ==
  ASSUME NEW s, NEW i \in Nat, NEW j \in Nat
  PROVE  PartOf(Path!Part(s, i, j), s, i, j)
BY DEF Path!Part, PartOf

(* Parts are the same when they are character by character.                 *)
SameText(p, s, i, j, d) == \A y \in i..j : Path!At(p, y) = Path!At(s, y + d)
Interval(i, j) == i \in Nat /\ j \in Nat /\ i <= j

LEMMA SameParts ==
  ASSUME NEW p, NEW s, NEW i, NEW j, NEW k, NEW l, Interval(i, j), Interval(k, l)
  PROVE  Path!Part(p, i, j) = Path!Part(s, k, l) <=> j - i = l - k /\ SameText(p, s, i, j - 1, k - i)
<1> USE DEF Interval
<1> DEFINE P == Path!Part(p, i, j)
           S == Path!Part(s, k, l)
<1>0. i \in Nat /\ j \in Nat /\ k \in Nat /\ l \in Nat
  OBVIOUS
<1>1. P = [y \in 1..(j - i) |-> p[i + y]] /\ S = [y \in 1..(l - k) |-> s[k + y]]
  <2>1. Path!Part(p, i, j) = [y \in 1..(j - i) |-> p[i + y]]
    <3>1. PartOf(Path!Part(p, i, j), p, i, j)
      BY <1>0, PartIs
    <3> QED BY <3>1 DEF PartOf
  <2>2. Path!Part(s, k, l) = [y \in 1..(l - k) |-> s[k + y]]
    <3>1. PartOf(Path!Part(s, k, l), s, k, l)
      BY <1>0, PartIs
    <3> QED BY <3>1 DEF PartOf
  <2> QED BY <2>1, <2>2
<1>2. Len(P) = j - i /\ Len(S) = l - k
  <2> HIDE DEF P, S
  <2> QED BY <1>1
<1> HIDE DEF P, S
<1>3. ASSUME P = S PROVE j - i = l - k /\ SameText(p, s, i, j - 1, k - i)
  <2>1. j - i = l - k
    BY <1>2, <1>3
  <2> SUFFICES ASSUME NEW y \in i..(j - 1) PROVE Path!At(p, y) = Path!At(s, y + (k - i))
    BY <2>1 DEF SameText
  <2> DEFINE x == y + 1 - i
  <2>2. x \in 1..(j - i) /\ x \in 1..(l - k) /\ i + x = y + 1 /\ k + x = (y + (k - i)) + 1
    BY <2>1
  <2> HIDE DEF x
  <2>3. P[x] = p[i + x] /\ S[x] = s[k + x]
    BY <1>1, <2>2
  <2> QED BY <1>3, <2>2, <2>3 DEF Path!At
<1>4. ASSUME j - i = l - k, SameText(p, s, i, j - 1, k - i) PROVE P = S
  <2>1. ASSUME NEW x \in 1..(j - i) PROVE p[i + x] = s[k + x]
    <3> DEFINE y == i + x - 1
    <3>1. y \in i..(j - 1) /\ y + 1 = i + x /\ (y + (k - i)) + 1 = k + x
      OBVIOUS
    <3> HIDE DEF y
    <3> QED BY <1>4, <3>1 DEF SameText, Path!At
  <2> QED BY <1>1, <1>4, <2>1
<1> QED BY <1>3, <1>4 DEF P, S

(* The n-th of some numbers has n of them up to itself; the next one is the *)
(* least beyond it.                                                         *)
Within0(S, l) == l \in Nat /\ S \in SUBSET (0..l)

LEMMA CountUp ==
  ASSUME NEW l, NEW S, Within0(S, l)
  PROVE  /\ IsFiniteSet(S) /\ Cardinality(S) \in Nat
         /\ \A k : IsFiniteSet(Upto(S, k)) /\ Cardinality(Upto(S, k)) \in Nat /\ Upto(S, k) \in SUBSET S
         /\ \A x, y \in S : x < y => Cardinality(Upto(S, x)) < Cardinality(Upto(S, y))
<1> USE DEF Within0
<1>1. IsFiniteSet(S)
  <2>1. 0 \in Int /\ l \in Int /\ S \in SUBSET (0..l)
    OBVIOUS
  <2> QED BY <2>1, FS_Interval, FS_Subset
<1>2. \A k : IsFiniteSet(Upto(S, k)) /\ Cardinality(Upto(S, k)) \in Nat /\ Upto(S, k) \in SUBSET S
  <2> TAKE k
  <2>1. Upto(S, k) \in SUBSET S
    BY DEF Upto
  <2> QED BY <1>1, <2>1, FS_Subset, FS_CardinalityType
<1>3. ASSUME NEW x \in S, NEW y \in S, x < y
      PROVE  Cardinality(Upto(S, x)) < Cardinality(Upto(S, y))
  <2>0. \A z \in S : z \in Int
    OBVIOUS
  <2>1. Upto(S, x) \in SUBSET Upto(S, y)
    <3>1. \A z \in S : z <= x => z <= y
      BY <1>3, <2>0
    <3> QED BY <3>1 DEF Upto
  <2>2. y \in Upto(S, y) /\ y \notin Upto(S, x)
    <3>1. y <= y /\ ~(y <= x)
      BY <1>3, <2>0
    <3> QED BY <3>1 DEF Upto
  <2>3. Cardinality(Upto(S, x)) <= Cardinality(Upto(S, y)) /\ Cardinality(Upto(S, x)) # Cardinality(Upto(S, y))
    BY <1>2, <2>1, <2>2, FS_Subset
  <2> HIDE DEF Within0
  <2> QED BY <1>2, <2>3
<1> QED BY <1>1, <1>2, <1>3, FS_CardinalityType

LEMMA NthExists ==
  ASSUME NEW l, NEW S, Within0(S, l), NEW n \in 1..Cardinality(S)
  PROVE  \E x \in S : Cardinality(Upto(S, x)) = n
<1> DEFINE C(k) == Cardinality(Upto(S, k))
           T == {k \in Nat : C(k) >= n}
<1>1. \A k : IsFiniteSet(Upto(S, k)) /\ C(k) \in Nat
  BY CountUp
<1>2. IsFiniteSet(S) /\ Cardinality(S) \in Nat /\ n \in Nat /\ 1 <= n /\ n <= Cardinality(S)
  BY CountUp
<1>3. \A z \in S : z \in Nat /\ z <= l
  BY DEF Within0
<1>4. l \in T
  <2>1. Upto(S, l) = S
    BY <1>3 DEF Upto
  <2> QED BY <1>2, <2>1 DEF Within0
<1>5. PICK x \in T : \A y \in T : x <= y
  BY <1>4, Least
<1>6. x \in Nat /\ C(x) >= n
  OBVIOUS
<1>7. C(x - 1) < n
  <2>1. CASE x = 0
    <3>1. Upto(S, x - 1) = {}
      <4> SUFFICES ASSUME NEW z \in S, z <= x - 1 PROVE FALSE
        BY DEF Upto
      <4> QED BY <1>3, <2>1
    <3>2. Cardinality({}) = 0
      BY FS_EmptySet
    <3> QED BY <1>2, <3>1, <3>2
  <2>2. CASE x # 0
    <3>1. x - 1 \in Nat /\ ~(x <= x - 1)
      BY <1>6, <2>2
    <3>2. x - 1 \notin T
      BY <1>5, <3>1
    <3>3. ~(C(x - 1) >= n) /\ C(x - 1) \in Nat
      BY <1>1, <3>1, <3>2
    <3> HIDE DEF C
    <3> QED BY <1>2, <3>3
  <2> QED BY <2>1, <2>2
<1>8. \A z \in S : z <= x <=> z <= x - 1 \/ z = x
  BY <1>3, <1>6
<1>9. x \in S /\ C(x) = C(x - 1) + 1
  <2>1. CASE x \notin S
    <3>1. Upto(S, x) = Upto(S, x - 1)
      BY <1>8, <2>1 DEF Upto
    <3>2. C(x) = C(x - 1) /\ C(x) \in Nat
      BY <1>1, <3>1
    <3> HIDE DEF C
    <3> QED BY <1>2, <1>6, <1>7, <3>2
  <2>2. CASE x \in S
    <3>1. Upto(S, x) = Upto(S, x - 1) \cup {x} /\ x \notin Upto(S, x - 1)
      <4>1. ~(x <= x - 1)
        BY <1>6
      <4> QED BY <1>8, <2>2, <4>1 DEF Upto
    <3> QED BY <1>1, <2>2, <3>1, FS_AddElement
  <2> QED BY <2>1, <2>2
<1>10. C(x) = n
  <2>1. C(x) \in Nat /\ C(x - 1) \in Nat
    BY <1>1
  <2> HIDE DEF C, T
  <2> QED BY <1>2, <1>6, <1>7, <1>9, <2>1
<1> QED BY <1>9, <1>10

LEMMA NthIs ==
  ASSUME NEW l, NEW S, Within0(S, l), NEW n \in 1..Cardinality(S)
  PROVE  /\ Path!Nth(S, n) \in S /\ Cardinality(Upto(S, Path!Nth(S, n))) = n
         /\ \A x \in S : Cardinality(Upto(S, x)) = n => x = Path!Nth(S, n)
<1>1. PICK x \in S : Cardinality(Upto(S, x)) = n
  BY NthExists
<1>2. \A y \in S : Cardinality(Upto(S, y)) = n => y = x
  <2>0. \A z \in S : z \in Nat
    BY DEF Within0
  <2>1. \A y \in S : y < x \/ y = x \/ x < y
    BY <2>0
  <2>2. \A y, z \in S : y < z => Cardinality(Upto(S, y)) # Cardinality(Upto(S, z))
    BY CountUp
  <2> QED BY <1>1, <2>1, <2>2
<1>3. Path!Nth(S, n) = CHOOSE y \in S : Cardinality(Upto(S, y)) = n
  BY SameCount DEF Path!Nth, Upto
<1>4. Path!Nth(S, n) = x
  BY <1>1, <1>2, <1>3
<1> QED BY <1>1, <1>2, <1>4

(* Which is to say they are in order, and none is left out.                 *)
LEMMA NthOrder ==
  ASSUME NEW l, NEW S, Within0(S, l)
  PROVE  /\ \A m, n \in 1..Cardinality(S) : m < n => Path!Nth(S, m) < Path!Nth(S, n)
         /\ \A x \in S : Cardinality(Upto(S, x)) \in 1..Cardinality(S) /\ x = Path!Nth(S, Cardinality(Upto(S, x)))
<1>0. Cardinality(S) \in Nat /\ \A z \in S : z \in Nat
  <2>1. Cardinality(S) \in Nat
    BY CountUp
  <2> QED BY <2>1 DEF Within0
<1>1. ASSUME NEW m \in 1..Cardinality(S), NEW n \in 1..Cardinality(S), m < n
      PROVE  Path!Nth(S, m) < Path!Nth(S, n)
  <2> DEFINE x == Path!Nth(S, m)
             y == Path!Nth(S, n)
  <2>1. x \in S /\ y \in S /\ Cardinality(Upto(S, x)) = m /\ Cardinality(Upto(S, y)) = n
    BY NthIs
  <2> HIDE DEF x, y
  <2>2. x # y /\ ~(y < x)
    <3>1. y < x => n < m
      BY <2>1, CountUp
    <3> QED BY <1>0, <1>1, <2>1, <3>1
  <2>3. x \in Nat /\ y \in Nat
    BY <1>0, <2>1
  <2>4. x < y
    BY <2>2, <2>3
  <2> QED BY <2>4 DEF x, y
<1>2. ASSUME NEW x \in S
      PROVE  Cardinality(Upto(S, x)) \in 1..Cardinality(S) /\ x = Path!Nth(S, Cardinality(Upto(S, x)))
  <2> DEFINE c == Cardinality(Upto(S, x))
  <2>1. c \in Nat /\ Upto(S, x) \in SUBSET S /\ IsFiniteSet(S) /\ IsFiniteSet(Upto(S, x))
    BY CountUp
  <2>2. c <= Cardinality(S)
    BY <2>1, FS_Subset
  <2>3. c # 0
    <3>1. x \in Upto(S, x)
      <4>1. x <= x
        BY <1>0
      <4> QED BY <4>1 DEF Upto
    <3> QED BY <2>1, <3>1, FS_EmptySet
  <2>4. c \in 1..Cardinality(S)
    <3> HIDE DEF c
    <3> QED BY <1>0, <2>1, <2>2, <2>3
  <2> QED BY <2>4, NthIs
<1> QED BY <1>1, <1>2
(* Cut n of a text of a segments.                                           *)
Cuts(e, a, s) ==
  /\ a \in Nat /\ 1 <= a /\ Len(s) \in Nat
  /\ \A n \in 0..a : e[n] \in Int /\ -1 <= e[n] /\ e[n] <= Len(s)
  /\ e[0] = -1 /\ e[a] = Len(s)
  /\ \A m, n \in 0..a : m < n => e[m] < e[n]
  /\ \A n \in 1..(a - 1) : Path!At(s, e[n]) = "/"
  /\ \A n \in 1..a : \A y \in (e[n - 1] + 1)..(e[n] - 1) : Path!At(s, y) # "/"

Cut(e, s, n) == Path!Part(s, e[n - 1] + 1, e[n])

LEMMA SegmentsAre ==
  ASSUME NEW s, Len(s) \in Nat
  PROVE  \E e, a : Cuts(e, a, s) /\ Path!Segments(s) = [n \in 1..a |-> Cut(e, s, n)]
<1> DEFINE S == Path!Slashes(s) \cup {Len(s)}
           a == Cardinality(S)
           e == [n \in 0..a |-> IF n = 0 THEN -1 ELSE Path!Nth(S, n)]
           l == Len(s)
<1>1. Within0(S, l)
  BY DEF Within0, Path!Slashes
<1>2. /\ \A x \in S : x \in Nat /\ x <= l
      /\ l \in S
      /\ \A x : x \in S /\ x # l => Path!At(s, x) = "/"
      /\ \A x \in 0..(l - 1) : Path!At(s, x) = "/" => x \in S
  BY DEF Path!Slashes
<1>3. Path!Segments(s) = [n \in 1..a |-> Path!Part(s, IF n = 1 THEN 0 ELSE Path!Nth(S, n - 1) + 1, Path!Nth(S, n))]
  <2> DEFINE ends == [n \in 1..a |-> Path!Nth(S, n)]
             begun == [n \in 1..Path!Cardinality(S) |-> Path!Nth(S, n)]
  <2>1. Path!Segments(s) = [n \in DOMAIN ends |-> Path!Part(s, IF n = 1 THEN 0 ELSE ends[n - 1] + 1, ends[n])]
    <3>1. Path!Segments(s) = [n \in DOMAIN begun |-> Path!Part(s, IF n = 1 THEN 0 ELSE begun[n - 1] + 1, begun[n])]
      BY Zenon DEF Path!Segments
    <3>2. begun = ends
      BY Zenon, SameCount
    <3> QED BY Zenon, <3>1, <3>2
  <2>2. \A n \in 1..a : ends[n] = Path!Nth(S, n) /\ (n # 1 => ends[n - 1] = Path!Nth(S, n - 1))
    <3> SUFFICES ASSUME NEW n \in 1..a PROVE n # 1 => n - 1 \in 1..a
      OBVIOUS
    <3>1. a \in Nat
      <4> HIDE DEF S
      <4> QED BY <1>1, CountUp
    <3> HIDE DEF a
    <3> QED BY <3>1
  <2>3. DOMAIN ends = 1..a
    OBVIOUS
  <2> HIDE DEF ends, a, S
  <2>4. \A n \in 1..a : Path!Part(s, IF n = 1 THEN 0 ELSE ends[n - 1] + 1, ends[n])
                        = Path!Part(s, IF n = 1 THEN 0 ELSE Path!Nth(S, n - 1) + 1, Path!Nth(S, n))
    BY <2>2
  <2> QED BY Zenon, <2>1, <2>3, <2>4
<1> HIDE DEF S
<1>4. a \in Nat /\ 1 <= a
  <2>1. a \in Nat /\ IsFiniteSet(S)
    BY <1>1, CountUp
  <2>2. a # 0
    BY <1>2, <2>1, FS_EmptySet
  <2> HIDE DEF a
  <2> QED BY <2>1, <2>2
<1>5. /\ \A n \in 1..a : Path!Nth(S, n) \in S
      /\ \A m, n \in 1..a : m < n => Path!Nth(S, m) < Path!Nth(S, n)
      /\ \A x \in S : \E n \in 1..a : x = Path!Nth(S, n)
  <2>1. \A n \in 1..a : Path!Nth(S, n) \in S
    BY <1>1, NthIs
  <2> QED BY <1>1, <2>1, NthOrder
<1>6. e[0] = -1 /\ \A n \in 1..a : e[n] = Path!Nth(S, n)
  <2> HIDE DEF a
  <2> QED BY <1>4
<1> HIDE DEF a, e
<1>7. \A n \in 1..a : e[n] \in S
  BY <1>5, <1>6
<1>8. \A n \in 0..a : n = 0 \/ n \in 1..a
  BY <1>4
<1>9. \A n \in 0..a : e[n] \in Int /\ -1 <= e[n] /\ e[n] <= l
  <2> TAKE n \in 0..a
  <2>1. CASE n = 0
    BY <1>6, <2>1
  <2>2. CASE n \in 1..a
    <3>1. e[n] \in Nat /\ e[n] <= l
      BY <1>2, <1>7, <2>2
    <3> QED BY <3>1
  <2> QED BY <1>8, <2>1, <2>2
<1>10. \A m, n \in 0..a : m < n => e[m] < e[n]
  <2> SUFFICES ASSUME NEW m \in 0..a, NEW n \in 0..a, m < n PROVE e[m] < e[n]
    OBVIOUS
  <2>1. n \in 1..a
    BY <1>4
  <2>2. CASE m = 0
    <3>1. e[n] \in Nat
      BY <1>2, <1>7, <2>1
    <3> QED BY <1>6, <2>2, <3>1
  <2>3. CASE m \in 1..a
    BY <1>5, <1>6, <2>1, <2>3
  <2> QED BY <1>8, <2>2, <2>3
<1>11. \A m, n \in 0..a : e[m] < e[n] => m < n
  <2> SUFFICES ASSUME NEW m \in 0..a, NEW n \in 0..a, ~(m < n) PROVE ~(e[m] < e[n])
    OBVIOUS
  <2>1. m = n \/ n < m
    BY <1>4
  <2>2. e[m] \in Int /\ e[n] \in Int
    BY <1>9
  <2>3. n < m => e[n] < e[m]
    BY <1>10
  <2> QED BY <2>1, <2>2, <2>3
<1>12. e[a] = l
  <2>1. PICK n \in 1..a : l = e[n]
    BY <1>2, <1>5, <1>6
  <2>2. CASE n = a
    BY <2>1, <2>2
  <2>3. CASE n # a
    <3>1. n < a /\ a \in 0..a /\ n \in 0..a
      BY <1>4, <2>3
    <3>2. l < e[a] /\ e[a] <= l /\ e[a] \in Int
      BY <1>9, <1>10, <2>1, <3>1
    <3> QED BY <3>2
  <2> QED BY <2>2, <2>3
<1>13. \A n \in 1..(a - 1) : Path!At(s, e[n]) = "/"
  <2> TAKE n \in 1..(a - 1)
  <2>1. n \in 1..a /\ n < a /\ n \in 0..a /\ a \in 0..a
    BY <1>4
  <2>2. e[n] < l /\ e[n] \in Int
    BY <1>9, <1>10, <1>12, <2>1
  <2>3. e[n] # l
    BY <2>2
  <2> QED BY <1>2, <1>7, <2>1, <2>3
<1>14. \A n \in 1..a : \A y \in (e[n - 1] + 1)..(e[n] - 1) : Path!At(s, y) # "/"
  <2> SUFFICES ASSUME NEW n \in 1..a, NEW y \in (e[n - 1] + 1)..(e[n] - 1), Path!At(s, y) = "/" PROVE FALSE
    OBVIOUS
  <2>1. n \in 0..a /\ n - 1 \in 0..a /\ n \in Int
    BY <1>4
  <2>2. e[n] \in Int /\ e[n - 1] \in Int /\ -1 <= e[n - 1] /\ e[n] <= l
    BY <1>9, <2>1
  <2>3. y \in 0..(l - 1) /\ e[n - 1] < y /\ y < e[n]
    BY <2>2
  <2>4. PICK k \in 1..a : y = e[k]
    BY <1>2, <1>5, <1>6, <2>3
  <2>5. k \in 0..a /\ k \in Int
    BY <1>4
  <2>6. n - 1 < k /\ k < n
    BY <1>11, <2>1, <2>3, <2>4, <2>5
  <2> QED BY <2>1, <2>5, <2>6
<1>15. Cuts(e, a, s)
  BY <1>4, <1>6, <1>9, <1>10, <1>12, <1>13, <1>14 DEF Cuts
<1>16. \A n \in 1..a : Cut(e, s, n) = Path!Part(s, IF n = 1 THEN 0 ELSE Path!Nth(S, n - 1) + 1, Path!Nth(S, n))
  <2> TAKE n \in 1..a
  <2>1. e[n] = Path!Nth(S, n)
    BY <1>6
  <2>2. CASE n = 1
    <3>1. e[n - 1] + 1 = 0
      BY <1>6, <2>2
    <3> QED BY <2>1, <2>2, <3>1 DEF Cut
  <2>3. CASE n # 1
    <3>1. n - 1 \in 1..a
      BY <1>4, <2>3
    <3>2. e[n - 1] = Path!Nth(S, n - 1)
      BY <1>6, <3>1
    <3> QED BY <2>1, <2>3, <3>2 DEF Cut
  <2> QED BY <2>2, <2>3
<1>17. Path!Segments(s) = [n \in 1..a |-> Cut(e, s, n)]
  BY Zenon, <1>3, <1>16
<1> QED BY <1>15, <1>17

LEMMA CutFacts ==
  ASSUME NEW e, NEW a, NEW s, Cuts(e, a, s), NEW n \in 1..a
  PROVE  /\ n \in Nat /\ n - 1 \in Nat /\ n - 1 \in 0..a /\ n \in 0..a
         /\ e[n - 1] \in Int /\ -1 <= e[n - 1] /\ e[n] \in Nat /\ e[n - 1] < e[n]
         /\ e[n] <= Len(s) /\ Len(s) \in Nat
         /\ n # a => e[n] < Len(s)
<1>1. a \in Nat /\ Len(s) \in Nat
  BY DEF Cuts
<1>2. n \in Nat /\ n - 1 \in Nat /\ n - 1 \in 0..a /\ n \in 0..a /\ n - 1 < n /\ a \in 0..a
  BY <1>1
<1>3. e[n - 1] \in Int /\ -1 <= e[n - 1] /\ e[n] \in Int /\ e[n - 1] < e[n] /\ e[n] <= Len(s)
  BY <1>2 DEF Cuts
<1>4. n # a => e[n] < Len(s)
  <2>1. n # a => n < a
    BY <1>1
  <2> QED BY <1>2, <2>1 DEF Cuts
<1> QED BY <1>1, <1>2, <1>3, <1>4

LEMMA LastCut ==
  ASSUME NEW e, NEW a, NEW s, Cuts(e, a, s), NEW n \in 0..a
  PROVE  e[n] = Len(s) <=> n = a
<1>1. a \in Nat /\ a \in 0..a /\ e[a] = Len(s) /\ (n < a => e[n] < e[a]) /\ e[n] \in Int
  BY DEF Cuts
<1>2. n = a \/ n < a
  BY <1>1
<1> QED BY <1>1, <1>2

LEMMA CutFound ==
  ASSUME NEW e, NEW a, NEW s, Cuts(e, a, s), NEW n \in 1..a, NEW y \in (e[n - 1] + 1)..e[n]
  PROVE  Path!Find(s, "/", y) = e[n]
<1>1. /\ n \in Nat /\ e[n - 1] \in Int /\ -1 <= e[n - 1] /\ e[n] \in Nat /\ e[n - 1] < e[n]
      /\ e[n] <= Len(s) /\ Len(s) \in Nat
      /\ n # a => e[n] < Len(s)
  BY CutFacts
<1>2. y \in Nat /\ y <= e[n]
  BY <1>1
<1>3. \A z \in y..(e[n] - 1) : Path!At(s, z) # "/"
  <2> TAKE z \in y..(e[n] - 1)
  <2>1. z \in (e[n - 1] + 1)..(e[n] - 1)
    BY <1>1, <1>2
  <2> QED BY <2>1 DEF Cuts
<1>4. e[n] < Len(s) => Path!At(s, e[n]) = "/"
  <2>1. a \in Nat /\ e[a] = Len(s)
    BY DEF Cuts
  <2>2. e[n] < Len(s) => n # a
    BY <1>1, <2>1
  <2>3. n # a => n \in 1..(a - 1)
    BY <2>1
  <2> QED BY <2>2, <2>3 DEF Cuts
<1>5. FoundAt(s, "/", y, e[n])
  BY <1>1, <1>2, <1>3, <1>4 DEF FoundAt
<1> QED BY <1>1, <1>2, <1>5, FoundOnce

LEMMA Located ==
  ASSUME NEW e, NEW a, NEW s, Cuts(e, a, s), NEW y \in 0..Len(s)
  PROVE  \E n \in 1..a : e[n - 1] < y /\ y <= e[n]
<1> DEFINE T == {n \in Nat : n <= a /\ y <= e[n]}
<1>1. a \in Nat /\ e[a] = Len(s) /\ Len(s) \in Nat /\ e[0] = -1
  BY DEF Cuts
<1>2. a \in T
  BY <1>1
<1>3. PICK n \in T : \A z \in T : n <= z
  BY <1>2, Least
<1>4. n \in Nat /\ n <= a /\ y <= e[n]
  OBVIOUS
<1>5. n # 0
  BY <1>1, <1>4
<1>6. n \in 1..a /\ n - 1 \in Nat /\ ~(n <= n - 1) /\ n - 1 <= a
  BY <1>1, <1>4, <1>5
<1>7. ~(y <= e[n - 1])
  BY <1>3, <1>6
<1>8. e[n - 1] \in Int
  BY <1>6, CutFacts
<1>9. e[n - 1] < y
  BY <1>1, <1>7, <1>8
<1> QED BY <1>4, <1>6, <1>9

(* Segments u+1 to v of two texts that are cut in the same number of        *)
(* segments up to u, and what is in them and between them.                  *)
Both(e, a, p, f, b, s, u, v) ==
  /\ Cuts(e, a, p) /\ Cuts(f, b, s)
  /\ u \in Nat /\ v \in Nat /\ u <= v /\ v <= a /\ u <= b
Alike(e, p, f, s, u, v) == \A r \in (u + 1)..v : Cut(e, p, r) = Cut(f, s, r)
Level(e, f, b, r, d) == r <= b /\ f[r] = e[r] + d
Apart(e, f, u, d) == d \in Int /\ d = f[u] - e[u]
Closes(e, s, u, v, d) == v = u \/ e[v] + d = Len(s) \/ Path!At(s, e[v] + d) = "/"

LEMMA TextIsCut ==
  ASSUME NEW e, NEW a, NEW p, NEW f, NEW b, NEW s, NEW u, NEW v, Both(e, a, p, f, b, s, u, v),
         NEW d, Apart(e, f, u, d), e[v] + d <= Len(s),
         SameText(p, s, e[u] + 1, e[v] - 1, d), Closes(e, s, u, v, d)
  PROVE  \A r \in u..v : Level(e, f, b, r, d)
<1>1. u \in Nat /\ v \in Nat /\ u <= v /\ v <= a /\ u <= b /\ a \in Nat /\ b \in Nat /\ Len(s) \in Nat /\ d \in Int
  BY DEF Both, Cuts, Apart
<1>2. e[u] \in Int /\ e[v] \in Int /\ f[u] \in Int /\ -1 <= f[u] /\ (u < v => e[u] < e[v])
  <2>1. u \in 0..a /\ v \in 0..a /\ u \in 0..b
    BY <1>1
  <2> QED BY <2>1 DEF Both, Cuts
<1> DEFINE T == {r \in Nat : u <= r /\ r <= v /\ ~Level(e, f, b, r, d)}
<1>3. SUFFICES ASSUME T # {} PROVE FALSE
  BY <1>1
<1>4. PICK r \in T : \A z \in T : r <= z
  BY <1>3, Least
<1>5. r \in Nat /\ u <= r /\ r <= v /\ ~Level(e, f, b, r, d)
  OBVIOUS
<1>6. r # u
  <2>1. Level(e, f, b, u, d)
    BY <1>1, <1>2 DEF Level, Apart
  <2> QED BY <1>5, <2>1
<1>7. /\ r - 1 \in Nat /\ u <= r - 1 /\ r - 1 <= v /\ ~(r <= r - 1) /\ r \in 1..a
      /\ u < r /\ u \in 0..a /\ r \in 0..a /\ v \in 0..a
  BY <1>1, <1>5, <1>6
<1>8. Level(e, f, b, r - 1, d)
  BY <1>4, <1>7
<1> HIDE DEF T
<1> DEFINE x == e[r - 1]
           y == e[r]
           z == f[r - 1]
           w == e[v]
           o == e[u]
<1>9. z = x + d /\ r - 1 <= b
  BY <1>8 DEF Level
<1>10. x \in Int /\ y \in Nat /\ x < y
  BY <1>7, CutFacts DEF Both
<1>11. y <= w /\ o <= x /\ (r # v => y < w)
  <2>1. r = v \/ r < v
    BY <1>1, <1>5
  <2>2. u = r - 1 \/ u < r - 1
    BY <1>1, <1>7
  <2>3. r - 1 \in 0..a
    BY <1>1, <1>7
  <2>4. r < v => y < w
    BY <1>7 DEF Both, Cuts
  <2>5. u < r - 1 => o < x
    BY <1>7, <2>3 DEF Both, Cuts
  <2> QED BY <1>2, <1>10, <2>1, <2>2, <2>4, <2>5
<1>12. -1 <= z
  <2>1. r - 1 \in 0..b
    BY <1>1, <1>7, <1>9
  <2> QED BY <2>1 DEF Both, Cuts
<1>13. r <= b /\ r \in 1..b
  <2>1. z < Len(s)
    BY SMTT(30), <1>1, <1>2, <1>9, <1>10, <1>11
  <2>2. r - 1 # b
    <3>1. f[b] = Len(s)
      BY DEF Both, Cuts
    <3>2. z # Len(s)
      BY <1>1, <1>9, <1>10, <2>1
    <3> QED BY <3>1, <3>2
  <2> HIDE DEF x, y, z, w, o
  <2> QED BY <1>1, <1>5, <1>7, <1>9, <2>2
<1>14. SameText(p, s, o + 1, w - 1, d)
  OBVIOUS
<1>15. \A i \in (x + 1)..(y - 1) : Path!At(p, i) # "/"
  BY <1>7 DEF Both, Cuts
<1>16. r # v => Path!At(p, y) = "/"
  <2>1. r # v => r \in 1..(a - 1)
    BY <1>1, <1>5, <1>7
  <2> QED BY <2>1 DEF Both, Cuts
<1>17. v = u \/ w + d = Len(s) \/ Path!At(s, w + d) = "/"
  BY DEF Closes
<1>18. (r = v => y = w) /\ w \in Int /\ o \in Int
  BY <1>2
<1> HIDE DEF x, y, z, w, o
<1>19. FoundAt(s, "/", z + 1, y + d)
  <2>1. y + d \in Nat /\ y + d <= Len(s) /\ z + 1 <= y + d /\ z + 1 \in Nat
    BY <1>1, <1>2, <1>9, <1>10, <1>11, <1>12 DEF w
  <2>2. ASSUME NEW i \in Int, z + 1 <= i, i <= y + d - 1
        PROVE  Path!At(s, i) # "/"
    <3> DEFINE j == i - d
    <3>1. j \in (x + 1)..(y - 1) /\ j \in (o + 1)..(w - 1) /\ j + d = i
      BY <1>1, <1>9, <1>10, <1>11, <1>18, <2>2
    <3> HIDE DEF j
    <3>2. Path!At(p, j) = Path!At(s, j + d)
      BY <1>14, <3>1 DEF SameText
    <3> QED BY <1>15, <3>1, <3>2
  <2>3. y + d < Len(s) => Path!At(s, y + d) = "/"
    <3>1. CASE r = v
      <4>1. y = w /\ v # u
        BY <1>6, <1>18, <3>1
      <4>2. y + d < Len(s) => w + d # Len(s)
        BY <1>1, <1>10, <4>1
      <4> QED BY <1>17, <4>1, <4>2
    <3>2. CASE r # v
      <4>1. y \in (o + 1)..(w - 1)
        BY <1>2, <1>10, <1>11, <3>2 DEF w, o
      <4> QED BY <1>14, <1>16, <3>2, <4>1 DEF SameText
    <3> QED BY <3>1, <3>2
  <2> DEFINE g == y + d
             k == z + 1
  <2>4. g = y + d /\ k = z + 1
    OBVIOUS
  <2>5. g < Len(s) => Path!At(s, g) = "/"
    BY Zenon, <2>3
  <2> HIDE DEF g, k
  <2>6. g \in Nat /\ g <= Len(s) /\ k <= g /\ k \in Nat
    BY <2>1, <2>4
  <2>7. \A i \in k..(g - 1) : Path!At(s, i) # "/"
    <3> TAKE i \in k..(g - 1)
    <3>1. i \in Int /\ k <= i /\ i <= g - 1
      BY <2>6
    <3>2. i \in Int /\ z + 1 <= i /\ i <= y + d - 1
      BY <1>1, <1>9, <1>10, <2>4, <2>6, <3>1
    <3> QED BY <2>2, <3>2
  <2>8. FoundAt(s, "/", k, g)
    BY <2>5, <2>6, <2>7 DEF FoundAt
  <2> QED BY <2>8 DEF g, k
<1>20. Path!Find(s, "/", z + 1) = y + d
  <2>1. z + 1 \in Nat
    BY <1>9, <1>10, <1>12, <1>1
  <2> QED BY <1>1, <1>19, <2>1, FoundOnce
<1>21. Path!Find(s, "/", z + 1) = f[r]
  <2>1. f[r - 1] \in Int /\ f[r] \in Nat /\ f[r - 1] < f[r]
    BY <1>13, CutFacts DEF Both
  <2>2. z + 1 \in (f[r - 1] + 1)..f[r]
    BY <2>1 DEF z
  <2> QED BY <1>13, <2>2, CutFound DEF Both
<1> QED BY <1>5, <1>13, <1>20, <1>21 DEF Level, y

LEMMA AlikeIf ==
  ASSUME NEW e, NEW a, NEW p, NEW f, NEW b, NEW s, NEW u, NEW v, Both(e, a, p, f, b, s, u, v),
         NEW d, Apart(e, f, u, d), SameText(p, s, e[u] + 1, e[v] - 1, d),
         \A r \in u..v : Level(e, f, b, r, d)
  PROVE  Alike(e, p, f, s, u, v)
<1>1. u \in Nat /\ v \in Nat /\ u <= v /\ v <= a /\ u <= b /\ a \in Nat /\ b \in Nat /\ d \in Int
  BY DEF Both, Cuts, Apart
<1> SUFFICES ASSUME NEW r \in (u + 1)..v PROVE Cut(e, p, r) = Cut(f, s, r)
  BY DEF Alike
<1>2. r \in 1..a /\ r \in u..v /\ r - 1 \in u..v /\ r \in 0..a /\ r - 1 \in 0..a /\ u \in 0..a /\ v \in 0..a
  BY <1>1
<1> DEFINE i == e[r - 1] + 1
           j == e[r]
           k == f[r - 1] + 1
           l == f[r]
           o == e[u]
           w == e[v]
<1>3. r <= b /\ f[r - 1] = e[r - 1] + d /\ l = j + d
  BY <1>2 DEF Level
<1>4. r \in 1..b
  BY <1>1, <1>2, <1>3
<1>5. i \in Nat /\ j \in Nat /\ i <= j
  <2>1. e[r - 1] \in Int /\ -1 <= e[r - 1] /\ e[r] \in Nat /\ e[r - 1] < e[r]
    BY <1>2, CutFacts DEF Both
  <2> QED BY <2>1
<1>6. k \in Nat /\ l \in Nat /\ k <= l
  <2>1. f[r - 1] \in Int /\ -1 <= f[r - 1] /\ f[r] \in Nat /\ f[r - 1] < f[r]
    BY <1>4, CutFacts DEF Both
  <2> QED BY <2>1
<1>7. o \in Int /\ w \in Int /\ o + 1 <= i /\ j <= w
  <2>1. r = v \/ r < v
    BY <1>1, <1>2
  <2>2. u = r - 1 \/ u < r - 1
    BY <1>1, <1>2
  <2>3. o \in Int /\ w \in Int /\ (r < v => j < w) /\ (u < r - 1 => o < e[r - 1]) /\ e[r - 1] \in Int
    BY <1>2 DEF Both, Cuts
  <2>4. r = v => j = w
    OBVIOUS
  <2>5. u = r - 1 => e[r - 1] = o
    OBVIOUS
  <2> HIDE DEF j, w, o
  <2> QED BY <1>5, <2>1, <2>2, <2>3, <2>4, <2>5
<1>8. k - i = d /\ j - i = l - k
  <2>1. e[r - 1] \in Int
    BY <1>2, CutFacts DEF Both
  <2> QED BY <1>1, <1>3, <1>5, <2>1
<1>9. SameText(p, s, o + 1, w - 1, d)
  OBVIOUS
<1> HIDE DEF i, j, k, l, o, w
<1>10. SameText(p, s, i, j - 1, k - i)
  <2>1. SameText(p, s, i, j - 1, d)
    <3> SUFFICES ASSUME NEW y \in i..(j - 1) PROVE Path!At(p, y) = Path!At(s, y + d)
      BY DEF SameText
    <3>1. y \in (o + 1)..(w - 1)
      BY <1>5, <1>7
    <3> QED BY <1>9, <3>1 DEF SameText
  <2> QED BY <1>8, <2>1
<1>11. Interval(i, j) /\ Interval(k, l)
  BY <1>5, <1>6 DEF Interval
<1>12. Path!Part(p, i, j) = Path!Part(s, k, l)
  BY <1>8, <1>10, <1>11, SameParts
<1> QED BY <1>12 DEF Cut, i, j, k, l

(* What equal segments say.                                                 *)
LEMMA CutsSame ==
  ASSUME NEW e, NEW a, NEW p, NEW f, NEW b, NEW s, Cuts(e, a, p), Cuts(f, b, s),
         NEW r, r \in 1..a, r \in 1..b, Cut(e, p, r) = Cut(f, s, r),
         NEW d \in Int, f[r - 1] = e[r - 1] + d
  PROVE  f[r] = e[r] + d /\ SameText(p, s, e[r - 1] + 1, e[r] - 1, d)
<1> DEFINE i == e[r - 1] + 1
           j == e[r]
           k == f[r - 1] + 1
           l == f[r]
<1>1. e[r - 1] \in Int /\ -1 <= e[r - 1] /\ e[r] \in Nat /\ e[r - 1] < e[r]
  BY CutFacts
<1>2. f[r - 1] \in Int /\ -1 <= f[r - 1] /\ f[r] \in Nat /\ f[r - 1] < f[r]
  BY CutFacts
<1>3. i \in Nat /\ j \in Nat /\ i <= j
  BY <1>1
<1>4. k \in Nat /\ l \in Nat /\ k <= l
  BY <1>2
<1>5. Path!Part(p, i, j) = Path!Part(s, k, l)
  BY DEF Cut
<1>6. k - i = d
  BY <1>1
<1> HIDE DEF i, j, k, l
<1>7. j - i = l - k /\ SameText(p, s, i, j - 1, k - i)
  BY <1>3, <1>4, <1>5, SameParts DEF Interval
<1>8. l = j + d /\ SameText(p, s, i, j - 1, d)
  BY <1>3, <1>4, <1>6, <1>7
<1> QED BY <1>8 DEF i, j, l

LEMMA CutsAgree ==
  ASSUME NEW e, NEW a, NEW p, NEW f, NEW b, NEW s, NEW u, NEW v, Both(e, a, p, f, b, s, u, v),
         v <= b, Alike(e, p, f, s, u, v), NEW d, Apart(e, f, u, d)
  PROVE  (\A r \in u..v : Level(e, f, b, r, d)) /\ SameText(p, s, e[u] + 1, e[v] - 1, d)
<1>1. /\ u \in Nat /\ v \in Nat /\ u <= v /\ v <= a /\ u <= b /\ a \in Nat /\ b \in Nat /\ d \in Int
      /\ Cuts(e, a, p) /\ Cuts(f, b, s)
  BY DEF Both, Cuts, Apart
<1>2. \A r \in u..v : Level(e, f, b, r, d)
  <2> DEFINE T == {r \in Nat : u <= r /\ r <= v /\ ~Level(e, f, b, r, d)}
  <2>1. SUFFICES ASSUME T # {} PROVE FALSE
    BY <1>1
  <2>2. PICK r \in T : \A z \in T : r <= z
    BY <2>1, Least
  <2>3. r \in Nat /\ u <= r /\ r <= v /\ ~Level(e, f, b, r, d)
    OBVIOUS
  <2>4. r # u
    <3>1. u \in 0..a /\ u \in 0..b
      BY <1>1
    <3>2. e[u] \in Int /\ f[u] \in Int
      BY <1>1, <3>1 DEF Cuts
    <3>3. Level(e, f, b, u, d)
      BY <1>1, <3>2 DEF Level, Apart
    <3> QED BY <2>3, <3>3
  <2>5. r - 1 \in Nat /\ u <= r - 1 /\ r - 1 <= v /\ ~(r <= r - 1) /\ r \in 1..a /\ r \in 1..b /\ r \in (u + 1)..v
    BY <1>1, <2>3, <2>4
  <2>6. Level(e, f, b, r - 1, d)
    BY <2>2, <2>5
  <2> HIDE DEF T
  <2>7. f[r - 1] = e[r - 1] + d
    BY <2>6 DEF Level
  <2>8. Cut(e, p, r) = Cut(f, s, r)
    BY <2>5 DEF Alike
  <2>9. f[r] = e[r] + d
    BY <1>1, <2>5, <2>7, <2>8, CutsSame
  <2> QED BY <2>3, <2>5, <2>9 DEF Level
<1>3. ASSUME NEW y \in (e[u] + 1)..(e[v] - 1)
      PROVE  Path!At(p, y) = Path!At(s, y + d)
  <2>1. u \in 0..a /\ v \in 0..a
    BY <1>1
  <2>2. e[u] \in Int /\ e[v] \in Int /\ -1 <= e[u] /\ e[v] <= Len(p) /\ Len(p) \in Nat
    BY <1>1, <2>1 DEF Cuts
  <2>3. y \in 0..Len(p) /\ e[u] < y /\ y < e[v]
    BY <2>2
  <2>4. PICK r \in 1..a : e[r - 1] < y /\ y <= e[r]
    BY <1>1, <2>3, Located
  <2>5. e[r - 1] \in Int /\ e[r] \in Nat /\ r - 1 \in 0..a /\ r \in 0..a /\ r \in Nat
    BY <1>1, CutFacts
  <2>6. u < r
    <3> SUFFICES ASSUME ~(u < r) PROVE FALSE
      OBVIOUS
    <3>1. r = u \/ r < u
      BY <1>1, <2>5
    <3>2. r < u => e[r] < e[u]
      BY <1>1, <2>1, <2>5 DEF Cuts
    <3> QED BY <2>2, <2>3, <2>4, <2>5, <3>1, <3>2
  <2>7. r <= v
    <3> SUFFICES ASSUME ~(r <= v) PROVE FALSE
      OBVIOUS
    <3>1. v = r - 1 \/ v < r - 1
      BY <1>1, <2>5
    <3>2. v < r - 1 => e[v] < e[r - 1]
      BY <1>1, <2>1, <2>5 DEF Cuts
    <3> QED BY <2>2, <2>3, <2>4, <2>5, <3>1, <3>2
  <2>8. r \in u..v /\ r - 1 \in u..v /\ r \in (u + 1)..v /\ r \in 1..b
    BY <1>1, <2>5, <2>6, <2>7
  <2>9. f[r] = e[r] + d /\ f[r - 1] = e[r - 1] + d
    BY <1>2, <2>8 DEF Level
  <2>10. CASE y = e[r]
    <3>1. r # v
      <4>1. e[r] # e[v]
        BY <2>2, <2>3, <2>10
      <4> QED BY <4>1
    <3>2. r \in 1..(a - 1) /\ r \in 1..(b - 1)
      BY <1>1, <2>5, <2>8, <3>1
    <3>3. Path!At(p, e[r]) = "/" /\ Path!At(s, f[r]) = "/"
      BY <1>1, <3>2 DEF Cuts
    <3> QED BY <2>9, <2>10, <3>3
  <2>11. CASE y # e[r]
    <3>1. y \in (e[r - 1] + 1)..(e[r] - 1)
      BY <2>3, <2>4, <2>5, <2>11
    <3>2. Cut(e, p, r) = Cut(f, s, r)
      BY <2>8 DEF Alike
    <3>3. SameText(p, s, e[r - 1] + 1, e[r] - 1, d)
      BY <1>1, <2>8, <2>9, <3>2, CutsSame
    <3> QED BY <3>1, <3>3 DEF SameText
  <2> QED BY <2>10, <2>11
<1> QED BY <1>2, <1>3 DEF SameText

(* A fragment of the pattern, and what comes after it.                      *)
Follows(s, n, t) == n + Len(t) <= Len(s) /\ Path!Part(s, n, n + Len(t)) = t

LEMMA PartLength ==
  ASSUME NEW p, NEW i, NEW j, Interval(i, j)
  PROVE  Len(Path!Part(p, i, j)) = j - i
<1> DEFINE P == Path!Part(p, i, j)
<1>1. i \in Nat /\ j \in Nat /\ i <= j
  BY DEF Interval
<1>2. P = [y \in 1..(j - i) |-> p[i + y]]
  <2>1. PartOf(Path!Part(p, i, j), p, i, j)
    BY <1>1, PartIs
  <2> QED BY <2>1 DEF PartOf
<1> HIDE DEF P
<1>3. Len(P) = j - i
  BY <1>1, <1>2
<1> QED BY <1>3 DEF P

LEMMA FragmentFits ==
  ASSUME NEW e, NEW a, NEW p, NEW f, NEW b, NEW s, NEW u, NEW v, Both(e, a, p, f, b, s, u, v), v < a,
         NEW t, t = Path!Part(p, e[u] + 1, e[v] + 1), NEW n, n = f[u] + 1
  PROVE  /\ n \in Nat /\ Len(t) \in Nat
         /\ Follows(s, n, t) <=> v < b /\ Alike(e, p, f, s, u, v)
         /\ Follows(s, n, t) => n + Len(t) = f[v] + 1 /\ Path!Find(s, "/", n + Len(t)) = f[v + 1]
<1>1. /\ u \in Nat /\ v \in Nat /\ u <= v /\ v <= a /\ u <= b /\ a \in Nat /\ b \in Nat
      /\ Cuts(e, a, p) /\ Cuts(f, b, s) /\ Len(s) \in Nat
  BY DEF Both, Cuts
<1>2. u \in 0..a /\ v \in 0..a /\ u \in 0..b /\ a \in 0..a
  BY <1>1
<1>3. /\ e[u] \in Int /\ -1 <= e[u] /\ e[v] \in Int /\ -1 <= e[v] /\ f[u] \in Int /\ -1 <= f[u]
      /\ (u < v => e[u] < e[v])
  BY <1>1, <1>2 DEF Cuts
<1> DEFINE d == f[u] - e[u]
           i == e[u] + 1
           j == e[v] + 1
           l == n + (j - i)
<1>4. /\ i \in Nat /\ j \in Nat /\ i <= j /\ n \in Nat /\ l \in Nat /\ n <= l /\ d \in Int /\ n - i = d /\ l = j + d
      /\ j - i = l - n
  <2>1. u = v \/ u < v
    BY <1>1
  <2> QED BY <1>3, <2>1
<1>5. Len(t) = j - i
  <2> HIDE DEF i, j
  <2>1. Len(Path!Part(p, i, j)) = j - i
    BY ZenonT(60), <1>4, PartLength DEF Interval
  <2> QED BY <2>1 DEF i, j
<1>6. Follows(s, n, t) <=> l <= Len(s) /\ Path!Part(s, n, l) = t
  BY <1>5 DEF Follows
<1>7. t = Path!Part(p, i, j)
  OBVIOUS
<1>8. Apart(e, f, u, d)
  BY <1>4 DEF Apart
<1>9. /\ j - 1 = e[v] /\ i = e[u] + 1 /\ e[v] + d = l - 1 /\ e[v] + d \in Int
      /\ (u < v => e[v] \in i..(j - 1))
      /\ \A y \in i..(j - 1) : y # e[v] => y \in (e[u] + 1)..(e[v] - 1)
  BY <1>3, <1>4
<1> HIDE DEF d, i, j, l
<1>10. Path!Part(s, n, l) = t <=> SameText(p, s, i, j - 1, d)
  <2>1. Interval(i, j) /\ Interval(n, l)
    BY <1>4 DEF Interval
  <2>2. Path!Part(p, i, j) = Path!Part(s, n, l) <=> j - i = l - n /\ SameText(p, s, i, j - 1, n - i)
    BY <2>1, SameParts
  <2> QED BY <1>4, <1>7, <2>2
<1>11. ASSUME Follows(s, n, t) PROVE v < b /\ Alike(e, p, f, s, u, v) /\ l = f[v] + 1
  <2>1. l <= Len(s) /\ SameText(p, s, i, j - 1, d)
    BY <1>6, <1>10, <1>11
  <2>2. SameText(p, s, e[u] + 1, e[v] - 1, d)
    <3> SUFFICES ASSUME NEW y \in (e[u] + 1)..(e[v] - 1) PROVE Path!At(p, y) = Path!At(s, y + d)
      BY DEF SameText
    <3>1. y \in i..(j - 1)
      BY <1>3, <1>9
    <3> QED BY <2>1, <3>1 DEF SameText
  <2>3. Closes(e, s, u, v, d)
    <3>1. CASE v = u
      BY <3>1 DEF Closes
    <3>2. CASE v # u
      <4>1. v \in 1..(a - 1) /\ e[v] \in i..(j - 1)
        <5>1. u < v
          BY <1>1, <3>2
        <5> QED BY <1>1, <1>9, <5>1
      <4>2. Path!At(p, e[v]) = "/"
        BY <1>1, <4>1 DEF Cuts
      <4>3. Path!At(p, e[v]) = Path!At(s, e[v] + d)
        BY <2>1, <4>1 DEF SameText
      <4> QED BY <4>2, <4>3 DEF Closes
    <3> QED BY <3>1, <3>2
  <2>4. e[v] + d <= Len(s) /\ e[v] + d < Len(s)
    <3> DEFINE z == e[v] + d
    <3>1. z \in Int /\ z = l - 1
      BY <1>9
    <3> HIDE DEF z
    <3>2. z <= Len(s) /\ z < Len(s)
      BY SMTT(30), <1>1, <1>4, <2>1, <3>1
    <3> QED BY <3>2 DEF z
  <2>5. \A r \in u..v : Level(e, f, b, r, d)
    BY <1>8, <2>2, <2>3, <2>4, TextIsCut
  <2>6. v <= b /\ f[v] = e[v] + d
    <3>1. v \in u..v
      BY <1>1
    <3> QED BY <2>5, <3>1 DEF Level
  <2>7. v # b
    <3>1. f[b] = Len(s)
      BY <1>1 DEF Cuts
    <3> QED BY <1>1, <1>4, <1>9, <2>4, <2>6, <3>1
  <2>8. v < b
    BY <1>1, <2>6, <2>7
  <2>9. l = f[v] + 1
    BY <1>4, <1>9, <2>6
  <2> QED BY <1>8, <2>2, <2>5, <2>8, <2>9, AlikeIf
<1>12. ASSUME v < b, Alike(e, p, f, s, u, v) PROVE Follows(s, n, t)
  <2>1. v <= b
    BY <1>1, <1>12
  <2>2. (\A r \in u..v : Level(e, f, b, r, d)) /\ SameText(p, s, e[u] + 1, e[v] - 1, d)
    BY <1>8, <1>12, <2>1, CutsAgree
  <2>3. f[v] = e[v] + d
    <3>1. v \in u..v
      BY <1>1
    <3> QED BY <2>2, <3>1 DEF Level
  <2>4. f[v] < Len(s) /\ f[v] \in Int
    <3>1. v \in 0..b /\ b \in 0..b
      BY <1>1, <2>1
    <3> QED BY <1>1, <1>12, <3>1 DEF Cuts
  <2>5. l <= Len(s)
    BY <1>1, <1>4, <1>9, <2>3, <2>4
  <2>6. SameText(p, s, i, j - 1, d)
    <3> SUFFICES ASSUME NEW y \in i..(j - 1) PROVE Path!At(p, y) = Path!At(s, y + d)
      BY DEF SameText
    <3>1. CASE y = e[v]
      <4>1. v # u
        <5>1. e[v] # e[u]
          BY <1>3, <1>4, <1>9, <3>1
        <5> QED BY <5>1
      <4>2. v \in 1..(a - 1) /\ v \in 1..(b - 1)
        BY <1>1, <1>12, <4>1
      <4>3. Path!At(p, e[v]) = "/" /\ Path!At(s, f[v]) = "/"
        BY <1>1, <4>2 DEF Cuts
      <4> QED BY <2>3, <3>1, <4>3
    <3>2. CASE y # e[v]
      <4>1. y \in (e[u] + 1)..(e[v] - 1)
        BY <1>9, <3>2
      <4> QED BY <2>2, <4>1 DEF SameText
    <3> QED BY <3>1, <3>2
  <2> QED BY <1>6, <1>10, <2>5, <2>6
<1>13. ASSUME Follows(s, n, t) PROVE n + Len(t) = f[v] + 1 /\ Path!Find(s, "/", n + Len(t)) = f[v + 1]
  <2>1. v < b /\ l = f[v] + 1
    BY <1>11, <1>13
  <2>2. n + Len(t) = l
    BY <1>5 DEF l
  <2>3. v + 1 \in 1..b /\ (v + 1) - 1 = v
    BY <1>1, <2>1
  <2> DEFINE m == v + 1
  <2>4. f[m - 1] \in Int /\ f[m] \in Nat /\ f[m - 1] < f[m]
    BY <1>1, <2>3, CutFacts
  <2>5. l \in (f[m - 1] + 1)..f[m]
    BY <2>1, <2>3, <2>4
  <2> HIDE DEF m
  <2>6. m \in 1..b
    BY <2>3 DEF m
  <2>7. Path!Find(s, "/", l) = f[m]
    BY <1>1, <2>5, <2>6, CutFound
  <2> QED BY <2>1, <2>2, <2>7 DEF m
<1>14. Len(t) \in Nat
  BY <1>4, <1>5
<1> QED BY <1>4, <1>11, <1>12, <1>13, <1>14

LEMMA RestFits ==
  ASSUME NEW e, NEW a, NEW p, NEW f, NEW b, NEW s, NEW u, Both(e, a, p, f, b, s, u, a), u < a,
         NEW t, t = Path!Part(p, e[u] + 1, Len(p)), NEW n, n = f[u] + 1
  PROVE  Follows(s, n, t) /\ n + Len(t) >= Len(s) <=> b = a /\ Alike(e, p, f, s, u, a)
<1>1. /\ u \in Nat /\ u <= a /\ u <= b /\ a \in Nat /\ b \in Nat
      /\ Cuts(e, a, p) /\ Cuts(f, b, s) /\ Len(s) \in Nat /\ e[a] = Len(p) /\ f[b] = Len(s) /\ Len(p) \in Nat
  BY DEF Both, Cuts
<1>2. u \in 0..a /\ u \in 0..b /\ a \in 0..a
  BY <1>1
<1>3. /\ e[u] \in Int /\ -1 <= e[u] /\ e[a] \in Int /\ f[u] \in Int /\ -1 <= f[u]
      /\ e[u] < e[a]
  BY <1>1, <1>2 DEF Cuts
<1> DEFINE d == f[u] - e[u]
           i == e[u] + 1
           j == e[a]
           l == n + (j - i)
<1>4. /\ i \in Nat /\ j \in Nat /\ i <= j /\ n \in Nat /\ l \in Nat /\ n <= l /\ d \in Int /\ n - i = d /\ l = j + d
      /\ j - i = l - n
  <2> DEFINE x == e[u]
             z == f[u]
  <2>1. j \in Nat /\ x \in Int /\ -1 <= x /\ z \in Int /\ -1 <= z /\ x < j
    BY <1>1, <1>3
  <2>2. d = z - x /\ i = x + 1 /\ l = n + (j - i) /\ n = z + 1
    OBVIOUS
  <2> HIDE DEF x, z, d, i, j, l
  <2> QED BY <2>1, <2>2
<1>5. Len(t) = j - i
  <2> HIDE DEF i, j
  <2>1. Len(Path!Part(p, i, j)) = j - i
    BY <1>4, PartLength DEF Interval
  <2> QED BY <1>1, <2>1 DEF i, j
<1>6. Follows(s, n, t) <=> l <= Len(s) /\ Path!Part(s, n, l) = t
  BY <1>5 DEF Follows
<1>7. t = Path!Part(p, i, j)
  BY <1>1
<1>8. Apart(e, f, u, d)
  BY <1>4 DEF Apart
<1>9. i = e[u] + 1 /\ e[a] + d = l /\ e[a] = j /\ n + Len(t) = l
  BY <1>3, <1>4, <1>5
<1> HIDE DEF d, i, j, l
<1>10. Path!Part(s, n, l) = t <=> SameText(p, s, i, j - 1, d)
  <2>1. Interval(i, j) /\ Interval(n, l)
    BY <1>4 DEF Interval
  <2>2. Path!Part(p, i, j) = Path!Part(s, n, l) <=> j - i = l - n /\ SameText(p, s, i, j - 1, n - i)
    BY <2>1, SameParts
  <2> QED BY <1>4, <1>7, <2>2
<1>11. SameText(p, s, i, j - 1, d) <=> SameText(p, s, e[u] + 1, e[a] - 1, d)
  BY <1>9
<1>12. ASSUME Follows(s, n, t), n + Len(t) >= Len(s) PROVE b = a /\ Alike(e, p, f, s, u, a)
  <2>1. l <= Len(s) /\ SameText(p, s, e[u] + 1, e[a] - 1, d)
    BY <1>6, <1>10, <1>11, <1>12
  <2>2. e[a] + d = Len(s)
    BY <1>1, <1>4, <1>9, <1>12, <2>1
  <2>3. Closes(e, s, u, a, d)
    BY <2>2 DEF Closes
  <2>4. e[a] + d <= Len(s)
    BY <1>1, <2>2
  <2>5. \A r \in u..a : Level(e, f, b, r, d)
    BY <1>8, <2>1, <2>3, <2>4, TextIsCut
  <2>6. a <= b /\ f[a] = e[a] + d
    <3>1. a \in u..a
      BY <1>1
    <3> QED BY <2>5, <3>1 DEF Level
  <2>7. a = b
    <3>1. a \in 0..b
      BY <1>1, <2>6
    <3> QED BY <1>1, <2>2, <2>6, <3>1, LastCut
  <2> QED BY <1>8, <2>1, <2>5, <2>7, AlikeIf
<1>13. ASSUME b = a, Alike(e, p, f, s, u, a) PROVE Follows(s, n, t) /\ n + Len(t) >= Len(s)
  <2>1. a <= b
    BY <1>1, <1>13
  <2>2. (\A r \in u..a : Level(e, f, b, r, d)) /\ SameText(p, s, e[u] + 1, e[a] - 1, d)
    BY <1>8, <1>13, <2>1, CutsAgree
  <2>3. f[a] = e[a] + d
    <3>1. a \in u..a
      BY <1>1
    <3> QED BY <2>2, <3>1 DEF Level
  <2>4. l = Len(s)
    BY <1>1, <1>9, <1>13, <2>3
  <2>5. l <= Len(s) /\ n + Len(t) >= Len(s)
    BY <1>1, <1>9, <2>4
  <2> QED BY <1>6, <1>10, <1>11, <2>2, <2>5
<1> QED BY <1>12, <1>13

(* A route: Q are the segments that are parameters, and no colon is outside *)
(* them.  Par gives them by number, 0 standing before the first.            *)
Route(e, a, p, Q) ==
  /\ Cuts(e, a, p) /\ Q \in SUBSET (1..a) /\ DOMAIN p = 1..Len(p)
  /\ \A n \in Q : e[n - 1] + 1 < e[n] /\ Path!At(p, e[n - 1] + 1) = ":"
  /\ \A y \in 0..(Len(p) - 1) : Path!At(p, y) = ":" => \E n \in Q : e[n - 1] < y /\ y < e[n]

Par(Q, n) == IF n = 0 THEN 0 ELSE Path!Nth(Q, n)

LEMMA ParamsOrdered ==
  ASSUME NEW e, NEW a, NEW p, NEW Q, Route(e, a, p, Q)
  PROVE  /\ Cardinality(Q) \in Nat /\ a \in Nat /\ IsFiniteSet(Q) /\ Par(Q, 0) = 0
         /\ \A n \in 0..Cardinality(Q) : Par(Q, n) \in 0..a
         /\ \A n \in 1..Cardinality(Q) :
              /\ Par(Q, n) \in Q /\ Par(Q, n) \in 1..a /\ Par(Q, n - 1) < Par(Q, n)
              /\ \A r \in Q : ~(Par(Q, n - 1) < r /\ r < Par(Q, n))
         /\ \A r \in Q : ~(Par(Q, Cardinality(Q)) < r)
<1> DEFINE c == Cardinality(Q)
<1>1. Within0(Q, a) /\ a \in Nat /\ Q \in SUBSET (1..a)
  <2>1. a \in Nat /\ Q \in SUBSET (1..a)
    BY DEF Route, Cuts
  <2>2. Q \in SUBSET (0..a)
    BY <2>1
  <2> QED BY <2>1, <2>2 DEF Within0
<1>2. c \in Nat /\ IsFiniteSet(Q)
  BY <1>1, CountUp
<1>3. \A n \in 1..c : Path!Nth(Q, n) \in Q
  BY <1>1, NthIs
<1>4. /\ \A m, n \in 1..c : m < n => Path!Nth(Q, m) < Path!Nth(Q, n)
      /\ \A x \in Q : \E n \in 1..c : x = Path!Nth(Q, n)
  BY <1>1, NthOrder
<1> HIDE DEF c
<1>5. Par(Q, 0) = 0 /\ \A n \in 1..c : Par(Q, n) = Path!Nth(Q, n)
  BY <1>2 DEF Par
<1>6. \A n \in 1..c : Par(Q, n) \in Q /\ Par(Q, n) \in 1..a
  BY <1>1, <1>3, <1>5
<1>7. \A n \in 0..c : Par(Q, n) \in 0..a
  <2> TAKE n \in 0..c
  <2>1. n = 0 \/ n \in 1..c
    BY <1>2
  <2>2. 0 \in 0..a /\ \A r \in 1..a : r \in 0..a
    BY <1>1
  <2> QED BY <1>5, <1>6, <2>1, <2>2
<1>8. \A m, n \in 0..c : m < n => Par(Q, m) < Par(Q, n)
  <2> SUFFICES ASSUME NEW m \in 0..c, NEW n \in 0..c, m < n PROVE Par(Q, m) < Par(Q, n)
    OBVIOUS
  <2>1. n \in 1..c /\ (m = 0 \/ m \in 1..c)
    BY <1>2
  <2>2. CASE m = 0
    <3>1. Par(Q, n) \in 1..a
      BY <1>6, <2>1
    <3> QED BY <1>5, <2>2, <3>1
  <2>3. CASE m \in 1..c
    BY <1>4, <1>5, <2>1, <2>3
  <2> QED BY <2>1, <2>2, <2>3
<1>9. \A m, n \in 0..c : Par(Q, m) < Par(Q, n) => m < n
  <2> SUFFICES ASSUME NEW m \in 0..c, NEW n \in 0..c, ~(m < n) PROVE ~(Par(Q, m) < Par(Q, n))
    OBVIOUS
  <2>1. m = n \/ n < m
    BY <1>2
  <2>2. Par(Q, m) \in Int /\ Par(Q, n) \in Int
    <3>1. Par(Q, m) \in 0..a /\ Par(Q, n) \in 0..a
      BY <1>7
    <3> QED BY <3>1
  <2>3. n < m => Par(Q, n) < Par(Q, m)
    BY <1>8
  <2> QED BY <2>1, <2>2, <2>3
<1>10. \A r \in Q : \E k \in 1..c : r = Par(Q, k) /\ k \in 0..c
  <2> TAKE r \in Q
  <2>1. PICK k \in 1..c : r = Par(Q, k)
    BY <1>4, <1>5
  <2>2. k \in 0..c
    BY <1>2
  <2> QED BY <2>1, <2>2
<1>11. ASSUME NEW n \in 1..c PROVE Par(Q, n - 1) < Par(Q, n) /\ \A r \in Q : ~(Par(Q, n - 1) < r /\ r < Par(Q, n))
  <2>1. n \in 0..c /\ n - 1 \in 0..c /\ n - 1 < n /\ n \in Nat
    BY <1>2
  <2>2. Par(Q, n - 1) < Par(Q, n)
    BY <1>8, <2>1
  <2> SUFFICES ASSUME NEW r \in Q, Par(Q, n - 1) < r, r < Par(Q, n) PROVE FALSE
    BY <2>2
  <2>3. PICK k \in 1..c : r = Par(Q, k) /\ k \in 0..c
    BY <1>10
  <2>4. n - 1 < k /\ k < n
    BY <1>9, <2>1, <2>3
  <2>5. k \in Nat
    BY <1>2
  <2> QED BY <2>1, <2>4, <2>5
<1>12. \A r \in Q : ~(Par(Q, c) < r)
  <2> SUFFICES ASSUME NEW r \in Q, Par(Q, c) < r PROVE FALSE
    OBVIOUS
  <2>1. PICK k \in 1..c : r = Par(Q, k) /\ k \in 0..c
    BY <1>10
  <2>2. c \in 0..c
    BY <1>2
  <2>3. c < k
    BY <1>9, <2>1, <2>2
  <2> QED BY <1>2, <2>3
<1> QED BY <1>1, <1>2, <1>5, <1>6, <1>7, <1>11, <1>12 DEF c

LEMMA NextParam ==
  ASSUME NEW e, NEW a, NEW p, NEW Q, Route(e, a, p, Q), NEW n \in 1..Cardinality(Q),
         NEW u, u = Par(Q, n - 1), NEW w, w = Par(Q, n)
  PROVE  /\ Path!Find(p, ":", e[u] + 1) = e[w - 1] + 1
         /\ Path!Find(p, "/", (e[w - 1] + 1) + 1) = e[w]
<1>1. Cuts(e, a, p) /\ a \in Nat /\ Len(p) \in Nat
  BY DEF Route, Cuts
<1>2. w \in Q /\ w \in 1..a /\ u < w /\ \A r \in Q : ~(u < r /\ r < w)
  BY ParamsOrdered
<1>3. u \in 0..a /\ w \in 0..a /\ w - 1 \in 0..a /\ u <= w - 1
  <2>1. n - 1 \in 0..Cardinality(Q)
    BY ParamsOrdered
  <2>2. u \in 0..a
    BY <2>1, ParamsOrdered
  <2> QED BY <1>1, <1>2, <2>2
<1>4. e[w - 1] + 1 < e[w] /\ Path!At(p, e[w - 1] + 1) = ":"
  BY <1>2 DEF Route
<1>5. e[w - 1] \in Int /\ -1 <= e[w - 1] /\ e[w] \in Nat /\ e[w] <= Len(p)
  BY <1>1, <1>2, CutFacts
<1>6. e[u] \in Int /\ -1 <= e[u] /\ e[u] <= e[w - 1]
  <2>1. u = w - 1 \/ u < w - 1
    BY <1>1, <1>3
  <2>2. e[u] \in Int /\ -1 <= e[u] /\ (u < w - 1 => e[u] < e[w - 1])
    BY <1>1, <1>3 DEF Cuts
  <2> QED BY <1>5, <2>1, <2>2
<1> DEFINE k == e[u] + 1
           g == e[w - 1] + 1
<1>7. k \in Nat /\ g \in Nat /\ k <= g /\ g < Len(p)
  BY <1>1, <1>4, <1>5, <1>6
<1>8. \A y \in k..(g - 1) : Path!At(p, y) # ":"
  <2> SUFFICES ASSUME NEW y \in k..(g - 1), Path!At(p, y) = ":" PROVE FALSE
    OBVIOUS
  <2>1. y \in 0..(Len(p) - 1) /\ e[u] < y /\ y <= e[w - 1]
    BY <1>1, <1>5, <1>6, <1>7
  <2>2. PICK r \in Q : e[r - 1] < y /\ y < e[r]
    BY <2>1 DEF Route
  <2>3. r \in 1..a
    BY DEF Route
  <2>4. e[r - 1] \in Int /\ e[r] \in Nat /\ r - 1 \in 0..a /\ r \in 0..a /\ r \in Nat
    BY <1>1, <2>3, CutFacts
  <2>5. u < r
    <3> SUFFICES ASSUME ~(u < r) PROVE FALSE
      OBVIOUS
    <3>1. r = u \/ r < u
      BY <1>1, <1>3, <2>4
    <3>2. r < u => e[r] < e[u]
      BY <1>1, <1>3, <2>4 DEF Cuts
    <3> QED BY <1>6, <2>1, <2>2, <2>4, <3>1, <3>2
  <2>6. r < w
    <3> SUFFICES ASSUME ~(r < w) PROVE FALSE
      OBVIOUS
    <3>1. w - 1 = r - 1 \/ w - 1 < r - 1
      BY <1>1, <1>3, <2>4
    <3>2. w - 1 < r - 1 => e[w - 1] < e[r - 1]
      BY <1>1, <1>3, <2>4 DEF Cuts
    <3> QED BY <1>5, <2>1, <2>2, <2>4, <3>1, <3>2
  <2> QED BY <1>2, <2>5, <2>6
<1>9. g + 1 \in (e[w - 1] + 1)..e[w]
  BY <1>4, <1>5
<1>10. Path!Find(p, "/", g + 1) = e[w]
  <2> HIDE DEF g
  <2> QED BY <1>1, <1>2, <1>9, CutFound
<1>11. Path!At(p, g) = ":"
  BY <1>4
<1> HIDE DEF k, g
<1>12. FoundAt(p, ":", k, g)
  BY <1>1, <1>7, <1>8, <1>11 DEF FoundAt
<1>13. Path!Find(p, ":", k) = g
  BY <1>1, <1>7, <1>12, FoundOnce
<1> QED BY <1>10, <1>13 DEF k, g

LEMMA NoMoreParams ==
  ASSUME NEW e, NEW a, NEW p, NEW Q, Route(e, a, p, Q), NEW u, u = Par(Q, Cardinality(Q))
  PROVE  /\ Path!Find(p, ":", e[u] + 1) = Len(p)
         /\ \A c : Path!Find(p, c, Len(p) + 1) = Len(p)
<1>1. Cuts(e, a, p) /\ a \in Nat /\ Len(p) \in Nat
  BY DEF Route, Cuts
<1>2. u \in 0..a
  <2>1. Cardinality(Q) \in 0..Cardinality(Q)
    BY ParamsOrdered
  <2> QED BY <2>1, ParamsOrdered
<1>3. e[u] \in Int /\ -1 <= e[u] /\ e[u] <= Len(p)
  BY <1>1, <1>2 DEF Cuts
<1> DEFINE k == e[u] + 1
<1>4. k \in Nat
  BY <1>3
<1>5. \A y \in k..(Len(p) - 1) : Path!At(p, y) # ":"
  <2> SUFFICES ASSUME NEW y \in k..(Len(p) - 1), Path!At(p, y) = ":" PROVE FALSE
    OBVIOUS
  <2>1. y \in 0..(Len(p) - 1) /\ e[u] < y
    BY <1>1, <1>3
  <2>2. PICK r \in Q : e[r - 1] < y /\ y < e[r]
    BY <2>1 DEF Route
  <2>3. r \in 1..a
    BY DEF Route
  <2>4. e[r] \in Nat /\ r \in 0..a /\ r \in Nat
    BY <1>1, <2>3, CutFacts
  <2>5. u < r
    <3> SUFFICES ASSUME ~(u < r) PROVE FALSE
      OBVIOUS
    <3>1. r = u \/ r < u
      BY <1>1, <1>2, <2>4
    <3>2. r < u => e[r] < e[u]
      BY <1>1, <1>2, <2>4 DEF Cuts
    <3> QED BY <1>3, <2>1, <2>2, <2>4, <3>1, <3>2
  <2> QED BY <2>5, ParamsOrdered
<1> HIDE DEF k
<1> DEFINE l == Len(p)
<1>6. FoundAt(p, ":", k, l)
  BY <1>1, <1>4, <1>5 DEF FoundAt, k
<1>7. Path!Find(p, ":", k) = l
  BY <1>1, <1>4, <1>6, FoundOnce
<1>8. ASSUME NEW c PROVE Path!Find(p, c, Len(p) + 1) = Len(p)
  <2> DEFINE m == Len(p) + 1
  <2>1. m \in Nat
    BY <1>1
  <2>2. FoundAt(p, c, m, Path!Find(p, c, m))
    BY <1>1, <2>1, FindIs
  <2>3. \A g : FoundAt(p, c, m, g) => g = Len(p)
    BY <1>1 DEF FoundAt
  <2> QED BY <2>2, <2>3
<1> QED BY <1>7, <1>8 DEF k

(* The constructor finds the parameters one by one.                         *)
EndsUpTo(h, p, n) ==
  h = [k \in 0..n |->
         IF k = 0 THEN 0 ELSE Path!Find(p, "/", Path!Find(p, ":", h[k - 1]) + 1) + 1]

LEMMA EndsExist ==
  ASSUME NEW p, NEW n \in Nat
  PROVE  \E h : EndsUpTo(h, p, n)
<1> DEFINE T == {u \in Nat : ~\E h : EndsUpTo(h, p, u)}
<1>1. SUFFICES ASSUME T # {} PROVE FALSE
  OBVIOUS
<1>2. PICK u \in T : \A y \in T : u <= y
  BY <1>1, Least
<1> HIDE DEF T
<1>3. u \in Nat /\ ~\E h : EndsUpTo(h, p, u)
  BY DEF T
<1>4. CASE u = 0
  <2>1. EndsUpTo([k \in 0..0 |-> 0], p, 0)
    BY DEF EndsUpTo
  <2> QED BY <1>3, <1>4, <2>1
<1>5. CASE u # 0
  <2>1. u - 1 \in Nat /\ u - 1 \notin T
    BY <1>2, <1>3, <1>5
  <2>2. PICK h : EndsUpTo(h, p, u - 1)
    BY <2>1 DEF T
  <2> DEFINE x == Path!Find(p, "/", Path!Find(p, ":", h[u - 1]) + 1) + 1
             g == [k \in 0..u |-> IF k = u THEN x ELSE h[k]]
  <2>3. ASSUME NEW k \in 0..u
        PROVE  g[k] = IF k = 0 THEN 0 ELSE Path!Find(p, "/", Path!Find(p, ":", g[k - 1]) + 1) + 1
    <3>1. CASE k = u
      <4>1. g[u - 1] = h[u - 1] /\ g[u] = x
        <5> HIDE DEF x
        <5> QED BY <1>3, <1>5
      <4> HIDE DEF g
      <4> QED BY <1>5, <3>1, <4>1
    <3>2. CASE k # u
      <4>1. k \in 0..(u - 1) /\ g[k] = h[k]
        BY <1>3, <3>2
      <4>2. k # 0 => g[k - 1] = h[k - 1]
        BY <1>3, <4>1
      <4>3. h[k] = IF k = 0 THEN 0 ELSE Path!Find(p, "/", Path!Find(p, ":", h[k - 1]) + 1) + 1
        BY Zenon, <2>2, <4>1 DEF EndsUpTo
      <4> HIDE DEF g
      <4> QED BY <4>1, <4>2, <4>3
    <3> QED BY <3>1, <3>2
  <2>4. g = [k \in 0..u |-> g[k]]
    <3> HIDE DEF x
    <3> QED OBVIOUS
  <2> HIDE DEF g
  <2>5. EndsUpTo(g, p, u)
    BY Zenon, <2>3, <2>4 DEF EndsUpTo
  <2> QED BY <1>3, <2>5
<1> QED BY <1>4, <1>5

LEMMA MarkersEnough ==
  ASSUME NEW e, NEW a, NEW p, NEW Q, Route(e, a, p, Q)
  PROVE  Path!Markers(p) \in Nat /\ Cardinality(Q) <= Path!Markers(p)
<1> DEFINE S == {i \in DOMAIN p : p[i] = ":"}
           g == [n \in Q |-> e[n - 1] + 2]
<1>1. Cuts(e, a, p) /\ a \in Nat /\ Len(p) \in Nat /\ DOMAIN p = 1..Len(p)
  BY DEF Route, Cuts
<1>2. IsFiniteSet(S)
  <2>1. S \in SUBSET (1..Len(p)) /\ 1 \in Int /\ Len(p) \in Int
    BY <1>1
  <2> HIDE DEF S
  <2> QED BY <2>1, FS_Interval, FS_Subset
<1>3. \A n \in Q : /\ n \in 1..a /\ n - 1 \in 0..a /\ n \in Nat /\ e[n - 1] \in Int
                   /\ e[n - 1] + 2 \in 1..Len(p) /\ p[e[n - 1] + 2] = ":"
  <2> TAKE n \in Q
  <2>1. n \in 1..a /\ e[n - 1] + 1 < e[n] /\ Path!At(p, e[n - 1] + 1) = ":"
    BY DEF Route
  <2>2. n - 1 \in 0..a /\ n \in Nat /\ e[n - 1] \in Int /\ -1 <= e[n - 1] /\ e[n] \in Nat /\ e[n] <= Len(p)
    BY <1>1, <2>1, CutFacts
  <2>3. (e[n - 1] + 1) + 1 = e[n - 1] + 2
    BY <2>2
  <2>4. e[n - 1] + 2 \in 1..Len(p)
    BY <1>1, <2>1, <2>2
  <2> QED BY <2>1, <2>2, <2>3, <2>4 DEF Path!At
<1>4. g \in Injection(Q, S)
  <2>1. g \in [Q -> S]
    BY <1>1, <1>3
  <2>2. ASSUME NEW m \in Q, NEW n \in Q, g[m] = g[n] PROVE m = n
    <3>1. e[m - 1] = e[n - 1]
      BY <1>3, <2>2
    <3>2. m - 1 < n - 1 \/ m = n \/ n - 1 < m - 1
      BY <1>3
    <3>3. (m - 1 < n - 1 => e[m - 1] < e[n - 1]) /\ (n - 1 < m - 1 => e[n - 1] < e[m - 1])
      BY <1>1, <1>3 DEF Cuts
    <3>4. e[m - 1] \in Int /\ e[n - 1] \in Int
      BY <1>3
    <3> QED BY <3>1, <3>2, <3>3, <3>4
  <2> HIDE DEF g, S
  <2> QED BY <2>1, <2>2 DEF Injection, IsInjective
<1>5. Cardinality(Q) <= Cardinality(S) /\ Cardinality(S) \in Nat
  <2> HIDE DEF g, S
  <2> QED BY <1>2, <1>4, FS_Injection, FS_CardinalityType
<1>6. Path!Markers(p) = Cardinality(S)
  BY SameCount DEF Path!Markers
<1> QED BY <1>5, <1>6

LEMMA EndsAre ==
  ASSUME NEW e, NEW a, NEW p, NEW Q, Route(e, a, p, Q), NEW h, h = Path!ParamEnd(p)
  PROVE  /\ \A n \in 0..Cardinality(Q) : h[n] = e[Par(Q, n)] + 1
         /\ \A n \in 1..Path!Markers(p) : Path!Find(p, ":", h[n - 1]) < Len(p) <=> n <= Cardinality(Q)
<1> DEFINE c == Cardinality(Q)
           M == Path!Markers(p)
<1>1. Cuts(e, a, p) /\ a \in Nat /\ Len(p) \in Nat /\ e[0] = -1
  BY DEF Route, Cuts
<1>2. c \in Nat /\ M \in Nat /\ c <= M
  BY MarkersEnough, ParamsOrdered
<1>3. EndsUpTo(h, p, M)
  <2>1. \E g : EndsUpTo(g, p, M)
    BY <1>2, EndsExist
  <2>2. h = CHOOSE g : EndsUpTo(g, p, M)
    BY Zenon DEF Path!ParamEnd, EndsUpTo
  <2> HIDE DEF M
  <2> QED BY Zenon, <2>1, <2>2
<1> HIDE DEF c, M
<1>4. h[0] = 0 /\ \A n \in 1..M : h[n] = Path!Find(p, "/", Path!Find(p, ":", h[n - 1]) + 1) + 1
  <2>1. \A n \in 0..M : h[n] = IF n = 0 THEN 0 ELSE Path!Find(p, "/", Path!Find(p, ":", h[n - 1]) + 1) + 1
    BY Zenon, <1>3 DEF EndsUpTo
  <2>2. 0 \in 0..M /\ \A n \in 1..M : n \in 0..M /\ n # 0
    BY <1>2
  <2> QED BY <2>1, <2>2
<1>5. \A n \in 0..c : h[n] = e[Par(Q, n)] + 1
  <2> DEFINE T == {n \in Nat : n <= c /\ h[n] # e[Par(Q, n)] + 1}
  <2>1. SUFFICES ASSUME T # {} PROVE FALSE
    BY <1>2
  <2>2. PICK n \in T : \A y \in T : n <= y
    BY <2>1, Least
  <2>3. n \in Nat /\ n <= c /\ h[n] # e[Par(Q, n)] + 1
    OBVIOUS
  <2>4. n # 0
    <3>1. Par(Q, 0) = 0
      BY DEF Par
    <3> QED BY <1>1, <1>4, <2>3, <3>1
  <2>5. n - 1 \in Nat /\ ~(n <= n - 1) /\ n - 1 <= c /\ n \in 1..c /\ n \in 1..M
    BY <1>2, <2>3, <2>4
  <2>6. h[n - 1] = e[Par(Q, n - 1)] + 1
    BY <2>2, <2>5
  <2> HIDE DEF T
  <2>7. h[n] = e[Par(Q, n)] + 1
    <3> DEFINE u == Par(Q, n - 1)
               w == Par(Q, n)
    <3>1. n \in 1..Cardinality(Q)
      BY <2>5 DEF c
    <3> HIDE DEF u, w
    <3>2. Path!Find(p, ":", e[u] + 1) = e[w - 1] + 1 /\ Path!Find(p, "/", (e[w - 1] + 1) + 1) = e[w]
      BY <3>1, NextParam DEF u, w
    <3>3. h[n] = Path!Find(p, "/", Path!Find(p, ":", h[n - 1]) + 1) + 1
      BY <1>4, <2>5
    <3>4. h[n - 1] = e[u] + 1
      BY <2>6 DEF u
    <3>5. h[n] = e[w] + 1
      BY Zenon, <3>2, <3>3, <3>4
    <3> QED BY <3>5 DEF w
  <2> QED BY <2>3, <2>7
<1>6. ASSUME NEW n \in 1..c PROVE Path!Find(p, ":", h[n - 1]) < Len(p)
  <2>1. n - 1 \in 0..c /\ n \in 1..Cardinality(Q)
    BY <1>2 DEF c
  <2> DEFINE u == Par(Q, n - 1)
             w == Par(Q, n)
  <2>2. w \in Q /\ w \in 1..a
    BY <2>1, ParamsOrdered
  <2> HIDE DEF u, w
  <2>3. Path!Find(p, ":", e[u] + 1) = e[w - 1] + 1
    BY <2>1, NextParam DEF u, w
  <2>4. e[w - 1] + 1 < e[w]
    BY <2>2 DEF Route
  <2>5. e[w] \in Nat /\ e[w] <= Len(p) /\ e[w - 1] \in Int
    BY <1>1, <2>2, CutFacts
  <2>6. h[n - 1] = e[u] + 1
    BY <1>5, <2>1 DEF u
  <2>7. Path!Find(p, ":", h[n - 1]) = e[w - 1] + 1
    BY <2>3, <2>6
  <2>8. e[w - 1] + 1 < Len(p)
    BY <1>1, <2>4, <2>5
  <2> QED BY <2>7, <2>8
<1>7. \A n \in (c + 1)..M : Path!Find(p, ":", h[n - 1]) = Len(p)
  <2> DEFINE T == {n \in Nat : c + 1 <= n /\ n <= M /\ Path!Find(p, ":", h[n - 1]) # Len(p)}
  <2>1. SUFFICES ASSUME T # {} PROVE FALSE
    <3>1. \A n \in (c + 1)..M : n \in Nat /\ c + 1 <= n /\ n <= M
      BY <1>2
    <3> QED BY Zenon, <3>1
  <2>2. PICK n \in T : \A y \in T : n <= y
    BY <2>1, Least
  <2>3. n \in Nat /\ c + 1 <= n /\ n <= M /\ Path!Find(p, ":", h[n - 1]) # Len(p)
    OBVIOUS
  <2>4. n # c + 1
    <3> SUFFICES ASSUME n = c + 1 PROVE FALSE
      OBVIOUS
    <3>1. n - 1 = c /\ c \in 0..c
      BY <1>2
    <3>2. h[n - 1] = e[Par(Q, c)] + 1
      BY <1>5, <3>1
    <3>3. Path!Find(p, ":", e[Par(Q, c)] + 1) = Len(p)
      BY NoMoreParams DEF c
    <3> QED BY <2>3, <3>2, <3>3
  <2>5. n - 1 \in Nat /\ ~(n <= n - 1) /\ c + 1 <= n - 1 /\ n - 1 <= M /\ n - 1 \in 1..M /\ n \in 1..M
    BY <1>2, <2>3, <2>4
  <2>6. Path!Find(p, ":", h[(n - 1) - 1]) = Len(p)
    BY <2>2, <2>5
  <2> HIDE DEF T
  <2>7. h[n - 1] = Path!Find(p, "/", Path!Find(p, ":", h[(n - 1) - 1]) + 1) + 1
    BY Zenon, <1>4, <2>5
  <2>8. Path!Find(p, "/", Len(p) + 1) = Len(p) /\ Path!Find(p, ":", Len(p) + 1) = Len(p)
    BY NoMoreParams
  <2>9. Path!Find(p, ":", h[n - 1]) = Len(p)
    BY Zenon, <2>6, <2>7, <2>8
  <2> QED BY <2>3, <2>9
<1>8. ASSUME NEW n \in 1..M PROVE Path!Find(p, ":", h[n - 1]) < Len(p) <=> n <= c
  <2>1. CASE n <= c
    <3>1. n \in 1..c
      BY <1>2, <2>1
    <3> QED BY <1>6, <2>1, <3>1
  <2>2. CASE ~(n <= c)
    <3>1. n \in (c + 1)..M
      BY <1>2, <2>2
    <3>2. ~(Len(p) < Len(p))
      BY <1>1
    <3> QED BY <1>7, <2>2, <3>1, <3>2
  <2> QED BY <2>1, <2>2
<1> QED BY <1>5, <1>8 DEF c, M

LEMMA ParamsAre ==
  ASSUME NEW e, NEW a, NEW p, NEW Q, Route(e, a, p, Q)
  PROVE  /\ Path!Params(p) = Cardinality(Q)
         /\ \A n \in 1..Cardinality(Q) :
              Path!Fragment(p, n) = Path!Part(p, e[Par(Q, n - 1)] + 1, e[Par(Q, n) - 1] + 1)
         /\ Path!Rest(p) = Path!Part(p, e[Par(Q, Cardinality(Q))] + 1, Len(p))
<1> DEFINE c == Cardinality(Q)
           M == Path!Markers(p)
           h == Path!ParamEnd(p)
           S == {n \in 1..M : Path!Find(p, ":", h[n - 1]) < Len(p)}
<1>1. c \in Nat /\ M \in Nat /\ c <= M
  BY MarkersEnough, ParamsOrdered
<1>2. /\ \A n \in 0..c : h[n] = e[Par(Q, n)] + 1
      /\ \A n \in 1..M : Path!Find(p, ":", h[n - 1]) < Len(p) <=> n <= c
  BY EndsAre
<1>3. Path!Params(p) = Cardinality(S)
  BY SameCount DEF Path!Params
<1> HIDE DEF c, M, h
<1>4. S = 1..c
  <2>1. \A n \in 1..M : n <= c <=> n \in 1..c
    BY <1>1
  <2>2. \A n \in 1..c : n \in 1..M
    BY <1>1
  <2> QED BY <1>2, <2>1, <2>2
<1> HIDE DEF S
<1>5. Path!Params(p) = c
  <2>1. Cardinality(1..c) = c
    <3>1. 1 \in Int /\ c \in Int
      BY <1>1
    <3>2. Cardinality(1..c) = IF 1 > c THEN 0 ELSE c - 1 + 1
      BY <3>1, FS_Interval
    <3> QED BY <1>1, <3>2
  <2> QED BY <1>3, <1>4, <2>1
<1>6. ASSUME NEW n \in 1..c
      PROVE  Path!Fragment(p, n) = Path!Part(p, e[Par(Q, n - 1)] + 1, e[Par(Q, n) - 1] + 1)
  <2>1. n - 1 \in 0..c /\ n \in 1..Cardinality(Q)
    BY <1>1 DEF c
  <2>2. h[n - 1] = e[Par(Q, n - 1)] + 1
    BY <1>2, <2>1
  <2>3. Path!Find(p, ":", e[Par(Q, n - 1)] + 1) = e[Par(Q, n) - 1] + 1
    BY <2>1, NextParam
  <2> QED BY Zenon, <2>2, <2>3 DEF Path!Fragment, h
<1>7. Path!Rest(p) = Path!Part(p, e[Par(Q, c)] + 1, Len(p))
  <2>1. c \in 0..c
    BY <1>1
  <2>2. h[c] = e[Par(Q, c)] + 1
    BY <1>2, <2>1
  <2> QED BY <1>5, <2>2 DEF Path!Rest, h
<1> QED BY <1>5, <1>6, <1>7 DEF c

(* match goes on from fragment to fragment.                                 *)
StartsUpTo(g, p, s, F, n) ==
  g = [i \in 0..n |->
         IF i = 0 THEN 0
         ELSE LET from == g[i - 1]
                  to == from + Len(F[i])
              IN IF from = -1 \/ to > Len(s) \/ Path!Part(s, from, to) # F[i] THEN -1
                 ELSE IF i > Path!Params(p) THEN to
                 ELSE Path!Find(s, "/", to) + 1]

(* One step of it.                                                          *)
Onward(p, s, F, i, x) ==
  IF x = -1 \/ x + Len(F[i]) > Len(s) \/ Path!Part(s, x, x + Len(F[i])) # F[i] THEN -1
  ELSE IF i > Path!Params(p) THEN x + Len(F[i])
  ELSE Path!Find(s, "/", x + Len(F[i])) + 1

StepsUpTo(g, p, s, F, n) == g = [i \in 0..n |-> IF i = 0 THEN 0 ELSE Onward(p, s, F, i, g[i - 1])]

LEMMA StartsStep ==
  ASSUME NEW p, NEW s, NEW F, NEW n, NEW g
  PROVE  StartsUpTo(g, p, s, F, n) <=> StepsUpTo(g, p, s, F, n)
BY Zenon DEF StartsUpTo, StepsUpTo, Onward

LEMMA StartsExist ==
  ASSUME NEW p, NEW s, NEW F, NEW n \in Nat
  PROVE  \E g : StartsUpTo(g, p, s, F, n)
<1> DEFINE T == {u \in Nat : ~\E g : StartsUpTo(g, p, s, F, u)}
<1>1. SUFFICES ASSUME T # {} PROVE FALSE
  OBVIOUS
<1>2. PICK u \in T : \A y \in T : u <= y
  BY <1>1, Least
<1> HIDE DEF T
<1>3. u \in Nat /\ ~\E g : StartsUpTo(g, p, s, F, u)
  BY DEF T
<1>4. CASE u = 0
  <2> DEFINE g == [k \in 0..0 |-> 0]
  <2>1. g = [i \in 0..0 |-> IF i = 0 THEN 0 ELSE Onward(p, s, F, i, g[i - 1])]
    OBVIOUS
  <2> HIDE DEF g
  <2>2. StartsUpTo(g, p, s, F, 0)
    BY <2>1, StartsStep DEF StepsUpTo
  <2> QED BY <1>3, <1>4, <2>2
<1>5. CASE u # 0
  <2>1. u - 1 \in Nat /\ u - 1 \notin T
    BY <1>2, <1>3, <1>5
  <2>2. PICK h : StartsUpTo(h, p, s, F, u - 1)
    BY <2>1 DEF T
  <2>3. h = [i \in 0..(u - 1) |-> IF i = 0 THEN 0 ELSE Onward(p, s, F, i, h[i - 1])]
    <3>1. StepsUpTo(h, p, s, F, u - 1)
      BY <2>2, StartsStep
    <3> QED BY <3>1 DEF StepsUpTo
  <2> DEFINE x == Onward(p, s, F, u, h[u - 1])
             g == [k \in 0..u |-> IF k = u THEN x ELSE h[k]]
  <2>4. ASSUME NEW k \in 0..u
        PROVE  g[k] = IF k = 0 THEN 0 ELSE Onward(p, s, F, k, g[k - 1])
    <3>1. CASE k = u
      <4>1. g[u - 1] = h[u - 1] /\ g[u] = x
        <5> HIDE DEF x
        <5> QED BY <1>3, <1>5
      <4> HIDE DEF g
      <4> QED BY <1>5, <3>1, <4>1
    <3>2. CASE k # u
      <4>1. k \in 0..(u - 1) /\ g[k] = h[k]
        BY <1>3, <3>2
      <4>2. k # 0 => g[k - 1] = h[k - 1]
        BY <1>3, <4>1
      <4>3. h[k] = IF k = 0 THEN 0 ELSE Onward(p, s, F, k, h[k - 1])
        BY Zenon, <2>3, <4>1
      <4> HIDE DEF g
      <4> QED BY <4>1, <4>2, <4>3
    <3> QED BY <3>1, <3>2
  <2>5. g = [k \in 0..u |-> g[k]]
    <3> HIDE DEF x
    <3> QED OBVIOUS
  <2> HIDE DEF g
  <2>6. g = [k \in 0..u |-> IF k = 0 THEN 0 ELSE Onward(p, s, F, k, g[k - 1])]
    BY Zenon, <2>4, <2>5
  <2>7. StartsUpTo(g, p, s, F, u)
    <3>1. StepsUpTo(g, p, s, F, u)
      BY <2>6 DEF StepsUpTo
    <3> QED BY <3>1, StartsStep
  <2> QED BY <1>3, <2>7
<1> QED BY <1>4, <1>5

LEMMA StartsAre ==
  ASSUME NEW p, NEW s, NEW F, F = Path!static_fragments_(p), Len(F) \in Nat, NEW g, g = Path!Starts(p, s)
  PROVE  g[0] = 0 /\ \A i \in 1..Len(F) : g[i] = Onward(p, s, F, i, g[i - 1])
<1> DEFINE n == Len(F)
<1>1. StartsUpTo(g, p, s, F, n)
  <2>1. \E f : StartsUpTo(f, p, s, F, n)
    BY StartsExist
  <2>2. g = CHOOSE f : StartsUpTo(f, p, s, F, n)
    BY ZenonT(60) DEF Path!Starts, StartsUpTo
  <2> HIDE DEF n
  <2> QED BY Zenon, <2>1, <2>2
<1> HIDE DEF n
<1>2. n \in Nat
  BY DEF n
<1>3. g = [i \in 0..n |-> IF i = 0 THEN 0 ELSE Onward(p, s, F, i, g[i - 1])]
  <2>1. StepsUpTo(g, p, s, F, n)
    BY <1>1, StartsStep
  <2> QED BY <2>1 DEF StepsUpTo
<1>4. \A i \in 0..n : g[i] = IF i = 0 THEN 0 ELSE Onward(p, s, F, i, g[i - 1])
  BY Zenon, <1>3
<1>5. 0 \in 0..n /\ \A i \in 1..n : i \in 0..n /\ i # 0
  BY <1>2
<1>6. g[0] = 0 /\ \A i \in 1..n : g[i] = Onward(p, s, F, i, g[i - 1])
  BY <1>4, <1>5
<1> QED BY <1>6 DEF n

(* Pattern and path are the same up to parameter k.                         *)
Matched(e, p, f, b, s, Q, k) ==
  Par(Q, k) <= b /\ \A r \in 1..Par(Q, k) : r \in Q \/ Cut(e, p, r) = Cut(f, s, r)

LEMMA FragmentsAre ==
  ASSUME NEW e, NEW a, NEW p, NEW Q, Route(e, a, p, Q), NEW F, F = Path!static_fragments_(p)
  PROVE  /\ Len(F) = Cardinality(Q) + (IF Path!Rest(p) = <<>> THEN 0 ELSE 1)
         /\ \A n \in 1..Cardinality(Q) : F[n] = Path!Fragment(p, n)
         /\ Path!Rest(p) # <<>> => F[Cardinality(Q) + 1] = Path!Rest(p)
<1> DEFINE c == Cardinality(Q)
           A == [n \in 1..c |-> Path!Fragment(p, n)]
           R == Path!Rest(p)
           B == IF R = <<>> THEN <<>> ELSE <<R>>
<1>1. F = A \o B
  BY Zenon, ParamsAre DEF Path!static_fragments_
<1>2. c \in Nat
  BY ParamsOrdered
<1> HIDE DEF c, R
<1> DEFINE V == {Path!Fragment(p, n) : n \in 1..c}
<1>3. A \in Seq(V) /\ Len(A) = c /\ \A n \in 1..c : A[n] = Path!Fragment(p, n)
  <2>1. \A n \in 1..c : Path!Fragment(p, n) \in V
    OBVIOUS
  <2> HIDE DEF V
  <2>2. A \in [1..c -> V]
    BY <2>1
  <2> QED BY <1>2, <2>2
<1> HIDE DEF A, V
<1>4. CASE R = <<>>
  <2>1. F = A
    BY <1>1, <1>3, <1>4
  <2> QED BY <1>2, <1>3, <1>4, <2>1 DEF c, R
<1>5. CASE R # <<>>
  <2>1. F = Append(A, R)
    BY <1>1, <1>3, <1>5
  <2>2. Len(F) = c + 1 /\ F[c + 1] = R /\ \A n \in 1..c : F[n] = A[n]
    BY <1>2, <1>3, <2>1
  <2> QED BY <1>3, <1>5, <2>2 DEF c, R
<1> QED BY <1>4, <1>5

Further(e, p, f, b, s, Q, u, w) == w <= b /\ \A r \in (u + 1)..w : r \in Q \/ Cut(e, p, r) = Cut(f, s, r)
Stands(e, p, f, b, s, Q, k, x) ==
  /\ x # -1 <=> Matched(e, p, f, b, s, Q, k)
  /\ x # -1 => x = f[Par(Q, k)] + 1

LEMMA OnwardParam ==
  ASSUME NEW e, NEW a, NEW p, NEW Q, Route(e, a, p, Q), NEW f, NEW b, NEW s, Cuts(f, b, s),
         NEW F, F = Path!static_fragments_(p), NEW n \in 1..Cardinality(Q),
         NEW u, u = Par(Q, n - 1), NEW w, w = Par(Q, n), u <= b, NEW x, x = f[u] + 1,
         NEW o, o = Onward(p, s, F, n, x)
  PROVE  /\ o # -1 <=> Further(e, p, f, b, s, Q, u, w)
         /\ o # -1 => o = f[w] + 1 /\ x + Len(Path!Fragment(p, n)) = f[w - 1] + 1
<1>1. Cuts(e, a, p) /\ a \in Nat /\ b \in Nat /\ Len(s) \in Nat
  BY DEF Route, Cuts
<1>2. w \in Q /\ w \in 1..a /\ u < w /\ \A r \in Q : ~(u < r /\ r < w)
  BY ParamsOrdered
<1>3. u \in 0..a /\ Cardinality(Q) \in Nat
  <2>1. n - 1 \in 0..Cardinality(Q)
    BY ParamsOrdered
  <2> QED BY <2>1, ParamsOrdered
<1> DEFINE v == w - 1
           t == F[n]
<1>4. u \in Nat /\ v \in Nat /\ u <= v /\ v <= a /\ v < a /\ v + 1 = w /\ w \in Nat
  BY <1>1, <1>2, <1>3
<1>5. Both(e, a, p, f, b, s, u, v)
  BY <1>1, <1>4 DEF Both
<1>6. t = Path!Fragment(p, n) /\ t = Path!Part(p, e[u] + 1, e[v] + 1)
  <2>1. F[n] = Path!Fragment(p, n)
    BY FragmentsAre
  <2> QED BY <2>1, ParamsAre
<1> HIDE DEF v, t
<1>7. /\ x \in Nat /\ Len(t) \in Nat
      /\ Follows(s, x, t) <=> v < b /\ Alike(e, p, f, s, u, v)
      /\ Follows(s, x, t) => x + Len(t) = f[v] + 1 /\ Path!Find(s, "/", x + Len(t)) = f[v + 1]
  BY <1>4, <1>5, <1>6, FragmentFits
<1>8. Path!Params(p) = Cardinality(Q) /\ ~(n > Path!Params(p))
  <2>1. Path!Params(p) = Cardinality(Q)
    BY ParamsAre
  <2>2. ~(n > Cardinality(Q))
    BY <1>3
  <2> QED BY <2>1, <2>2
<1>9. o = IF x = -1 \/ x + Len(t) > Len(s) \/ Path!Part(s, x, x + Len(t)) # t THEN -1
          ELSE Path!Find(s, "/", x + Len(t)) + 1
  BY Zenon, <1>8 DEF Onward, t
<1> DEFINE to == x + Len(t)
<1>10. to \in Nat /\ x # -1 /\ (to <= Len(s) <=> ~(to > Len(s)))
  BY <1>1, <1>7
<1>11. Follows(s, x, t) <=> to <= Len(s) /\ Path!Part(s, x, to) = t
  BY DEF Follows
<1>12. o = IF Follows(s, x, t) THEN Path!Find(s, "/", to) + 1 ELSE -1
  <2>1. o = IF x = -1 \/ to > Len(s) \/ Path!Part(s, x, to) # t THEN -1 ELSE Path!Find(s, "/", to) + 1
    BY Zenon, <1>9
  <2> HIDE DEF to
  <2> QED BY <1>10, <1>11, <2>1
<1>13. Follows(s, x, t) <=> Further(e, p, f, b, s, Q, u, w)
  <2>1. v < b <=> w <= b
    BY <1>1, <1>4
  <2>2. ASSUME Alike(e, p, f, s, u, v), NEW r \in (u + 1)..w PROVE r \in Q \/ Cut(e, p, r) = Cut(f, s, r)
    <3>1. CASE r = w
      BY <1>2, <3>1
    <3>2. CASE r # w
      <4>1. r \in (u + 1)..v
        BY <1>4, <3>2
      <4> QED BY <2>2, <4>1 DEF Alike
    <3> QED BY <3>1, <3>2
  <2>3. ASSUME \A r \in (u + 1)..w : r \in Q \/ Cut(e, p, r) = Cut(f, s, r) PROVE Alike(e, p, f, s, u, v)
    <3> SUFFICES ASSUME NEW r \in (u + 1)..v PROVE Cut(e, p, r) = Cut(f, s, r)
      BY DEF Alike
    <3>1. r \in (u + 1)..w /\ u < r /\ r < w
      BY <1>4
    <3> QED BY <1>2, <2>3, <3>1
  <2> QED BY <1>7, <2>1, <2>2, <2>3 DEF Further
<1>14. Follows(s, x, t) => Path!Find(s, "/", to) = f[w] /\ x + Len(t) = f[w - 1] + 1
  BY <1>4, <1>7 DEF v
<1>15. Follows(s, x, t) => f[w] \in Nat
  <2> SUFFICES ASSUME Follows(s, x, t) PROVE f[w] \in Nat
    OBVIOUS
  <2>1. w <= b
    BY <1>13 DEF Further
  <2>2. w \in 1..b
    BY <1>1, <1>2, <1>4, <2>1
  <2> QED BY <2>2, CutFacts
<1>16. CASE Follows(s, x, t)
  <2>1. o = f[w] + 1
    BY <1>12, <1>14, <1>16
  <2>2. o # -1
    BY <1>15, <1>16, <2>1
  <2> QED BY <1>6, <1>13, <1>14, <1>16, <2>1, <2>2
<1>17. CASE ~Follows(s, x, t)
  BY <1>12, <1>13, <1>17
<1> QED BY <1>16, <1>17

LEMMA MatchedStep ==
  ASSUME NEW e, NEW a, NEW p, NEW Q, Route(e, a, p, Q), NEW f, NEW b, NEW s, Cuts(f, b, s),
         NEW n \in 1..Cardinality(Q)
  PROVE  Matched(e, p, f, b, s, Q, n) <=>
           Matched(e, p, f, b, s, Q, n - 1) /\ Further(e, p, f, b, s, Q, Par(Q, n - 1), Par(Q, n))
<1> DEFINE u == Par(Q, n - 1)
           w == Par(Q, n)
<1>1. a \in Nat /\ b \in Nat
  BY DEF Route, Cuts
<1>2. w \in 1..a /\ u < w
  BY ParamsOrdered
<1>3. u \in 0..a
  <2>1. n - 1 \in 0..Cardinality(Q)
    BY ParamsOrdered
  <2> QED BY <2>1, ParamsOrdered
<1> HIDE DEF u, w
<1>4. \A r \in 1..w : r \in 1..u \/ r \in (u + 1)..w
  BY <1>1, <1>2, <1>3
<1>5. (\A r \in 1..u : r \in 1..w) /\ (\A r \in (u + 1)..w : r \in 1..w)
  BY <1>1, <1>2, <1>3
<1>6. w <= b => u <= b
  BY <1>1, <1>2, <1>3
<1>7. Matched(e, p, f, b, s, Q, n) <=> w <= b /\ \A r \in 1..w : r \in Q \/ Cut(e, p, r) = Cut(f, s, r)
  BY DEF Matched, w
<1>8. Matched(e, p, f, b, s, Q, n - 1) <=> u <= b /\ \A r \in 1..u : r \in Q \/ Cut(e, p, r) = Cut(f, s, r)
  BY DEF Matched, u
<1>9. Further(e, p, f, b, s, Q, u, w) <=> w <= b /\ \A r \in (u + 1)..w : r \in Q \/ Cut(e, p, r) = Cut(f, s, r)
  BY DEF Further
<1>10. Matched(e, p, f, b, s, Q, n) <=> Matched(e, p, f, b, s, Q, n - 1) /\ Further(e, p, f, b, s, Q, u, w)
  BY <1>4, <1>5, <1>6, <1>7, <1>8, <1>9
<1> QED BY <1>10 DEF u, w

LEMMA StartsStand ==
  ASSUME NEW e, NEW a, NEW p, NEW Q, Route(e, a, p, Q), NEW f, NEW b, NEW s, Cuts(f, b, s),
         NEW g, g = Path!Starts(p, s)
  PROVE  \A k \in 0..Cardinality(Q) : Stands(e, p, f, b, s, Q, k, g[k])
<1> DEFINE c == Cardinality(Q)
           F == Path!static_fragments_(p)
           T == {n \in Nat : n <= c /\ ~Stands(e, p, f, b, s, Q, n, g[n])}
<1>1. c \in Nat /\ c <= Len(F) /\ Len(F) \in Nat
  <2>1. c \in Nat
    BY ParamsOrdered
  <2>2. Len(F) = c + (IF Path!Rest(p) = <<>> THEN 0 ELSE 1)
    BY FragmentsAre
  <2> HIDE DEF c, F
  <2> QED BY <2>1, <2>2
<1>2. SUFFICES ASSUME T # {} PROVE FALSE
  BY <1>1
<1>3. PICK n \in T : \A y \in T : n <= y
  BY <1>2, Least
<1>4. n \in Nat /\ n <= c /\ ~Stands(e, p, f, b, s, Q, n, g[n])
  OBVIOUS
<1>5. g[0] = 0 /\ \A i \in 1..Len(F) : g[i] = Onward(p, s, F, i, g[i - 1])
  BY <1>1, StartsAre
<1>6. n # 0
  <2>1. Par(Q, 0) = 0 /\ b \in Nat /\ f[0] = -1
    BY DEF Par, Cuts
  <2>2. Matched(e, p, f, b, s, Q, 0)
    BY <2>1 DEF Matched
  <2>3. Stands(e, p, f, b, s, Q, 0, 0)
    BY <2>1, <2>2 DEF Stands
  <2> QED BY <1>4, <1>5, <2>3
<1>7. n - 1 \in Nat /\ ~(n <= n - 1) /\ n - 1 <= c /\ n \in 1..c /\ n \in 1..Len(F)
  BY <1>1, <1>4, <1>6
<1>8. Stands(e, p, f, b, s, Q, n - 1, g[n - 1])
  BY <1>3, <1>7
<1> HIDE DEF T
<1>9. g[n] = Onward(p, s, F, n, g[n - 1])
  BY <1>5, <1>7
<1> HIDE DEF F
<1>10. Matched(e, p, f, b, s, Q, n) <=>
         Matched(e, p, f, b, s, Q, n - 1) /\ Further(e, p, f, b, s, Q, Par(Q, n - 1), Par(Q, n))
  BY <1>7, MatchedStep
<1>11. CASE g[n - 1] = -1
  <2>1. g[n] = -1
    BY Zenon, <1>9, <1>11 DEF Onward
  <2>2. ~Matched(e, p, f, b, s, Q, n)
    BY <1>8, <1>10, <1>11 DEF Stands
  <2> QED BY <1>4, <2>1, <2>2 DEF Stands
<1>12. CASE g[n - 1] # -1
  <2>1. g[n - 1] = f[Par(Q, n - 1)] + 1 /\ Matched(e, p, f, b, s, Q, n - 1)
    BY <1>8, <1>12 DEF Stands
  <2>2. Par(Q, n - 1) <= b
    BY <2>1 DEF Matched
  <2> DEFINE u == Par(Q, n - 1)
             w == Par(Q, n)
             x == g[n - 1]
             o == g[n]
  <2>3. u <= b /\ x = f[u] + 1 /\ o = Onward(p, s, F, n, x) /\ u = Par(Q, n - 1) /\ w = Par(Q, n)
    BY <1>9, <2>1, <2>2
  <2> HIDE DEF u, w, x, o
  <2>4. /\ o # -1 <=> Further(e, p, f, b, s, Q, u, w)
        /\ o # -1 => o = f[w] + 1
    BY <1>7, <2>3, OnwardParam DEF F
  <2>5. o # -1 <=> Matched(e, p, f, b, s, Q, n)
    BY <1>10, <2>1, <2>3, <2>4
  <2>6. Stands(e, p, f, b, s, Q, n, o)
    BY <2>3, <2>4, <2>5 DEF Stands
  <2> QED BY <1>4, <2>6 DEF o
<1> QED BY <1>11, <1>12

LEMMA MatchesIs ==
  ASSUME NEW e, NEW a, NEW p, NEW Q, Route(e, a, p, Q), NEW f, NEW b, NEW s, Cuts(f, b, s),
         NEW c, c = Cardinality(Q), NEW x, x = f[Par(Q, c)] + 1, NEW t, t = Path!Rest(p), Len(t) \in Nat
  PROVE  Path!matches(p, s) <=>
           /\ Matched(e, p, f, b, s, Q, c)
           /\ IF t = <<>> THEN x >= Len(s) ELSE Follows(s, x, t) /\ x + Len(t) >= Len(s)
<1> DEFINE F == Path!static_fragments_(p)
           g == Path!Starts(p, s)
           M == Matched(e, p, f, b, s, Q, c)
<1>1. c \in Nat /\ Len(s) \in Nat /\ b \in Nat /\ Path!Params(p) = c
  BY ParamsOrdered, ParamsAre DEF Cuts
<1>2. /\ Len(F) = c + (IF t = <<>> THEN 0 ELSE 1)
      /\ t # <<>> => F[c + 1] = t
  BY FragmentsAre
<1>3. Path!matches(p, s) <=> g[Len(F)] # -1 /\ g[Len(F)] >= Len(s)
  BY Zenon DEF Path!matches
<1>4. Stands(e, p, f, b, s, Q, c, g[c])
  <2>1. c \in 0..c
    BY <1>1
  <2> QED BY <2>1, StartsStand
<1>5. (g[c] # -1 <=> M) /\ (M => g[c] = x)
  BY <1>4 DEF Stands
<1>6. M => x \in Nat
  <2> SUFFICES ASSUME M PROVE x \in Nat
    OBVIOUS
  <2>1. Par(Q, c) <= b
    BY DEF Matched
  <2>2. Par(Q, c) \in 0..a /\ a \in Nat
    <3>1. c \in 0..c
      BY <1>1
    <3> QED BY <3>1, ParamsOrdered
  <2>3. Par(Q, c) \in 0..b
    BY <1>1, <2>1, <2>2
  <2>4. f[Par(Q, c)] \in Int /\ -1 <= f[Par(Q, c)]
    BY <2>3 DEF Cuts
  <2> QED BY <2>4
<1>7. CASE t = <<>>
  <2>1. Len(F) = c
    BY <1>1, <1>2, <1>7
  <2> HIDE DEF F, g, M
  <2>2. Path!matches(p, s) <=> g[c] # -1 /\ g[c] >= Len(s)
    BY <1>3, <2>1
  <2>3. Path!matches(p, s) <=> M /\ x >= Len(s)
    BY <1>5, <2>2
  <2> QED BY <1>7, <2>3 DEF M
<1>8. CASE t # <<>>
  <2>1. Len(F) = c + 1 /\ F[c + 1] = t
    BY <1>1, <1>2, <1>8
  <2>2. c + 1 \in 1..Len(F) /\ (c + 1) - 1 = c /\ Len(F) \in Nat /\ c + 1 > c
    BY <1>1, <2>1
  <2>3. g[c + 1] = Onward(p, s, F, c + 1, g[c])
    <3>1. \A i \in 1..Len(F) : g[i] = Onward(p, s, F, i, g[i - 1])
      BY <2>2, StartsAre
    <3>2. g[c + 1] = Onward(p, s, F, c + 1, g[(c + 1) - 1])
      BY <2>2, <3>1
    <3> QED BY <2>2, <3>2
  <2> HIDE DEF F, g, M
  <2> DEFINE k == c + 1
             to == x + Len(t)
  <2>4. Path!matches(p, s) <=> g[k] # -1 /\ g[k] >= Len(s)
    BY <1>3, <2>1
  <2>5. CASE ~M
    <3>1. g[c] = -1
      BY <1>5, <2>5
    <3>2. g[k] = -1
      BY Zenon, <2>3, <3>1 DEF Onward
    <3> QED BY <2>4, <2>5, <3>2 DEF M
  <2>6. CASE M
    <3>1. g[k] = IF x = -1 \/ to > Len(s) \/ Path!Part(s, x, to) # t THEN -1
                 ELSE IF k > Path!Params(p) THEN to ELSE Path!Find(s, "/", to) + 1
      BY Zenon, <1>5, <2>1, <2>3, <2>6 DEF Onward
    <3>2. k > Path!Params(p)
      BY <1>1, <2>2
    <3>3. x # -1 /\ to \in Nat /\ (to <= Len(s) <=> ~(to > Len(s))) /\ to # -1
      BY <1>1, <1>6, <2>6
    <3> HIDE DEF k, to
    <3>4. g[k] = IF to <= Len(s) /\ Path!Part(s, x, to) = t THEN to ELSE -1
      BY <3>1, <3>2, <3>3
    <3>5. Path!matches(p, s) <=> (to <= Len(s) /\ Path!Part(s, x, to) = t) /\ to >= Len(s)
      BY <2>4, <3>3, <3>4
    <3>6. Follows(s, x, t) <=> to <= Len(s) /\ Path!Part(s, x, to) = t
      BY DEF Follows, to
    <3>7. Path!matches(p, s) <=> Follows(s, x, t) /\ to >= Len(s)
      BY <3>5, <3>6
    <3> QED BY <1>8, <2>6, <3>7 DEF M, to
  <2> QED BY <2>5, <2>6
<1> QED BY <1>7, <1>8

(* The last segment, when it is left out.                                   *)
Listed(cs, l) == l \in Nat /\ 1 <= l /\ cs = [n \in 1..l |-> cs[n]]

LEMMA ListedIs ==
  ASSUME NEW cs, NEW l, Listed(cs, l)
  PROVE  Len(cs) = l /\ DOMAIN cs = 1..l /\ l \in Nat /\ 1 <= l /\ Path!Last(cs) = cs[l]
<1>1. Len(cs) = l /\ DOMAIN cs = 1..l /\ l \in Nat /\ 1 <= l
  BY DEF Listed
<1> QED BY <1>1 DEF Path!Last

Same(ps, ss, Q, l) == \A n \in 1..l : n \in Q \/ ps[n] = ss[n]
Open(ps, a, Q) == a > 1 /\ ps[a] = <<>> /\ a - 1 \in Q
Significant(ps, a, Q) == IF Open(ps, a, Q) THEN a - 1 ELSE a

AreParams(Q, ps, a) == \A n \in 1..a : n \in Q <=> Path!IsParam(ps[n])

(* The segments of a path are those of a route up to the l-th, the last     *)
(* that counts, and there are as many or, behind a parameter, an empty one. *)
Fits(ps, ss, Q, l, b) ==
  /\ b = l \/ (l \in Q /\ b = l + 1 /\ ss[b] = <<>>)
  /\ Same(ps, ss, Q, l)

LEMMA FitsIs ==
  ASSUME NEW ps, NEW ss, NEW a, NEW b, Listed(ps, a), Listed(ss, b),
         NEW Q, AreParams(Q, ps, a), Q \subseteq 1..a
  PROVE  /\ Path!SameSegments(ps, ss) => Fits(ps, ss, Q, Significant(ps, a, Q), b)
         /\ Fits(ps, ss, Q, Significant(ps, a, Q), b) =>
              \/ Path!SameSegments(ps, ss)
              \/ Path!OneSlashMore(ps, ss)
              \/ Path!OneSlashLess(ps, ss)
<1>1. Len(ps) = a /\ a \in Nat /\ 1 <= a /\ Path!Last(ps) = ps[a]
  BY ListedIs
<1>2. Len(ss) = b /\ b \in Nat /\ 1 <= b /\ Path!Last(ss) = ss[b]
  BY ListedIs
<1>3. ASSUME NEW n \in Nat, n <= a PROVE Path!Alike(ps, ss, n) <=> Same(ps, ss, Q, n)
  <2>1. \A i \in 1..n : i \in 1..a
    BY <1>1, <1>3
  <2>2. \A i \in 1..n : i \in Q <=> Path!IsParam(ps[i])
    BY <2>1 DEF AreParams
  <2> QED BY <2>2 DEF Path!Alike, Same
<1>4. a \in 1..a /\ (a \in Q <=> Path!IsParam(ps[a]))
  BY <1>1 DEF AreParams
<1>5. ps[a] = <<>> => a \notin Q
  BY <1>4 DEF Path!IsParam
<1>6. CASE Open(ps, a, Q)
  <2> DEFINE m == a - 1
  <2>1. m \in Nat /\ 1 <= m /\ m <= a /\ a = m + 1 /\ m \in Q /\ ps[a] = <<>> /\ Path!IsParam(ps[m])
    <3>1. a > 1 /\ ps[a] = <<>> /\ a - 1 \in Q
      BY <1>6 DEF Open
    <3>2. a - 1 \in 1..a
      BY <1>1, <3>1
    <3> QED BY <1>1, <3>1, <3>2 DEF AreParams
  <2>2. Significant(ps, a, Q) = m
    BY <1>6 DEF Significant
  <2> HIDE DEF m
  <2>3. Same(ps, ss, Q, a) <=> Same(ps, ss, Q, m) /\ ss[a] = <<>>
    <3>1. \A i : i \in 1..a <=> i \in 1..m \/ i = a
      BY <1>1, <2>1
    <3>2. a \notin Q /\ (ps[a] = ss[a] <=> ss[a] = <<>>)
      BY <1>5, <2>1
    <3> QED BY <3>1, <3>2 DEF Same
  <2>4. Path!SameSegments(ps, ss) <=> b = a /\ Same(ps, ss, Q, a)
    BY <1>1, <1>2, <1>3 DEF Path!SameSegments
  <2>5. Fits(ps, ss, Q, m, b) <=> (b = m \/ (b = a /\ ss[b] = <<>>)) /\ Same(ps, ss, Q, m)
    BY <2>1 DEF Fits
  <2>6. b = m /\ Same(ps, ss, Q, m) => Path!OneSlashLess(ps, ss)
    BY <1>1, <1>2, <1>3, <2>1 DEF Path!OneSlashLess
  <2> QED BY <2>2, <2>3, <2>4, <2>5, <2>6
<1>7. CASE ~Open(ps, a, Q)
  <2>1. Significant(ps, a, Q) = a
    BY <1>7 DEF Significant
  <2>2. Path!SameSegments(ps, ss) <=> b = a /\ Same(ps, ss, Q, a)
    BY <1>1, <1>2, <1>3 DEF Path!SameSegments
  <2>3. a \in Q /\ b = a + 1 /\ ss[b] = <<>> /\ Same(ps, ss, Q, a) => Path!OneSlashMore(ps, ss)
    BY <1>1, <1>2, <1>3, <1>4 DEF Path!OneSlashMore
  <2> QED BY <2>1, <2>2, <2>3 DEF Fits
<1> QED BY <1>6, <1>7

LEMMA EmptyCut ==
  ASSUME NEW e, NEW a, NEW s, Cuts(e, a, s), NEW n \in 1..a
  PROVE  Cut(e, s, n) = <<>> <=> e[n] = e[n - 1] + 1
<1> DEFINE i == e[n - 1] + 1
           j == e[n]
           t == Path!Part(s, i, j)
<1>1. e[n - 1] \in Int /\ -1 <= e[n - 1] /\ e[n] \in Nat /\ e[n - 1] < e[n]
  BY CutFacts
<1>2. i \in Nat /\ j \in Nat /\ i <= j
  BY <1>1
<1> HIDE DEF i, j
<1>3. t = [y \in 1..(j - i) |-> s[i + y]]
  <2>1. PartOf(Path!Part(s, i, j), s, i, j)
    BY <1>2, PartIs
  <2> QED BY <2>1 DEF PartOf
<1> HIDE DEF t
<1>4. t = <<>> <=> j - i = 0
  <2>1. Len(t) = j - i
    BY <1>2, <1>3
  <2>2. j - i = 0 => t = <<>>
    BY <1>2, <1>3
  <2>3. t = <<>> => Len(t) = 0
    OBVIOUS
  <2> QED BY <2>1, <2>2, <2>3
<1>5. t = <<>> <=> j = i
  BY <1>2, <1>4
<1> QED BY <1>5 DEF t, i, j, Cut

LEMMA NearTheEnd ==
  ASSUME NEW f, NEW b, NEW s, Cuts(f, b, s), NEW q \in 1..b
  PROVE  f[q] + 1 >= Len(s) <=> b = q \/ (b = q + 1 /\ Cut(f, s, b) = <<>>)
<1>1. b \in Nat /\ Len(s) \in Nat /\ f[b] = Len(s) /\ b \in 0..b
  BY DEF Cuts
<1>2. q \in Nat /\ q \in 0..b /\ f[q] \in Nat /\ f[q] <= Len(s)
  BY CutFacts
<1>3. CASE b = q
  BY <1>1, <1>3
<1>4. CASE b = q + 1
  <2>1. b \in 1..b /\ b - 1 = q
    BY <1>1, <1>2, <1>4
  <2>2. Cut(f, s, b) = <<>> <=> f[b] = f[q] + 1
    BY <2>1, EmptyCut
  <2>3. f[q] < f[b]
    <3>1. q < b
      BY <1>2, <1>4
    <3> QED BY <1>1, <1>2, <3>1 DEF Cuts
  <2>4. b # q
    BY <1>2, <1>4
  <2>5. f[q] + 1 >= Len(s) <=> f[b] = f[q] + 1
    BY <1>1, <1>2, <2>3
  <2> QED BY <1>4, <2>2, <2>4, <2>5
<1>5. CASE b # q /\ b # q + 1
  <2>1. q + 1 \in 0..b /\ q < q + 1 /\ q + 1 < b
    BY <1>1, <1>2, <1>5
  <2>2. f[q] < f[q + 1] /\ f[q + 1] < f[b] /\ f[q + 1] \in Int
    BY <1>1, <1>2, <2>1 DEF Cuts
  <2>3. ~(f[q] + 1 >= Len(s))
    <3> DEFINE x == f[q]
               y == f[q + 1]
               z == Len(s)
    <3>1. x < y /\ y < z /\ x \in Nat /\ y \in Int /\ z \in Nat
      BY <1>1, <1>2, <2>2
    <3> HIDE DEF x, y, z
    <3>2. ~(x + 1 >= z)
      BY <3>1
    <3> QED BY <3>2 DEF x, z
  <2> QED BY <1>5, <2>3
<1> QED BY <1>3, <1>4, <1>5

(* The segments of a text.                                                  *)
CutInto(ps, e, a, p) == ps = [n \in 1..a |-> Cut(e, p, n)]
NoneEmpty(Q, ps) == \A n \in Q : ps[n] # <<>>

(* What is behind the last parameter.                                       *)
Behind0(e, a, p, Q, q, t) ==
  /\ q \in 0..a /\ (q # 0 => q \in Q) /\ \A r \in Q : r <= q
  /\ t = Path!Part(p, e[q] + 1, Len(p))

LeftOver(l, Q, q, t, a, p) ==
  /\ l \in Q => l = q /\ t = <<>>
  /\ l \notin Q => l = a /\ q < a /\ (t = <<>> => q = 0 /\ a = 1 /\ Len(p) = 0)
  /\ Len(t) \in Nat

LEMMA NothingBehind ==
  ASSUME NEW e, NEW a, NEW p, NEW Q, Route(e, a, p, Q), NEW ps, CutInto(ps, e, a, p),
         NoneEmpty(Q, ps), NEW q, NEW t, Behind0(e, a, p, Q, q, t), NEW l, l = Significant(ps, a, Q)
  PROVE  LeftOver(l, Q, q, t, a, p)
<1> USE DEF LeftOver, NoneEmpty
<1>1. Cuts(e, a, p) /\ a \in Nat /\ 1 <= a /\ Len(p) \in Nat /\ e[a] = Len(p) /\ Q \subseteq 1..a /\ e[0] = -1
  BY DEF Route, Cuts
<1>2. q \in 0..a /\ (q # 0 => q \in Q) /\ \A r \in Q : r <= q
  BY DEF Behind0
<1>3. e[q] \in Int /\ -1 <= e[q] /\ e[q] <= Len(p)
  BY <1>1, <1>2 DEF Cuts
<1> DEFINE i == e[q] + 1
           j == Len(p)
<1>4. i \in Nat /\ j \in Nat /\ t = Path!Part(p, i, j) /\ i <= j + 1
  BY <1>1, <1>3 DEF Behind0
<1> HIDE DEF i, j
<1>5. t = [y \in 1..(j - i) |-> p[i + y]]
  <2>1. Path!Part(p, i, j) = [y \in 1..(j - i) |-> p[i + y]]
    <3>1. PartOf(Path!Part(p, i, j), p, i, j)
      BY <1>4, PartIs
    <3> QED BY <3>1 DEF PartOf
  <2> QED BY <1>4, <2>1
<1>6. (t = <<>> <=> j <= i) /\ Len(t) \in Nat
  <2>1. CASE j <= i
    <3>1. t = <<>>
      BY <1>4, <1>5, <2>1
    <3> QED BY <2>1, <3>1
  <2>2. CASE ~(j <= i)
    <3>1. j - i \in Nat /\ j - i # 0
      BY <1>4, <2>2
    <3>2. Len(t) = j - i
      BY <1>5, <3>1
    <3> QED BY <2>2, <3>1, <3>2
  <2> QED BY <2>1, <2>2
<1>7. (t = <<>> <=> Len(p) <= e[q] + 1) /\ Len(t) \in Nat
  BY <1>6 DEF i, j
<1>8. \A n \in 1..a : ps[n] = Cut(e, p, n)
  BY DEF CutInto
<1>9. CASE Open(ps, a, Q)
  <2>1. l = a - 1 /\ a > 1 /\ ps[a] = <<>> /\ a - 1 \in Q /\ l \in Q
    BY <1>9 DEF Significant, Open
  <2>2. a \notin Q /\ a \in 1..a
    <3>1. a \notin Q
      BY Zenon, <2>1
    <3> QED BY <1>1, <3>1
  <2>3. q = a - 1
    <3>1. q # 0
      BY <1>1, <1>2, <2>1
    <3>2. q # a /\ a - 1 <= q
      BY <1>2, <2>1, <2>2, <3>1
    <3> QED BY <1>1, <1>2, <3>2
  <2>4. e[a] = e[a - 1] + 1
    BY <1>1, <1>8, <2>1, <2>2, EmptyCut
  <2>5. t = <<>>
    BY <1>1, <1>3, <1>7, <2>3, <2>4
  <2> QED BY <1>7, <2>1, <2>3, <2>5
<1>10. CASE ~Open(ps, a, Q) /\ a \in Q
  <2>1. l = a
    BY <1>10 DEF Significant
  <2>2. q = a
    <3>1. a <= q
      BY <1>2, <1>10
    <3> QED BY <1>1, <1>2, <3>1
  <2>3. t = <<>>
    BY <1>1, <1>7, <2>2
  <2> QED BY <1>7, <1>10, <2>1, <2>2, <2>3
<1>11. CASE ~Open(ps, a, Q) /\ a \notin Q
  <2>1. l = a
    BY <1>11 DEF Significant
  <2>2. q < a
    <3>1. q # a
      BY <1>1, <1>2, <1>11
    <3> QED BY <1>1, <1>2, <3>1
  <2>3. ASSUME t = <<>> PROVE q = 0 /\ a = 1 /\ Len(p) = 0
    <3>1. Len(p) <= e[q] + 1
      BY <1>7, <2>3
    <3>2. e[q] < e[a] /\ a \in 0..a
      BY <1>1, <1>2, <2>2 DEF Cuts
    <3>3. e[a] = e[q] + 1
      BY <1>1, <1>3, <3>1, <3>2
    <3>4. a = q + 1
      <4> SUFFICES ASSUME a # q + 1 PROVE FALSE
        OBVIOUS
      <4>1. q + 1 \in 0..a /\ q < q + 1 /\ q + 1 < a
        BY <1>1, <1>2, <2>2
      <4>2. e[q] < e[q + 1] /\ e[q + 1] < e[a] /\ e[q + 1] \in Int
        BY <1>1, <1>2, <3>2, <4>1 DEF Cuts
      <4> DEFINE x == e[q]
                 y == e[q + 1]
                 z == e[a]
      <4>3. x < y /\ y < z /\ z = x + 1 /\ x \in Int /\ y \in Int
        BY <1>3, <3>3, <4>2
      <4> HIDE DEF x, y, z
      <4> QED BY <4>3
    <3>5. q = 0
      <4> SUFFICES ASSUME q # 0 PROVE FALSE
        OBVIOUS
      <4>1. a - 1 = q /\ a > 1 /\ a \in 1..a
        BY <1>1, <1>2, <3>4
      <4>2. ps[a] = <<>>
        BY <1>1, <1>8, <3>3, <4>1, EmptyCut
      <4> QED BY <1>2, <1>11, <4>1, <4>2 DEF Open
    <3> QED BY <1>1, <3>3, <3>4, <3>5
  <2> QED BY <1>7, <1>11, <2>1, <2>2, <2>3
<1> QED BY <1>9, <1>10, <1>11

LEMMA OneSegment ==
  ASSUME NEW f, NEW b, NEW s, Cuts(f, b, s)
  PROVE  /\ Len(s) = 0 => b = 1
         /\ b = 1 => (Cut(f, s, 1) = <<>> <=> Len(s) = 0)
<1>1. b \in Nat /\ 1 <= b /\ Len(s) \in Nat /\ f[b] = Len(s) /\ f[0] = -1
  BY DEF Cuts
<1>2. 1 \in 1..b
  BY <1>1
<1>3. f[1] \in Nat /\ (1 # b => f[1] < Len(s))
  BY <1>2, CutFacts
<1>4. Len(s) = 0 => b = 1
  BY <1>1, <1>3
<1>5. Cut(f, s, 1) = <<>> <=> f[1] = f[1 - 1] + 1
  BY <1>2, EmptyCut
<1>6. f[1 - 1] + 1 = 0
  BY <1>1
<1> QED BY <1>1, <1>4, <1>5, <1>6

LEMMA RouteMatches ==
  ASSUME NEW e, NEW a, NEW p, NEW Q, Route(e, a, p, Q), NEW f, NEW b, NEW s, Cuts(f, b, s),
         NEW ps, CutInto(ps, e, a, p), NEW ss, CutInto(ss, f, b, s), AreParams(Q, ps, a),
         NEW l, l = Significant(ps, a, Q)
  PROVE  Path!matches(p, s) <=> Fits(ps, ss, Q, l, b)
<1> DEFINE c == Cardinality(Q)
           q == Par(Q, c)
           t == Path!Rest(p)
           x == f[q] + 1
<1>1. a \in Nat /\ 1 <= a /\ b \in Nat /\ 1 <= b /\ Q \subseteq 1..a /\ Cuts(e, a, p) /\ Len(s) \in Nat /\ f[0] = -1
  BY DEF Route, Cuts
<1>2. (\A n \in 1..a : ps[n] = Cut(e, p, n)) /\ (\A n \in 1..b : ss[n] = Cut(f, s, n))
  BY DEF CutInto
<1>3. Listed(ps, a) /\ Listed(ss, b)
  <2>1. ps = [n \in 1..a |-> ps[n]] /\ ss = [n \in 1..b |-> ss[n]]
    BY DEF CutInto
  <2> QED BY <1>1, <2>1 DEF Listed
<1>4. \A n \in Q : ps[n] # <<>>
  BY <1>1 DEF Path!IsParam, AreParams
<1>5. Behind0(e, a, p, Q, q, t)
  <2>1. c \in 0..c /\ c \in Nat /\ (c # 0 => c \in 1..c)
    BY ParamsOrdered
  <2>2. q \in 0..a
    BY <2>1, ParamsOrdered
  <2>3. q # 0 => q \in Q
    <3>1. CASE c = 0
      BY <3>1 DEF Par
    <3>2. CASE c # 0
      BY <2>1, <3>2, ParamsOrdered
    <3> QED BY <3>1, <3>2
  <2>4. \A r \in Q : r <= q
    <3> TAKE r \in Q
    <3>1. ~(q < r)
      BY ParamsOrdered
    <3> HIDE DEF q
    <3> QED BY <1>1, <2>2, <3>1
  <2>5. t = Path!Part(p, e[q] + 1, Len(p))
    BY ParamsAre
  <2> HIDE DEF q, t
  <2> QED BY <2>2, <2>3, <2>4, <2>5 DEF Behind0
<1> HIDE DEF t
<1>6. /\ l \in Q => l = q /\ t = <<>>
      /\ l \notin Q => l = a /\ q < a /\ (t = <<>> => q = 0 /\ a = 1 /\ Len(p) = 0)
      /\ Len(t) \in Nat
  <2>1. l = Significant(ps, a, Q)
    OBVIOUS
  <2>2. NoneEmpty(Q, ps)
    BY <1>4 DEF NoneEmpty
  <2> HIDE DEF q
  <2>3. LeftOver(l, Q, q, t, a, p)
    BY <1>5, <2>1, <2>2, NothingBehind
  <2> QED BY <2>3 DEF LeftOver
<1>7. Path!matches(p, s) <=>
        /\ Matched(e, p, f, b, s, Q, c)
        /\ IF t = <<>> THEN x >= Len(s) ELSE Follows(s, x, t) /\ x + Len(t) >= Len(s)
  <2>1. Len(t) \in Nat
    BY <1>6
  <2> HIDE DEF c
  <2> QED BY <2>1, MatchesIs DEF t, c
<1>8. /\ l \in Nat /\ 1 <= l
      /\ Fits(ps, ss, Q, l, b) <=> (b = l \/ (l \in Q /\ b = l + 1 /\ ss[b] = <<>>)) /\ Same(ps, ss, Q, l)
  <2>1. l \in Nat /\ 1 <= l
    BY <1>1 DEF Significant, Open
  <2> QED BY <2>1 DEF Fits
<1>9. /\ Matched(e, p, f, b, s, Q, c) <=> q <= b /\ \A r \in 1..q : r \in Q \/ Cut(e, p, r) = Cut(f, s, r)
      /\ q \in 0..a /\ \A r \in Q : r <= q
  BY <1>5 DEF Matched, Behind0
<1> HIDE DEF c, q
<1>10. \A r \in 1..q : r \in 1..a
  BY <1>1, <1>9
<1>11. q <= b => \A r \in 1..q : ps[r] = Cut(e, p, r) /\ ss[r] = Cut(f, s, r)
  <2> SUFFICES ASSUME q <= b, NEW r \in 1..q PROVE ps[r] = Cut(e, p, r) /\ ss[r] = Cut(f, s, r)
    OBVIOUS
  <2>1. r \in 1..b
    BY <1>1, <1>9
  <2> QED BY <1>2, <1>10, <2>1
<1>12. q <= b => (Matched(e, p, f, b, s, Q, c) <=> Same(ps, ss, Q, q))
  BY <1>9, <1>11 DEF Same
<1>13. CASE l \in Q
  <2>1. l = q /\ t = <<>>
    BY <1>6, <1>13
  <2>2. Path!matches(p, s) <=> Matched(e, p, f, b, s, Q, c) /\ x >= Len(s)
    BY <1>7, <2>1
  <2>3. CASE q <= b
    <3>1. q \in 1..b
      BY <1>1, <1>8, <2>1, <2>3
    <3>2. x >= Len(s) <=> b = q \/ (b = q + 1 /\ Cut(f, s, b) = <<>>)
      BY <3>1, NearTheEnd
    <3>3. ss[b] = Cut(f, s, b)
      BY <1>1, <1>2
    <3> HIDE DEF x
    <3> QED BY <1>8, <1>12, <1>13, <2>1, <2>2, <2>3, <3>2, <3>3
  <2>4. CASE ~(q <= b)
    <3>1. ~(b = q) /\ ~(b = q + 1)
      BY <1>1, <1>9, <2>4
    <3> QED BY <1>8, <1>9, <2>1, <2>2, <2>4, <3>1
  <2> QED BY <2>3, <2>4
<1>14. CASE l \notin Q /\ t # <<>>
  <2>1. l = a /\ q < a
    BY <1>6, <1>14
  <2>2. Path!matches(p, s) <=> Matched(e, p, f, b, s, Q, c) /\ Follows(s, x, t) /\ x + Len(t) >= Len(s)
    BY <1>7, <1>14
  <2>3. Fits(ps, ss, Q, l, b) <=> b = a /\ Same(ps, ss, Q, a)
    BY <1>8, <1>14, <2>1
  <2>4. CASE q <= b
    <3>1. Both(e, a, p, f, b, s, q, a)
      BY <1>1, <1>9, <2>1, <2>4 DEF Both
    <3>2. t = Path!Part(p, e[q] + 1, Len(p))
      BY <1>5 DEF Behind0
    <3>3. Follows(s, x, t) /\ x + Len(t) >= Len(s) <=> b = a /\ Alike(e, p, f, s, q, a)
      BY <2>1, <3>1, <3>2, RestFits
    <3>4. b = a => (Same(ps, ss, Q, a) <=> Same(ps, ss, Q, q) /\ Alike(e, p, f, s, q, a))
      <4> SUFFICES ASSUME b = a PROVE Same(ps, ss, Q, a) <=> Same(ps, ss, Q, q) /\ Alike(e, p, f, s, q, a)
        OBVIOUS
      <4>1. \A r \in 1..a : r \in 1..q \/ r \in (q + 1)..a
        BY <1>1, <1>9
      <4>2. \A r \in (q + 1)..a : r \in 1..a /\ r \notin Q /\ ps[r] = Cut(e, p, r) /\ ss[r] = Cut(f, s, r)
        <5> TAKE r \in (q + 1)..a
        <5>1. r \in 1..a /\ ~(r <= q)
          BY <1>1, <1>9
        <5> QED BY <1>2, <1>9, <5>1
      <4>3. Alike(e, p, f, s, q, a) <=> \A r \in (q + 1)..a : ps[r] = ss[r]
        BY <4>2 DEF Alike
      <4> QED BY <1>10, <4>1, <4>2, <4>3 DEF Same
    <3> HIDE DEF x
    <3> QED BY <1>12, <2>2, <2>3, <2>4, <3>3, <3>4
  <2>5. CASE ~(q <= b)
    <3>1. b # a
      BY <1>1, <1>9, <2>5
    <3> QED BY <1>9, <2>2, <2>3, <2>5, <3>1
  <2> QED BY <2>4, <2>5
<1>15. CASE l \notin Q /\ t = <<>>
  <2>1. l = a /\ q = 0 /\ a = 1 /\ Len(p) = 0
    BY <1>6, <1>15
  <2>2. x = 0
    BY <1>1, <2>1
  <2>3. Matched(e, p, f, b, s, Q, c)
    BY <1>1, <1>9, <2>1
  <2>4. Path!matches(p, s) <=> Len(s) = 0
    <3> HIDE DEF x
    <3> QED BY <1>1, <1>7, <1>15, <2>2, <2>3
  <2>5. Fits(ps, ss, Q, l, b) <=> b = 1 /\ ps[1] = ss[1]
    <3>1. Fits(ps, ss, Q, l, b) <=> b = 1 /\ Same(ps, ss, Q, 1)
      BY <1>8, <1>15, <2>1
    <3>2. 1 \notin Q
      BY <1>15, <2>1
    <3>3. Same(ps, ss, Q, 1) <=> ps[1] = ss[1]
      BY <3>2 DEF Same
    <3> QED BY <3>1, <3>3
  <2>6. ps[1] = <<>>
    <3>1. ps[1] = Cut(e, p, 1)
      BY <1>1, <1>2
    <3> QED BY <1>1, <2>1, <3>1, OneSegment
  <2>7. b = 1 => ss[1] = Cut(f, s, 1)
    BY <1>2
  <2>8. /\ Len(s) = 0 => b = 1
        /\ b = 1 => (Cut(f, s, 1) = <<>> <=> Len(s) = 0)
    BY OneSegment
  <2> QED BY <2>4, <2>5, <2>6, <2>7, <2>8
<1> QED BY <1>13, <1>14, <1>15

Valued(ps, ss, c) ==
  [n \in 1..c |-> ss[CHOOSE i \in DOMAIN ps : /\ Path!IsParam(ps[i])
                                              /\ Path!Cardinality({j \in 1..i : Path!IsParam(ps[j])}) = n]]

LEMMA RouteParams ==
  ASSUME NEW e, NEW a, NEW p, NEW Q, Route(e, a, p, Q), NEW f, NEW b, NEW s, Cuts(f, b, s),
         NEW ps, DOMAIN ps = 1..a,
         NEW ss, CutInto(ss, f, b, s), AreParams(Q, ps, a), Path!matches(p, s)
  PROVE  Path!path_params(p, s) = Valued(ps, ss, Path!Params(p))
<1> USE DEF AreParams, CutInto
<1> DEFINE c == Cardinality(Q)
           g == Path!Starts(p, s)
           F == Path!static_fragments_(p)
<1>1. c \in Nat /\ a \in Nat /\ b \in Nat /\ Q \subseteq 1..a /\ Path!Params(p) = c
  <2>1. a \in Nat /\ b \in Nat /\ Q \subseteq 1..a
    BY DEF Route, Cuts
  <2>2. c \in Nat /\ Path!Params(p) = c
    BY ParamsOrdered, ParamsAre
  <2> QED BY <2>1, <2>2
<1>2. Matched(e, p, f, b, s, Q, c)
  <2> DEFINE t == Path!Rest(p)
  <2>1. Len(t) \in Nat
    <3> DEFINE i == e[Par(Q, c)] + 1
               j == Len(p)
    <3>1. t = Path!Part(p, i, j)
      BY ParamsAre
    <3>2. i \in Nat /\ j \in Nat
      <4>1. c \in 0..c
        BY <1>1
      <4>2. Par(Q, c) \in 0..a
        BY <4>1, ParamsOrdered
      <4> QED BY <4>2 DEF Route, Cuts
    <3> HIDE DEF i, j, t
    <3>3. Path!Part(p, i, j) = [y \in 1..(j - i) |-> p[i + y]]
      <4>1. PartOf(Path!Part(p, i, j), p, i, j)
        BY <3>2, PartIs
      <4> QED BY <4>1 DEF PartOf
    <3>4. CASE i <= j
      BY <3>1, <3>2, <3>3, <3>4
    <3>5. CASE ~(i <= j)
      <4>1. t = <<>>
        BY <3>1, <3>2, <3>3, <3>5
      <4> QED BY <4>1
    <3> QED BY <3>4, <3>5
  <2> HIDE DEF c, t
  <2> DEFINE x == f[Par(Q, c)] + 1
             rest == IF t = <<>> THEN x >= Len(s) ELSE Follows(s, x, t) /\ x + Len(t) >= Len(s)
  <2>2. Path!matches(p, s) <=> Matched(e, p, f, b, s, Q, c) /\ rest
    BY <2>1, MatchesIs DEF t, c
  <2> QED BY <2>2
<1>3. ASSUME NEW n \in 1..c PROVE Matched(e, p, f, b, s, Q, n)
  <2> DEFINE w == Par(Q, n)
             q == Par(Q, c)
  <2>1. w \in Q /\ w \in 1..a
    BY ParamsOrdered
  <2>2. q \in 0..a /\ ~(q < w)
    <3>1. c \in 0..c
      BY <1>1
    <3> QED BY <2>1, <3>1, ParamsOrdered
  <2>3. q <= b /\ \A r \in 1..q : r \in Q \/ Cut(e, p, r) = Cut(f, s, r)
    BY <1>2 DEF Matched
  <2> HIDE DEF w, q
  <2>4. w <= b /\ \A r \in 1..w : r \in 1..q
    BY <1>1, <2>1, <2>2, <2>3
  <2> QED BY <2>3, <2>4 DEF Matched, w
<1>4. ASSUME NEW n \in 1..c
      PROVE  /\ g[n - 1] + Len(Path!Fragment(p, n)) = f[Par(Q, n) - 1] + 1
             /\ Par(Q, n) \in 1..b
  <2> DEFINE u == Par(Q, n - 1)
             w == Par(Q, n)
             x == f[u] + 1
             o == Onward(p, s, F, n, x)
  <2>1. Matched(e, p, f, b, s, Q, n - 1) /\ Further(e, p, f, b, s, Q, u, w)
    BY <1>3, MatchedStep
  <2>2. u <= b /\ w <= b
    BY <2>1 DEF Matched, Further
  <2>3. w \in 1..b
    <3>1. w \in 1..a
      BY ParamsOrdered
    <3> HIDE DEF w
    <3> QED BY <1>1, <2>2, <3>1
  <2>4. g[n - 1] = x
    <3>1. n - 1 \in 0..c
      BY <1>1
    <3>2. Stands(e, p, f, b, s, Q, n - 1, g[n - 1])
      BY <3>1, StartsStand
    <3> QED BY <2>1, <3>2 DEF Stands
  <2> HIDE DEF u, w, x, o
  <2>5. /\ o # -1 <=> Further(e, p, f, b, s, Q, u, w)
        /\ o # -1 => o = f[w] + 1 /\ x + Len(Path!Fragment(p, n)) = f[w - 1] + 1
    BY <2>2, OnwardParam DEF u, w, x, o
  <2> QED BY <2>1, <2>3, <2>4, <2>5 DEF w
<1>5. ASSUME NEW n \in 1..c
      PROVE  /\ Par(Q, n) \in DOMAIN ps
             /\ \A i \in DOMAIN ps : (/\ Path!IsParam(ps[i])
                                      /\ Path!Cardinality({j \in 1..i : Path!IsParam(ps[j])}) = n)
                                   <=> i = Par(Q, n)
  <2> DEFINE w == Par(Q, n)
  <2>1. w \in Q /\ w \in 1..a
    BY ParamsOrdered
  <2>2. w = Path!Nth(Q, n)
    BY <1>1 DEF Par
  <2>3. Within0(Q, a)
    <3>1. Q \in SUBSET (0..a)
      BY <1>1
    <3> QED BY <1>1, <3>1 DEF Within0
  <2>4. Cardinality(Upto(Q, w)) = n /\ \A i \in Q : Cardinality(Upto(Q, i)) = n => i = w
    BY <2>2, <2>3, NthIs
  <2>5. ASSUME NEW i \in 1..a PROVE {j \in 1..i : Path!IsParam(ps[j])} = Upto(Q, i)
    <3>1. \A j \in 1..i : j \in 1..a /\ j <= i
      BY <1>1
    <3>2. \A j \in 1..a : j <= i => j \in 1..i
      BY <1>1
    <3> QED BY <1>1, <3>1, <3>2 DEF Upto
  <2> HIDE DEF w
  <2>6. \A i \in 1..a : Path!Cardinality({j \in 1..i : Path!IsParam(ps[j])}) = Cardinality(Upto(Q, i))
    BY <2>5, SameCount
  <2>7. \A i \in 1..a : (Path!IsParam(ps[i]) /\ Path!Cardinality({j \in 1..i : Path!IsParam(ps[j])}) = n) <=> i = w
    BY <2>1, <2>4, <2>6
  <2> QED BY <2>1, <2>7 DEF w
<1>6. ASSUME NEW n \in 1..c
      PROVE  LET from == g[n - 1] + Len(Path!Fragment(p, n)) IN Path!Part(s, from, Path!Find(s, "/", from))
             = ss[CHOOSE i \in DOMAIN ps : /\ Path!IsParam(ps[i])
                                           /\ Path!Cardinality({j \in 1..i : Path!IsParam(ps[j])}) = n]
  <2> DEFINE w == Par(Q, n)
             from == g[n - 1] + Len(Path!Fragment(p, n))
             h == CHOOSE i \in DOMAIN ps : /\ Path!IsParam(ps[i])
                                           /\ Path!Cardinality({j \in 1..i : Path!IsParam(ps[j])}) = n
  <2>1. h = w
    BY Zenon, <1>5
  <2>2. from = f[w - 1] + 1 /\ w \in 1..b
    BY <1>4
  <2> HIDE DEF h, w, from
  <2>3. f[w - 1] \in Int /\ f[w] \in Nat /\ f[w - 1] < f[w]
    BY <2>2, CutFacts
  <2>4. f[w - 1] + 1 \in (f[w - 1] + 1)..f[w]
    BY <2>3
  <2>5. Path!Find(s, "/", f[w - 1] + 1) = f[w]
    BY <2>2, <2>4, CutFound
  <2>6. ss[w] = Cut(f, s, w)
    BY <2>2
  <2>7. Path!Part(s, from, Path!Find(s, "/", from)) = ss[h]
    BY Zenon, <2>1, <2>2, <2>5, <2>6 DEF Cut
  <2> QED BY Zenon, <2>7 DEF from, h
<1> HIDE DEF c, g, F
<1>7. Path!path_params(p, s) =
        [n \in 1..c |-> LET from == g[n - 1] + Len(Path!Fragment(p, n)) IN Path!Part(s, from, Path!Find(s, "/", from))]
  BY Zenon, <1>1 DEF Path!path_params, g
<1> QED BY ZenonT(60), <1>1, <1>6, <1>7 DEF Valued

LEMMA RouteIs ==
  ASSUME NEW e, NEW a, NEW p, Cuts(e, a, p), DOMAIN p = 1..Len(p),
         NEW Q, Q = {n \in 1..a : Path!IsParam(Cut(e, p, n))},
         \A n \in 1..a : ":" \in Path!ToSet(Cut(e, p, n)) => Path!IsParam(Cut(e, p, n))
  PROVE  Route(e, a, p, Q)
<1>1. ASSUME NEW n \in 1..a
      PROVE  /\ e[n - 1] \in Int /\ -1 <= e[n - 1] /\ e[n] \in Nat /\ e[n - 1] < e[n]
             /\ Cut(e, p, n) = [y \in 1..(e[n] - (e[n - 1] + 1)) |-> p[(e[n - 1] + 1) + y]]
  <2>1. e[n - 1] \in Int /\ -1 <= e[n - 1] /\ e[n] \in Nat /\ e[n - 1] < e[n]
    BY CutFacts
  <2> DEFINE i == e[n - 1] + 1
             j == e[n]
  <2>2. i \in Nat /\ j \in Nat
    BY <2>1
  <2> HIDE DEF i, j
  <2>3. Path!Part(p, i, j) = [y \in 1..(j - i) |-> p[i + y]]
    <3>1. PartOf(Path!Part(p, i, j), p, i, j)
      BY <2>2, PartIs
    <3> QED BY <3>1 DEF PartOf
  <2> QED BY <2>1, <2>3 DEF i, j, Cut
<1>2. ASSUME NEW n \in Q PROVE e[n - 1] + 1 < e[n] /\ Path!At(p, e[n - 1] + 1) = ":"
  <2>1. n \in 1..a /\ Cut(e, p, n) # <<>> /\ Cut(e, p, n)[1] = ":"
    BY DEF Path!IsParam
  <2> DEFINE x == e[n - 1]
             y == e[n]
  <2>2. x \in Int /\ -1 <= x /\ y \in Nat /\ x < y
    BY <1>1, <2>1
  <2>3. ~(y = x + 1)
    BY <2>1, EmptyCut
  <2>4. Cut(e, p, n) = [z \in 1..(y - (x + 1)) |-> p[(x + 1) + z]]
    BY <1>1, <2>1
  <2> HIDE DEF x, y
  <2>5. x + 1 < y /\ 1 \in 1..(y - (x + 1))
    BY <2>2, <2>3
  <2>6. Cut(e, p, n)[1] = p[(x + 1) + 1]
    BY <2>4, <2>5
  <2> QED BY <2>1, <2>5, <2>6 DEF Path!At, x, y
<1>3. ASSUME NEW y \in 0..(Len(p) - 1), Path!At(p, y) = ":"
      PROVE  \E n \in Q : e[n - 1] < y /\ y < e[n]
  <2>1. Len(p) \in Nat /\ a \in Nat /\ y \in 0..Len(p)
    BY DEF Cuts
  <2>2. PICK n \in 1..a : e[n - 1] < y /\ y <= e[n]
    BY <2>1, Located
  <2> DEFINE x == e[n - 1]
             z == e[n]
             i == y - x
  <2>3. x \in Int /\ -1 <= x /\ z \in Nat /\ x < z /\ Cut(e, p, n) = [k \in 1..(z - (x + 1)) |-> p[(x + 1) + k]]
    BY <1>1
  <2>4. y # z
    <3> SUFFICES ASSUME y = z PROVE FALSE
      OBVIOUS
    <3>1. n # a
      <4>1. y # Len(p) /\ e[a] = Len(p)
        BY <2>1 DEF Cuts
      <4> QED BY <4>1
    <3>2. n \in 1..(a - 1)
      BY <2>1, <3>1
    <3>3. Path!At(p, z) = "/"
      BY <3>2 DEF Cuts
    <3> QED BY <1>3, <3>3
  <2> HIDE DEF x, z
  <2>5. x < y /\ y < z /\ y \in Nat
    BY <2>1, <2>2, <2>3, <2>4 DEF x, z
  <2>6. i \in 1..(z - (x + 1)) /\ (x + 1) + i = y + 1
    BY <2>3, <2>5
  <2> HIDE DEF i
  <2>7. Cut(e, p, n)[i] = ":" /\ i \in DOMAIN Cut(e, p, n)
    BY <1>3, <2>3, <2>6 DEF Path!At
  <2>8. ":" \in Path!ToSet(Cut(e, p, n))
    BY <2>7 DEF Path!ToSet
  <2>9. n \in Q
    BY <2>8
  <2> QED BY <2>5, <2>9 DEF x, z
<1> QED BY <1>2, <1>3 DEF Route

LEMMA RoutesAreMatched ==
  Path!ColonsBegin /\ pattern \in Patterns /\ path \in Seq(Characters) => Path!MatchesBySegments
<1> SUFFICES ASSUME Path!ColonsBegin, pattern \in Patterns, path \in Seq(Characters) PROVE Path!MatchesBySegments
  OBVIOUS
<1>1. pattern \in Seq(Path!ToSet(pattern))
  BY PartsAssumption DEF Path!Constants
<1>2. Len(pattern) \in Nat /\ DOMAIN pattern = 1..Len(pattern) /\ Len(path) \in Nat
  BY <1>1
<1> DEFINE ps == Path!Segments(pattern)
           ss == Path!Segments(path)
<1>3. PICK e, a : Cuts(e, a, pattern) /\ ps = [n \in 1..a |-> Cut(e, pattern, n)]
  BY <1>2, SegmentsAre
<1>4. PICK f, b : Cuts(f, b, path) /\ ss = [n \in 1..b |-> Cut(f, path, n)]
  BY <1>2, SegmentsAre
<1> DEFINE Q == {n \in 1..a : Path!IsParam(Cut(e, pattern, n))}
<1>5. DOMAIN ps = 1..a /\ \A n \in 1..a : ps[n] = Cut(e, pattern, n)
  BY <1>3
<1>6. \A n \in 1..a : ":" \in Path!ToSet(Cut(e, pattern, n)) => Path!IsParam(Cut(e, pattern, n))
  <2>1. \A n \in DOMAIN ps : ":" \in Path!ToSet(ps[n]) => Path!IsParam(ps[n])
    BY Zenon DEF Path!ColonsBegin
  <2> HIDE DEF ps
  <2> QED BY <1>5, <2>1
<1>7. Route(e, a, pattern, Q)
  <2> HIDE DEF ps
  <2> QED BY <1>2, <1>3, <1>6, RouteIs
<1>8. \A n \in 1..a : n \in Q <=> Path!IsParam(ps[n])
  <2> HIDE DEF ps
  <2> QED BY <1>5
<1> HIDE DEF Q
<1> PICK l : l = Significant(ps, a, Q)
  OBVIOUS
<1>9. Path!matches(pattern, path) <=> Fits(ps, ss, Q, l, b)
  <2> HIDE DEF ps, ss
  <2>1. CutInto(ps, e, a, pattern) /\ CutInto(ss, f, b, path) /\ AreParams(Q, ps, a)
    BY <1>3, <1>4, <1>8 DEF CutInto, AreParams
  <2>2. Cuts(f, b, path)
    BY <1>4
  <2>3. l = Significant(ps, a, Q)
    OBVIOUS
  <2> QED BY Zenon, <1>7, <2>1, <2>2, <2>3, RouteMatches
<1>10. ASSUME Path!matches(pattern, path)
       PROVE  Path!path_params(pattern, path) = Valued(ps, ss, Path!Params(pattern))
  <2> HIDE DEF ps, ss
  <2>1. CutInto(ss, f, b, path) /\ AreParams(Q, ps, a)
    BY <1>4, <1>8 DEF CutInto, AreParams
  <2> QED BY <1>4, <1>5, <1>7, <1>10, <2>1, RouteParams
<1>11. /\ Path!SameSegments(ps, ss) => Path!matches(pattern, path)
       /\ Path!matches(pattern, path) =>
            \/ Path!SameSegments(ps, ss)
            \/ Path!OneSlashMore(ps, ss)
            \/ Path!OneSlashLess(ps, ss)
  <2>1. Listed(ps, a) /\ Listed(ss, b)
    <3>1. a \in Nat /\ 1 <= a /\ b \in Nat /\ 1 <= b
      BY <1>3, <1>4 DEF Cuts
    <3>2. ps = [n \in 1..a |-> ps[n]] /\ ss = [n \in 1..b |-> ss[n]]
      BY <1>3, <1>4
    <3> HIDE DEF ps, ss
    <3> QED BY <3>1, <3>2 DEF Listed
  <2> HIDE DEF ps, ss
  <2>2. AreParams(Q, ps, a) /\ Q \subseteq 1..a
    BY <1>7, <1>8 DEF AreParams, Route
  <2> QED BY <1>9, <2>1, <2>2, FitsIs
<1> QED BY Zenon, <1>9, <1>10, <1>11 DEF Path!MatchesBySegments, Valued
-----------------------------------------------------------------------------
(* The pattern is one of the routes and the path a text, of any length.     *)
RouteInv == pattern \in Patterns /\ path \in Seq(Characters)

LEMMA RouteAlways == MCSpec => []RouteInv
<1>1. MCInit => RouteInv
  BY DEF MCInit, Path!Init, RouteInv
<1>2. RouteInv /\ [MCNext]_all => RouteInv'
  <2> SUFFICES ASSUME RouteInv, [MCNext]_all PROVE RouteInv'
    OBVIOUS
  <2>1. CASE Path!Next
    BY <2>1 DEF Path!Next, Path!Grow, RouteInv
  <2>2. CASE UNCHANGED path_
    BY <2>2 DEF path_, RouteInv
  <2> QED BY <2>1, <2>2 DEF MCNext, all
<1> QED BY <1>1, <1>2, PTL DEF MCSpec

(* No path of a request, however long and whatever its characters, is taken *)
(* for valid that leads above its directory, not even on its way: what      *)
(* handle_file_request relies on; and none is refused that does not.        *)
THEOREM PathsStayInside == MCSpec => []Path!ValidStaysInside
<1>1. RouteInv => Path!ValidStaysInside
  BY PathStaysInside DEF RouteInv
<1> QED BY <1>1, RouteAlways, PTL

(* Every path, of any length and with any characters, that has the segments *)
(* of a route is matched by it, and no other one but for a single '/'       *)
(* behind a last parameter, which PathParamsMatcher::match steps over       *)
(* unseen; the parameters found are whole segments of the path, though the  *)
(* fragments between them are compared with whatever stands where the last  *)
(* parameter ended; and is_valid_path takes no path for valid that leads    *)
(* above its directory, not even on its way.                                *)
THEOREM PathsAreRead == Path!ColonsBegin /\ MCSpec => []RightlyRead
<1> SUFFICES ASSUME Path!ColonsBegin PROVE MCSpec => []RightlyRead
  OBVIOUS
<1>1. RouteInv => RightlyRead
  BY RoutesAreMatched, PathStaysInside DEF RouteInv, RightlyRead
<1> QED BY <1>1, RouteAlways, PTL
=============================================================================
