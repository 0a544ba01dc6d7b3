------------------------------ MODULE Extremes ------------------------------
(***************************************************************************)
(* Least and greatest numbers of a set and of a pair; numbers in blocks.   *)
(***************************************************************************)
EXTENDS Integers, FiniteSetsExt, FiniteSetTheorems, WellFoundedInduction, TLAPS

\* A set of natural numbers has a least one: among the intervals from 0 to a
\* member there is one that includes no other.
LEMMA MinIsLeast ==
  ASSUME NEW S \in SUBSET Nat, S # {}
  PROVE  Min(S) \in S /\ \A y \in S : Min(S) <= y
<1>. DEFINE T == {0 .. n : n \in S}
<1>1. T \subseteq FiniteSubsetsOf(Nat)
  <2>. SUFFICES ASSUME NEW n \in S PROVE 0 .. n \in FiniteSubsetsOf(Nat)
    OBVIOUS
  <2>1. IsFiniteSet(0 .. n)
    BY FS_Interval
  <2>. QED  BY <2>1 DEF FiniteSubsetsOf
<1>2. T # {}
  OBVIOUS
<1>3. PICK t \in T : \A u \in T : <<u, t>> \notin StrictSubsetOrdering(Nat)
  <2>1. IsWellFoundedOn(StrictSubsetOrdering(Nat), FiniteSubsetsOf(Nat))
    BY FS_StrictSubsetOrderingWellFounded
  <2>. HIDE DEF T
  <2>. QED  BY <1>1, <1>2, <2>1, WFMin
<1>4. PICK x \in S : t = 0 .. x
  BY <1>3
<1>5. ASSUME NEW y \in S, y < x PROVE FALSE
  <2>1. 0 .. y \subseteq 0 .. x /\ x \in 0 .. x /\ x \notin 0 .. y
    BY <1>5
  <2>2. 0 .. y \in SUBSET Nat /\ 0 .. x \in SUBSET Nat
    OBVIOUS
  <2>3. <<0 .. y, t>> \in StrictSubsetOrdering(Nat)
    BY <1>4, <2>1, <2>2 DEF StrictSubsetOrdering
  <2>. QED  BY <1>3, <1>5, <2>3
<1>6. \A y \in S : x <= y
  BY <1>5
<1>. QED  BY <1>6 DEF Min

\* A bounded set of natural numbers has a greatest one.
LEMMA MaxIsGreatest ==
  ASSUME NEW S \in SUBSET Nat, S # {}, NEW b \in Nat, \A y \in S : y <= b
  PROVE  Max(S) \in S /\ \A y \in S : y <= Max(S)
<1>. DEFINE T == {b - y : y \in S}
<1>1. T \in SUBSET Nat
  <2>. SUFFICES ASSUME NEW y \in S PROVE b - y \in Nat
    OBVIOUS
  <2>. QED  OBVIOUS
<1>2. T # {}
  OBVIOUS
<1>3. Min(T) \in T /\ \A z \in T : Min(T) <= z
  <2>. HIDE DEF T
  <2>. QED  BY <1>1, <1>2, MinIsLeast
<1>4. PICK x \in S : Min(T) = b - x
  BY <1>3
<1>5. \A y \in S : y <= x
  <2>. SUFFICES ASSUME NEW y \in S PROVE y <= x
    OBVIOUS
  <2>1. b - x <= b - y
    BY <1>3, <1>4
  <2>. QED  BY <2>1
<1>6. \A y \in S : x >= y
  BY <1>5
<1>7. Max(S) \in S /\ \A y \in S : Max(S) >= y
  BY <1>6 DEF Max
<1>. QED  BY <1>7

LEMMA MinOfTwo ==
  ASSUME NEW a \in Int, NEW b \in Int
  PROVE  Min({a, b}) = IF a <= b THEN a ELSE b
<1>. DEFINE m == IF a <= b THEN a ELSE b
<1>1. m \in {a, b} /\ \A y \in {a, b} : m <= y
  OBVIOUS
<1>2. \A x \in {a, b} : (\A y \in {a, b} : x <= y) => x = m
  OBVIOUS
<1>. QED  BY <1>1, <1>2 DEF Min

LEMMA MaxOfTwo ==
  ASSUME NEW a \in Int, NEW b \in Int
  PROVE  Max({a, b}) = IF a >= b THEN a ELSE b
<1>. DEFINE m == IF a >= b THEN a ELSE b
<1>1. m \in {a, b} /\ \A y \in {a, b} : m >= y
  OBVIOUS
<1>2. \A x \in {a, b} : (\A y \in {a, b} : x >= y) => x = m
  OBVIOUS
<1>. QED  BY <1>1, <1>2 DEF Max
-----------------------------------------------------------------------------
(***************************************************************************)
(* Numbers cut into blocks of one size: the block of a number, and the     *)
(* last number of a block.                                                 *)
(***************************************************************************)

LEMMA BlockBounds ==
  ASSUME NEW size \in Nat \ {0}, NEW id \in Nat
  PROVE  /\ id \div size \in Nat
         /\ (id \div size) * size <= id /\ id < (id \div size) * size + size
  OBVIOUS

LEMMA BlockMonotone ==
  ASSUME NEW size \in Nat \ {0}, NEW a \in Nat, NEW b \in Nat, a <= b
  PROVE  a \div size <= b \div size
  OBVIOUS

LEMMA BlockEnd ==
  ASSUME NEW size \in Nat \ {0}, NEW n \in Nat
  PROVE  /\ n * size + size - 1 \in Nat
         /\ (n * size + size - 1) \div size = n
         /\ \A id \in Nat : id <= n * size + size - 1 <=> id \div size <= n
<1>. DEFINE c == n * size + size - 1
            Block(id) == id \div size
<1>0. \A id \in Nat : /\ Block(id) \in Nat /\ Block(id) * size \in Nat
                      /\ Block(id) * size <= id /\ id < Block(id) * size + size
  <2>. SUFFICES ASSUME NEW id \in Nat
                PROVE  /\ Block(id) \in Nat /\ Block(id) * size \in Nat
                       /\ Block(id) * size <= id /\ id < Block(id) * size + size
    OBVIOUS
  <2>1. Block(id) \in Nat /\ Block(id) * size <= id /\ id < Block(id) * size + size
    BY BlockBounds
  <2>. HIDE DEF Block
  <2>. QED  BY <2>1
<1>1. c = n * size + size - 1 /\ n * size \in Nat
  OBVIOUS
<1>2. c \in Nat
  BY <1>1
<1>. HIDE DEF c, Block
<1>a. \A id \in Nat : Block(id) \in Nat
  BY <1>0
<1>b. ASSUME NEW a \in Nat, NEW b \in Nat, a <= b PROVE a * size <= b * size
  BY <1>b
<1>3. ASSUME NEW id \in Nat, Block(id) <= n PROVE id <= c
  <2>1. Block(id) * size <= n * size
    BY <1>a, <1>b, <1>3
  <2>. QED  BY <1>0, <1>1, <1>2, <2>1
<1>4. ASSUME NEW id \in Nat, Block(id) > n PROVE id > c
  <2>1. Block(id) >= n + 1 /\ Block(id) \in Nat
    BY <1>0, <1>4
  <2>2. Block(id) * size >= (n + 1) * size
    BY <2>1
  <2>3. (n + 1) * size = n * size + size
    OBVIOUS
  <2>. QED  BY <1>0, <1>1, <2>2, <2>3
<1>5. Block(c) = n
  <2>0. Block(c) \in Nat
    BY <1>a, <1>2
  <2>1. Block(c) <= n
    BY <1>2, <1>4, <2>0
  <2>2. Block(c) >= n
    <3>. SUFFICES ASSUME Block(c) + 1 <= n PROVE FALSE
      BY <2>0
    <3>1. (Block(c) + 1) * size <= n * size
      BY <1>b, <2>0
    <3>2. (Block(c) + 1) * size = Block(c) * size + size
      BY <2>0
    <3>. QED  BY <1>0, <1>1, <1>2, <3>1, <3>2
  <2>. QED  BY <2>0, <2>1, <2>2
<1>6. \A id \in Nat : id <= c <=> Block(id) <= n
  <2>. SUFFICES ASSUME NEW id \in Nat PROVE id <= c <=> Block(id) <= n
    OBVIOUS
  <2>1. Block(id) \in Nat
    BY <1>a
  <2>. QED  BY <1>2, <1>3, <1>4, <2>1
<1>. QED  BY <1>2, <1>5, <1>6 DEF c, Block
=============================================================================
