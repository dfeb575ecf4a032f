---------------------------- MODULE EMSAllocProofs ----------------------------
(***************************************************************************)
(* The heap of an array: facts about the nodes of the tree, and what a     *)
(* round of the allocator makes of it.                                     *)
(***************************************************************************)
EXTENDS EMSAlloc, FiniteSetTheorems, WellFoundedInduction, TLAPS

-------------------------------------------------------------------------------
(* Numbers *)

\* A set of numbers has a least element.
LEMMA LeastExists ==
  ASSUME NEW S, S \subseteq Nat, S # {}
  PROVE  \E x \in S : \A y \in S : x <= y
<1> DEFINE R == StrictSubsetOrdering(Nat)
           T == {0 .. x : x \in S}
<1>1. IsWellFoundedOn(R, FiniteSubsetsOf(Nat))
  BY FS_StrictSubsetOrderingWellFounded
<1>2. T \subseteq FiniteSubsetsOf(Nat) /\ T # {}
  <2>1. \A x \in S : IsFiniteSet(0 .. x) /\ 0 .. x \in SUBSET Nat
    BY FS_Interval
  <2>2. \A t \in T : t \in FiniteSubsetsOf(Nat)
    BY <2>1 DEF FiniteSubsetsOf
  <2> QED BY <2>2
<1>3. PICK m \in T : \A t \in T : <<t, m>> \notin R
  <2> HIDE DEF R, T
  <2> QED BY <1>1, <1>2, WFMin
<1>4. PICK x \in S : m = 0 .. x
  OBVIOUS
<1>5. ASSUME NEW y \in S PROVE x <= y
  <2> SUFFICES ASSUME y < x PROVE FALSE
    OBVIOUS
  <2>1. 0 .. y \subseteq Nat /\ 0 .. x \subseteq Nat /\ 0 .. y \subseteq 0 .. x /\ x \in 0 .. x /\ x \notin 0 .. y
    OBVIOUS
  <2>2. <<0 .. y, m>> \in R
    BY <1>4, <2>1 DEF StrictSubsetOrdering
  <2> QED BY <1>3, <2>2
<1> QED BY <1>5

\* Powers of two, under a name of their own.
Pow(n) == 2 ^ n

LEMMA Powers ==
  /\ Pow(0) = 1
  /\ \A n \in Bits : Pow(n) \in Nat \ {0} /\ Pow(n + 1) = 2 * Pow(n)
  /\ \A m, n \in Bits : m + n \in Bits => Pow(m + n) = Pow(m) * Pow(n)
BY PowersOfTwo DEF Pow

\* The larger exponent gives at least twice as much.
LEMMA PowersGrow ==
  ASSUME NEW m \in Bits, NEW n \in Bits
  PROVE  /\ m < n => 2 * Pow(m) <= Pow(n)
         /\ m <= n <=> Pow(m) <= Pow(n)
<1>1. ASSUME NEW i \in Bits, NEW j \in Bits, i < j PROVE 2 * Pow(i) <= Pow(j)
  <2> DEFINE d == j - i - 1
  <2>1. d \in Bits /\ d + 1 \in Bits /\ j = i + (d + 1) /\ i + (d + 1) \in Bits
    BY <1>1 DEF Bits
  <2>2. Pow(j) = Pow(i) * Pow(d + 1) /\ Pow(d + 1) = 2 * Pow(d)
    BY <2>1, Powers
  <2>3. Pow(i) \in Nat \ {0} /\ Pow(d) \in Nat \ {0}
    BY <2>1, Powers
  <2> HIDE DEF d
  <2> DEFINE a == Pow(i)
             b == Pow(d)
  <2>4. a \in Nat \ {0} /\ b \in Nat \ {0} /\ Pow(j) = a * (2 * b)
    BY <2>2, <2>3
  <2> HIDE DEF a, b
  <2>5. a * (2 * b) = (2 * a) * b /\ (2 * a) * b >= 2 * a
    BY <2>4
  <2> QED BY <2>4, <2>5 DEF a
<1>2. Pow(m) \in Nat \ {0} /\ Pow(n) \in Nat \ {0}
  BY Powers
<1> USE DEF Bits
<1>3. m < n => 2 * Pow(m) <= Pow(n)
  BY <1>1
<1>4. n < m => 2 * Pow(n) <= Pow(m)
  BY <1>1
<1>5. m = n => Pow(m) = Pow(n)
  OBVIOUS
<1> QED BY <1>2, <1>3, <1>4, <1>5

\* emsNextPow2 of a number that is not too large is a power of two no less than the number.
LEMMA NextPow2 ==
  ASSUME NEW x \in Nat, x <= MaxBlocks
  PROVE  \E n \in Bits : emsNextPow2(x) = Pow(n) /\ x <= Pow(n)
<1> DEFINE S == {n \in Bits : Pow(n) >= x}
<1>1. 28 \in S /\ S \subseteq Nat
  BY DEF Pow, Bits, MaxBlocks
<1>2. PICK n \in S : \A m \in S : n <= m
  BY <1>1, LeastExists
<1> DEFINE c == CHOOSE k \in Bits : 2 ^ k >= x /\ \A m \in Bits : 2 ^ m >= x => k <= m
<1>3. c \in Bits /\ 2 ^ c >= x
  BY <1>2 DEF Pow
<1>4. emsNextPow2(x) = 2 ^ c
  BY DEF emsNextPow2
<1> HIDE DEF c
<1> QED BY <1>3, <1>4 DEF Pow

-------------------------------------------------------------------------------
(* Nodes *)

LEMMA LevelType == Level \in Bits
<1> DEFINE q == HeapSize \div BlockSize
<1>1. q \in Nat /\ q < MaxBlocks
  BY AllocAssumption
<1> HIDE DEF q
<1>2. q + 1 \in Nat /\ q + 1 <= MaxBlocks
  <2>1. MaxBlocks \in Nat
    BY PowersOfTwo DEF Bits, MaxBlocks
  <2> QED BY <1>1, <2>1
<1>3. PICK n \in Bits : emsNextPow2(q + 1) = Pow(n)
  BY <1>2, NextPow2
<1>4. Level = CHOOSE k \in Bits : 2 ^ k = emsNextPow2(q + 1)
  BY DEF Level, q
<1> QED BY <1>3, <1>4 DEF Pow

\* Below the level, exponents are such.
LEMMA Levels ==
  /\ Level \in Nat
  /\ \A d \in 0 .. Level : d \in Bits /\ d \in Nat /\ Level - d \in Bits /\ Level - d \in 0 .. Level
BY LevelType DEF Bits

\* Nodes d levels below the root.
OnLevel(d, n) == Pow(d) - 1 <= n /\ n < Pow(d + 1) - 1

\* Every node is on one level.
LEMMA NodeLevel ==
  ASSUME NEW n \in Nodes
  PROVE  Depth[n] \in 0 .. Level /\ OnLevel(Depth[n], n)
<1> DEFINE S == {k \in 0 .. Level : n < Pow(k + 1) - 1}
<1>1. n \in Nat /\ n <= Pow(Level + 1) - 2 /\ Pow(Level + 1) \in Nat
  <2>1. Pow(Level + 1) = 2 * Pow(Level) /\ Pow(Level) \in Nat \ {0}
    BY Powers, LevelType
  <2> QED BY <2>1 DEF Nodes, Pow
<1>2. Level \in S /\ S \subseteq Nat
  BY <1>1, Levels
<1>3. PICK d \in S : \A k \in S : d <= k
  BY <1>2, LeastExists
<1>4. OnLevel(d, n)
  <2>1. CASE d = 0
    BY <1>1, <1>3, <2>1, Powers DEF OnLevel
  <2>2. CASE d # 0
    <3>1. d - 1 \in 0 .. Level /\ d - 1 \notin S /\ (d - 1) + 1 = d
      BY <1>3, <2>2, Levels
    <3>2. ~(n < Pow(d) - 1)
      BY <3>1
    <3>3. Pow(d) \in Nat
      BY Powers, Levels
    <3> QED BY <1>1, <1>3, <3>2, <3>3 DEF OnLevel
  <2> QED BY <2>1, <2>2
<1>5. Depth[n] = CHOOSE k \in 0 .. Level : OnLevel(k, n)
  BY DEF Depth, OnLevel, Pow
<1>6. \E k \in 0 .. Level : OnLevel(k, n)
  BY <1>4
<1> QED BY <1>5, <1>6

\* A number within the bounds of a level is a node there.
LEMMA LevelNode ==
  ASSUME NEW n \in Nat, NEW d \in 0 .. Level, OnLevel(d, n)
  PROVE  n \in Nodes /\ Depth[n] = d
<1>1. \A k \in 0 .. Level : /\ Pow(k) \in Nat \ {0} /\ Pow(k + 1) = 2 * Pow(k)
                            /\ Pow(k) <= Pow(Level)
  <2> SUFFICES ASSUME NEW k \in 0 .. Level
               PROVE  Pow(k) \in Nat \ {0} /\ Pow(k + 1) = 2 * Pow(k) /\ Pow(k) <= Pow(Level)
    OBVIOUS
  <2>1. k \in Bits /\ k <= Level
    BY Levels
  <2> QED BY <2>1, LevelType, Powers, PowersGrow
<1>2. n \in Nodes
  <2>1. Pow(Level + 1) = 2 * Pow(Level) /\ Pow(Level) \in Nat
    BY LevelType, Powers
  <2>2. n < Pow(Level + 1) - 1
    BY <1>1, <2>1 DEF OnLevel
  <2>3. Nodes = 0 .. Pow(Level + 1) - 2
    BY DEF Nodes, Pow
  <2> QED BY <2>1, <2>2, <2>3
<1>3. ASSUME NEW k \in 0 .. Level, OnLevel(k, n), k < d PROVE FALSE
  <2>1. 2 * Pow(k) <= Pow(d)
    BY <1>3, Levels, PowersGrow
  <2> QED BY <1>1, <1>3, <2>1 DEF OnLevel
<1>4. ASSUME NEW k \in 0 .. Level, OnLevel(k, n), d < k PROVE FALSE
  <2>1. 2 * Pow(d) <= Pow(k)
    BY <1>4, Levels, PowersGrow
  <2> QED BY <1>1, <1>4, <2>1 DEF OnLevel
<1>5. Depth[n] = d
  BY <1>2, <1>3, <1>4, NodeLevel, Levels
<1> QED BY <1>2, <1>5

\* Blocks of a node and of the whole heap.
LEMMA Spans ==
  ASSUME NEW n \in Nodes
  PROVE  \E d \in 0 .. Level, i \in Nat :
           /\ Depth[n] = d /\ n = Pow(d) - 1 + i /\ i < Pow(d)
           /\ Length(n) = Pow(Level - d) /\ EMS_index_offset(n) = i * Pow(Level - d)
<1> DEFINE d == Depth[n]
           i == n + 1 - Pow(d)
<1>1. d \in 0 .. Level /\ OnLevel(d, n) /\ Pow(d) \in Nat \ {0} /\ Pow(d + 1) = 2 * Pow(d) /\ n \in Int
  BY NodeLevel, Levels, Powers DEF Nodes
<1>2. i \in Nat /\ n = Pow(d) - 1 + i /\ i < Pow(d)
  BY <1>1 DEF OnLevel
<1>3. Length(n) = Pow(Level - d) /\ EMS_index_offset(n) = i * Pow(Level - d)
  BY DEF Length, EMS_index_offset, Pow
<1> QED BY <1>1, <1>2, <1>3

LEMMA RootNode == 0 \in Nodes /\ Depth[0] = 0
<1>1. 0 \in Bits /\ 0 \in 0 .. Level
  BY Levels DEF Bits
<1>2. Pow(0) = 1 /\ Pow(0 + 1) = 2 * Pow(0)
  BY <1>1, Powers
<1>3. OnLevel(0, 0)
  BY <1>2 DEF OnLevel
<1> QED BY <1>1, <1>3, LevelNode

\* A node stands for some blocks of the heap, the root for all.
LEMMA NodeBlocks ==
  ASSUME NEW n \in Nodes
  PROVE  /\ Length(n) \in Nat \ {0} /\ EMS_index_offset(n) \in Nat
         /\ EMS_index_offset(n) + Length(n) <= Length(0)
         /\ \E k \in Bits : Length(n) = Pow(k)
         /\ 0 \in Nodes /\ EMS_index_offset(0) = 0
<1>1. PICK d \in 0 .. Level, i \in Nat :
        /\ Depth[n] = d /\ n = Pow(d) - 1 + i /\ i < Pow(d)
        /\ Length(n) = Pow(Level - d) /\ EMS_index_offset(n) = i * Pow(Level - d)
  BY Spans
<1>2. 0 \in Nodes /\ Depth[0] = 0
  BY RootNode
<1>3. Length(0) = Pow(Level) /\ EMS_index_offset(0) = 0
  <2>1. Length(0) = Pow(Level - 0) /\ EMS_index_offset(0) = (0 + 1 - Pow(0)) * Pow(Level - 0)
    BY <1>2 DEF Length, EMS_index_offset, Pow
  <2>2. Level - 0 = Level /\ Pow(Level) \in Nat
    BY Levels, LevelType, Powers
  <2> QED BY <2>1, <2>2, Powers
<1>4. d \in Bits /\ Level - d \in Bits /\ d + (Level - d) = Level /\ Level \in Bits
  BY Levels, LevelType
<1>5. Pow(Level) = Pow(d) * Pow(Level - d) /\ Pow(d) \in Nat \ {0} /\ Pow(Level - d) \in Nat \ {0}
  BY <1>4, Powers
<1> DEFINE v == Pow(Level - d)
           w == Pow(d)
<1>6. v \in Nat \ {0} /\ w \in Nat \ {0} /\ i \in Nat /\ i < w /\ Length(0) = w * v
      /\ EMS_index_offset(n) = i * v /\ Length(n) = v
  BY <1>1, <1>3, <1>5
<1> HIDE DEF v, w
<1>7. i * v \in Nat /\ i * v + v <= w * v
  <2>1. i + 1 <= w /\ (i + 1) * v <= w * v /\ (i + 1) * v = i * v + v
    BY <1>6
  <2> QED BY <1>6, <2>1
<1> QED BY <1>1, <1>2, <1>3, <1>4, <1>6, <1>7 DEF v

\* Multiples.
LEMMA Monotone ==
  ASSUME NEW a \in Nat, NEW b \in Nat, NEW v \in Nat, a <= b
  PROVE  a * v <= b * v
OBVIOUS

\* The blocks of node m are among those of node n.
Within(m, n) ==
  /\ EMS_index_offset(n) <= EMS_index_offset(m)
  /\ EMS_index_offset(m) + Length(m) <= EMS_index_offset(n) + Length(n)

\* Two nodes have no block in common.
Disjoint(m, n) ==
  \/ EMS_index_offset(m) + Length(m) <= EMS_index_offset(n)
  \/ EMS_index_offset(n) + Length(n) <= EMS_index_offset(m)

\* The blocks of two nodes do not overlap, or those of one are among those of the other; nodes with
\* the same blocks are the same.
LEMMA Laminar ==
  ASSUME NEW m \in Nodes, NEW n \in Nodes, Length(m) <= Length(n)
  PROVE  /\ Within(m, n) \/ Disjoint(m, n)
         /\ Length(m) = Length(n) /\ Within(m, n) => m = n
         /\ Length(m) < Length(n) => 2 * Length(m) <= Length(n)
<1>1. PICK d \in 0 .. Level, i \in Nat :
        /\ Depth[n] = d /\ n = Pow(d) - 1 + i /\ i < Pow(d)
        /\ Length(n) = Pow(Level - d) /\ EMS_index_offset(n) = i * Pow(Level - d)
  BY Spans
<1>2. PICK e \in 0 .. Level, j \in Nat :
        /\ Depth[m] = e /\ m = Pow(e) - 1 + j /\ j < Pow(e)
        /\ Length(m) = Pow(Level - e) /\ EMS_index_offset(m) = j * Pow(Level - e)
  BY Spans
<1>3. d \in Bits /\ Level - d \in Bits /\ e \in Bits /\ Level - e \in Bits /\ Level \in Nat
  BY Levels
<1>4. Level - e <= Level - d
  BY <1>1, <1>2, <1>3, PowersGrow
<1>5. e - d \in Bits /\ Level - d = (e - d) + (Level - e)
  BY <1>3, <1>4 DEF Bits
<1> DEFINE v == Pow(Level - e)
           w == Pow(e - d)
<1>6. v \in Nat \ {0} /\ w \in Nat \ {0} /\ Pow(Level - d) = w * v
  BY <1>3, <1>5, Powers
<1>7. /\ Length(m) = v /\ EMS_index_offset(m) = j * v
      /\ Length(n) = w * v /\ EMS_index_offset(n) = i * (w * v)
  BY <1>1, <1>2, <1>6
<1>8. Length(m) < Length(n) => 2 * Length(m) <= Length(n)
  <2>1. SUFFICES ASSUME Pow(Level - e) < Pow(Level - d) PROVE 2 * Pow(Level - e) <= Pow(Level - d)
    BY <1>1, <1>2
  <2>2. Pow(Level - e) \in Nat /\ Pow(Level - d) \in Nat
    BY <1>3, Powers
  <2>3. ~(Level - d <= Level - e)
    BY <1>3, <2>1, <2>2, PowersGrow
  <2> QED BY <1>3, <2>3, PowersGrow DEF Bits
<1> HIDE DEF v, w
<1>9. i * (w * v) = (i * w) * v /\ i * (w * v) + w * v = ((i + 1) * w) * v
  BY <1>6
<1>10. i * w \in Nat /\ (i + 1) * w \in Nat
  BY <1>6
<1> DEFINE a == i * w
           b == (i + 1) * w
<1>11. /\ a \in Nat /\ b \in Nat /\ EMS_index_offset(n) = a * v
       /\ EMS_index_offset(n) + Length(n) = b * v
       /\ EMS_index_offset(m) + Length(m) = (j + 1) * v
  BY <1>6, <1>7, <1>9, <1>10
<1>12. b = a + w
  BY <1>6
<1> HIDE DEF a, b
<1>13. CASE j < a
  <2>1. j + 1 \in Nat /\ j + 1 <= a
    BY <1>11, <1>13
  <2>2. (j + 1) * v <= a * v
    BY <1>6, <1>11, <2>1, Monotone
  <2> QED BY <1>6, <1>7, <1>8, <1>11, <2>2 DEF Disjoint, Within
<1>14. CASE b <= j
  <2>1. b * v <= j * v
    BY <1>6, <1>11, <1>14, Monotone
  <2>2. v > 0 /\ j * v \in Nat /\ b * v \in Nat
    BY <1>6, <1>11
  <2> QED BY <1>6, <1>7, <1>8, <1>11, <2>1, <2>2 DEF Disjoint, Within
<1>15. CASE a <= j /\ j < b
  <2>1. j + 1 \in Nat /\ j + 1 <= b
    BY <1>11, <1>15
  <2>2. a * v <= j * v /\ (j + 1) * v <= b * v
    BY <1>6, <1>11, <1>15, <2>1, Monotone
  <2>3. Within(m, n)
    BY <1>7, <1>11, <2>2 DEF Within
  <2>4. ASSUME Length(m) = Length(n) PROVE m = n
    <3>1. Level - e = Level - d
      BY <1>1, <1>2, <1>3, <2>4, PowersGrow DEF Bits
    <3>2. e = d
      BY <1>3, <3>1 DEF Bits
    <3>3. w = 1
      BY <1>3, <3>2, Powers DEF w, Bits
    <3>4. i * 1 = i
      OBVIOUS
    <3>5. a = i
      BY <3>3, <3>4 DEF a
    <3>6. j = i
      BY <1>12, <1>15, <3>3, <3>5
    <3> QED BY <1>1, <1>2, <3>2, <3>6
  <2> QED BY <1>8, <2>3, <2>4
<1> QED BY <1>11, <1>13, <1>14, <1>15

\* A node that stands for several blocks has two halves.
LEMMA Halves ==
  ASSUME NEW n \in Nodes, Length(n) > 1
  PROVE  /\ 2 * n + 1 \in Nodes /\ 2 * n + 2 \in Nodes
         /\ Length(n) = 2 * Length(2 * n + 1) /\ Length(2 * n + 2) = Length(2 * n + 1)
         /\ EMS_index_offset(2 * n + 1) = EMS_index_offset(n)
         /\ EMS_index_offset(2 * n + 2) = EMS_index_offset(n) + Length(2 * n + 1)
<1>1. PICK d \in 0 .. Level, i \in Nat :
        /\ Depth[n] = d /\ n = Pow(d) - 1 + i /\ i < Pow(d)
        /\ Length(n) = Pow(Level - d) /\ EMS_index_offset(n) = i * Pow(Level - d)
  BY Spans
<1>2. d # Level
  <2>1. d = Level => Level - d = 0
    BY Levels
  <2> QED BY <1>1, <2>1, Powers
<1>3. d + 1 \in 0 .. Level /\ Level - (d + 1) \in Bits /\ (Level - (d + 1)) + 1 = Level - d
  BY <1>2, LevelType DEF Bits
<1>4. d \in Bits /\ d + 1 \in Bits
  BY <1>3, Levels
<1>5. /\ Pow(d + 1) = 2 * Pow(d) /\ Pow(d) \in Nat \ {0} /\ Pow((d + 1) + 1) = 2 * Pow(d + 1)
      /\ Pow(Level - d) = 2 * Pow(Level - (d + 1)) /\ Pow(Level - (d + 1)) \in Nat \ {0}
  BY <1>3, <1>4, Powers
<1>6. ASSUME NEW k \in {1, 2} PROVE OnLevel(d + 1, 2 * n + k) /\ 2 * n + k \in Nat
  BY <1>1, <1>5, <1>6 DEF OnLevel
<1>7. ASSUME NEW k \in {1, 2} PROVE 2 * n + k \in Nodes /\ Depth[2 * n + k] = d + 1
  BY <1>3, <1>6, LevelNode
<1> DEFINE v == Pow(Level - (d + 1))
           p == Pow(d)
<1>8. v \in Nat \ {0} /\ p \in Nat \ {0} /\ n = p - 1 + i
      /\ Length(n) = 2 * v /\ EMS_index_offset(n) = i * (2 * v)
  BY <1>1, <1>5
<1>9. ASSUME NEW k \in {1, 2}
      PROVE  Length(2 * n + k) = v /\ EMS_index_offset(2 * n + k) = (2 * i + k - 1) * v
  <2>1. Length(2 * n + k) = v /\ EMS_index_offset(2 * n + k) = ((2 * n + k) + 1 - Pow(d + 1)) * v
    BY <1>7 DEF Length, EMS_index_offset, Pow
  <2>2. (2 * n + k) + 1 - Pow(d + 1) = 2 * i + k - 1
    BY <1>1, <1>5, <1>8, <1>9
  <2> QED BY <2>1, <2>2
<1> HIDE DEF v, p
<1>10. i * (2 * v) = (2 * i + 1 - 1) * v /\ (2 * i + 2 - 1) * v = i * (2 * v) + v
  <2>1. (2 * i) * v = i * (2 * v) /\ (2 * i + 1) * v = (2 * i) * v + v
    BY <1>8
  <2>2. 2 * i + 1 - 1 = 2 * i /\ 2 * i + 2 - 1 = 2 * i + 1
    OBVIOUS
  <2> QED BY <2>1, <2>2
<1>11. Length(2 * n + 1) = v /\ EMS_index_offset(2 * n + 1) = EMS_index_offset(n)
  BY <1>8, <1>9, <1>10
<1>12. Length(2 * n + 2) = v /\ EMS_index_offset(2 * n + 2) = EMS_index_offset(n) + v
  BY <1>8, <1>9, <1>10
<1>13. 2 * n + 1 \in Nodes /\ 2 * n + 2 \in Nodes
  BY <1>7
<1> QED BY <1>8, <1>11, <1>12, <1>13

\* Every node but the root is a half of its parent, its buddy the other.
LEMMA Family ==
  ASSUME NEW n \in Nodes, n # 0
  PROVE  /\ Parent(n) \in Nodes /\ Length(Parent(n)) > 1
         /\ \/ n % 2 = 1 /\ n = 2 * Parent(n) + 1 /\ Buddy(n) = 2 * Parent(n) + 2
            \/ n % 2 = 0 /\ n = 2 * Parent(n) + 2 /\ Buddy(n) = 2 * Parent(n) + 1
         /\ Children(Parent(n)) = {n, Buddy(n)} /\ Buddy(n) > 0
<1>1. PICK d \in 0 .. Level, i \in Nat :
        /\ Depth[n] = d /\ n = Pow(d) - 1 + i /\ i < Pow(d)
        /\ Length(n) = Pow(Level - d) /\ EMS_index_offset(n) = i * Pow(Level - d)
  BY Spans
<1>2. d # 0
  <2>1. n \in Nat
    BY <1>1, Powers, Levels
  <2> QED BY <1>1, <2>1, Powers
<1>3. d - 1 \in 0 .. Level /\ d - 1 \in Bits /\ d \in Bits /\ (d - 1) + 1 = d /\ Level - (d - 1) # 0
      /\ Level - (d - 1) \in Bits /\ 0 \in Bits /\ 0 < Level - (d - 1)
  BY <1>2, LevelType DEF Bits
<1>4. Pow(d) = 2 * Pow(d - 1) /\ Pow(d - 1) \in Nat \ {0}
  BY <1>3, Powers
<1> DEFINE q == Parent(n)
<1>5. n \in Nat \ {0} /\ q = (n + 1) \div 2 - 1
  BY <1>1, <1>4 DEF Parent
<1>6. \/ n % 2 = 1 /\ n = 2 * q + 1
      \/ n % 2 = 0 /\ n = 2 * q + 2
  BY <1>5
<1>7. q \in Nat /\ OnLevel(d - 1, q)
  <2> HIDE DEF q
  <2>1. q \in Int
    BY <1>5
  <2> QED BY <1>1, <1>3, <1>4, <1>5, <1>6, <2>1 DEF OnLevel
<1>8. q \in Nodes /\ Depth[q] = d - 1
  BY <1>3, <1>7, LevelNode
<1>9. Length(q) > 1
  <2>1. Length(q) = Pow(Level - (d - 1))
    BY <1>8 DEF Length, Pow
  <2>2. 2 * Pow(0) <= Pow(Level - (d - 1)) /\ Pow(0) = 1 /\ Pow(Level - (d - 1)) \in Nat
    BY <1>3, PowersGrow, Powers
  <2> QED BY <2>1, <2>2
<1>10. Buddy(n) = IF n % 2 = 1 THEN n + 1 ELSE n - 1
  BY DEF Buddy
<1> HIDE DEF q
<1>11. \/ n % 2 = 1 /\ n = 2 * q + 1 /\ Buddy(n) = 2 * q + 2
       \/ n % 2 = 0 /\ n = 2 * q + 2 /\ Buddy(n) = 2 * q + 1
  BY <1>6, <1>7, <1>10
<1>12. Children(q) = {n, Buddy(n)} /\ Buddy(n) > 0
  BY <1>7, <1>11 DEF Children
<1> QED BY <1>8, <1>9, <1>11, <1>12 DEF q

\* The halves have the node for a parent.
LEMMA HalfOf ==
  ASSUME NEW n \in Nodes, NEW c \in Children(n)
  PROVE  Parent(c) = n /\ c # 0 /\ c > 0
<1>1. n \in Nat
  BY NodeLevel, Levels, Powers DEF Nodes
<1>2. Parent(c) = (c + 1) \div 2 - 1 /\ c \in {2 * n + 1, 2 * n + 2}
  BY DEF Parent, Children
<1> QED BY <1>1, <1>2

-------------------------------------------------------------------------------
(* Nodes above others *)

\* Node m is an ancestor of node n.
Ancestor(m, n) == <<m, n>> \in Above

LEMMA AncestorIs ==
  ASSUME NEW m \in Nodes, NEW n \in Nodes
  PROVE  Ancestor(m, n) <=> Length(m) > Length(n) /\ Within(n, m)
<1>1. Ancestor(m, n) <=> /\ Length(m) > Length(n)
                     /\ EMS_index_offset(m) <= EMS_index_offset(n)
                     /\ EMS_index_offset(n) < EMS_index_offset(m) + Length(m)
  BY DEF Ancestor, Above
<1>2. Length(m) \in Nat \ {0} /\ Length(n) \in Nat \ {0} /\ EMS_index_offset(m) \in Nat /\ EMS_index_offset(n) \in Nat
  BY NodeBlocks
<1>3. Length(n) <= Length(m) => Within(n, m) \/ Disjoint(n, m)
  BY Laminar
<1> DEFINE a == Length(m)
           b == Length(n)
           x == EMS_index_offset(m)
           y == EMS_index_offset(n)
<1>4. /\ Ancestor(m, n) <=> a > b /\ x <= y /\ y < x + a
      /\ Within(n, m) <=> x <= y /\ y + b <= x + a
      /\ Disjoint(n, m) <=> y + b <= x \/ x + a <= y
      /\ a \in Nat \ {0} /\ b \in Nat \ {0} /\ x \in Nat /\ y \in Nat
  BY <1>1, <1>2 DEF Within, Disjoint
<1>5. b <= a => Within(n, m) \/ Disjoint(n, m)
  BY <1>3
<1> HIDE DEF a, b, x, y
<1>6. Ancestor(m, n) <=> a > b /\ Within(n, m)
  BY <1>4, <1>5
<1> QED BY <1>6 DEF a, b

\* Nodes with a block in common.
LEMMA Comparable ==
  ASSUME NEW m \in Nodes, NEW n \in Nodes, ~Disjoint(m, n)
  PROVE  m = n \/ Ancestor(m, n) \/ Ancestor(n, m)
<1>1. Length(m) \in Nat /\ Length(n) \in Nat /\ ~Disjoint(n, m)
  BY NodeBlocks DEF Disjoint
<1>2. Length(m) <= Length(n) => Within(m, n) /\ (Length(m) = Length(n) => m = n)
  BY Laminar
<1>3. Length(n) <= Length(m) => Within(n, m)
  BY <1>1, Laminar
<1> QED BY <1>1, <1>2, <1>3, AncestorIs

LEMMA AncestorTransitive ==
  ASSUME NEW k \in Nodes, NEW m \in Nodes, NEW n \in Nodes, Ancestor(k, m), Ancestor(m, n)
  PROVE  Ancestor(k, n)
<1>1. /\ Length(k) \in Nat /\ Length(m) \in Nat /\ Length(n) \in Nat
      /\ EMS_index_offset(k) \in Nat /\ EMS_index_offset(m) \in Nat /\ EMS_index_offset(n) \in Nat
  BY NodeBlocks
<1>2. Length(k) > Length(m) /\ Within(m, k) /\ Length(m) > Length(n) /\ Within(n, m)
  BY AncestorIs
<1>3. Length(k) > Length(n) /\ Within(n, k)
  BY <1>1, <1>2 DEF Within
<1> QED BY <1>3, AncestorIs

\* No node is above itself or above what is above it.
LEMMA AncestorStrict ==
  ASSUME NEW m \in Nodes, NEW n \in Nodes, Ancestor(m, n)
  PROVE  m # n /\ ~Ancestor(n, m)
BY AncestorIs, NodeBlocks

\* A node is above its halves.
LEMMA AncestorHalves ==
  ASSUME NEW n \in Nodes, Length(n) > 1, NEW c \in Children(n)
  PROVE  c \in Nodes /\ Ancestor(n, c) /\ Length(n) = 2 * Length(c)
<1>1. /\ 2 * n + 1 \in Nodes /\ 2 * n + 2 \in Nodes
      /\ Length(n) = 2 * Length(2 * n + 1) /\ Length(2 * n + 2) = Length(2 * n + 1)
      /\ EMS_index_offset(2 * n + 1) = EMS_index_offset(n)
      /\ EMS_index_offset(2 * n + 2) = EMS_index_offset(n) + Length(2 * n + 1)
  BY Halves
<1>2. Length(2 * n + 1) \in Nat \ {0} /\ EMS_index_offset(n) \in Nat
  BY <1>1, NodeBlocks
<1>3. c \in {2 * n + 1, 2 * n + 2}
  BY DEF Children
<1>4. Length(n) > Length(c) /\ Within(c, n)
  <2>1. CASE c = 2 * n + 1
    BY <1>1, <1>2, <2>1 DEF Within
  <2>2. CASE c = 2 * n + 2
    BY <1>1, <1>2, <2>2 DEF Within
  <2> QED BY <1>3, <2>1, <2>2
<1> QED BY <1>1, <1>3, <1>4, AncestorIs

\* What is below a node is one of its halves or below one.
LEMMA BelowHalves ==
  ASSUME NEW n \in Nodes, NEW m \in Nodes, Ancestor(n, m)
  PROVE  /\ Length(n) > 1
         /\ \E c \in Children(n) : c \in Nodes /\ (c = m \/ Ancestor(c, m))
<1>1. Length(n) \in Nat /\ Length(m) \in Nat \ {0} /\ EMS_index_offset(n) \in Nat /\ EMS_index_offset(m) \in Nat
  BY NodeBlocks
<1>2. Length(n) > Length(m) /\ Within(m, n)
  BY AncestorIs
<1>3. Length(n) > 1 /\ 2 * Length(m) <= Length(n)
  BY <1>1, <1>2, Laminar
<1>4. /\ 2 * n + 1 \in Nodes /\ 2 * n + 2 \in Nodes
      /\ Length(n) = 2 * Length(2 * n + 1) /\ Length(2 * n + 2) = Length(2 * n + 1)
      /\ EMS_index_offset(2 * n + 1) = EMS_index_offset(n)
      /\ EMS_index_offset(2 * n + 2) = EMS_index_offset(n) + Length(2 * n + 1)
  BY <1>3, Halves
<1>5. Length(2 * n + 1) \in Nat
  BY <1>4, NodeBlocks
<1>6. \E c \in Children(n) : c \in Nodes /\ ~Disjoint(m, c) /\ Length(m) <= Length(c)
  <2> DEFINE a == Length(2 * n + 1)
             x == EMS_index_offset(n)
             y == EMS_index_offset(m)
             b == Length(m)
  <2>1. /\ a \in Nat /\ x \in Nat /\ y \in Nat /\ b \in Nat \ {0} /\ b <= a
        /\ x <= y /\ y + b <= x + 2 * a
    BY <1>1, <1>2, <1>3, <1>4, <1>5 DEF Within
  <2>2. Disjoint(m, 2 * n + 1) <=> y + b <= x \/ x + a <= y
    BY <1>4 DEF Disjoint
  <2>3. Disjoint(m, 2 * n + 2) <=> y + b <= x + a \/ (x + a) + a <= y
    BY <1>4 DEF Disjoint
  <2>4. Length(2 * n + 1) = a /\ Length(2 * n + 2) = a
    BY <1>4
  <2> HIDE DEF a, x, y, b
  <2>5. ~Disjoint(m, 2 * n + 1) \/ ~Disjoint(m, 2 * n + 2)
    BY <2>1, <2>2, <2>3
  <2> QED BY <1>4, <2>1, <2>4, <2>5 DEF Children, b
<1>7. PICK c \in Children(n) : c \in Nodes /\ ~Disjoint(m, c) /\ Length(m) <= Length(c)
  BY <1>6
<1>8. ~Ancestor(m, c)
  BY <1>1, <1>7, AncestorIs, NodeBlocks
<1> QED BY <1>3, <1>7, <1>8, Comparable

\* A node other than the root is below its parent, and what is above it is its parent or above that.
LEMMA AncestorParent ==
  ASSUME NEW n \in Nodes, n # 0
  PROVE  /\ Parent(n) \in Nodes /\ Ancestor(Parent(n), n)
         /\ \A m \in Nodes : Ancestor(m, n) => m = Parent(n) \/ Ancestor(m, Parent(n))
<1>1. Parent(n) \in Nodes /\ Length(Parent(n)) > 1 /\ n \in Children(Parent(n))
  BY Family
<1>2. Ancestor(Parent(n), n) /\ Length(Parent(n)) = 2 * Length(n)
  BY <1>1, AncestorHalves
<1>3. ASSUME NEW m \in Nodes, Ancestor(m, n) PROVE m = Parent(n) \/ Ancestor(m, Parent(n))
  <2>1. ~Ancestor(Parent(n), m)
    <3>1. 2 * Length(n) <= Length(m)
      BY <1>3, AncestorIs, Laminar, NodeBlocks
    <3> QED BY <1>1, <1>2, <3>1, AncestorIs, NodeBlocks
  <2>2. ~Disjoint(m, Parent(n))
    <3> DEFINE q == Parent(n)
    <3>1. Within(n, m) /\ Within(n, q) /\ Length(n) \in Nat \ {0} /\ EMS_index_offset(n) \in Nat
          /\ EMS_index_offset(m) \in Nat /\ Length(m) \in Nat /\ EMS_index_offset(q) \in Nat /\ Length(q) \in Nat
      BY <1>1, <1>2, <1>3, AncestorIs, NodeBlocks
    <3> HIDE DEF q
    <3>2. /\ EMS_index_offset(m) < EMS_index_offset(n) + Length(n)
          /\ EMS_index_offset(n) < EMS_index_offset(m) + Length(m)
          /\ EMS_index_offset(n) + Length(n) <= EMS_index_offset(m) + Length(m)
          /\ EMS_index_offset(q) <= EMS_index_offset(n)
          /\ EMS_index_offset(n) + Length(n) <= EMS_index_offset(q) + Length(q)
      BY <3>1 DEF Within
    <3>3. EMS_index_offset(m) < EMS_index_offset(q) + Length(q) /\ EMS_index_offset(q) < EMS_index_offset(m) + Length(m)
      BY <3>1, <3>2
    <3>4. ~Disjoint(m, q)
      BY <3>1, <3>3 DEF Disjoint
    <3> QED BY <3>4 DEF q
  <2>3. m = Parent(n) \/ Ancestor(m, Parent(n)) \/ Ancestor(Parent(n), m)
    <3> DEFINE q == Parent(n)
    <3>1. q \in Nodes /\ ~Disjoint(m, q)
      BY <1>1, <2>2
    <3> HIDE DEF q
    <3>2. m = q \/ Ancestor(m, q) \/ Ancestor(q, m)
      BY <3>1, Comparable
    <3> QED BY <3>2 DEF q
  <2> QED BY <2>1, <2>3
<1> QED BY <1>1, <1>2, <1>3

\* Nothing is above the root.
LEMMA RootTop == ASSUME NEW m \in Nodes PROVE 0 \in Nodes /\ ~Ancestor(m, 0)
<1>1. 0 \in Nodes /\ Length(m) \in Nat /\ EMS_index_offset(m) \in Nat /\ Length(0) \in Nat
      /\ EMS_index_offset(m) + Length(m) <= Length(0)
  BY NodeBlocks
<1> QED BY <1>1, AncestorIs

-------------------------------------------------------------------------------
(* Trees *)

States == {"UNUSED", "USED", "SPLIT", "FULL"}

\* Nodes of tree t that are split, and that have no room.
Parted(t, n) == t[n] \in {"SPLIT", "FULL"}
Taken(t, n) == t[n] \in {"USED", "FULL"}

ReachedIn(t) == {n \in Nodes : \A m \in Nodes : Ancestor(m, n) => Parted(t, m)}

\* Nodes of one block are never split.
Tree(t) == t \in [Nodes -> States] /\ \A n \in ReachedIn(t) : Parted(t, n) => Length(n) > 1

Block(n) == [offset |-> EMS_index_offset(n), size |-> Length(n)]
Blocks(t, S) == {Block(n) : n \in {m \in ReachedIn(t) : t[m] = "USED"} \ S}

\* Outside of S a node is full if and only if both halves are taken, and not both are unused.
FullUpTo(t, S) ==
  \A n \in ReachedIn(t) \ S : Parted(t, n) => (t[n] = "FULL" <=> \A m \in Children(n) : Taken(t, m))
PeopledUpTo(t, S) ==
  \A n \in ReachedIn(t) \ S : Parted(t, n) => \E m \in Children(n) : t[m] # "UNUSED"

\* What holds of the tree and the blocks L in use when no call is in the allocator.
Quiet(t, L) == L = Blocks(t, {}) /\ FullUpTo(t, {}) /\ PeopledUpTo(t, {})

LEMMA ReachedIs == Reached = ReachedIn(tree)
BY DEF Reached, ReachedIn, Ancestor, Parted

LEMMA RootReached == ASSUME NEW t PROVE 0 \in ReachedIn(t)
BY RootNode, RootTop DEF ReachedIn

LEMMA HalfReached ==
  ASSUME NEW t, Tree(t), NEW n \in ReachedIn(t), Parted(t, n), NEW c \in Children(n)
  PROVE  c \in ReachedIn(t) /\ c \in Nodes /\ Parent(c) = n /\ c # 0 /\ Ancestor(n, c) /\ Length(n) = 2 * Length(c)
<1>1. n \in Nodes /\ Length(n) > 1
  BY DEF Tree, ReachedIn
<1>2. c \in Nodes /\ Ancestor(n, c) /\ Length(n) = 2 * Length(c) /\ Parent(c) = n /\ c # 0
  BY <1>1, AncestorHalves, HalfOf
<1>3. \A m \in Nodes : Ancestor(m, c) => m = n \/ Ancestor(m, n)
  BY <1>2, AncestorParent
<1> QED BY <1>1, <1>2, <1>3 DEF ReachedIn

LEMMA AboveReached ==
  ASSUME NEW t, NEW n \in ReachedIn(t), NEW m \in Nodes, Ancestor(m, n)
  PROVE  m \in ReachedIn(t) /\ Parted(t, m)
BY AncestorTransitive DEF ReachedIn

LEMMA ParentReached ==
  ASSUME NEW t, NEW n \in ReachedIn(t), n # 0
  PROVE  Parent(n) \in ReachedIn(t) /\ Parted(t, Parent(n)) /\ Ancestor(Parent(n), n)
<1>1. n \in Nodes
  BY DEF ReachedIn
<1> QED BY <1>1, AncestorParent, AboveReached

\* A node in use has a block in common with no other that is reached, but with those above it.
LEMMA UsedAlone ==
  ASSUME NEW t, NEW m \in ReachedIn(t), t[m] = "USED", NEW n \in ReachedIn(t), ~Disjoint(m, n)
  PROVE  m = n \/ Ancestor(n, m)
<1>1. m \in Nodes /\ n \in Nodes
  BY DEF ReachedIn
<1>2. ~Ancestor(m, n)
  BY <1>1, AboveReached DEF Parted
<1> QED BY <1>1, <1>2, Comparable

\* Overlapping blocks are those of nodes that are not disjoint.
LEMMA BlockOverlap ==
  ASSUME NEW m \in Nodes, NEW n \in Nodes
  PROVE  Overlap(Block(m), Block(n)) <=> ~Disjoint(m, n)
BY NodeBlocks DEF Overlap, Block, Disjoint

\* Blocks in use do not overlap.
LEMMA BlocksApart ==
  ASSUME NEW t, NEW S, NEW b \in Blocks(t, S), NEW c \in Blocks(t, S), Overlap(b, c)
  PROVE  b = c
<1>1. PICK m \in ReachedIn(t) : t[m] = "USED" /\ b = Block(m)
  BY DEF Blocks
<1>2. PICK n \in ReachedIn(t) : t[n] = "USED" /\ c = Block(n)
  BY DEF Blocks
<1>3. m \in Nodes /\ n \in Nodes /\ ~Disjoint(m, n) /\ ~Disjoint(n, m)
  BY <1>1, <1>2, BlockOverlap DEF ReachedIn, Disjoint
<1>4. m = n
  BY <1>1, <1>2, <1>3, UsedAlone, AncestorStrict
<1> QED BY <1>1, <1>2, <1>4

\* Some block of L overlaps node n.
Hit(L, n) == \E b \in L : Overlap(b, Block(n))

\* A block of a node overlaps what is above it.
LEMMA HitAbove ==
  ASSUME NEW L, NEW m \in Nodes, NEW n \in Nodes, m = n \/ Ancestor(n, m), Hit(L, m), NEW t, NEW S, L = Blocks(t, S)
  PROVE  Hit(L, n)
<1>1. PICK k \in ReachedIn(t) : Block(k) \in L /\ Overlap(Block(k), Block(m))
  BY DEF Hit, Blocks
<1>2. k \in Nodes /\ ~Disjoint(k, m)
  BY <1>1, BlockOverlap DEF ReachedIn
<1>3. Within(m, n)
  <2>1. EMS_index_offset(m) \in Nat /\ Length(m) \in Nat
    BY NodeBlocks
  <2> QED BY <2>1, AncestorIs DEF Within
<1>4. ~Disjoint(k, n)
  <2>1. /\ EMS_index_offset(m) \in Nat /\ Length(m) \in Nat /\ EMS_index_offset(n) \in Nat /\ Length(n) \in Nat
        /\ EMS_index_offset(k) \in Nat /\ Length(k) \in Nat
    BY <1>2, NodeBlocks
  <2> QED BY <1>2, <1>3, <2>1 DEF Within, Disjoint
<1> QED BY <1>1, <1>2, <1>4, BlockOverlap DEF Hit

\* A block of a used node overlaps what is below it.
LEMMA HitBelow ==
  ASSUME NEW L, NEW m \in Nodes, NEW n \in Nodes, m = n \/ Ancestor(m, n), Block(m) \in L
  PROVE  Hit(L, n)
<1>1. Within(n, m)
  <2>1. EMS_index_offset(m) \in Nat /\ Length(m) \in Nat
    BY NodeBlocks
  <2> QED BY <2>1, AncestorIs DEF Within
<1>2. ~Disjoint(m, n)
  <2>1. /\ EMS_index_offset(m) \in Nat /\ Length(m) \in Nat /\ EMS_index_offset(n) \in Nat /\ Length(n) \in Nat \ {0}
    BY NodeBlocks
  <2> QED BY <1>1, <2>1 DEF Within, Disjoint
<1> QED BY <1>2, BlockOverlap DEF Hit

\* There is a block in use below every node that is split.
LEMMA SplitHit ==
  ASSUME NEW t, Tree(t), NEW L, Quiet(t, L), NEW x \in ReachedIn(t), t[x] # "UNUSED"
  PROVE  Hit(L, x)
<1> DEFINE Bad == {n \in ReachedIn(t) : t[n] # "UNUSED" /\ ~Hit(L, n)}
           Sizes == {Length(n) : n \in Bad}
<1> SUFFICES ASSUME Bad # {} PROVE FALSE
  OBVIOUS
<1>1. \A n \in Bad : n \in Nodes /\ Length(n) \in Nat
  BY NodeBlocks DEF ReachedIn
<1>2. Sizes \subseteq Nat /\ Sizes # {}
  BY <1>1
<1>3. PICK s \in Sizes : \A r \in Sizes : s <= r
  BY <1>2, LeastExists
<1>4. PICK n \in Bad : \A m \in Bad : Length(n) <= Length(m)
  BY <1>3
<1>5. n \in Nodes /\ n \in ReachedIn(t) /\ t[n] # "UNUSED" /\ ~Hit(L, n) /\ t[n] \in States
  BY <1>1 DEF Tree
<1>6. t[n] # "USED"
  <2>1. t[n] = "USED" => Block(n) \in L
    BY <1>5 DEF Quiet, Blocks
  <2> QED BY <1>5, <2>1, HitBelow
<1>7. Parted(t, n)
  BY <1>5, <1>6 DEF Parted, States
<1>8. PICK c \in Children(n) : t[c] # "UNUSED"
  BY <1>5, <1>7 DEF Quiet, PeopledUpTo
<1>9. c \in ReachedIn(t) /\ c \in Nodes /\ Ancestor(n, c)
  BY <1>5, <1>7, HalfReached
<1>10. c \in Bad
  BY <1>5, <1>8, <1>9, HitAbove DEF Quiet
<1> QED BY <1>1, <1>4, <1>9, <1>10, AncestorIs

\* Blocks in use overlap everything below a full node.
LEMMA FullHit ==
  ASSUME NEW t, Tree(t), NEW L, Quiet(t, L), NEW x \in ReachedIn(t), Taken(t, x),
         NEW m \in Nodes, m = x \/ Ancestor(x, m)
  PROVE  Hit(L, m)
<1> DEFINE Bad == {n \in ReachedIn(t) : Taken(t, n) /\ \E k \in Nodes : (k = n \/ Ancestor(n, k)) /\ ~Hit(L, k)}
           Sizes == {Length(n) : n \in Bad}
<1> SUFFICES ASSUME Bad # {} PROVE FALSE
  OBVIOUS
<1>1. \A n \in Bad : n \in Nodes /\ Length(n) \in Nat
  BY NodeBlocks DEF ReachedIn
<1>2. Sizes \subseteq Nat /\ Sizes # {}
  BY <1>1
<1>3. PICK s \in Sizes : \A r \in Sizes : s <= r
  BY <1>2, LeastExists
<1>4. PICK n \in Bad : \A r \in Bad : Length(n) <= Length(r)
  BY <1>3
<1>5. PICK k \in Nodes : (k = n \/ Ancestor(n, k)) /\ ~Hit(L, k)
  BY <1>4
<1>6. n \in Nodes /\ n \in ReachedIn(t) /\ Taken(t, n)
  BY <1>1
<1>7. t[n] # "USED"
  <2>1. t[n] = "USED" => Block(n) \in L
    BY <1>6 DEF Quiet, Blocks
  <2> QED BY <1>5, <1>6, <2>1, HitBelow
<1>8. t[n] = "FULL" /\ Parted(t, n)
  BY <1>6, <1>7 DEF Taken, Parted
<1>9. k # n
  BY <1>5, <1>6, <1>8, SplitHit
<1>10. PICK c \in Children(n) : c \in Nodes /\ (c = k \/ Ancestor(c, k))
  BY <1>5, <1>6, <1>9, BelowHalves
<1>11. Taken(t, c) /\ c \in ReachedIn(t) /\ Ancestor(n, c)
  BY <1>6, <1>8, HalfReached DEF Quiet, FullUpTo
<1>12. c \in Bad
  BY <1>5, <1>10, <1>11
<1> QED BY <1>1, <1>4, <1>11, <1>12, AncestorIs

-------------------------------------------------------------------------------
(* What holds in the rounds of a call *)

\* Sizes that are asked for.
Requested(z) == \E k \in Bits : z = Pow(k)

\* Every node of size z that begins before block o has a block in it that is in use.
Tried(L, z, o) == \A n \in Nodes : Length(n) = z /\ EMS_index_offset(n) < o => Hit(L, n)

\* A node that was split to get at x has nothing in use below it yet.
SeekInv(t, L, x, z) ==
  /\ x \in ReachedIn(t) /\ Requested(z) /\ z <= Length(x) /\ Tried(L, z, EMS_index_offset(x))
  /\ L = Blocks(t, {}) /\ FullUpTo(t, {}) /\ PeopledUpTo(t, IF t[x] = "UNUSED" THEN {Parent(x)} ELSE {})

ClimbInv(t, L, x, z) ==
  /\ x \in ReachedIn(t) /\ Requested(z) /\ z <= Length(x) /\ Tried(L, z, EMS_index_offset(x) + Length(x))
  /\ Quiet(t, L)

FailInv(t, L, z) == Requested(z) /\ Tried(L, z, Length(0)) /\ Quiet(t, L)

\* The node x has no room any more, which its parent does not say yet.
MarkInv(t, L, x) ==
  /\ x \in ReachedIn(t) /\ Taken(t, x) /\ (x # 0 => t[Parent(x)] = "SPLIT")
  /\ L = Blocks(t, {}) /\ FullUpTo(t, {Parent(x)}) /\ PeopledUpTo(t, {})

\* The block at o is in node x.
FindInv(t, L, x, o) ==
  /\ x \in ReachedIn(t) /\ EMS_index_offset(x) <= o /\ o < EMS_index_offset(x) + Length(x)
  /\ \E b \in L : b.offset = o
  /\ Quiet(t, L)

\* There is no block in node x any more.
Under(x) == {x} \cup {n \in Nodes : Ancestor(x, n)}
CombineInv(t, L, x) ==
  /\ x \in ReachedIn(t)
  /\ L = Blocks(t, Under(x)) /\ FullUpTo(t, {}) /\ PeopledUpTo(t, {})

\* The node x, if there is one, has room.
RefreshInv(t, L, x) ==
  /\ \/ x = -1
     \/ x \in ReachedIn(t) /\ Parted(t, x) /\ \E c \in Children(x) : ~Taken(t, c)
  /\ L = Blocks(t, {}) /\ FullUpTo(t, {x}) /\ PeopledUpTo(t, {})

\* What a caller does with its call decides only where it is.
LEMMA SameReached ==
  ASSUME NEW t, NEW u, \A n \in Nodes : Parted(u, n) <=> Parted(t, n)
  PROVE  ReachedIn(u) = ReachedIn(t)
BY DEF ReachedIn

LEMMA RootParent == Parent(0) = -1 /\ Buddy(0) = -1 /\ -1 \notin Nodes
<1>1. \A n \in Nodes : n \in Nat
  BY NodeLevel, Levels, Powers DEF Nodes
<1> QED BY <1>1 DEF Parent, Buddy

LEMMA Siblings ==
  ASSUME NEW t, Tree(t), NEW x \in ReachedIn(t), x # 0
  PROVE  /\ Buddy(x) \in ReachedIn(t) /\ Buddy(x) > 0 /\ Buddy(x) # x
         /\ Children(Parent(x)) = {x, Buddy(x)}
         /\ Parent(x) \in ReachedIn(t) /\ Parted(t, Parent(x)) /\ Ancestor(Parent(x), x) /\ Parent(x) # x
         /\ Parent(Buddy(x)) = Parent(x)
<1>1. x \in Nodes
  BY DEF ReachedIn
<1>2. Children(Parent(x)) = {x, Buddy(x)} /\ Buddy(x) > 0 /\ Buddy(x) # x /\ Parent(x) \in Nodes
  <2>1. Parent(x) \in Nat
    BY <1>1, Family, NodeLevel, Levels, Powers DEF Nodes
  <2> QED BY <1>1, <2>1, Family
<1>3. Parent(x) \in ReachedIn(t) /\ Parted(t, Parent(x)) /\ Ancestor(Parent(x), x)
  BY ParentReached
<1>4. Buddy(x) \in ReachedIn(t) /\ Parent(Buddy(x)) = Parent(x)
  BY <1>2, <1>3, HalfReached
<1> QED BY <1>1, <1>2, <1>3, <1>4, AncestorStrict

\* A node is the parent of its halves only.
LEMMA OtherParent ==
  ASSUME NEW t, Tree(t), NEW n \in ReachedIn(t), Parted(t, n), NEW x \in Nodes, n # Parent(x)
  PROVE  x \notin Children(n)
BY HalfReached

\* The search takes node x.
LEMMA TakeKeeps ==
  ASSUME NEW t, Tree(t), NEW L, NEW x, NEW z, SeekInv(t, L, x, z), t[x] = "UNUSED",
         NEW u, u = [t EXCEPT ![x] = "USED"]
  PROVE  /\ Tree(u) /\ MarkInv(u, L \cup {Block(x)}, x)
         /\ \A b \in L : ~Overlap(b, Block(x))
<1>1. /\ x \in Nodes /\ x \in ReachedIn(t) /\ t \in [Nodes -> States] /\ L = Blocks(t, {})
      /\ u \in [Nodes -> States] /\ u[x] = "USED" /\ \A n \in Nodes : n # x => u[n] = t[n]
  BY DEF SeekInv, ReachedIn, Tree, States
<1>2. ReachedIn(u) = ReachedIn(t) /\ \A n \in Nodes : Parted(u, n) <=> Parted(t, n)
  <2>1. \A n \in Nodes : Parted(u, n) <=> Parted(t, n)
    BY <1>1 DEF Parted
  <2> QED BY <2>1, SameReached
<1>3. Tree(u)
  BY <1>1, <1>2 DEF Tree, ReachedIn
<1>4. Blocks(u, {}) = L \cup {Block(x)}
  <2>1. {m \in ReachedIn(u) : u[m] = "USED"} \ {} = ({m \in ReachedIn(t) : t[m] = "USED"} \ {}) \cup {x}
    BY <1>1, <1>2 DEF ReachedIn
  <2> QED BY <1>1, <2>1 DEF Blocks
<1>5. \A n \in ReachedIn(t) \ {Parent(x)} : Parted(t, n) => \A c \in Children(n) : c # x /\ u[c] = t[c]
  <2> SUFFICES ASSUME NEW n \in ReachedIn(t) \ {Parent(x)}, Parted(t, n), NEW c \in Children(n)
               PROVE  c # x /\ u[c] = t[c]
    OBVIOUS
  <2>1. c \in Nodes /\ c # x
    BY <1>1, HalfReached, OtherParent
  <2> QED BY <1>1, <2>1
<1>6. FullUpTo(u, {Parent(x)})
  <2> SUFFICES ASSUME NEW n \in ReachedIn(t) \ {Parent(x)}, Parted(t, n)
               PROVE  u[n] = "FULL" <=> \A c \in Children(n) : Taken(u, c)
    BY <1>2 DEF FullUpTo, ReachedIn
  <2>1. u[n] = t[n]
    BY <1>1 DEF Parted, ReachedIn
  <2>2. t[n] = "FULL" <=> \A c \in Children(n) : Taken(t, c)
    BY DEF SeekInv, FullUpTo
  <2> QED BY <1>5, <2>1, <2>2 DEF Taken
<1>7. PeopledUpTo(u, {})
  <2> SUFFICES ASSUME NEW n \in ReachedIn(t), Parted(t, n) PROVE \E c \in Children(n) : u[c] # "UNUSED"
    BY <1>2 DEF PeopledUpTo, ReachedIn
  <2>1. CASE n = Parent(x)
    <3>1. x # 0
      BY <2>1, RootParent DEF ReachedIn
    <3> QED BY <1>1, <2>1, <3>1, Siblings
  <2>2. CASE n # Parent(x)
    BY <1>1, <1>5, <2>2 DEF SeekInv, PeopledUpTo
  <2> QED BY <2>1, <2>2
<1>8. x # 0 => u[Parent(x)] = "SPLIT"
  <2> SUFFICES ASSUME x # 0 PROVE u[Parent(x)] = "SPLIT"
    OBVIOUS
  <2>1. Parent(x) \in ReachedIn(t) /\ Parted(t, Parent(x)) /\ x \in Children(Parent(x)) /\ Parent(x) # x
    BY <1>1, Siblings
  <2>2. t[Parent(x)] # "FULL"
    BY <1>1, <2>1 DEF SeekInv, FullUpTo, Taken
  <2> QED BY <1>1, <2>1, <2>2 DEF Parted, ReachedIn
<1>9. ASSUME NEW b \in L, Overlap(b, Block(x)) PROVE FALSE
  <2>1. PICK m \in ReachedIn(t) : t[m] = "USED" /\ b = Block(m)
    BY <1>1 DEF Blocks
  <2>2. m \in Nodes /\ ~Disjoint(m, x)
    BY <1>1, <1>9, <2>1, BlockOverlap DEF ReachedIn
  <2>3. Ancestor(x, m)
    BY <1>1, <2>1, <2>2, UsedAlone
  <2> QED BY <1>1, <2>1, <2>3, AboveReached DEF Parted
<1> QED BY <1>1, <1>2, <1>3, <1>4, <1>6, <1>7, <1>8, <1>9 DEF MarkInv, Taken

\* The larger of two requested sizes is at least twice the other.
LEMMA HalfFits ==
  ASSUME NEW n \in Nodes, NEW z, Requested(z), z < Length(n)
  PROVE  Length(n) > 1 /\ 2 * z <= Length(n) /\ z \in Nat \ {0}
<1>1. PICK k \in Bits : z = Pow(k)
  BY DEF Requested
<1>2. PICK j \in Bits : Length(n) = Pow(j)
  BY NodeBlocks
<1>3. Pow(k) \in Nat \ {0} /\ Pow(j) \in Nat \ {0}
  BY Powers
<1>4. k < j
  BY <1>1, <1>2, <1>3, PowersGrow DEF Bits
<1> QED BY <1>1, <1>2, <1>3, <1>4, PowersGrow

\* The search goes down to the left half of x, which it splits if it has to.
LEMMA DownKeeps ==
  ASSUME NEW t, Tree(t), NEW L, NEW x, NEW z, SeekInv(t, L, x, z), Length(x) > z, t[x] \in {"UNUSED", "SPLIT"},
         NEW u, u = IF t[x] = "UNUSED"
                    THEN [n \in Nodes |-> IF n = x THEN "SPLIT" ELSE IF n \in Children(x) THEN "UNUSED" ELSE t[n]]
                    ELSE t
  PROVE  Tree(u) /\ SeekInv(u, L, 2 * x + 1, z)
<1>1. /\ x \in Nodes /\ x \in ReachedIn(t) /\ t \in [Nodes -> States] /\ L = Blocks(t, {})
      /\ Requested(z)
  BY DEF SeekInv, ReachedIn, Tree
<1>2. Length(x) > 1 /\ 2 * z <= Length(x) /\ z \in Nat \ {0}
  BY <1>1, HalfFits
<1>3. /\ 2 * x + 1 \in Nodes /\ 2 * x + 1 \in Children(x)
      /\ Length(x) = 2 * Length(2 * x + 1) /\ EMS_index_offset(2 * x + 1) = EMS_index_offset(x)
      /\ Length(2 * x + 1) \in Nat
  BY <1>1, <1>2, Halves, NodeBlocks DEF Children
<1>4. z <= Length(2 * x + 1) /\ Tried(L, z, EMS_index_offset(2 * x + 1))
  BY <1>2, <1>3 DEF SeekInv
<1>5. Parent(2 * x + 1) = x
  BY <1>1, <1>3, HalfOf
<1>6. CASE t[x] = "SPLIT"
  <2>1. u = t /\ Parted(t, x)
    BY <1>6 DEF Parted
  <2>2. 2 * x + 1 \in ReachedIn(t)
    BY <1>1, <1>3, <2>1, HalfReached
  <2>3. PeopledUpTo(t, {})
    BY <1>6 DEF SeekInv
  <2>4. PeopledUpTo(t, {x})
    BY <2>3 DEF PeopledUpTo
  <2> QED BY <1>1, <1>4, <1>5, <2>1, <2>2, <2>3, <2>4 DEF SeekInv
<1>7. CASE t[x] = "UNUSED"
  <2>1. /\ u \in [Nodes -> States] /\ u[x] = "SPLIT" /\ Parted(u, x)
        /\ \A n \in Nodes : n # x /\ n \notin Children(x) => u[n] = t[n]
    BY <1>1, <1>7 DEF States, Parted
  <2>2. \A n \in Nodes : n \in Children(x) => u[n] = "UNUSED" /\ n # x /\ Ancestor(x, n)
    BY <1>1, <1>2, <1>7, AncestorHalves, AncestorStrict
  <2>3. \A n \in Nodes : Ancestor(x, n) => n \notin ReachedIn(t)
    BY <1>1, <1>7, AboveReached DEF Parted
  <2>4. \A n \in Nodes : Parted(u, n) => Parted(t, n) \/ n = x
    BY <2>1, <2>2 DEF Parted
  <2>5. \A n \in ReachedIn(t) : n \in Nodes /\ n \in ReachedIn(u)
    <3> SUFFICES ASSUME NEW n \in ReachedIn(t), NEW m \in Nodes, Ancestor(m, n) PROVE n \in Nodes /\ Parted(u, m)
      BY DEF ReachedIn
    <3>1. n \in Nodes /\ m \in ReachedIn(t) /\ Parted(t, m)
      BY AboveReached DEF ReachedIn
    <3>2. m # x /\ m \notin Children(x)
      BY <1>7, <2>2, <2>3, <3>1 DEF Parted
    <3> QED BY <2>1, <3>1, <3>2 DEF Parted
  <2>6. \A n \in ReachedIn(u) : n \in Nodes /\ (n \in ReachedIn(t) \/ n \in Children(x))
    <3> SUFFICES ASSUME NEW n \in ReachedIn(u), n \notin ReachedIn(t) PROVE n \in Nodes /\ n \in Children(x)
      BY DEF ReachedIn
    <3>1. PICK m \in Nodes : Ancestor(m, n) /\ ~Parted(t, m)
      BY DEF ReachedIn
    <3>2. n \in Nodes /\ Parted(u, m)
      BY <3>1 DEF ReachedIn
    <3>3. Ancestor(x, n)
      BY <2>4, <3>1, <3>2
    <3>4. PICK c \in Children(x) : c \in Nodes /\ (c = n \/ Ancestor(c, n))
      BY <1>1, <3>2, <3>3, BelowHalves
    <3>5. ~Ancestor(c, n)
      BY <2>2, <3>2, <3>4 DEF ReachedIn, Parted
    <3> QED BY <3>2, <3>4, <3>5
  <2>7. Tree(u)
    <3>1. ASSUME NEW n \in ReachedIn(u), Parted(u, n) PROVE Length(n) > 1
      BY <1>2, <2>2, <2>4, <2>6, <3>1 DEF Tree, Parted
    <3> QED BY <2>1, <3>1 DEF Tree
  <2>8. Blocks(u, {}) = L
    <3>1. {m \in ReachedIn(u) : u[m] = "USED"} = {m \in ReachedIn(t) : t[m] = "USED"}
      <4>1. ASSUME NEW m \in ReachedIn(u), u[m] = "USED" PROVE m \in ReachedIn(t) /\ t[m] = "USED"
        BY <2>1, <2>2, <2>6, <4>1
      <4>2. ASSUME NEW m \in ReachedIn(t), t[m] = "USED" PROVE m \in ReachedIn(u) /\ u[m] = "USED"
        BY <1>7, <2>1, <2>2, <2>3, <2>5, <4>2
      <4> QED BY <4>1, <4>2
    <3> QED BY <1>1, <3>1 DEF Blocks
  <2>9. \A n \in ReachedIn(u) : Parted(u, n) /\ n # x => n \in ReachedIn(t) /\ u[n] = t[n] /\ Parted(t, n)
    BY <2>1, <2>2, <2>6 DEF Parted
  <2>10. ASSUME NEW n \in ReachedIn(t), Parted(t, n), n # x, NEW c \in Children(n) PROVE u[c] = t[c] \/ c = x
    <3>1. c \in ReachedIn(t) /\ c \in Nodes
      BY <2>10, HalfReached
    <3> QED BY <2>1, <2>2, <2>3, <3>1
  <2>11. FullUpTo(u, {})
    <3> SUFFICES ASSUME NEW n \in ReachedIn(u), Parted(u, n)
                 PROVE  u[n] = "FULL" <=> \A c \in Children(n) : Taken(u, c)
      BY DEF FullUpTo
    <3>1. CASE n = x
      BY <1>3, <2>1, <2>2, <3>1 DEF Taken
    <3>2. CASE n # x
      <4>1. n \in ReachedIn(t) /\ u[n] = t[n] /\ Parted(t, n)
        BY <2>9, <3>2
      <4>2. \A c \in Children(n) : Taken(u, c) <=> Taken(t, c)
        BY <1>7, <2>1, <2>10, <3>2, <4>1 DEF Taken
      <4> QED BY <4>1, <4>2 DEF SeekInv, FullUpTo
    <3> QED BY <3>1, <3>2
  <2>12. PeopledUpTo(u, {x})
    <3> SUFFICES ASSUME NEW n \in ReachedIn(u), n # x, Parted(u, n) PROVE \E c \in Children(n) : u[c] # "UNUSED"
      BY DEF PeopledUpTo
    <3>1. n \in ReachedIn(t) /\ Parted(t, n)
      BY <2>9
    <3>2. CASE x \in Children(n)
      BY <2>1, <3>2
    <3>3. CASE x \notin Children(n)
      <4>1. n # Parent(x)
        <5>1. x = 0 => Parent(x) \notin Nodes
          BY RootParent
        <5> QED BY <1>1, <3>1, <3>3, <5>1, Siblings DEF ReachedIn
      <4>2. PICK c \in Children(n) : t[c] # "UNUSED"
        BY <3>1, <4>1 DEF SeekInv, PeopledUpTo
      <4> QED BY <2>10, <3>1, <3>3, <4>2
    <3> QED BY <3>2, <3>3
  <2>13. 2 * x + 1 \in ReachedIn(u) /\ u[2 * x + 1] = "UNUSED"
    BY <1>1, <1>3, <2>2, <2>1, <2>5, <2>7, HalfReached
  <2> QED BY <1>1, <1>4, <1>5, <2>7, <2>8, <2>11, <2>12, <2>13 DEF SeekInv
<1> QED BY <1>6, <1>7

\* What is left of node x has been tried.
LEMMA OnKeeps ==
  ASSUME NEW t, Tree(t), NEW L, NEW x, NEW z, SeekInv(t, L, x, z),
         IF Length(x) = z THEN t[x] # "UNUSED" ELSE t[x] \in {"USED", "FULL"}
  PROVE  ClimbInv(t, L, x, z)
<1>1. x \in Nodes /\ x \in ReachedIn(t) /\ L = Blocks(t, {}) /\ t[x] # "UNUSED"
  BY DEF SeekInv, ReachedIn
<1>2. Quiet(t, L)
  BY <1>1 DEF SeekInv, Quiet
<1>3. ASSUME NEW n \in Nodes, Length(n) = z, EMS_index_offset(n) < EMS_index_offset(x) + Length(x)
      PROVE  Hit(L, n)
  <2>1. CASE EMS_index_offset(n) < EMS_index_offset(x)
    BY <1>3, <2>1 DEF SeekInv, Tried
  <2>2. CASE ~(EMS_index_offset(n) < EMS_index_offset(x))
    <3>1. /\ EMS_index_offset(n) \in Nat /\ Length(n) \in Nat \ {0}
          /\ EMS_index_offset(x) \in Nat /\ Length(x) \in Nat
      BY <1>1, NodeBlocks
    <3>2. ~Disjoint(n, x) /\ Length(n) <= Length(x)
      BY <1>3, <2>2, <3>1 DEF Disjoint, SeekInv
    <3>3. n = x \/ Ancestor(x, n)
      BY <1>1, <3>1, <3>2, Comparable, AncestorIs
    <3>4. CASE n = x
      BY <1>1, <1>2, <3>4, SplitHit
    <3>5. CASE n # x
      <4>1. Length(x) # z
        BY <1>1, <1>3, <3>1, <3>3, <3>5, AncestorIs
      <4>2. Taken(t, x)
        BY <4>1 DEF Taken
      <4> QED BY <1>1, <1>2, <3>3, <4>2, FullHit
    <3> QED BY <3>4, <3>5
  <2> QED BY <2>1, <2>2
<1> QED BY <1>1, <1>2, <1>3 DEF ClimbInv, SeekInv, Tried

\* From there the search goes on to the buddy, to the parent, or to its end.
LEMMA OnwardKeeps ==
  ASSUME NEW t, Tree(t), NEW L, NEW x, NEW z, ClimbInv(t, L, x, z)
  PROVE  /\ x = 0 => FailInv(t, L, z)
         /\ x # 0 /\ x % 2 = 1 => SeekInv(t, L, x + 1, z)
         /\ x # 0 /\ x % 2 # 1 => ClimbInv(t, L, Parent(x), z)
<1>1. x \in Nodes /\ x \in ReachedIn(t) /\ Quiet(t, L) /\ Requested(z)
  BY DEF ClimbInv, ReachedIn
<1>2. x = 0 => FailInv(t, L, z)
  <2>1. EMS_index_offset(0) = 0 /\ Length(0) \in Nat
    BY <1>1, NodeBlocks
  <2>2. EMS_index_offset(0) + Length(0) = Length(0)
    BY <2>1
  <2> QED BY <1>1, <2>2 DEF ClimbInv, FailInv
<1> SUFFICES ASSUME x # 0
             PROVE  /\ x % 2 = 1 => SeekInv(t, L, x + 1, z)
                    /\ x % 2 # 1 => ClimbInv(t, L, Parent(x), z)
  BY <1>2
<1> DEFINE q == Parent(x)
<1>3. /\ q \in ReachedIn(t) /\ q \in Nodes /\ Buddy(x) \in ReachedIn(t)
      /\ Length(q) > 1
      /\ \/ x % 2 = 1 /\ x = 2 * q + 1 /\ Buddy(x) = 2 * q + 2
         \/ x % 2 = 0 /\ x = 2 * q + 2 /\ Buddy(x) = 2 * q + 1
  BY <1>1, Siblings, Family DEF ReachedIn
<1>4. /\ 2 * q + 1 \in Nodes /\ Length(q) = 2 * Length(2 * q + 1) /\ Length(2 * q + 2) = Length(2 * q + 1)
      /\ EMS_index_offset(2 * q + 1) = EMS_index_offset(q)
      /\ EMS_index_offset(2 * q + 2) = EMS_index_offset(q) + Length(2 * q + 1)
  BY <1>3, Halves
<1>5. Length(2 * q + 1) \in Nat \ {0} /\ EMS_index_offset(q) \in Nat /\ q \in Nat /\ z \in Nat
  BY <1>1, <1>3, <1>4, NodeBlocks, NodeLevel, Levels, Powers DEF Nodes, Requested
<1> HIDE DEF q
<1>6. CASE x % 2 = 1
  <2>1. x = 2 * q + 1 /\ Buddy(x) = x + 1 /\ x + 1 = 2 * q + 2
    BY <1>3, <1>5, <1>6
  <2>2. z <= Length(x + 1) /\ Tried(L, z, EMS_index_offset(x + 1))
    BY <1>4, <1>5, <2>1 DEF ClimbInv
  <2>3. \A S : PeopledUpTo(t, S)
    BY <1>1 DEF Quiet, PeopledUpTo
  <2> QED BY <1>1, <1>3, <1>6, <2>1, <2>2, <2>3 DEF SeekInv, Quiet
<1>7. CASE x % 2 # 1
  <2>1. x = 2 * q + 2
    BY <1>3, <1>7
  <2>2. EMS_index_offset(q) + Length(q) = EMS_index_offset(x) + Length(x) /\ z <= Length(q)
    BY <1>4, <1>5, <2>1 DEF ClimbInv
  <2> QED BY <1>1, <1>3, <1>7, <2>2 DEF ClimbInv, q
<1> QED BY <1>6, <1>7

\* A search begins at the root.
LEMMA SearchBegins ==
  ASSUME NEW t, Tree(t), NEW L, Quiet(t, L), NEW z, Requested(z)
  PROVE  IF z > Length(0) THEN FailInv(t, L, z) ELSE SeekInv(t, L, 0, z)
<1>1. 0 \in Nodes /\ 0 \in ReachedIn(t) /\ EMS_index_offset(0) = 0 /\ Length(0) \in Nat /\ z \in Nat
  BY RootNode, RootReached, NodeBlocks, Powers DEF Requested
<1>2. \A n \in Nodes : Length(n) <= Length(0) /\ EMS_index_offset(n) \in Nat
  <2> SUFFICES ASSUME NEW n \in Nodes PROVE Length(n) <= Length(0) /\ EMS_index_offset(n) \in Nat
    OBVIOUS
  <2> QED BY <1>1, NodeBlocks
<1>3. z > Length(0) => Tried(L, z, Length(0))
  BY <1>1, <1>2 DEF Tried
<1>4. Tried(L, z, 0)
  BY <1>2 DEF Tried
<1>5. \A S : PeopledUpTo(t, S)
  BY DEF Quiet, PeopledUpTo
<1>6. z > Length(0) \/ z <= Length(0)
  BY <1>1
<1> QED BY <1>1, <1>3, <1>4, <1>5, <1>6 DEF FailInv, SeekInv, Quiet

\* A round of EMS_mark_parent.
LEMMA MarkKeeps ==
  ASSUME NEW t, Tree(t), NEW L, NEW x, MarkInv(t, L, x)
  PROVE  IF Buddy(x) > 0 /\ t[Buddy(x)] \in {"USED", "FULL"}
         THEN \A u : u = [t EXCEPT ![Parent(x)] = "FULL"] => Tree(u) /\ MarkInv(u, L, Parent(x))
         ELSE Quiet(t, L)
<1>1. x \in Nodes /\ x \in ReachedIn(t) /\ t \in [Nodes -> States]
  BY DEF MarkInv, ReachedIn, Tree
<1>2. CASE ~(Buddy(x) > 0 /\ t[Buddy(x)] \in {"USED", "FULL"})
  <2>1. ASSUME NEW n \in ReachedIn(t), Parted(t, n)
        PROVE  t[n] = "FULL" <=> \A c \in Children(n) : Taken(t, c)
    <3>1. CASE n # Parent(x)
      BY <2>1, <3>1 DEF MarkInv, FullUpTo
    <3>2. CASE n = Parent(x)
      <4>1. x # 0
        BY <3>2, RootParent DEF ReachedIn
      <4>2. Buddy(x) > 0 /\ Buddy(x) \in Children(n)
        BY <1>1, <3>2, <4>1, Siblings
      <4> QED BY <1>2, <3>2, <4>1, <4>2 DEF MarkInv, Taken
    <3> QED BY <3>1, <3>2
  <2>2. FullUpTo(t, {})
    BY <2>1 DEF FullUpTo
  <2> QED BY <1>2, <2>2 DEF MarkInv, Quiet
<1>3. CASE Buddy(x) > 0 /\ t[Buddy(x)] \in {"USED", "FULL"}
  <2> SUFFICES ASSUME NEW u, u = [t EXCEPT ![Parent(x)] = "FULL"] PROVE Tree(u) /\ MarkInv(u, L, Parent(x))
    BY <1>3
  <2> DEFINE q == Parent(x)
  <2>1. x # 0
    BY <1>3, RootParent
  <2>2. /\ Children(q) = {x, Buddy(x)} /\ q \in ReachedIn(t) /\ q \in Nodes /\ Parted(t, q)
        /\ q # x /\ t[q] = "SPLIT" /\ Parent(Buddy(x)) = q
    BY <1>1, <2>1, Siblings DEF MarkInv, ReachedIn
  <2> HIDE DEF q
  <2>3. u \in [Nodes -> States] /\ u[q] = "FULL" /\ \A n \in Nodes : n # q => u[n] = t[n]
    BY <1>1, <2>2 DEF q, States
  <2>4. (\A n \in Nodes : Parted(u, n) <=> Parted(t, n)) /\ ReachedIn(u) = ReachedIn(t)
    <3>1. \A n \in Nodes : Parted(u, n) <=> Parted(t, n)
      BY <2>2, <2>3 DEF Parted
    <3> QED BY <3>1, SameReached
  <2>5. Tree(u)
    BY <2>3, <2>4 DEF Tree, ReachedIn
  <2>6. Blocks(u, {}) = L
    <3>1. {m \in ReachedIn(u) : u[m] = "USED"} \ {} = {m \in ReachedIn(t) : t[m] = "USED"} \ {}
      BY <2>2, <2>3, <2>4 DEF ReachedIn
    <3> QED BY <3>1 DEF Blocks, MarkInv
  <2>7. q # 0 => u[Parent(q)] = "SPLIT"
    <3> SUFFICES ASSUME q # 0 PROVE u[Parent(q)] = "SPLIT"
      OBVIOUS
    <3>1. Parent(q) \in ReachedIn(t) /\ Parted(t, Parent(q)) /\ q \in Children(Parent(q)) /\ Parent(q) # q
      BY <2>2, Siblings
    <3>2. t[Parent(q)] # "FULL"
      BY <2>2, <3>1 DEF MarkInv, FullUpTo, Taken, q
    <3> QED BY <2>3, <3>1, <3>2 DEF Parted, ReachedIn
  <2>8. ASSUME NEW n \in ReachedIn(t), Parted(t, n), NEW c \in Children(n)
        PROVE  /\ u[c] = t[c] \/ (c = q /\ n = Parent(q))
               /\ u[c] = "UNUSED" => t[c] = "UNUSED"
    <3>1. c \in Nodes /\ Parent(c) = n
      BY <2>8, HalfReached
    <3> QED BY <2>3, <3>1
  <2>9. FullUpTo(u, {Parent(q)})
    <3> SUFFICES ASSUME NEW n \in ReachedIn(t) \ {Parent(q)}, Parted(t, n)
                 PROVE  u[n] = "FULL" <=> \A c \in Children(n) : Taken(u, c)
      BY <2>4 DEF FullUpTo, ReachedIn
    <3>1. ASSUME NEW c \in Children(n) PROVE u[c] = t[c]
      <4>1. n \in ReachedIn(t) /\ n # Parent(q)
        OBVIOUS
      <4>2. u[c] = t[c] \/ (c = q /\ n = Parent(q))
        BY <2>8, <3>1, <4>1
      <4> QED BY <4>1, <4>2
    <3>2. CASE n = q
      BY <1>3, <2>2, <2>3, <3>1, <3>2 DEF MarkInv, Taken
    <3>3. CASE n # q
      BY <2>3, <3>1, <3>3 DEF MarkInv, FullUpTo, Taken, q, ReachedIn
    <3> QED BY <3>2, <3>3
  <2>10. PeopledUpTo(u, {})
    <3> SUFFICES ASSUME NEW n \in ReachedIn(t), Parted(t, n) PROVE \E c \in Children(n) : u[c] # "UNUSED"
      BY <2>4 DEF PeopledUpTo, ReachedIn
    <3> QED BY <2>8 DEF MarkInv, PeopledUpTo
  <2>11. MarkInv(u, L, q)
    <3>1. q \in ReachedIn(u) /\ Taken(u, q)
      BY <2>2, <2>3, <2>4 DEF Taken
    <3> QED BY <2>6, <2>7, <2>9, <2>10, <3>1 DEF MarkInv
  <2> QED BY <2>5, <2>11 DEF q
<1> QED BY <1>2, <1>3

\* A block in use is in the root.
LEMMA FindBegins ==
  ASSUME NEW t, Tree(t), NEW L, Quiet(t, L), NEW b \in L
  PROVE  FindInv(t, L, 0, b.offset)
<1>1. PICK m \in ReachedIn(t) : b = Block(m)
  BY DEF Quiet, Blocks
<1>2. m \in Nodes /\ b.offset = EMS_index_offset(m)
  BY <1>1 DEF Block, ReachedIn
<1>3. /\ EMS_index_offset(m) \in Nat /\ Length(m) \in Nat \ {0} /\ EMS_index_offset(0) = 0
      /\ EMS_index_offset(m) + Length(m) <= Length(0)
  BY <1>2, NodeBlocks
<1>4. Length(0) \in Nat
  BY RootNode, NodeBlocks
<1>5. EMS_index_offset(0) <= b.offset /\ b.offset < EMS_index_offset(0) + Length(0)
  BY <1>2, <1>3, <1>4
<1>6. 0 \in ReachedIn(t)
  BY RootReached
<1> QED BY <1>5, <1>6 DEF FindInv

\* What free finds on the way down.
LEMMA FindMeets ==
  ASSUME NEW t, Tree(t), NEW L, NEW x, NEW o, FindInv(t, L, x, o)
  PROVE  /\ o \in Nat /\ o < Length(0) /\ t[x] # "UNUSED"
         /\ t[x] = "USED" => o = EMS_index_offset(x)
<1>1. PICK b \in L : b.offset = o
  BY DEF FindInv
<1>2. PICK m \in ReachedIn(t) : t[m] = "USED" /\ b = Block(m)
  BY DEF FindInv, Quiet, Blocks
<1>3. m \in Nodes /\ x \in Nodes /\ x \in ReachedIn(t) /\ o = EMS_index_offset(m)
  BY <1>1, <1>2 DEF Block, ReachedIn, FindInv
<1>4. /\ EMS_index_offset(m) \in Nat /\ Length(m) \in Nat \ {0} /\ EMS_index_offset(x) \in Nat /\ Length(x) \in Nat
      /\ EMS_index_offset(m) + Length(m) <= Length(0)
  BY <1>3, NodeBlocks
<1>5. Length(0) \in Nat
  BY RootNode, NodeBlocks
<1>6. m = x \/ Ancestor(x, m)
  <2>1. ~Disjoint(m, x)
    BY <1>3, <1>4 DEF FindInv, Disjoint
  <2> QED BY <1>2, <1>3, <2>1, UsedAlone
<1>7. Ancestor(x, m) => Parted(t, x)
  BY <1>2, <1>3, AboveReached
<1>8. t[x] # "UNUSED" /\ (t[x] = "USED" => x = m)
  BY <1>2, <1>6, <1>7 DEF Parted
<1> QED BY <1>3, <1>4, <1>5, <1>8

\* Free goes down to the half with the block.
LEMMA FindDownKeeps ==
  ASSUME NEW t, Tree(t), NEW L, NEW x, NEW o, FindInv(t, L, x, o), t[x] \in {"SPLIT", "FULL"}
  PROVE  FindInv(t, L, IF o < EMS_index_offset(2 * x + 2) THEN 2 * x + 1 ELSE 2 * x + 2, o)
<1>1. x \in Nodes /\ x \in ReachedIn(t) /\ Parted(t, x)
  BY DEF ReachedIn, FindInv, Parted
<1>2. Length(x) > 1
  BY <1>1 DEF Tree
<1>3. /\ 2 * x + 1 \in Nodes /\ Length(x) = 2 * Length(2 * x + 1) /\ Length(2 * x + 2) = Length(2 * x + 1)
      /\ EMS_index_offset(2 * x + 1) = EMS_index_offset(x)
      /\ EMS_index_offset(2 * x + 2) = EMS_index_offset(x) + Length(2 * x + 1)
  BY <1>1, <1>2, Halves
<1>4. Length(2 * x + 1) \in Nat /\ EMS_index_offset(x) \in Nat /\ o \in Nat
  BY <1>1, <1>3, NodeBlocks, FindMeets
<1>5. 2 * x + 1 \in ReachedIn(t) /\ 2 * x + 2 \in ReachedIn(t)
  BY <1>1, HalfReached DEF Children
<1>6. CASE o < EMS_index_offset(2 * x + 2)
  BY <1>3, <1>4, <1>5, <1>6 DEF FindInv
<1>7. CASE ~(o < EMS_index_offset(2 * x + 2))
  <2>1. EMS_index_offset(2 * x + 2) <= o /\ o < EMS_index_offset(2 * x + 2) + Length(2 * x + 2)
    BY <1>3, <1>4, <1>7 DEF FindInv
  <2> QED BY <1>5, <1>7, <2>1 DEF FindInv
<1> QED BY <1>6, <1>7

\* The block has been found and is not in use any more.
LEMMA FoundKeeps ==
  ASSUME NEW t, Tree(t), NEW L, NEW x, FindInv(t, L, x, EMS_index_offset(x)), t[x] = "USED"
  PROVE  CombineInv(t, {b \in L : b.offset # EMS_index_offset(x)}, x)
<1>1. x \in Nodes /\ x \in ReachedIn(t) /\ L = Blocks(t, {}) /\ FullUpTo(t, {}) /\ PeopledUpTo(t, {})
  BY DEF FindInv, ReachedIn, Quiet
<1>2. ASSUME NEW m \in ReachedIn(t), t[m] = "USED"
      PROVE  m \in Under(x) <=> EMS_index_offset(m) = EMS_index_offset(x)
  <2>1. m \in Nodes
    BY DEF ReachedIn
  <2>2. ~Ancestor(x, m)
    BY <1>1, <2>1, AboveReached DEF Parted
  <2>3. ASSUME EMS_index_offset(m) = EMS_index_offset(x) PROVE m = x
    <3>1. Length(m) \in Nat \ {0} /\ Length(x) \in Nat \ {0} /\ EMS_index_offset(m) \in Nat
      BY <1>1, <2>1, NodeBlocks
    <3>2. ~Disjoint(m, x)
      BY <2>3, <3>1 DEF Disjoint
    <3> QED BY <1>1, <1>2, <2>2, <3>2, UsedAlone
  <2> QED BY <2>1, <2>2, <2>3 DEF Under
<1>3. {b \in L : b.offset # EMS_index_offset(x)} = Blocks(t, Under(x))
  <2>1. \A m : Block(m).offset = EMS_index_offset(m)
    BY DEF Block
  <2> QED BY <1>1, <1>2, <2>1 DEF Blocks
<1> QED BY <1>1, <1>3 DEF CombineInv

\* A pair without a block is one node.
LEMMA CombineUp ==
  ASSUME NEW t, Tree(t), NEW L, NEW x, CombineInv(t, L, x), Buddy(x) >= 0, t[Buddy(x)] = "UNUSED"
  PROVE  CombineInv(t, L, Parent(x))
<1>1. x \in Nodes /\ x \in ReachedIn(t) /\ L = Blocks(t, Under(x))
  BY DEF CombineInv, ReachedIn
<1>2. x # 0
  BY RootParent
<1> DEFINE q == Parent(x)
<1>3. /\ Buddy(x) \in ReachedIn(t) /\ Children(q) = {x, Buddy(x)} /\ q \in ReachedIn(t)
      /\ Parted(t, q) /\ q # x /\ Ancestor(q, x)
  BY <1>1, <1>2, Siblings
<1>4. q \in Nodes /\ Buddy(x) \in Nodes
  BY <1>3 DEF ReachedIn
<1> HIDE DEF q
<1>5. ASSUME NEW m \in ReachedIn(t), t[m] = "USED" PROVE m \in Under(x) <=> m \in Under(q)
  <2>1. m \in Nodes
    BY DEF ReachedIn
  <2>2. m \in Under(x) => m \in Under(q)
    BY <1>1, <1>3, <1>4, <2>1, AncestorTransitive DEF Under
  <2>3. ASSUME m \in Under(q) PROVE m \in Under(x)
    <3>1. Ancestor(q, m)
      BY <1>3, <1>5, <2>3 DEF Under, Parted
    <3>2. PICK c \in Children(q) : c = m \/ Ancestor(c, m)
      BY <1>4, <2>1, <3>1, BelowHalves
    <3>3. c # Buddy(x)
      <4>1. Ancestor(Buddy(x), m) => Parted(t, Buddy(x))
        BY <1>4, AboveReached
      <4> QED BY <1>5, <3>2, <4>1 DEF Parted
    <3> QED BY <1>3, <2>1, <3>2, <3>3 DEF Under
  <2> QED BY <2>2, <2>3
<1>6. L = Blocks(t, Under(q))
  <2>1. {m \in ReachedIn(t) : t[m] = "USED"} \ Under(x) = {m \in ReachedIn(t) : t[m] = "USED"} \ Under(q)
    BY <1>5
  <2> QED BY <1>1, <2>1 DEF Blocks
<1> QED BY <1>3, <1>6 DEF CombineInv, q

\* The pair has a block in its other half: the node is unused, and its parent has room.
LEMMA CombineEnds ==
  ASSUME NEW t, Tree(t), NEW L, NEW x, CombineInv(t, L, x), Buddy(x) < 0 \/ t[Buddy(x)] # "UNUSED",
         NEW u, u = [t EXCEPT ![x] = "UNUSED"]
  PROVE  Tree(u) /\ RefreshInv(u, L, Parent(x))
<1>1. /\ x \in Nodes /\ x \in ReachedIn(t) /\ L = Blocks(t, Under(x)) /\ t \in [Nodes -> States]
      /\ FullUpTo(t, {}) /\ PeopledUpTo(t, {})
  BY DEF CombineInv, ReachedIn, Tree
<1>2. u \in [Nodes -> States] /\ u[x] = "UNUSED" /\ \A n \in Nodes : n # x => u[n] = t[n]
  BY <1>1 DEF States
<1>3. \A n \in Nodes : n \in ReachedIn(u) <=> n \in ReachedIn(t) /\ ~Ancestor(x, n)
  <2>1. ~Parted(u, x)
    BY <1>2 DEF Parted
  <2>2. \A m \in Nodes : m # x => (Parted(u, m) <=> Parted(t, m))
    BY <1>2 DEF Parted
  <2> QED BY <1>1, <2>1, <2>2 DEF ReachedIn
<1>4. Tree(u)
  <2>1. ASSUME NEW n \in ReachedIn(u), Parted(u, n) PROVE Length(n) > 1
    <3>1. n \in Nodes /\ n # x
      BY <1>2, <2>1 DEF ReachedIn, Parted
    <3> QED BY <1>2, <1>3, <2>1, <3>1 DEF Tree, Parted
  <2> QED BY <1>2, <2>1 DEF Tree
<1>5. Blocks(u, {}) = L
  <2>1. {m \in ReachedIn(u) : u[m] = "USED"} \ {} = {m \in ReachedIn(t) : t[m] = "USED"} \ Under(x)
    <3>1. ASSUME NEW m \in Nodes
          PROVE  m \in ReachedIn(u) /\ u[m] = "USED" <=> m \in ReachedIn(t) /\ t[m] = "USED" /\ m \notin Under(x)
      BY <1>2, <1>3 DEF Under
    <3>2. \A m \in ReachedIn(u) : m \in Nodes
      BY DEF ReachedIn
    <3>3. \A m \in ReachedIn(t) : m \in Nodes
      BY DEF ReachedIn
    <3> QED BY <3>1, <3>2, <3>3
  <2> QED BY <1>1, <2>1 DEF Blocks
<1>6. ASSUME NEW n \in ReachedIn(u), Parted(u, n)
      PROVE  n \in Nodes /\ n \in ReachedIn(t) /\ n # x /\ u[n] = t[n] /\ Parted(t, n)
  BY <1>2, <1>3, <1>6 DEF ReachedIn, Parted
<1>7. ASSUME NEW n \in ReachedIn(u), Parted(u, n), n # Parent(x), NEW c \in Children(n)
      PROVE  u[c] = t[c]
  <2>1. c \in Nodes /\ Parent(c) = n
    BY <1>4, <1>7, HalfReached
  <2> QED BY <1>2, <1>7, <2>1
<1>8. FullUpTo(u, {Parent(x)})
  <2> SUFFICES ASSUME NEW n \in ReachedIn(u), n # Parent(x), Parted(u, n)
               PROVE  u[n] = "FULL" <=> \A c \in Children(n) : Taken(u, c)
    BY DEF FullUpTo
  <2>1. t[n] = "FULL" <=> \A c \in Children(n) : Taken(t, c)
    BY <1>1, <1>6 DEF FullUpTo
  <2> QED BY <1>6, <1>7, <2>1 DEF Taken
<1>9. x # 0 => /\ Parent(x) \in ReachedIn(u) /\ Parted(u, Parent(x)) /\ x \in Children(Parent(x))
               /\ u[Buddy(x)] # "UNUSED" /\ Buddy(x) \in Children(Parent(x))
  <2> SUFFICES ASSUME x # 0
               PROVE  /\ Parent(x) \in ReachedIn(u) /\ Parted(u, Parent(x)) /\ x \in Children(Parent(x))
                      /\ u[Buddy(x)] # "UNUSED" /\ Buddy(x) \in Children(Parent(x))
    OBVIOUS
  <2>1. /\ Buddy(x) \in ReachedIn(t) /\ Buddy(x) > 0 /\ Buddy(x) # x
        /\ Children(Parent(x)) = {x, Buddy(x)}
        /\ Parent(x) \in ReachedIn(t) /\ Parted(t, Parent(x)) /\ Ancestor(Parent(x), x) /\ Parent(x) # x
    BY <1>1, Siblings
  <2>2. Parent(x) \in Nodes /\ Buddy(x) \in Nodes /\ ~Ancestor(x, Parent(x))
    BY <1>1, <2>1, AncestorStrict DEF ReachedIn
  <2>3. ~(Buddy(x) < 0)
    BY <2>2, NodeLevel, Levels, Powers DEF Nodes
  <2> QED BY <1>2, <1>3, <2>1, <2>2, <2>3 DEF Parted
<1>10. PeopledUpTo(u, {})
  <2> SUFFICES ASSUME NEW n \in ReachedIn(u), Parted(u, n) PROVE \E c \in Children(n) : u[c] # "UNUSED"
    BY DEF PeopledUpTo
  <2>1. CASE n # Parent(x)
    <3>1. PICK c \in Children(n) : t[c] # "UNUSED"
      BY <1>1, <1>6 DEF PeopledUpTo
    <3> QED BY <1>7, <2>1, <3>1
  <2>2. CASE n = Parent(x)
    <3>1. x # 0
      BY <1>6, <2>2, RootParent
    <3> QED BY <1>9, <2>2, <3>1
  <2> QED BY <2>1, <2>2
<1>11. x = 0 => Parent(x) = -1
  BY RootParent
<1>12. ~Taken(u, x)
  BY <1>2 DEF Taken
<1> QED BY <1>4, <1>5, <1>8, <1>9, <1>10, <1>11, <1>12 DEF RefreshInv

\* A round of the walk that ends emsMem_free.
LEMMA RefreshKeeps ==
  ASSUME NEW t, Tree(t), NEW L, NEW x, RefreshInv(t, L, x)
  PROVE  IF x >= 0 /\ t[x] = "FULL"
         THEN \A u : u = [t EXCEPT ![x] = "SPLIT"] => Tree(u) /\ RefreshInv(u, L, Parent(x))
         ELSE Quiet(t, L)
<1>1. CASE ~(x >= 0 /\ t[x] = "FULL")
  <2>1. FullUpTo(t, {})
    <3> SUFFICES ASSUME NEW n \in ReachedIn(t), Parted(t, n)
                 PROVE  t[n] = "FULL" <=> \A c \in Children(n) : Taken(t, c)
      BY DEF FullUpTo
    <3>1. n \in Nodes /\ n >= 0
      BY NodeLevel, Levels, Powers DEF ReachedIn, Nodes
    <3>2. CASE n # x
      BY <3>2 DEF RefreshInv, FullUpTo
    <3>3. CASE n = x
      <4>1. t[n] # "FULL" /\ n # -1
        BY <1>1, <3>1, <3>3
      <4> QED BY <3>3, <4>1 DEF RefreshInv
    <3> QED BY <3>2, <3>3
  <2> QED BY <1>1, <2>1 DEF RefreshInv, Quiet
<1>2. CASE x >= 0 /\ t[x] = "FULL"
  <2> SUFFICES ASSUME NEW u, u = [t EXCEPT ![x] = "SPLIT"] PROVE Tree(u) /\ RefreshInv(u, L, Parent(x))
    BY <1>2
  <2>1. x \in ReachedIn(t) /\ x \in Nodes /\ Parted(t, x) /\ t \in [Nodes -> States]
    BY <1>2 DEF RefreshInv, ReachedIn, Tree
  <2>2. PICK d \in Children(x) : ~Taken(t, d)
    BY <1>2 DEF RefreshInv
  <2>3. u \in [Nodes -> States] /\ u[x] = "SPLIT" /\ \A n \in Nodes : n # x => u[n] = t[n]
    BY <2>1 DEF States
  <2>4. (\A n \in Nodes : Parted(u, n) <=> Parted(t, n)) /\ ReachedIn(u) = ReachedIn(t)
    <3>1. \A n \in Nodes : Parted(u, n) <=> Parted(t, n)
      BY <2>1, <2>3 DEF Parted
    <3> QED BY <3>1, SameReached
  <2>5. Tree(u)
    BY <2>3, <2>4 DEF Tree, ReachedIn
  <2>6. Blocks(u, {}) = L
    <3>1. {m \in ReachedIn(u) : u[m] = "USED"} \ {} = {m \in ReachedIn(t) : t[m] = "USED"} \ {}
      BY <1>2, <2>3, <2>4 DEF ReachedIn
    <3> QED BY <3>1 DEF Blocks, RefreshInv
  <2>7. ASSUME NEW n \in ReachedIn(t), Parted(t, n), NEW c \in Children(n)
        PROVE  /\ u[c] = t[c] \/ (c = x /\ n = Parent(x))
               /\ u[c] = "UNUSED" => t[c] = "UNUSED"
    <3>1. c \in Nodes /\ Parent(c) = n
      BY <2>7, HalfReached
    <3> QED BY <2>3, <3>1
  <2>8. FullUpTo(u, {Parent(x)})
    <3> SUFFICES ASSUME NEW n \in ReachedIn(t), n # Parent(x), Parted(t, n)
                 PROVE  u[n] = "FULL" <=> \A c \in Children(n) : Taken(u, c)
      BY <2>4 DEF FullUpTo, ReachedIn
    <3>1. ASSUME NEW c \in Children(n) PROVE u[c] = t[c]
      BY <2>7
    <3>2. CASE n = x
      BY <2>2, <2>3, <3>1, <3>2 DEF Taken
    <3>3. CASE n # x
      <4>1. t[n] = "FULL" <=> \A c \in Children(n) : Taken(t, c)
        BY <3>3 DEF RefreshInv, FullUpTo
      <4>2. u[n] = t[n]
        BY <2>3, <3>3 DEF ReachedIn
      <4> QED BY <3>1, <4>1, <4>2 DEF Taken
    <3> QED BY <3>2, <3>3
  <2>9. PeopledUpTo(u, {})
    <3> SUFFICES ASSUME NEW n \in ReachedIn(t), Parted(t, n) PROVE \E c \in Children(n) : u[c] # "UNUSED"
      BY <2>4 DEF PeopledUpTo, ReachedIn
    <3> QED BY <2>7 DEF RefreshInv, PeopledUpTo
  <2>10. \/ Parent(x) = -1
         \/ Parent(x) \in ReachedIn(u) /\ Parted(u, Parent(x)) /\ \E c \in Children(Parent(x)) : ~Taken(u, c)
    <3>1. CASE x = 0
      BY <3>1, RootParent
    <3>2. CASE x # 0
      <4>1. Parent(x) \in ReachedIn(t) /\ Parted(t, Parent(x)) /\ x \in Children(Parent(x)) /\ Parent(x) \in Nodes
        BY <2>1, <3>2, Siblings DEF ReachedIn
      <4>2. ~Taken(u, x)
        BY <2>3 DEF Taken
      <4> QED BY <2>4, <4>1, <4>2
    <3> QED BY <3>1, <3>2
  <2> QED BY <2>5, <2>6, <2>8, <2>9, <2>10 DEF RefreshInv
<1> QED BY <1>1, <1>2

-------------------------------------------------------------------------------
(* The heap *)

Calls == {"none", "lockAlloc", "lockFree", "seek", "climb", "mark", "find", "combine", "refresh", "unlock", "fail",
          "returned", "failed"}

\* Calls that hold the mutex.
Inside == {"seek", "climb", "mark", "find", "combine", "refresh", "unlock", "fail"}

CallTyped(c) == DOMAIN c = {"pc", "size", "offset", "node"} /\ c.pc \in Calls

\* What a call c that holds the mutex has made of the tree.
Phase(t, L, c) ==
  /\ c.pc = "seek" => SeekInv(t, L, c.node, c.size)
  /\ c.pc = "climb" => ClimbInv(t, L, c.node, c.size)
  /\ c.pc = "mark" => MarkInv(t, L, c.node)
  /\ c.pc = "find" => FindInv(t, L, c.node, c.offset)
  /\ c.pc = "combine" => CombineInv(t, L, c.node)
  /\ c.pc = "refresh" => RefreshInv(t, L, c.node)
  /\ c.pc = "unlock" => Quiet(t, L)
  /\ c.pc = "fail" => FailInv(t, L, c.size)

CallsTyped == call = [p \in Processes |-> call[p]] /\ \A p \in Processes : CallTyped(call[p])

\* One call at a time is inside the allocator, and when none is the tree tells the truth.
HeapInv ==
  /\ Tree(tree) /\ CallsTyped
  /\ \A p \in Processes : call[p].pc \in Inside =>
       mutex = "FULL" /\ Phase(tree, live, call[p]) /\ \A q \in Processes \ {p} : call[q].pc \notin Inside
  /\ (\A p \in Processes : call[p].pc \notin Inside) => Quiet(tree, live)

\* The allocator is called for a size that is possible, and to free what is in use.
Asks(c, L) ==
  /\ c.pc = "lockAlloc" => Requested(c.size)
  /\ c.pc = "lockFree" => \E b \in L : b.offset = c.offset

\* A round of a call leaves the others where they are.
LEMMA CallMoves ==
  ASSUME CallsTyped, NEW p \in Processes, AllocStep(p)
  PROVE  /\ CallsTyped' /\ \A q \in Processes \ {p} : call'[q] = call[q]
         /\ call'[p].size = call[p].size
         /\ call[p].pc \in Inside \cup {"lockAlloc", "lockFree"}
         /\ call'[p].pc \in Inside \cup {"returned", "failed"}
<1>1. CallTyped(call[p]) /\ call = [q \in Processes |-> call[q]]
  BY DEF CallsTyped
<1>2. ASSUME NEW c, CallTyped(c), c.size = call[p].size, c.pc \in Inside \cup {"returned", "failed"},
             call' = [call EXCEPT ![p] = c]
      PROVE  /\ CallsTyped' /\ \A q \in Processes \ {p} : call'[q] = call[q]
             /\ call'[p].size = call[p].size /\ call'[p].pc \in Inside \cup {"returned", "failed"}
  BY <1>1, <1>2 DEF CallsTyped
<1>3. ASSUME NEW s \in Inside \cup {"returned", "failed"}, NEW n
      PROVE  /\ Go(p, s, n) => \E c : /\ CallTyped(c) /\ c.size = call[p].size /\ c.pc = s
                                      /\ call' = [call EXCEPT ![p] = c]
             /\ call' = [call EXCEPT ![p].pc = s] =>
                  \E c : /\ CallTyped(c) /\ c.size = call[p].size /\ c.pc = s
                         /\ call' = [call EXCEPT ![p] = c]
             /\ call' = [call EXCEPT ![p].pc = s, ![p].offset = n] =>
                  \E c : /\ CallTyped(c) /\ c.size = call[p].size /\ c.pc = s
                         /\ call' = [call EXCEPT ![p] = c]
  <2>1. \A c : c = [[call[p] EXCEPT !.pc = s] EXCEPT !.node = n] => CallTyped(c) /\ c.size = call[p].size /\ c.pc = s
    BY <1>1 DEF CallTyped, Inside, Calls
  <2>2. \A c : c = [call[p] EXCEPT !.pc = s] => CallTyped(c) /\ c.size = call[p].size /\ c.pc = s
    BY <1>1 DEF CallTyped, Inside, Calls
  <2>3. \A c : c = [[call[p] EXCEPT !.pc = s] EXCEPT !.offset = n] => CallTyped(c) /\ c.size = call[p].size /\ c.pc = s
    BY <1>1 DEF CallTyped, Inside, Calls
  <2>4. Go(p, s, n) => call' = [call EXCEPT ![p] = [[call[p] EXCEPT !.pc = s] EXCEPT !.node = n]]
    BY <1>1 DEF Go
  <2>5. call' = [call EXCEPT ![p].pc = s] => call' = [call EXCEPT ![p] = [call[p] EXCEPT !.pc = s]]
    BY <1>1
  <2>6. call' = [call EXCEPT ![p].pc = s, ![p].offset = n] =>
          call' = [call EXCEPT ![p] = [[call[p] EXCEPT !.pc = s] EXCEPT !.offset = n]]
    BY <1>1
  <2> QED BY <2>1, <2>2, <2>3, <2>4, <2>5, <2>6
<1>4. /\ \E s \in Inside \cup {"returned", "failed"} : \E n :
           \/ Go(p, s, n)
           \/ call' = [call EXCEPT ![p].pc = s]
           \/ call' = [call EXCEPT ![p].pc = s, ![p].offset = n]
      /\ call[p].pc \in Inside \cup {"lockAlloc", "lockFree"}
  <2>1. CASE Lock(p)
    BY <2>1 DEF Lock, In, Inside
  <2>2. CASE Unlock(p)
    BY <2>2 DEF Unlock, In, Inside
  <2>3. CASE SeekTake(p) \/ SeekDown(p)
    BY <2>3 DEF SeekTake, SeekDown, In, Inside
  <2>4. CASE SeekOn(p) \/ Climb(p)
    BY <2>4 DEF SeekOn, Climb, Onward, In, Inside
  <2>5. CASE MarkParent(p)
    BY <2>5 DEF MarkParent, In, Inside
  <2>6. CASE FindDown(p) \/ Found(p)
    BY <2>6 DEF FindDown, Found, In, Inside
  <2>7. CASE Combine(p) \/ Refresh(p)
    BY <2>7 DEF Combine, Refresh, In, Inside
  <2> QED BY <2>1, <2>2, <2>3, <2>4, <2>5, <2>6, <2>7 DEF AllocStep
<1> QED BY <1>2, <1>3, <1>4

\* What a step makes of the locals of the call.
LEMMA GoIs ==
  ASSUME CallsTyped, NEW p \in Processes, NEW s, NEW n, Go(p, s, n)
  PROVE  /\ call'[p].pc = s /\ call'[p].node = n
         /\ call'[p].size = call[p].size /\ call'[p].offset = call[p].offset
<1>1. CallTyped(call[p]) /\ call = [q \in Processes |-> call[q]]
  BY DEF CallsTyped
<1>2. \A c : c = [[call[p] EXCEPT !.pc = s] EXCEPT !.node = n] =>
          c.pc = s /\ c.node = n /\ c.size = call[p].size /\ c.offset = call[p].offset
  BY <1>1 DEF CallTyped
<1>3. call'[p] = [[call[p] EXCEPT !.pc = s] EXCEPT !.node = n]
  BY <1>1 DEF Go
<1> QED BY <1>2, <1>3

LEMMA EndIs ==
  ASSUME CallsTyped, NEW p \in Processes, NEW s, call' = [call EXCEPT ![p].pc = s]
  PROVE  call'[p].pc = s /\ call'[p].offset = call[p].offset
<1>1. CallTyped(call[p]) /\ call = [q \in Processes |-> call[q]]
  BY DEF CallsTyped
<1>2. \A c : c = [call[p] EXCEPT !.pc = s] => c.pc = s /\ c.offset = call[p].offset
  BY <1>1 DEF CallTyped
<1>3. call'[p] = [call[p] EXCEPT !.pc = s]
  BY <1>1
<1> QED BY <1>2, <1>3

Takes(p, s, n) == call' = [call EXCEPT ![p].pc = s, ![p].offset = n]

LEMMA TakeIs ==
  ASSUME CallsTyped, NEW p \in Processes, NEW s, NEW n, Takes(p, s, n)
  PROVE  /\ call'[p].pc = s /\ call'[p].node = call[p].node
         /\ call'[p].size = call[p].size /\ call'[p].offset = n
<1>1. CallTyped(call[p]) /\ call = [q \in Processes |-> call[q]]
  BY DEF CallsTyped
<1>2. \A c : c = [[call[p] EXCEPT !.pc = s] EXCEPT !.offset = n] =>
          c.pc = s /\ c.node = call[p].node /\ c.size = call[p].size /\ c.offset = n
  BY <1>1 DEF CallTyped
<1>3. call'[p] = [[call[p] EXCEPT !.pc = s] EXCEPT !.offset = n]
  BY <1>1 DEF Takes
<1> QED BY <1>2, <1>3

\* A block is handed out, and was free.
HandsOut(p, L, M, c, d) ==
  /\ c.pc = "seek" /\ d.pc = "mark" /\ M = L \cup {[offset |-> d.offset, size |-> c.size]}
  /\ \A b \in L : ~Overlap(b, [offset |-> d.offset, size |-> c.size])

\* A block is taken back.
TakesBack(p, L, M, c, d) ==
  c.pc = "find" /\ d.pc = "combine" /\ d.offset = c.offset /\ M = {b \in L : b.offset # c.offset}

\* The rounds of a call: what c becomes, and what it makes of the blocks in use.
Round(p, L, M, c, d) ==
  \/ HandsOut(p, L, M, c, d)
  \/ TakesBack(p, L, M, c, d)
  \/ /\ M = L /\ d.offset = c.offset
     /\ \/ c.pc \in {"lockAlloc", "seek", "climb"} /\ d.pc \in {"seek", "climb", "fail"}
        \/ c.pc = "fail" /\ d.pc = "failed"
        \/ c.pc = "mark" /\ d.pc \in {"mark", "unlock"}
        \/ c.pc = "unlock" /\ d.pc = "returned"
        \/ c.pc \in {"lockFree", "find"} /\ d.pc = "find"
        \/ c.pc = "combine" /\ d.pc \in {"combine", "refresh"}
        \/ c.pc = "refresh" /\ d.pc \in {"refresh", "unlock"}

\* What is left when a call with locals c has made a round.
Keeps(m, t, L, c) ==
  /\ Tree(t)
  /\ IF c.pc \in Inside THEN m = "FULL" /\ Phase(t, L, c) ELSE Quiet(t, L)

\* The part of the invariant that a round of p begins with.
LEMMA Begins ==
  ASSUME HeapInv, NEW p \in Processes, AllocStep(p)
  PROVE  /\ Tree(tree) /\ CallsTyped
         /\ call[p].pc \in Inside => mutex = "FULL" /\ Phase(tree, live, call[p])
         /\ call[p].pc \notin Inside => /\ call[p].pc \in {"lockAlloc", "lockFree"} /\ mutex = "EMPTY"
                                        /\ Quiet(tree, live)
<1>1. call[p].pc \in Inside \cup {"lockAlloc", "lockFree"}
  BY CallMoves DEF HeapInv
<1>2. ASSUME call[p].pc \notin Inside PROVE mutex = "EMPTY"
  <2>1. call[p].pc \in {"lockAlloc", "lockFree"}
    BY <1>1, <1>2
  <2> QED BY <1>2, <2>1 DEF AllocStep, Lock, Unlock, SeekTake, SeekDown, SeekOn, Climb, MarkParent, FindDown, Found,
                            Combine, Refresh, In, Inside
<1>3. call[p].pc \notin Inside => \A q \in Processes : call[q].pc \notin Inside
  BY <1>2 DEF HeapInv
<1> QED BY <1>1, <1>2, <1>3 DEF HeapInv

LEMMA LockRound ==
  ASSUME HeapInv, NEW p \in Processes, Lock(p), Asks(call[p], live)
  PROVE  Keeps(mutex', tree', live', call'[p]) /\ Round(p, live, live', call[p], call'[p])
<1>1. /\ Tree(tree) /\ CallsTyped /\ call[p].pc \in {"lockAlloc", "lockFree"} /\ Quiet(tree, live)
  BY Begins DEF AllocStep, Lock, Inside
<1>2. tree' = tree /\ live' = live /\ mutex' = "FULL"
  BY DEF Lock
<1>3. CASE In(p, "lockFree")
  <2>1. Go(p, "find", 0)
    BY <1>3 DEF Lock
  <2>2. call'[p].pc = "find" /\ call'[p].node = 0 /\ call'[p].offset = call[p].offset
    BY <1>1, <2>1, GoIs
  <2>3. FindInv(tree, live, 0, call[p].offset)
    BY <1>1, <1>3, FindBegins DEF Asks, In
  <2> QED BY <1>1, <1>2, <1>3, <2>2, <2>3 DEF Keeps, Phase, Round, In
<1>4. CASE ~In(p, "lockFree")
  <2>1. In(p, "lockAlloc") /\ Requested(call[p].size)
    BY <1>1, <1>4 DEF In, Asks
  <2>2. IF call[p].size > Length(0) THEN FailInv(tree, live, call[p].size) ELSE SeekInv(tree, live, 0, call[p].size)
    BY <1>1, <2>1, SearchBegins
  <2>3. Go(p, IF call[p].size > Length(0) THEN "fail" ELSE "seek", 0)
    BY <1>4 DEF Lock
  <2>4. CASE call[p].size > Length(0)
    <3>1. call'[p].pc = "fail" /\ call'[p].size = call[p].size /\ call'[p].offset = call[p].offset
      BY <1>1, <2>3, <2>4, GoIs
    <3> QED BY <1>1, <1>2, <2>1, <2>2, <2>4, <3>1 DEF Keeps, Phase, Round, In
  <2>5. CASE ~(call[p].size > Length(0))
    <3>1. /\ call'[p].pc = "seek" /\ call'[p].size = call[p].size /\ call'[p].offset = call[p].offset
          /\ call'[p].node = 0
      BY <1>1, <2>3, <2>5, GoIs
    <3> QED BY <1>1, <1>2, <2>1, <2>2, <2>5, <3>1 DEF Keeps, Phase, Round, In
  <2> QED BY <2>4, <2>5
<1> QED BY <1>3, <1>4

LEMMA UnlockRound ==
  ASSUME HeapInv, NEW p \in Processes, Unlock(p)
  PROVE  Keeps(mutex', tree', live', call'[p]) /\ Round(p, live, live', call[p], call'[p])
<1>1. Tree(tree) /\ CallsTyped /\ Phase(tree, live, call[p]) /\ call[p].pc \in {"unlock", "fail"}
  BY Begins DEF AllocStep, Unlock, In, Inside
<1>2. tree' = tree /\ live' = live /\ call' = [call EXCEPT ![p].pc = IF In(p, "fail") THEN "failed" ELSE "returned"]
  BY DEF Unlock
<1>3. call'[p].pc = (IF In(p, "fail") THEN "failed" ELSE "returned") /\ call'[p].offset = call[p].offset
  BY <1>1, <1>2, EndIs
<1>4. Quiet(tree, live)
  BY <1>1 DEF Phase, FailInv
<1> QED BY <1>1, <1>2, <1>3, <1>4 DEF Keeps, Round, In, Inside

\* The way on from node x.
LEMMA OnwardRound ==
  ASSUME CallsTyped, Tree(tree), NEW p \in Processes, call[p].pc \in {"seek", "climb"},
         ClimbInv(tree, live, call[p].node, call[p].size), mutex = "FULL",
         Onward(p, call[p].node), UNCHANGED <<tree, mutex, live>>
  PROVE  Keeps(mutex', tree', live', call'[p]) /\ Round(p, live, live', call[p], call'[p])
<1> DEFINE x == call[p].node
<1>0. tree' = tree /\ live' = live /\ mutex' = "FULL"
  OBVIOUS
<1>1. CASE x = 0
  <2>1. Go(p, "fail", 0)
    BY <1>1 DEF Onward
  <2>2. call'[p].pc = "fail" /\ call'[p].size = call[p].size /\ call'[p].offset = call[p].offset
    BY <2>1, GoIs
  <2>3. FailInv(tree, live, call[p].size)
    BY <1>1, OnwardKeeps
  <2> QED BY <1>0, <2>2, <2>3 DEF Keeps, Phase, Round, Inside
<1>2. CASE x # 0 /\ x % 2 = 1
  <2>1. Go(p, "seek", x + 1)
    BY <1>2 DEF Onward
  <2>2. call'[p].pc = "seek" /\ call'[p].size = call[p].size /\ call'[p].offset = call[p].offset /\ call'[p].node = x + 1
    BY <2>1, GoIs
  <2>3. SeekInv(tree, live, x + 1, call[p].size)
    BY <1>2, OnwardKeeps
  <2> QED BY <1>0, <2>2, <2>3 DEF Keeps, Phase, Round, Inside
<1>3. CASE x # 0 /\ x % 2 # 1
  <2>1. Go(p, "climb", Parent(x))
    BY <1>3 DEF Onward
  <2>2. /\ call'[p].pc = "climb" /\ call'[p].size = call[p].size /\ call'[p].offset = call[p].offset
        /\ call'[p].node = Parent(x)
    BY <2>1, GoIs
  <2>3. ClimbInv(tree, live, Parent(x), call[p].size)
    BY <1>3, OnwardKeeps
  <2> QED BY <1>0, <2>2, <2>3 DEF Keeps, Phase, Round, Inside
<1> QED BY <1>1, <1>2, <1>3

LEMMA SeekRound ==
  ASSUME HeapInv, NEW p \in Processes, SeekTake(p) \/ SeekDown(p) \/ SeekOn(p) \/ Climb(p)
  PROVE  Keeps(mutex', tree', live', call'[p]) /\ Round(p, live, live', call[p], call'[p])
<1> DEFINE x == call[p].node
           z == call[p].size
<1>1. /\ Tree(tree) /\ CallsTyped /\ mutex = "FULL"
      /\ call[p].pc = "seek" => SeekInv(tree, live, x, z)
      /\ call[p].pc = "climb" => ClimbInv(tree, live, x, z)
  BY Begins DEF AllocStep, Phase, SeekTake, SeekDown, SeekOn, Climb, In, Inside
<1>2. CASE SeekTake(p)
  <2>1. /\ call[p].pc = "seek" /\ Length(x) = z /\ tree[x] = "UNUSED" /\ tree' = [tree EXCEPT ![x] = "USED"]
        /\ live' = live \cup {[offset |-> EMS_index_offset(x), size |-> z]} /\ mutex' = mutex
        /\ Takes(p, "mark", EMS_index_offset(x))
    BY <1>2 DEF SeekTake, Node, Mark, In, Takes
  <2>2. [offset |-> EMS_index_offset(x), size |-> z] = Block(x)
    BY <2>1 DEF Block
  <2>3. Tree(tree') /\ MarkInv(tree', live', x) /\ \A b \in live : ~Overlap(b, Block(x))
    BY <1>1, <2>1, <2>2, TakeKeeps
  <2>4. call'[p].pc = "mark" /\ call'[p].node = x /\ call'[p].size = z /\ call'[p].offset = EMS_index_offset(x)
    BY <1>1, <2>1, TakeIs
  <2> QED BY <1>1, <2>1, <2>2, <2>3, <2>4 DEF Keeps, Phase, Round, HandsOut, Inside
<1>3. CASE SeekDown(p)
  <2>1. /\ call[p].pc = "seek" /\ Length(x) > z /\ tree[x] \in {"UNUSED", "SPLIT"}
        /\ tree' = IF tree[x] = "UNUSED"
                   THEN [n \in Nodes |-> IF n = x THEN "SPLIT" ELSE IF n \in Children(x) THEN "UNUSED" ELSE tree[n]]
                   ELSE tree
        /\ Go(p, "seek", 2 * x + 1) /\ mutex' = mutex /\ live' = live
    BY <1>3 DEF SeekDown, Node, In
  <2>2. Tree(tree') /\ SeekInv(tree', live, 2 * x + 1, z)
    BY <1>1, <2>1, DownKeeps
  <2>3. call'[p].pc = "seek" /\ call'[p].node = 2 * x + 1 /\ call'[p].size = z /\ call'[p].offset = call[p].offset
    BY <1>1, <2>1, GoIs
  <2> QED BY <1>1, <2>1, <2>2, <2>3 DEF Keeps, Phase, Round, Inside
<1>4. CASE SeekOn(p)
  <2>1. /\ call[p].pc = "seek" /\ Onward(p, x) /\ UNCHANGED <<tree, mutex, live>>
        /\ IF Length(x) = z THEN tree[x] # "UNUSED" ELSE tree[x] \in {"USED", "FULL"}
    BY <1>4 DEF SeekOn, Node, In
  <2>2. ClimbInv(tree, live, x, z)
    BY <1>1, <2>1, OnKeeps
  <2> QED BY <1>1, <2>1, <2>2, OnwardRound
<1>5. CASE Climb(p)
  <2>1. call[p].pc = "climb" /\ Onward(p, x) /\ UNCHANGED <<tree, mutex, live>>
    BY <1>5 DEF Climb, Node, In
  <2> QED BY <1>1, <2>1, OnwardRound
<1> QED BY <1>2, <1>3, <1>4, <1>5

LEMMA MarkRound ==
  ASSUME HeapInv, NEW p \in Processes, MarkParent(p)
  PROVE  Keeps(mutex', tree', live', call'[p]) /\ Round(p, live, live', call[p], call'[p])
<1> DEFINE x == call[p].node
<1>1. Tree(tree) /\ CallsTyped /\ mutex = "FULL" /\ MarkInv(tree, live, x) /\ call[p].pc = "mark"
  BY Begins DEF AllocStep, Phase, MarkParent, In, Inside
<1>2. mutex' = mutex /\ live' = live
  BY DEF MarkParent
<1>3. CASE Buddy(x) > 0 /\ tree[Buddy(x)] \in {"USED", "FULL"}
  <2>1. tree' = [tree EXCEPT ![Parent(x)] = "FULL"] /\ Go(p, "mark", Parent(x))
    BY <1>3 DEF MarkParent, Mark, Node
  <2>2. Tree(tree') /\ MarkInv(tree', live, Parent(x))
    BY <1>1, <1>3, <2>1, MarkKeeps
  <2>3. call'[p].pc = "mark" /\ call'[p].node = Parent(x) /\ call'[p].offset = call[p].offset
    BY <1>1, <2>1, GoIs
  <2> QED BY <1>1, <1>2, <2>2, <2>3 DEF Keeps, Phase, Round, Inside
<1>4. CASE ~(Buddy(x) > 0 /\ tree[Buddy(x)] \in {"USED", "FULL"})
  <2>1. tree' = tree /\ Go(p, "unlock", 0)
    BY <1>4 DEF MarkParent, Node
  <2>2. Quiet(tree, live)
    BY <1>1, <1>4, MarkKeeps
  <2>3. call'[p].pc = "unlock" /\ call'[p].offset = call[p].offset
    BY <1>1, <2>1, GoIs
  <2> QED BY <1>1, <1>2, <2>1, <2>2, <2>3 DEF Keeps, Phase, Round, Inside
<1> QED BY <1>3, <1>4

LEMMA FindRound ==
  ASSUME HeapInv, NEW p \in Processes, FindDown(p) \/ Found(p)
  PROVE  Keeps(mutex', tree', live', call'[p]) /\ Round(p, live, live', call[p], call'[p])
<1> DEFINE x == call[p].node
           o == call[p].offset
<1>1. Tree(tree) /\ CallsTyped /\ mutex = "FULL" /\ FindInv(tree, live, x, o) /\ call[p].pc = "find"
  BY Begins DEF AllocStep, Phase, FindDown, Found, In, Inside
<1>2. CASE FindDown(p)
  <2> DEFINE y == IF o < EMS_index_offset(2 * x + 2) THEN 2 * x + 1 ELSE 2 * x + 2
  <2>1. x \in Nat
    BY <1>1, NodeLevel, Levels, Powers DEF FindInv, ReachedIn, Nodes
  <2>2. tree[x] \in {"SPLIT", "FULL"} /\ tree' = tree /\ mutex' = mutex /\ live' = live
    BY <1>2 DEF FindDown, Node
  <2>3. (2 * x + 2) - 1 = 2 * x + 1
    BY <2>1
  <2>4. Go(p, "find", y)
    <3>1. Go(p, "find", IF o < EMS_index_offset(2 * x + 2) THEN (2 * x + 2) - 1 ELSE 2 * x + 2)
      BY <1>2 DEF FindDown, Node
    <3> QED BY <2>3, <3>1
  <2>5. FindInv(tree, live, y, o)
    BY <1>1, <2>2, FindDownKeeps
  <2> HIDE DEF y
  <2>6. call'[p].pc = "find" /\ call'[p].node = y /\ call'[p].offset = o
    BY <1>1, <2>4, GoIs
  <2> QED BY <1>1, <2>2, <2>5, <2>6 DEF Keeps, Phase, Round, Inside
<1>3. CASE Found(p)
  <2>1. /\ tree[x] = "USED" /\ o = EMS_index_offset(x) /\ live' = {b \in live : b.offset # o}
        /\ Go(p, "combine", x) /\ tree' = tree /\ mutex' = mutex
    BY <1>3 DEF Found, Node
  <2>2. CombineInv(tree, live', x)
    BY <1>1, <2>1, FoundKeeps
  <2>3. call'[p].pc = "combine" /\ call'[p].node = x /\ call'[p].offset = o
    BY <1>1, <2>1, GoIs
  <2> QED BY <1>1, <2>1, <2>2, <2>3 DEF Keeps, Phase, Round, TakesBack, Inside
<1> QED BY <1>2, <1>3

LEMMA CombineRound ==
  ASSUME HeapInv, NEW p \in Processes, Combine(p)
  PROVE  Keeps(mutex', tree', live', call'[p]) /\ Round(p, live, live', call[p], call'[p])
<1> DEFINE x == call[p].node
<1>1. Tree(tree) /\ CallsTyped /\ mutex = "FULL" /\ CombineInv(tree, live, x) /\ call[p].pc = "combine"
  BY Begins DEF AllocStep, Phase, Combine, In, Inside
<1>2. mutex' = mutex /\ live' = live
  BY DEF Combine
<1>3. CASE Buddy(x) < 0 \/ tree[Buddy(x)] # "UNUSED"
  <2>1. tree' = [tree EXCEPT ![x] = "UNUSED"] /\ Go(p, "refresh", Parent(x))
    BY <1>3 DEF Combine, Mark, Node
  <2>2. Tree(tree') /\ RefreshInv(tree', live, Parent(x))
    BY <1>1, <1>3, <2>1, CombineEnds
  <2>3. call'[p].pc = "refresh" /\ call'[p].node = Parent(x) /\ call'[p].offset = call[p].offset
    BY <1>1, <2>1, GoIs
  <2> QED BY <1>1, <1>2, <2>2, <2>3 DEF Keeps, Phase, Round, Inside
<1>4. CASE ~(Buddy(x) < 0 \/ tree[Buddy(x)] # "UNUSED")
  <2>1. tree' = tree /\ Go(p, "combine", Parent(x))
    BY <1>4 DEF Combine, Node
  <2>2. Buddy(x) >= 0
    BY <1>1, <1>4, NodeLevel, Levels, Powers DEF CombineInv, ReachedIn, Nodes, Buddy
  <2>3. CombineInv(tree, live, Parent(x))
    BY <1>1, <1>4, <2>2, CombineUp
  <2>4. call'[p].pc = "combine" /\ call'[p].node = Parent(x) /\ call'[p].offset = call[p].offset
    BY <1>1, <2>1, GoIs
  <2> QED BY <1>1, <1>2, <2>1, <2>3, <2>4 DEF Keeps, Phase, Round, Inside
<1> QED BY <1>3, <1>4

LEMMA RefreshRound ==
  ASSUME HeapInv, NEW p \in Processes, Refresh(p)
  PROVE  Keeps(mutex', tree', live', call'[p]) /\ Round(p, live, live', call[p], call'[p])
<1> DEFINE x == call[p].node
<1>1. Tree(tree) /\ CallsTyped /\ mutex = "FULL" /\ RefreshInv(tree, live, x) /\ call[p].pc = "refresh"
  BY Begins DEF AllocStep, Phase, Refresh, In, Inside
<1>2. mutex' = mutex /\ live' = live
  BY DEF Refresh
<1>3. CASE x >= 0 /\ tree[x] = "FULL"
  <2>1. tree' = [tree EXCEPT ![x] = "SPLIT"] /\ Go(p, "refresh", Parent(x))
    BY <1>3 DEF Refresh, Mark, Node
  <2>2. Tree(tree') /\ RefreshInv(tree', live, Parent(x))
    BY <1>1, <1>3, <2>1, RefreshKeeps
  <2>3. call'[p].pc = "refresh" /\ call'[p].node = Parent(x) /\ call'[p].offset = call[p].offset
    BY <1>1, <2>1, GoIs
  <2> QED BY <1>1, <1>2, <2>2, <2>3 DEF Keeps, Phase, Round, Inside
<1>4. CASE ~(x >= 0 /\ tree[x] = "FULL")
  <2>1. tree' = tree /\ Go(p, "unlock", 0)
    BY <1>4 DEF Refresh, Node
  <2>2. Quiet(tree, live)
    BY <1>1, <1>4, RefreshKeeps
  <2>3. call'[p].pc = "unlock" /\ call'[p].offset = call[p].offset
    BY <1>1, <2>1, GoIs
  <2> QED BY <1>1, <1>2, <2>1, <2>2, <2>3 DEF Keeps, Phase, Round, Inside
<1> QED BY <1>3, <1>4

\* A round of a call keeps the heap, if what it was called for is possible.
LEMMA AllocKeeps ==
  ASSUME HeapInv, NEW p \in Processes, AllocStep(p), Asks(call[p], live)
  PROVE  HeapInv' /\ Round(p, live, live', call[p], call'[p])
<1>1. Keeps(mutex', tree', live', call'[p]) /\ Round(p, live, live', call[p], call'[p])
  BY LockRound, UnlockRound, SeekRound, MarkRound, FindRound, CombineRound, RefreshRound DEF AllocStep
<1>2. CallsTyped' /\ \A q \in Processes \ {p} : call'[q] = call[q]
  BY CallMoves DEF HeapInv
<1>3. \A q \in Processes \ {p} : call[q].pc \notin Inside
  <2>1. mutex = "EMPTY" => \A q \in Processes : call[q].pc \notin Inside
    BY DEF HeapInv
  <2>2. call[p].pc \in Inside => \A q \in Processes \ {p} : call[q].pc \notin Inside
    BY DEF HeapInv
  <2> QED BY <2>1, <2>2, Begins
<1>4. \A q \in Processes \ {p} : call'[q].pc \notin Inside
  BY <1>2, <1>3
<1> QED BY <1>1, <1>2, <1>4 DEF HeapInv, Keeps

-------------------------------------------------------------------------------
(* What the properties say of the heap *)

LEMMA HeapTrue == ASSUME HeapInv PROVE TreeTrue
<1>1. FreesLiveBlock
  <2> SUFFICES ASSUME NEW p \in Processes, In(p, "find")
               PROVE  /\ call[p].offset < Length(0) /\ tree[Node(p)] # "UNUSED"
                      /\ tree[Node(p)] = "USED" => call[p].offset = EMS_index_offset(Node(p))
    BY DEF FreesLiveBlock
  <2>1. Tree(tree) /\ FindInv(tree, live, call[p].node, call[p].offset)
    BY DEF HeapInv, In, Inside, Phase
  <2> QED BY <2>1, FindMeets DEF Node
<1>2. ASSUME mutex = "EMPTY"
      PROVE  /\ live = {[offset |-> EMS_index_offset(n), size |-> Length(n)] :
                           n \in {m \in Reached : tree[m] = "USED"}}
             /\ \A b, c \in live : Overlap(b, c) => b = c
             /\ \A n \in Reached : tree[n] \in {"SPLIT", "FULL"} =>
                  /\ tree[n] = "FULL" <=> \A m \in Children(n) : tree[m] \in {"USED", "FULL"}
                  /\ \E m \in Children(n) : tree[m] # "UNUSED"
  <2>1. Quiet(tree, live)
    BY <1>2 DEF HeapInv
  <2>2. live = {[offset |-> EMS_index_offset(n), size |-> Length(n)] : n \in {m \in Reached : tree[m] = "USED"}}
    BY <2>1, ReachedIs DEF Quiet, Blocks, Block
  <2>3. \A b, c \in live : Overlap(b, c) => b = c
    BY <2>1, BlocksApart DEF Quiet
  <2>4. \A n \in Reached : tree[n] \in {"SPLIT", "FULL"} =>
          /\ tree[n] = "FULL" <=> \A m \in Children(n) : tree[m] \in {"USED", "FULL"}
          /\ \E m \in Children(n) : tree[m] # "UNUSED"
    BY <2>1, ReachedIs DEF Quiet, FullUpTo, PeopledUpTo, Parted, Taken
  <2> QED BY <2>2, <2>3, <2>4
<1> QED BY <1>1, <1>2 DEF TreeTrue

LEMMA HeapFull == ASSUME HeapInv PROVE FailsOnlyIfFull
<1> SUFFICES ASSUME NEW p \in Processes, In(p, "fail"), NEW n \in Nodes, Length(n) = call[p].size
             PROVE  \E b \in live : Overlap(b, [offset |-> EMS_index_offset(n), size |-> call[p].size])
  BY DEF FailsOnlyIfFull
<1>1. FailInv(tree, live, call[p].size)
  BY DEF HeapInv, In, Inside, Phase
<1>2. EMS_index_offset(n) < Length(0)
  <2>1. EMS_index_offset(n) \in Nat /\ Length(n) \in Nat \ {0} /\ EMS_index_offset(n) + Length(n) <= Length(0)
    BY NodeBlocks
  <2>2. Length(0) \in Nat
    BY RootNode, NodeBlocks
  <2> QED BY <2>1, <2>2
<1>3. Hit(live, n)
  BY <1>1, <1>2 DEF FailInv, Tried
<1> QED BY <1>3 DEF Hit, Block
===============================================================================
