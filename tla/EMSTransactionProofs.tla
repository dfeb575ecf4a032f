-------------------------- MODULE EMSTransactionProofs -------------------------
(***************************************************************************)
(* Theorems on EMSTransaction, for every number of threads, elements and   *)
(* transactions, every set of values and limit of readers, and all         *)
(* requests.                                                               *)
(***************************************************************************)
EXTENDS EMSTransactionRefinement, FiniteSetTheorems, TLAPS

\* A request names an element once: two items that name one would wait for each other.
Distinct ==
  \A u \in Uses, t \in Threads : \A r \in u.requests[t] :
    \A i, j \in DOMAIN r : i # j => r[i].e # r[j].e

\* What the comparator of ems.js sorts is all numbers or all texts; between a text and a
\* number it gives no order, and what a sort does with it is not defined.
Comparable ==
  \A u \in Uses, t \in Threads : \A r \in u.requests[t] :
    u.lang = "js" => \A i, j \in DOMAIN r : r[i].e.isText = r[j].e.isText

\* The code's "global ordering": all processes know an array by the same number and
\* different arrays by different ones, and no two elements of an array sort as equal.
GlobalOrder ==
  \A u \in Uses :
    /\ \A t, v \in Threads : u.number[t] = u.number[v]
    /\ \A t \in Threads, a, b \in Elements : a.arr # b.arr => u.number[t][a.arr] # u.number[t][b.arr]
    /\ u.lang = "js" =>
         /\ \A a \in Elements : ~a.isText /\ a.key < MaxElem
         /\ \A a, b \in Elements : a.arr = b.arr /\ a.key = b.key => a = b
    /\ u.lang = "py" =>
         \A a, b \in Elements : a.arr = b.arr /\ a.rank = b.rank => a = b

-------------------------------------------------------------------------------
(* The invariant *)

\* The positions of the elements that are held by a thread with locals l.
HeldIn(l) ==
  IF l.pc = "observed" THEN {}
  ELSE {i \in DOMAIN l.orig : l.pc \in {"end", "setStore"} => i >= l.at}

Holds(l, e, b) == \E i \in HeldIn(l) : l.todo[i] = [e |-> e, readOnly |-> b]

\* A thread in the middle of a write or of setTag.
Storing == {"writeData", "writeStore", "setStore"}

\* The locals of one thread.  No releaseRW fails.
Locals == [pc : PC, todo : Seq(Item), orig : Seq(Value), at : Nat, commit : BOOLEAN,
           mem : Tag, arg : Value, full : BOOLEAN, failed : {FALSE}, count : 0 .. MaxTx]

\* What they are at each program counter.
LocalOK(l) ==
  /\ l \in Locals /\ l.at <= Len(l.todo)
  /\ \A i, j \in DOMAIN l.todo : i # j => l.todo[i].e # l.todo[j].e
  /\ Len(l.orig) <= Len(l.todo)
  /\ l.pc = "idle" => l.todo = <<>>
  /\ l.pc = "take" => Len(l.orig) < Len(l.todo)
  /\ l.pc \notin {"idle", "take"} => Len(l.orig) = Len(l.todo)
  /\ l.pc # "idle" => l.count < MaxTx /\ Len(l.todo) # 0
  /\ l.pc \in Storing \cup {"end"} => l.at >= 1
  /\ l.pc \in Storing => ~l.todo[l.at].readOnly

\* A tag byte that is going to be stored is still the tag.
Fresh(l, g) == l.pc \in Storing => l.mem = g[l.todo[l.at].e]

Readers(e) == {t \in Threads : Holds(loc[t], e, TRUE)}
Writers(e) == {t \in Threads : Holds(loc[t], e, FALSE)}

\* The tag of an element, the transactions that hold it read-only and read-write.
CellOK(g, R, W) ==
  /\ g \in Tag
  /\ IsFiniteSet(R) /\ Cardinality(R) = g.rw
  /\ \A t, u \in W : t = u
  /\ (g.fe = "EMPTY") <=> (W # {})
  /\ (g.fe = "RW_LOCK") <=> (R # {})

\* Before in the program u.
BeforeIn(u, t, a, b) ==
  CASE u.lang = "js" ->
         /\ ~a.isText /\ ~b.isText
         /\ u.number[t][a.arr] * MaxElem + a.key < u.number[t][b.arr] * MaxElem + b.key
    [] u.lang = "py" -> \/ u.number[t][a.arr] < u.number[t][b.arr]
                        \/ u.number[t][a.arr] = u.number[t][b.arr] /\ a.rank < b.rank

\* The list s of thread t is sorted.
InOrder(u, t, s) == \A i, j \in DOMAIN s : i < j => ~BeforeIn(u, t, s[j].e, s[i].e)

TxInv ==
  /\ use \in Uses /\ data \in [Elements -> Value] /\ tag \in [Elements -> Tag]
  /\ loc \in [Threads -> Locals]
  /\ \A t \in Threads : LocalOK(loc[t]) /\ Fresh(loc[t], tag) /\ InOrder(use, t, loc[t].todo)
  /\ \A e \in Elements : CellOK(tag[e], Readers(e), Writers(e))

-------------------------------------------------------------------------------
(* The sort *)

\* R is a strict order of D in which any two elements are comparable.
Orders(R, D) ==
  /\ \A d \in D : <<d, d>> \notin R
  /\ \A c, d, e \in D : <<c, d>> \in R /\ <<d, e>> \in R => <<c, e>> \in R
  /\ \A c, d \in D : c # d => <<c, d>> \in R \/ <<d, c>> \in R

\* How many elements come before d, with d itself.
Rank(R, D, d) == Cardinality({c \in D : c = d \/ <<c, d>> \in R})

\* In a finite set that is ordered each rank occurs once, and ranks grow with the order.
LEMMA Ranking ==
  ASSUME NEW D, IsFiniteSet(D), NEW R, Orders(R, D)
  PROVE  /\ \A d \in D : Rank(R, D, d) \in 1 .. Cardinality(D)
         /\ \A c, d \in D : <<c, d>> \in R => Rank(R, D, c) < Rank(R, D, d)
         /\ \A c, d \in D : Rank(R, D, c) = Rank(R, D, d) => c = d
         /\ \A n \in 1 .. Cardinality(D) : \E d \in D : Rank(R, D, d) = n
<1> DEFINE Below(d) == {c \in D : c = d \/ <<c, d>> \in R}
           n == Cardinality(D)
           f == [d \in D |-> Rank(R, D, d)]
<1>1. n \in Nat
  BY FS_CardinalityType
<1>2. ASSUME NEW d \in D
      PROVE  IsFiniteSet(Below(d)) /\ Rank(R, D, d) = Cardinality(Below(d)) /\ Rank(R, D, d) \in 1 .. n
  <2>1. Below(d) \in SUBSET D /\ d \in Below(d) /\ Rank(R, D, d) = Cardinality(Below(d))
    BY DEF Rank
  <2>2. IsFiniteSet(Below(d)) /\ Cardinality(Below(d)) <= n
    BY <2>1, FS_Subset
  <2>3. Cardinality(Below(d)) \in Nat /\ Cardinality(Below(d)) # 0
    BY <2>1, <2>2, FS_CardinalityType, FS_EmptySet
  <2> HIDE DEF Below, n
  <2> QED BY <2>1, <2>2, <2>3, <1>1
<1>3. ASSUME NEW c \in D, NEW d \in D, <<c, d>> \in R
      PROVE  Rank(R, D, c) < Rank(R, D, d)
  <2>1. Below(c) \in SUBSET Below(d)
    BY <1>3 DEF Orders
  <2>2. d \in Below(d) /\ d \notin Below(c)
    BY <1>3 DEF Orders
  <2>3. IsFiniteSet(Below(d)) /\ Rank(R, D, d) = Cardinality(Below(d)) /\ Rank(R, D, c) = Cardinality(Below(c))
    BY <1>2
  <2> HIDE DEF Below, n
  <2>4. Cardinality(Below(c)) <= Cardinality(Below(d)) /\ Cardinality(Below(c)) # Cardinality(Below(d))
    BY <2>1, <2>2, <2>3, FS_Subset
  <2>5. Rank(R, D, c) \in Nat /\ Rank(R, D, d) \in Nat
    BY <1>1, <1>2
  <2> QED BY <2>3, <2>4, <2>5
<1>4. ASSUME NEW c \in D, NEW d \in D, c # d
      PROVE  Rank(R, D, c) # Rank(R, D, d)
  <2> HIDE DEF n, Below
  <2>1. Rank(R, D, c) \in Nat /\ Rank(R, D, d) \in Nat
    BY <1>1, <1>2
  <2>2. CASE <<c, d>> \in R
    BY <1>3, <2>1, <2>2
  <2>3. CASE <<d, c>> \in R
    BY <1>3, <2>1, <2>3
  <2> QED BY <1>4, <2>2, <2>3 DEF Orders
<1>5. f \in Injection(D, 1 .. n)
  BY <1>2, <1>4 DEF Injection, IsInjective
<1>6. IsFiniteSet(1 .. n) /\ Cardinality(1 .. n) = n
  BY <1>1, FS_Interval
<1>7. f \in Surjection(D, 1 .. n)
  BY <1>5, <1>6, FS_Injection
<1>8. \A m \in 1 .. n : \E d \in D : f[d] = m
  BY <1>7 DEF Surjection
<1>9. \A m \in 1 .. n : \E d \in D : Rank(R, D, d) = m
  BY <1>8
<1>10. \A c, d \in D : Rank(R, D, c) = Rank(R, D, d) => c = d
  BY <1>4
<1>11. \A d \in D : Rank(R, D, d) \in 1 .. Cardinality(D)
  BY <1>2
<1>12. \A c, d \in D : <<c, d>> \in R => Rank(R, D, c) < Rank(R, D, d)
  BY <1>3
<1> QED BY <1>9, <1>10, <1>11, <1>12

\* What the comparators compare.
LEMMA Compared ==
  ASSUME use \in Uses, NEW t \in Threads, NEW e \in Elements
  PROVE  /\ Position(t, e) \in Nat /\ use.number[t][e.arr] \in Nat
         /\ e.rank \in Nat /\ e.isText \in BOOLEAN /\ use.lang \in {"js", "py"}
<1>1. /\ use.number[t][e.arr] \in Nat /\ e.key \in Nat /\ MaxElem \in Nat
      /\ e.rank \in Nat /\ e.isText \in BOOLEAN /\ use.lang \in {"js", "py"}
  BY TransactionAssumption
<1>2. Position(t, e) = use.number[t][e.arr] * MaxElem + e.key
  BY DEF Position
<1> QED BY <1>1, <1>2

\* The comparators are strict and transitive, and so is equality by them, on elements
\* whose keys are all numbers or all texts.
LEMMA WeakOrder ==
  ASSUME use \in Uses, NEW t \in Threads,
         NEW a \in Elements, NEW b \in Elements, NEW c \in Elements,
         use.lang = "js" => a.isText = b.isText /\ b.isText = c.isText
  PROVE  /\ ~Before(t, a, a)
         /\ Before(t, a, b) => ~Before(t, b, a)
         /\ Before(t, a, b) /\ Before(t, b, c) => Before(t, a, c)
         /\ ~Before(t, a, b) /\ ~Before(t, b, c) => ~Before(t, a, c)
<1>1. CASE use.lang = "js"
  <2>1. /\ Position(t, a) \in Nat /\ Position(t, b) \in Nat /\ Position(t, c) \in Nat
        /\ a.isText \in BOOLEAN /\ a.isText = b.isText /\ b.isText = c.isText
    BY <1>1, Compared
  <2>2. \A x, y : Before(t, x, y) <=> ~x.isText /\ ~y.isText /\ Position(t, x) < Position(t, y)
    BY <1>1 DEF Before
  <2> QED BY <2>1, <2>2
<1>2. CASE use.lang = "py"
  <2>1. /\ use.number[t][a.arr] \in Nat /\ use.number[t][b.arr] \in Nat /\ use.number[t][c.arr] \in Nat
        /\ a.rank \in Nat /\ b.rank \in Nat /\ c.rank \in Nat
    BY Compared
  <2>2. \A x, y : Before(t, x, y) <=>
          (\/ use.number[t][x.arr] < use.number[t][y.arr]
           \/ (use.number[t][x.arr] = use.number[t][y.arr] /\ x.rank < y.rank))
    BY <1>2 DEF Before
  <2> QED BY <2>1, <2>2
<1> QED BY <1>1, <1>2, Compared

\* A request of the program, its positions and their elements.
LEMMA Requests ==
  ASSUME use \in Uses, NEW t \in Threads, NEW r \in use.requests[t]
  PROVE  /\ r \in Seq([e : Elements, flag : {"absent", "true", "false"}])
         /\ DOMAIN r = 1 .. Len(r) /\ Len(r) \in Nat /\ Len(r) # 0
         /\ \A i \in DOMAIN r : r[i].e \in Elements /\ ReadOnly(r[i]) \in BOOLEAN
<1> DEFINE Given == [e : Elements, flag : {"absent", "true", "false"}]
<1>0. \A g \in Given : g.e \in Elements
  OBVIOUS
<1> HIDE DEF Given
<1>1. r \in Seq(Given) /\ r # <<>>
  BY TransactionAssumption DEF Given
<1>2. DOMAIN r = 1 .. Len(r) /\ Len(r) \in Nat /\ Len(r) # 0
  BY <1>1
<1>3. \A i \in DOMAIN r : r[i].e \in Elements
  BY <1>0, <1>1, <1>2
<1>4. \A i \in DOMAIN r : ReadOnly(r[i]) \in BOOLEAN
  BY Zenon DEF ReadOnly
<1> QED BY <1>1, <1>2, <1>3, <1>4 DEF Given

\* Item j is sorted before item i of r: the sort is stable.
Precedes(t, r) ==
  {p \in (DOMAIN r) \X (DOMAIN r) :
     \/ Before(t, r[p[1]].e, r[p[2]].e)
     \/ ~Before(t, r[p[2]].e, r[p[1]].e) /\ p[1] < p[2]}

\* The relation in terms of its two positions.
LEMMA Preceding ==
  ASSUME NEW t, NEW r, NEW i \in DOMAIN r, NEW j \in DOMAIN r
  PROVE  <<i, j>> \in Precedes(t, r) <=>
           (Before(t, r[i].e, r[j].e) \/ (~Before(t, r[j].e, r[i].e) /\ i < j))
BY DEF Precedes

\* The sort goes by a total order of the positions.
LEMMA PrecedesOrders ==
  ASSUME Comparable, use \in Uses, NEW t \in Threads, NEW r \in use.requests[t]
  PROVE  Orders(Precedes(t, r), DOMAIN r)
<1> DEFINE D == DOMAIN r
           B(i, j) == Before(t, r[i].e, r[j].e)
<1>1. ASSUME NEW i \in D, NEW j \in D, NEW k \in D
      PROVE  /\ ~B(i, i)
             /\ B(i, j) => ~B(j, i)
             /\ B(i, j) /\ B(j, k) => B(i, k)
             /\ ~B(i, j) /\ ~B(j, k) => ~B(i, k)
  <2>1. r[i].e \in Elements /\ r[j].e \in Elements /\ r[k].e \in Elements
    BY Requests
  <2>2. use.lang = "js" => r[i].e.isText = r[j].e.isText /\ r[j].e.isText = r[k].e.isText
    BY DEF Comparable
  <2> QED BY <2>1, <2>2, WeakOrder
<1>2. D \subseteq Nat
  BY Requests
<1>3. \A i, j \in D : <<i, j>> \in Precedes(t, r) <=> (B(i, j) \/ (~B(j, i) /\ i < j))
  BY Preceding
<1> HIDE DEF D, B
<1>4. \A d \in D : <<d, d>> \notin Precedes(t, r)
  BY <1>1, <1>2, <1>3
<1>5. \A c, d \in D : c # d => <<c, d>> \in Precedes(t, r) \/ <<d, c>> \in Precedes(t, r)
  BY <1>1, <1>2, <1>3
<1>6. ASSUME NEW c \in D, NEW d \in D, NEW e \in D,
             <<c, d>> \in Precedes(t, r), <<d, e>> \in Precedes(t, r)
      PROVE  <<c, e>> \in Precedes(t, r)
  <2>1. (B(c, d) \/ (~B(d, c) /\ c < d)) /\ (B(d, e) \/ (~B(e, d) /\ d < e))
    BY <1>3, <1>6
  <2>2. /\ B(c, d) => ~B(d, c)
        /\ B(d, e) => ~B(e, d)
        /\ ~B(e, d) /\ ~B(d, c) => ~B(e, c)
    BY <1>1
  <2>3. B(c, d) /\ B(d, e) => B(c, e)
    BY <1>1
  <2>4. B(c, d) /\ ~B(e, d) => B(c, e)
    BY <1>1
  <2>5. ~B(d, c) /\ B(d, e) => B(c, e)
    BY <1>1
  <2>6. c < d /\ d < e => c < e
    BY <1>2
  <2> QED BY <1>3, <2>1, <2>2, <2>3, <2>4, <2>5, <2>6
<1> QED BY <1>4, <1>5, <1>6 DEF Orders, D

\* tmStart takes each element of the request once, in an order by which none comes before
\* an earlier one.
LEMMA SortedRequest ==
  ASSUME Comparable, Distinct, use \in Uses, NEW t \in Threads, NEW r \in use.requests[t]
  PROVE  LET s == Sorted(t, r) IN
         /\ s \in Seq(Item) /\ Len(s) = Len(r)
         /\ \A i, j \in DOMAIN s : i # j => s[i].e # s[j].e
         /\ InOrder(use, t, s)
<1> DEFINE D == DOMAIN r
           R == Precedes(t, r)
           P(i) == Cardinality({j \in DOMAIN r :
                     Before(t, r[j].e, r[i].e) \/ (~Before(t, r[i].e, r[j].e) /\ j <= i)})
           at(n) == CHOOSE i \in D : P(i) = n
<1>1. /\ D = 1 .. Len(r) /\ Len(r) \in Nat
      /\ \A i \in D : r[i].e \in Elements /\ ReadOnly(r[i]) \in BOOLEAN
  BY Requests
<1>2. IsFiniteSet(D) /\ Cardinality(D) = Len(r)
  <2> DEFINE n == Len(r)
  <2>1. D = 1 .. n /\ n \in Nat
    BY <1>1
  <2> HIDE DEF n, D
  <2>2. IsFiniteSet(1 .. n) /\ Cardinality(1 .. n) = n
    <3>1. 1 \in Int /\ n \in Int
      BY <2>1
    <3>2. IsFiniteSet(1 .. n) /\ Cardinality(1 .. n) = IF 1 > n THEN 0 ELSE n - 1 + 1
      BY <3>1, FS_Interval, Zenon
    <3>3. n = IF 1 > n THEN 0 ELSE n - 1 + 1
      BY <2>1
    <3> QED BY <3>2, <3>3
  <2>3. D = 1 .. n
    BY <2>1
  <2> QED BY <2>2, <2>3 DEF n
<1>3. Orders(R, D)
  BY PrecedesOrders
<1>4. \A i \in D : P(i) = Rank(R, D, i)
  <2> SUFFICES ASSUME NEW i \in D
               PROVE  {j \in D : Before(t, r[j].e, r[i].e) \/ (~Before(t, r[i].e, r[j].e) /\ j <= i)}
                        = {j \in D : j = i \/ <<j, i>> \in R}
    BY DEF Rank
  <2>1. ~Before(t, r[i].e, r[i].e)
    <3>1. <<i, i>> \notin R
      BY <1>3 DEF Orders
    <3> QED BY <3>1, Preceding
  <2>2. ASSUME NEW j \in D
        PROVE  (j = i \/ <<j, i>> \in R) <=>
                 (Before(t, r[j].e, r[i].e) \/ (~Before(t, r[i].e, r[j].e) /\ j <= i))
    <3>1. <<j, i>> \in R <=> (Before(t, r[j].e, r[i].e) \/ (~Before(t, r[i].e, r[j].e) /\ j < i))
      BY Preceding
    <3>2. i \in Nat /\ j \in Nat
      BY <1>1
    <3> HIDE DEF R
    <3> QED BY <2>1, <3>1, <3>2
  <2> HIDE DEF R, D
  <2> QED BY <2>2
<1> HIDE DEF D, R, P
<1>5. \A n \in D : \E i \in D : P(i) = n
  BY <1>1, <1>2, <1>3, <1>4, Ranking
<1>6. \A n \in D : at(n) \in D /\ P(at(n)) = n
  BY <1>5
<1>7. \A m, n \in D : m < n => <<at(n), at(m)>> \notin R
  <2> SUFFICES ASSUME NEW m \in D, NEW n \in D, m < n, <<at(n), at(m)>> \in R
               PROVE  FALSE
    OBVIOUS
  <2>1. P(at(n)) < P(at(m))
    BY <1>2, <1>3, <1>4, <1>6, Ranking
  <2>2. n < m
    BY <1>6, <2>1
  <2> QED BY <1>1, <2>2
<1> DEFINE s == [n \in D |-> [e |-> r[at(n)].e, readOnly |-> ReadOnly(r[at(n)])]]
<1>8. Sorted(t, r) = s
  BY DEF Sorted, D, P
<1> HIDE DEF at
<1>9. \A n \in D : s[n] \in Item
  BY <1>1, <1>6 DEF Item
<1>10. s \in Seq(Item) /\ Len(s) = Len(r)
  BY <1>1, <1>9
<1>11. ASSUME NEW i \in D, NEW j \in D, i # j
       PROVE  s[i].e # s[j].e
  <2>1. at(i) # at(j)
    BY <1>6, <1>11
  <2> QED BY <1>6, <2>1 DEF Distinct, D
<1>12. ASSUME NEW i \in D, NEW j \in D, i < j
       PROVE  ~Before(t, s[j].e, s[i].e)
  <2>1. <<at(j), at(i)>> \notin R
    BY <1>7, <1>12
  <2>2. at(i) \in DOMAIN r /\ at(j) \in DOMAIN r
    BY <1>6 DEF D
  <2>3. ~Before(t, r[at(j)].e, r[at(i)].e)
    <3>1. <<at(j), at(i)>> \notin R => ~Before(t, r[at(j)].e, r[at(i)].e)
      BY <2>2, Preceding DEF R
    <3> QED BY <2>1, <3>1
  <2> QED BY <2>3
<1>13. DOMAIN s = D
  OBVIOUS
<1> HIDE DEF s
<1>14. InOrder(use, t, s)
  BY <1>12, <1>13 DEF InOrder, BeforeIn, Before, Position
<1> QED BY <1>8, <1>10, <1>11, <1>13, <1>14

-------------------------------------------------------------------------------
(* The elements held, and the initial state *)

\* The items of a thread's list.
LEMMA Items ==
  ASSUME NEW l, LocalOK(l)
  PROVE  /\ DOMAIN l.todo = 1 .. Len(l.todo) /\ Len(l.todo) \in Nat
         /\ DOMAIN l.orig = 1 .. Len(l.orig) /\ Len(l.orig) \in Nat /\ Len(l.orig) <= Len(l.todo)
         /\ l.at \in Nat /\ l.at <= Len(l.todo)
         /\ \A i \in DOMAIN l.todo : /\ l.todo[i].e \in Elements /\ l.todo[i].readOnly \in BOOLEAN
                                     /\ l.todo[i] = [e |-> l.todo[i].e, readOnly |-> l.todo[i].readOnly]
         /\ HeldIn(l) \subseteq DOMAIN l.todo
<1>1. l.todo \in Seq(Item) /\ l.orig \in Seq(Value) /\ l.at \in Nat /\ l.at <= Len(l.todo)
  BY DEF LocalOK, Locals
<1>2. \A m \in Item : m.e \in Elements /\ m.readOnly \in BOOLEAN /\ m = [e |-> m.e, readOnly |-> m.readOnly]
  BY DEF Item
<1>3. Len(l.orig) <= Len(l.todo)
  BY DEF LocalOK
<1>4. DOMAIN l.todo = 1 .. Len(l.todo) /\ Len(l.todo) \in Nat
  BY <1>1
<1>5. DOMAIN l.orig = 1 .. Len(l.orig) /\ Len(l.orig) \in Nat
  BY <1>1
<1>6. \A i \in DOMAIN l.todo : l.todo[i] \in Item
  BY <1>1
<1>7. HeldIn(l) \subseteq DOMAIN l.todo
  BY <1>3, <1>4, <1>5 DEF HeldIn
<1> QED BY <1>1, <1>2, <1>3, <1>4, <1>5, <1>6, <1>7

\* Holding an element, in terms of the fields of the item.
LEMMA HoldsItem ==
  ASSUME NEW l, LocalOK(l), NEW e, NEW b
  PROVE  Holds(l, e, b) <=> \E i \in HeldIn(l) : l.todo[i].e = e /\ l.todo[i].readOnly = b
<1>1. \A i \in HeldIn(l) : l.todo[i] = [e |-> l.todo[i].e, readOnly |-> l.todo[i].readOnly]
  BY Items
<1> QED BY <1>1 DEF Holds

\* What write and setTag store to, and what tmEnd gives back, is held.
LEMMA CurrentHeld ==
  ASSUME NEW l, LocalOK(l), l.pc \in Storing \cup {"end"}
  PROVE  /\ l.at \in HeldIn(l) /\ l.at \in DOMAIN l.todo
         /\ Holds(l, l.todo[l.at].e, l.todo[l.at].readOnly)
<1>1. l.at >= 1 /\ Len(l.orig) = Len(l.todo) /\ l.pc # "observed"
  BY DEF LocalOK, Storing
<1>2. l.at \in DOMAIN l.orig /\ l.at \in DOMAIN l.todo
  BY <1>1, Items
<1>3. l.at \in HeldIn(l)
  BY <1>1, <1>2, Items DEF HeldIn
<1> QED BY <1>2, <1>3, HoldsItem

\* A thread holds an element either read-only or read-write.
LEMMA HoldsOneWay ==
  ASSUME NEW l, LocalOK(l), NEW e
  PROVE  ~(Holds(l, e, TRUE) /\ Holds(l, e, FALSE))
<1> SUFFICES ASSUME Holds(l, e, TRUE), Holds(l, e, FALSE) PROVE FALSE
  OBVIOUS
<1>1. PICK i \in HeldIn(l) : l.todo[i] = [e |-> e, readOnly |-> TRUE]
  BY DEF Holds
<1>2. PICK j \in HeldIn(l) : l.todo[j] = [e |-> e, readOnly |-> FALSE]
  BY DEF Holds
<1>3. i \in DOMAIN l.todo /\ j \in DOMAIN l.todo /\ i # j
  BY <1>1, <1>2, Items
<1> QED BY <1>1, <1>2, <1>3 DEF LocalOK

\* The locals of an idle thread.
LEMMA IdleTyped == Idle \in Locals
<1>1. FullTag \in Tag /\ Zero \in Value /\ 0 \in 0 .. MaxTx
  BY TransactionAssumption DEF FullTag, Tag
<1>2. <<>> \in Seq(Item) /\ <<>> \in Seq(Value)
  OBVIOUS
<1> QED BY <1>1, <1>2 DEF Idle, Locals, PC

\* A thread that is idle holds nothing.
LEMMA Rests ==
  ASSUME NEW l \in Locals, l.pc = "idle", l.todo = <<>>, l.orig = <<>>, l.at = 0
  PROVE  LocalOK(l) /\ HeldIn(l) = {}
<1>1. HeldIn(l) = {}
  BY DEF HeldIn
<1>2. LocalOK(l)
  BY DEF LocalOK, Storing
<1> QED BY <1>1, <1>2

\* The initial state satisfies the invariant.
LEMMA InitTx == Init => TxInv
<1> SUFFICES ASSUME Init PROVE TxInv
  OBVIOUS
<1>1. Idle \in Locals /\ Idle.pc = "idle" /\ Idle.todo = <<>> /\ Idle.orig = <<>> /\ Idle.at = 0
  BY IdleTyped DEF Idle
<1>2. LocalOK(Idle) /\ HeldIn(Idle) = {} /\ Idle.pc = "idle" /\ Idle.todo = <<>>
  BY <1>1, Rests
<1>3. FullTag \in Tag /\ Zero \in Value
  BY TransactionAssumption DEF FullTag, Tag
<1>4. loc \in [Threads -> Locals]
  BY <1>2 DEF Init, LocalOK
<1>5. \A t \in Threads : LocalOK(loc[t]) /\ Fresh(loc[t], tag) /\ InOrder(use, t, loc[t].todo)
  BY <1>2 DEF Init, Fresh, Storing, InOrder
<1>6. \A e \in Elements : Readers(e) = {} /\ Writers(e) = {} /\ tag[e] = FullTag
  BY <1>2 DEF Init, Readers, Writers, Holds
<1>7. \A e \in Elements : CellOK(tag[e], Readers(e), Writers(e))
  BY <1>3, <1>6, FS_EmptySet DEF CellOK, FullTag
<1> QED BY <1>3, <1>4, <1>5, <1>7 DEF TxInv, Init

-------------------------------------------------------------------------------
(* What a step may change *)

\* A step that gives thread t the locals l.
Becomes(t, l) ==
  /\ loc' = [loc EXCEPT ![t] = l] /\ LocalOK(l) /\ use' = use
  /\ l.todo = loc[t].todo \/ InOrder(use, t, l.todo)

\* It leaves all elements but x, and who holds them, alone.
Spares(t, l, x) ==
  \A e \in Elements : e # x =>
    /\ tag'[e] = tag[e]
    /\ \A b \in BOOLEAN : Holds(l, e, b) <=> Holds(loc[t], e, b)

\* The threads that hold e once t has the locals l.
ReadersBy(t, l, e) == IF Holds(l, e, TRUE) THEN Readers(e) \cup {t} ELSE Readers(e) \ {t}
WritersBy(t, l, e) == IF Holds(l, e, FALSE) THEN Writers(e) \cup {t} ELSE Writers(e) \ {t}

\* A step keeps the invariant if it does so at the element it is about, and if
\* no other thread holds that element read-write when its tag changes.
LEMMA TxMoves ==
  ASSUME TxInv, NEW t \in Threads, NEW l, NEW x, Becomes(t, l), Spares(t, l, x), Fresh(l, tag'),
         data' \in [Elements -> Value], tag' \in [Elements -> Tag],
         x \in Elements => CellOK(tag'[x], ReadersBy(t, l, x), WritersBy(t, l, x)),
         x \in Elements => tag'[x] = tag[x] \/ \A u \in Threads \ {t} : ~Holds(loc[u], x, FALSE)
  PROVE  TxInv'
<1>1. /\ loc' \in [Threads -> Locals] /\ loc'[t] = l /\ \A u \in Threads : u # t => loc'[u] = loc[u]
      /\ use' \in Uses
  BY DEF TxInv, Becomes, LocalOK
<1>2. \A u \in Threads : LocalOK(loc'[u])
  BY <1>1 DEF TxInv, Becomes
<1>3. ASSUME NEW u \in Threads
      PROVE  Fresh(loc'[u], tag')
  <2>1. CASE u = t
    BY <1>1, <2>1
  <2>2. CASE u # t /\ loc[u].pc \in Storing
    <3> DEFINE e == loc[u].todo[loc[u].at].e
    <3>1. LocalOK(loc[u]) /\ Fresh(loc[u], tag)
      BY DEF TxInv
    <3>2. ~loc[u].todo[loc[u].at].readOnly
      BY <2>2, <3>1 DEF LocalOK
    <3>3. e \in Elements /\ loc[u].todo[loc[u].at].readOnly \in BOOLEAN
          /\ Holds(loc[u], e, loc[u].todo[loc[u].at].readOnly)
      BY <2>2, <3>1, CurrentHeld, Items
    <3>4. Holds(loc[u], e, FALSE)
      <4>1. loc[u].todo[loc[u].at].readOnly = FALSE
        BY <3>2, <3>3
      <4> QED BY <3>3, <4>1
    <3>5. tag'[e] = tag[e]
      <4> HIDE DEF e
      <4>1. CASE e = x
        BY <2>2, <3>3, <3>4, <4>1
      <4> QED BY <3>3, <4>1 DEF Spares
    <3>6. loc[u].mem = tag[e]
      BY <2>2, <3>1 DEF Fresh
    <3> QED BY <1>1, <2>2, <3>5, <3>6 DEF Fresh
  <2>3. CASE u # t /\ loc[u].pc \notin Storing
    BY <1>1, <2>3 DEF Fresh
  <2> QED BY <2>1, <2>2, <2>3
<1>4. ASSUME NEW u \in Threads
      PROVE  InOrder(use', u, loc'[u].todo)
  <2>1. InOrder(use, u, loc[u].todo)
    BY DEF TxInv
  <2> QED BY <1>1, <2>1 DEF Becomes
<1>5. ASSUME NEW e \in Elements
      PROVE  CellOK(tag'[e], Readers(e)', Writers(e)')
  <2>1. Readers(e)' = ReadersBy(t, l, e) /\ Writers(e)' = WritersBy(t, l, e)
    <3>1. Readers(e)' = {u \in Threads : Holds(loc'[u], e, TRUE)}
          /\ Writers(e)' = {u \in Threads : Holds(loc'[u], e, FALSE)}
      BY DEF Readers, Writers, Holds, HeldIn
    <3> QED BY <1>1, <3>1 DEF Readers, Writers, ReadersBy, WritersBy
  <2>2. CASE e = x
    BY <2>1, <2>2
  <2>3. CASE e # x
    <3>1. tag'[e] = tag[e]
      BY <2>3 DEF Spares
    <3>2. (Holds(l, e, TRUE) <=> Holds(loc[t], e, TRUE)) /\ (Holds(l, e, FALSE) <=> Holds(loc[t], e, FALSE))
      BY <2>3 DEF Spares
    <3>3. ReadersBy(t, l, e) = Readers(e) /\ WritersBy(t, l, e) = Writers(e)
      BY <3>2 DEF ReadersBy, WritersBy, Readers, Writers
    <3>4. CellOK(tag[e], Readers(e), Writers(e))
      BY DEF TxInv
    <3> QED BY <2>1, <3>1, <3>3, <3>4
  <2> QED BY <2>2, <2>3
<1>6. TxInv' <=>
        /\ use' \in Uses /\ data' \in [Elements -> Value] /\ tag' \in [Elements -> Tag]
        /\ loc' \in [Threads -> Locals]
        /\ \A u \in Threads : LocalOK(loc'[u]) /\ Fresh(loc'[u], tag') /\ InOrder(use', u, loc'[u].todo)
        /\ \A e \in Elements : CellOK(tag'[e], Readers(e)', Writers(e)')
  BY DEF TxInv, LocalOK, Fresh, CellOK
<1> QED BY <1>1, <1>2, <1>3, <1>4, <1>5, <1>6

\* A step that takes and gives nothing back, and stores no tag.
LEMMA TxStays ==
  ASSUME TxInv, NEW t \in Threads, NEW l, Becomes(t, l), Fresh(l, tag),
         HeldIn(l) = HeldIn(loc[t]), l.todo = loc[t].todo \/ HeldIn(l) = {},
         data' \in [Elements -> Value], tag' = tag
  PROVE  TxInv'
<1>1. \A e, b : Holds(l, e, b) <=> Holds(loc[t], e, b)
  BY DEF Holds
<1>2. Spares(t, l, t)
  BY <1>1 DEF Spares
<1>3. t \in Elements => CellOK(tag'[t], ReadersBy(t, l, t), WritersBy(t, l, t))
  <2>1. ReadersBy(t, l, t) = Readers(t) /\ WritersBy(t, l, t) = Writers(t)
    BY <1>1 DEF ReadersBy, WritersBy, Readers, Writers
  <2> QED BY <2>1 DEF TxInv
<1>4. tag' \in [Elements -> Tag] /\ Fresh(l, tag')
  BY DEF TxInv
<1> QED BY <1>2, <1>3, <1>4, TxMoves

-------------------------------------------------------------------------------
(* The steps *)

\* What the invariant says of one thread and one element.
LEMMA Parts ==
  ASSUME TxInv, NEW t \in Threads
  PROVE  /\ LocalOK(loc[t]) /\ loc[t] \in Locals /\ Fresh(loc[t], tag) /\ use \in Uses
         /\ data \in [Elements -> Value] /\ tag \in [Elements -> Tag] /\ loc \in [Threads -> Locals]
         /\ \A e \in Elements : CellOK(tag[e], Readers(e), Writers(e))
BY DEF TxInv

\* The locals of a thread that is idle, and the number of transactions of one that is not.
LEMMA AtRest ==
  ASSUME NEW l, LocalOK(l)
  PROVE  /\ l.pc = "idle" => l.todo = <<>> /\ l.orig = <<>> /\ l.at = 0
         /\ l.pc # "idle" => l.count + 1 \in 0 .. MaxTx
         /\ l.failed = FALSE
<1>1. l.pc = "idle" => l.todo = <<>>
  BY DEF LocalOK
<1>2. l.todo = <<>> => Len(l.orig) = 0 /\ l.at = 0
  BY Items
<1>3. Len(l.orig) = 0 => l.orig = <<>>
  <2>1. l.orig \in Seq(Value)
    BY DEF LocalOK, Locals
  <2> QED BY <2>1
<1>4. l.pc # "idle" => l.count + 1 \in 0 .. MaxTx
  <2>1. l.count \in 0 .. MaxTx /\ (l.pc # "idle" => l.count < MaxTx)
    BY DEF LocalOK, Locals
  <2>2. MaxTx \in Nat
    BY TransactionAssumption
  <2> QED BY <2>1, <2>2
<1>5. l.failed = FALSE
  BY DEF LocalOK, Locals
<1> QED BY <1>1, <1>2, <1>3, <1>4, <1>5

\* The next position in a list that is longer.
LEMMA NextIndex ==
  ASSUME NEW n \in Nat, NEW c \in Nat, n < c
  PROVE  n + 1 \in Nat /\ n + 1 <= c /\ n + 1 >= 1 /\ n + 1 \in 1 .. c /\ (n + 1) - 1 = n
OBVIOUS

\* A value is added to those that have been read.
LEMMA Appended ==
  ASSUME NEW S, NEW q \in Seq(S), NEW v \in S
  PROVE  /\ Append(q, v) \in Seq(S) /\ Len(Append(q, v)) = Len(q) + 1
         /\ DOMAIN Append(q, v) = 1 .. Len(q) + 1
         /\ Append(q, v)[Len(q) + 1] = v
         /\ \A i \in 1 .. Len(q) : Append(q, v)[i] = q[i]
OBVIOUS

\* tmStart is called.
LEMMA StartKeeps ==
  ASSUME Comparable, Distinct, TxInv, NEW t \in Threads, Start(t)
  PROVE  TxInv'
<1> PICK r \in use.requests[t], f \in BOOLEAN :
      loc' = [loc EXCEPT ![t].pc = "take", ![t].todo = Sorted(t, r), ![t].full = f]
  BY DEF Start, Garbage
<1> DEFINE s == Sorted(t, r)
           l == [loc[t] EXCEPT !.pc = "take", !.todo = s, !.full = f]
<1>1. s \in Seq(Item) /\ Len(s) = Len(r) /\ InOrder(use, t, s) /\ \A i, j \in DOMAIN s : i # j => s[i].e # s[j].e
  BY Parts, SortedRequest
<1>2. Len(s) \in Nat /\ Len(s) # 0
  BY <1>1, Parts, Requests
<1> HIDE DEF s
<1>3. loc[t].pc = "idle" /\ loc[t].count < MaxTx /\ loc[t].todo = <<>> /\ loc[t].at = 0 /\ loc[t].orig = <<>>
  BY Parts, AtRest DEF Start, At
<1>4. l \in Locals /\ l.pc = "take" /\ l.todo = s /\ l.orig = <<>> /\ l.at = 0 /\ l.count = loc[t].count
  <2> DEFINE k == loc[t]
  <2>1. k \in Locals /\ "take" \in PC
    BY Parts DEF PC
  <2>2. l = [k EXCEPT !.pc = "take", !.todo = s, !.full = f]
    OBVIOUS
  <2>3. k.orig = <<>> /\ k.at = 0
    BY <1>3
  <2> HIDE DEF k, l
  <2>4. l \in Locals /\ l.pc = "take" /\ l.todo = s /\ l.orig = k.orig /\ l.at = k.at /\ l.count = k.count
    BY <1>1, <2>1, <2>2 DEF Locals
  <2> QED BY <2>3, <2>4 DEF k
<1>5. loc' = [loc EXCEPT ![t] = l]
  BY Parts DEF s, Locals
<1> HIDE DEF l
<1>6. LocalOK(l)
  BY <1>1, <1>2, <1>3, <1>4 DEF LocalOK, Storing
<1>7. HeldIn(l) = {} /\ HeldIn(loc[t]) = {} /\ Fresh(l, tag)
  BY <1>3, <1>4 DEF HeldIn, Fresh, Storing
<1>8. Becomes(t, l)
  BY <1>1, <1>4, <1>5, <1>6 DEF Becomes, Start
<1> QED BY <1>7, <1>8, Parts, TxStays DEF Start

\* An element is read outside of any transaction.
LEMMA ObserveKeeps ==
  ASSUME TxInv, NEW t \in Threads, Observe(t)
  PROVE  TxInv'
<1> PICK e \in Elements :
      loc' = [loc EXCEPT ![t].pc = "observed", ![t].todo = <<[e |-> e, readOnly |-> TRUE]>>,
                         ![t].orig = <<data[e]>>]
  BY DEF Observe
<1> DEFINE s == <<[e |-> e, readOnly |-> TRUE]>>
           o == <<data[e]>>
           l == [loc[t] EXCEPT !.pc = "observed", !.todo = s, !.orig = o]
<1>1. s \in Seq(Item) /\ Len(s) = 1 /\ DOMAIN s = {1}
  <2>1. [e |-> e, readOnly |-> TRUE] \in Item
    BY DEF Item
  <2> QED BY <2>1
<1>2. o \in Seq(Value) /\ Len(o) = 1
  <2>1. data[e] \in Value
    BY Parts
  <2> QED BY <2>1
<1> HIDE DEF s, o
<1>3. loc[t].pc = "idle" /\ loc[t].count < MaxTx /\ loc[t].todo = <<>> /\ loc[t].at = 0 /\ loc[t].orig = <<>>
  BY Parts, AtRest DEF Observe, At
<1>4. l \in Locals /\ l.pc = "observed" /\ l.todo = s /\ l.orig = o /\ l.at = 0 /\ l.count = loc[t].count
  <2> DEFINE k == loc[t]
  <2>1. k \in Locals /\ "observed" \in PC
    BY Parts DEF PC
  <2>2. l = [k EXCEPT !.pc = "observed", !.todo = s, !.orig = o]
    OBVIOUS
  <2>3. k.at = 0
    BY <1>3
  <2> HIDE DEF k, l
  <2>4. l \in Locals /\ l.pc = "observed" /\ l.todo = s /\ l.orig = o /\ l.at = k.at /\ l.count = k.count
    BY <1>1, <1>2, <2>1, <2>2 DEF Locals
  <2> QED BY <2>3, <2>4 DEF k
<1>5. loc' = [loc EXCEPT ![t] = l]
  BY Parts DEF s, o, Locals
<1> HIDE DEF l
<1>6. LocalOK(l)
  <2>1. \A i, j \in DOMAIN l.todo : i = j
    BY <1>1, <1>4
  <2>2. Len(l.todo) = 1 /\ Len(l.orig) = 1 /\ l.at <= Len(l.todo)
    BY <1>1, <1>2, <1>4
  <2> QED BY <1>3, <1>4, <2>1, <2>2 DEF LocalOK, Storing
<1>7. HeldIn(l) = {} /\ HeldIn(loc[t]) = {} /\ Fresh(l, tag)
  BY <1>3, <1>4 DEF HeldIn, Fresh, Storing
<1>8. InOrder(use, t, l.todo)
  BY <1>1, <1>4 DEF InOrder
<1>9. Becomes(t, l)
  BY <1>5, <1>6, <1>8 DEF Becomes, Observe
<1> QED BY <1>7, <1>9, Parts, TxStays DEF Observe

\* A thread returns to idle.
LEMMA Returns ==
  ASSUME TxInv, NEW t \in Threads, loc[t].pc # "idle"
  PROVE  LET l == [Idle EXCEPT !.count = loc[t].count + 1, !.failed = loc[t].failed] IN
         /\ LocalOK(l) /\ HeldIn(l) = {} /\ l.pc = "idle" /\ l.todo = <<>> /\ InOrder(use, t, l.todo)
<1> DEFINE l == [Idle EXCEPT !.count = loc[t].count + 1, !.failed = loc[t].failed]
<1>1. loc[t].count + 1 \in 0 .. MaxTx /\ loc[t].failed \in {FALSE}
  BY Parts, AtRest
<1>2. Idle \in Locals /\ Idle.pc = "idle" /\ Idle.todo = <<>> /\ Idle.orig = <<>> /\ Idle.at = 0
  BY IdleTyped DEF Idle
<1>3. l \in Locals /\ l.pc = "idle" /\ l.todo = <<>> /\ l.orig = <<>> /\ l.at = 0
  BY <1>1, <1>2 DEF Locals
<1> HIDE DEF l
<1>4. LocalOK(l) /\ HeldIn(l) = {}
  BY <1>3, Rests
<1>5. InOrder(use, t, l.todo)
  BY <1>3 DEF InOrder
<1> QED BY <1>3, <1>4, <1>5 DEF l

\* The reader outside of any transaction is done.
LEMMA ObservedKeeps ==
  ASSUME TxInv, NEW t \in Threads, Observed(t)
  PROVE  TxInv'
<1> DEFINE l == [Idle EXCEPT !.count = loc[t].count + 1, !.failed = loc[t].failed]
<1>1. LocalOK(l) /\ HeldIn(l) = {} /\ l.pc = "idle" /\ InOrder(use, t, l.todo)
  BY Returns DEF Observed, At
<1>2. loc' = [loc EXCEPT ![t] = l]
  BY DEF Observed
<1> HIDE DEF l
<1>3. HeldIn(loc[t]) = {} /\ Fresh(l, tag)
  BY <1>1 DEF HeldIn, Fresh, Storing, Observed, At
<1>4. Becomes(t, l)
  BY <1>1, <1>2 DEF Becomes, Observed
<1> QED BY <1>1, <1>3, <1>4, Parts, TxStays DEF Observed

\* An element is taken that nobody holds read-write, and that nobody holds at all if it is
\* taken read-write.
LEMMA TakeKeeps ==
  ASSUME TxInv, NEW t \in Threads, Take(t)
  PROVE  TxInv'
<1> DEFINE k == Len(loc[t].orig) + 1
           m == loc[t].todo[k]
           x == m.e
           o == Append(loc[t].orig, data[x])
           p == IF k = Len(loc[t].todo) THEN "body" ELSE "take"
<1> PICK f \in BOOLEAN :
      loc' = [loc EXCEPT ![t].orig = o, ![t].full = f, ![t].pc = p]
  BY Parts DEF Take, Garbage, Wanted
<1> DEFINE l == [loc[t] EXCEPT !.orig = o, !.full = f, !.pc = p]
<1>1. /\ loc[t].pc = "take" /\ k \in Nat /\ Len(loc[t].todo) \in Nat /\ k <= Len(loc[t].todo) /\ k >= 1
      /\ k \in DOMAIN loc[t].todo /\ DOMAIN loc[t].orig = 1 .. k - 1
      /\ DOMAIN loc[t].todo = 1 .. Len(loc[t].todo)
  <2>1. loc[t].pc = "take" /\ Len(loc[t].orig) < Len(loc[t].todo)
    BY Parts DEF Take, At, LocalOK
  <2> DEFINE n == Len(loc[t].orig)
             c == Len(loc[t].todo)
             D == DOMAIN loc[t].orig
             E == DOMAIN loc[t].todo
  <2>2. n \in Nat /\ D = 1 .. n /\ c \in Nat /\ E = 1 .. c /\ n < c
    BY <2>1, Parts, Items
  <2> HIDE DEF n, c, D, E
  <2>3. n + 1 \in Nat /\ n + 1 <= c /\ n + 1 >= 1 /\ n + 1 \in 1 .. c /\ (n + 1) - 1 = n
    BY <2>2, NextIndex
  <2>4. n + 1 \in E /\ D = 1 .. (n + 1) - 1
    BY <2>2, <2>3, Zenon
  <2> QED BY <2>1, <2>2, <2>3, <2>4 DEF n, c, D, E
<1>2. x \in Elements /\ m.readOnly \in BOOLEAN
  BY <1>1, Parts, Items
<1>3. o \in Seq(Value) /\ Len(o) = k /\ DOMAIN o = 1 .. k
  <2> DEFINE q == loc[t].orig
             v == data[x]
  <2>1. v \in Value /\ q \in Seq(Value)
    <3>1. data \in [Elements -> Value] /\ loc[t] \in Locals
      BY Parts
    <3>2. q \in Seq(Value)
      BY <3>1 DEF Locals
    <3> HIDE DEF q, x
    <3> QED BY <1>2, <3>1, <3>2
  <2>2. o = Append(q, v) /\ k = Len(q) + 1
    OBVIOUS
  <2> HIDE DEF q, v, o, k
  <2>3. Len(q) \in Nat
    BY <2>1
  <2>4. k - 1 = Len(q)
    BY <2>2, <2>3
  <2>5. Append(q, v) \in Seq(Value) /\ Len(Append(q, v)) = Len(q) + 1 /\ DOMAIN Append(q, v) = 1 .. Len(q) + 1
    BY <2>1, Appended
  <2> QED BY <2>2, <2>5
<1>4. p \in {"take", "body"} /\ (p = "body" <=> k = Len(loc[t].todo))
  OBVIOUS
<1>5. tag' = [tag EXCEPT ![x] = Taken(t)] /\ Wanted(t) = m /\ use' = use /\ data' = data
  BY DEF Take, Wanted
<1> HIDE DEF o, p
<1>6. /\ l \in Locals /\ l.pc = p /\ l.todo = loc[t].todo /\ l.orig = o /\ l.at = loc[t].at
      /\ l.count = loc[t].count
  <2> DEFINE q == loc[t]
  <2>1. q \in Locals /\ p \in PC
    BY <1>4, Parts DEF PC
  <2>2. l = [q EXCEPT !.orig = o, !.full = f, !.pc = p]
    OBVIOUS
  <2> HIDE DEF q, l
  <2>3. l \in Locals /\ l.pc = p /\ l.todo = q.todo /\ l.orig = o /\ l.at = q.at /\ l.count = q.count
    BY <1>3, <2>1, <2>2 DEF Locals
  <2> QED BY <2>3 DEF q
<1>7. loc' = [loc EXCEPT ![t] = l]
  BY Parts DEF Locals
<1> HIDE DEF l, k, m, x
<1>8. LocalOK(l)
  BY <1>1, <1>3, <1>4, <1>6, Parts DEF LocalOK, Storing
<1>9. HeldIn(loc[t]) = 1 .. k - 1 /\ HeldIn(l) = 1 .. k
  BY <1>1, <1>3, <1>4, <1>6 DEF HeldIn
<1>10. \A e, b : Holds(l, e, b) <=> (Holds(loc[t], e, b) \/ m = [e |-> e, readOnly |-> b])
  <2>1. 1 .. k = (1 .. k - 1) \cup {k}
    BY <1>1
  <2>2. l.todo[k] = m /\ l.todo = loc[t].todo
    BY <1>6 DEF m
  <2> HIDE DEF k
  <2> QED BY <1>9, <2>1, <2>2 DEF Holds
<1>11. \A b : ~Holds(loc[t], x, b)
  <2> SUFFICES ASSUME NEW b, Holds(loc[t], x, b) PROVE FALSE
    OBVIOUS
  <2>1. PICK i \in 1 .. k - 1 : loc[t].todo[i] = [e |-> x, readOnly |-> b]
    BY <1>9 DEF Holds
  <2>2. loc[t].todo[i].e = loc[t].todo[k].e /\ i # k /\ i \in DOMAIN loc[t].todo
    BY <1>1, <2>1 DEF x, m
  <2> QED BY <1>1, <2>2, Parts DEF LocalOK
<1>12. m = [e |-> x, readOnly |-> m.readOnly]
  BY <1>1, Parts, Items DEF x, m
<1>13. \A b : Holds(l, x, b) <=> (m.readOnly = b)
  BY <1>10, <1>11, <1>12
<1>14. (Holds(l, x, TRUE) <=> m.readOnly) /\ (Holds(l, x, FALSE) <=> ~m.readOnly)
  <2>1. CASE m.readOnly = TRUE
    BY <1>13, <2>1
  <2>2. CASE m.readOnly = FALSE
    BY <1>13, <2>2
  <2> QED BY <1>2, <2>1, <2>2
<1>15. \A e : e # x => \A b : Holds(l, e, b) <=> Holds(loc[t], e, b)
  BY <1>10, <1>12
<1>16. t \notin Readers(x) /\ t \notin Writers(x)
  BY <1>11 DEF Readers, Writers
<1>17. CellOK(tag[x], Readers(x), Writers(x)) /\ RWMax \in Nat \ {0}
  BY <1>2, Parts, TransactionAssumption
<1>18. tag[x].fe = "FULL" \/ (m.readOnly /\ tag[x].fe = "RW_LOCK" /\ tag[x].rw < RWMax)
  BY <1>5 DEF Take, Available, x
<1>19. Taken(t) \in Tag /\ CellOK(Taken(t), ReadersBy(t, l, x), WritersBy(t, l, x))
  <2>1. CASE m.readOnly
    <3>1. Taken(t) = [fe |-> "RW_LOCK", rw |-> tag[x].rw + 1]
      BY <1>5, <2>1 DEF Taken, x
    <3>2. ReadersBy(t, l, x) = Readers(x) \cup {t} /\ WritersBy(t, l, x) = Writers(x)
      BY <1>14, <1>16, <2>1 DEF ReadersBy, WritersBy
    <3>3. IsFiniteSet(Readers(x)) /\ Cardinality(Readers(x)) = tag[x].rw /\ Writers(x) = {}
      BY <1>17, <1>18 DEF CellOK
    <3>4. IsFiniteSet(Readers(x) \cup {t}) /\ Cardinality(Readers(x) \cup {t}) = tag[x].rw + 1
      BY <1>16, <3>3, FS_AddElement
    <3>5. tag[x].rw + 1 \in 0 .. RWMax
      <4>1. tag[x].rw \in 0 .. RWMax
        BY <1>17 DEF CellOK, Tag
      <4>2. CASE tag[x].fe = "FULL"
        <5>1. Readers(x) = {}
          BY <1>17, <4>2 DEF CellOK
        <5>2. tag[x].rw = 0
          BY <3>3, <5>1, FS_EmptySet
        <5> QED BY <1>17, <5>2
      <4> QED BY <1>17, <1>18, <4>1, <4>2
    <3> QED BY <3>1, <3>2, <3>3, <3>4, <3>5 DEF CellOK, Tag
  <2>2. CASE ~m.readOnly
    <3>1. Taken(t) = [tag[x] EXCEPT !.fe = "EMPTY"] /\ tag[x].fe = "FULL" /\ tag[x] \in Tag
      BY <1>5, <1>17, <1>18, <2>2 DEF Taken, x, CellOK
    <3>2. Taken(t) \in Tag /\ Taken(t).fe = "EMPTY" /\ Taken(t).rw = tag[x].rw
      BY <3>1 DEF Tag
    <3>3. ReadersBy(t, l, x) = Readers(x) /\ WritersBy(t, l, x) = Writers(x) \cup {t}
      BY <1>14, <1>16, <2>2 DEF ReadersBy, WritersBy
    <3>4. Readers(x) = {} /\ Writers(x) = {}
      BY <1>17, <3>1 DEF CellOK
    <3> QED BY <1>17, <3>2, <3>3, <3>4 DEF CellOK
  <2> QED BY <1>2, <2>1, <2>2
<1>20. \A u \in Threads \ {t} : ~Holds(loc[u], x, FALSE)
  <2>1. Writers(x) = {}
    BY <1>17, <1>18 DEF CellOK
  <2> QED BY <2>1 DEF Writers
<1>21. tag' \in [Elements -> Tag] /\ tag'[x] = Taken(t) /\ \A e \in Elements : e # x => tag'[e] = tag[e]
  BY <1>2, <1>5, <1>19, Parts
<1>22. Becomes(t, l) /\ Spares(t, l, x) /\ Fresh(l, tag')
  BY <1>4, <1>5, <1>6, <1>7, <1>8, <1>15, <1>21 DEF Becomes, Spares, Fresh, Storing
<1>23. data' \in [Elements -> Value]
  BY <1>5, Parts
<1> QED BY <1>19, <1>20, <1>21, <1>22, <1>23, TxMoves

\* A step of the body or of tmEnd that moves a thread on, and holds what it held.
LEMMA Working ==
  ASSUME TxInv, NEW t \in Threads, NEW l \in Locals,
         loc[t].pc \in {"body", "writeData", "writeStore", "end"},
         loc' = [loc EXCEPT ![t] = l], use' = use, data' \in [Elements -> Value], tag' = tag,
         l.todo = loc[t].todo, l.orig = loc[t].orig, l.count = loc[t].count,
         l.at \in 0 .. Len(l.todo), l.pc \in {"body", "end"} \cup Storing,
         l.pc \in Storing \cup {"end"} => l.at >= 1,
         l.pc \in Storing => ~l.todo[l.at].readOnly /\ l.mem = tag[l.todo[l.at].e],
         HeldIn(l) = HeldIn(loc[t])
  PROVE  TxInv'
<1>1. LocalOK(loc[t])
  BY Parts
<1>2. LocalOK(l)
  BY <1>1 DEF LocalOK, Storing
<1>3. Becomes(t, l) /\ Fresh(l, tag)
  BY <1>2 DEF Becomes, Fresh
<1> QED BY <1>3, TxStays

\* The body stores into an element it holds read-write: load of the tag.
LEMMA WriteLoadKeeps ==
  ASSUME TxInv, NEW t \in Threads, WriteLoad(t)
  PROVE  TxInv'
<1> PICK i \in loc[t].at + 1 .. Len(loc[t].todo), v \in Value :
      /\ ~loc[t].todo[i].readOnly
      /\ loc' = [loc EXCEPT ![t].pc = "writeData", ![t].at = i, ![t].arg = v,
                            ![t].mem = tag[loc[t].todo[i].e]]
  BY DEF WriteLoad
<1> DEFINE g == tag[loc[t].todo[i].e]
           l == [loc[t] EXCEPT !.pc = "writeData", !.at = i, !.arg = v, !.mem = g]
<1>1. i \in Nat /\ i >= 1 /\ i <= Len(loc[t].todo) /\ Len(loc[t].todo) \in Nat /\ loc[t].pc = "body"
  <2>1. loc[t].at \in Nat /\ Len(loc[t].todo) \in Nat
    BY Parts, Items
  <2> QED BY <2>1 DEF WriteLoad, At
<1>2. g \in Tag
  <2>1. i \in DOMAIN loc[t].todo
    BY <1>1, Parts, Items
  <2>2. loc[t].todo[i].e \in Elements
    BY <2>1, Parts, Items
  <2> QED BY <2>2, Parts
<1>3. loc' = [loc EXCEPT ![t] = l]
  BY Parts DEF Locals
<1> HIDE DEF g
<1>4. /\ l \in Locals /\ l.pc = "writeData" /\ l.todo = loc[t].todo /\ l.orig = loc[t].orig /\ l.at = i
      /\ l.count = loc[t].count /\ l.mem = g
  BY <1>1, <1>2, Parts DEF Locals, PC
<1> HIDE DEF l
<1>5. HeldIn(l) = HeldIn(loc[t])
  BY <1>1, <1>4 DEF HeldIn
<1>6. tag' = tag /\ use' = use /\ data' \in [Elements -> Value]
  BY Parts DEF WriteLoad
<1>7. ~l.todo[l.at].readOnly /\ l.mem = tag[l.todo[l.at].e] /\ l.at \in 0 .. Len(l.todo) /\ l.at >= 1
  BY <1>1, <1>4 DEF g
<1>8. l.pc \in {"body", "end"} \cup Storing /\ loc[t].pc \in {"body", "writeData", "writeStore", "end"}
  BY <1>1, <1>4 DEF Storing
<1> QED BY <1>3, <1>4, <1>5, <1>6, <1>7, <1>8, Working

\* The data word is stored.
LEMMA WriteDataKeeps ==
  ASSUME TxInv, NEW t \in Threads, WriteData(t)
  PROVE  TxInv'
<1> DEFINE l == [loc[t] EXCEPT !.pc = "writeStore"]
<1>1. /\ loc[t].pc = "writeData" /\ LocalOK(loc[t]) /\ loc[t].at >= 1 /\ ~Current(t).readOnly
      /\ loc[t].mem = tag[Current(t).e]
  BY Parts DEF WriteData, At, LocalOK, Fresh, Storing, Current
<1>2. loc' = [loc EXCEPT ![t] = l]
  BY DEF WriteData
<1>3. /\ l \in Locals /\ l.pc = "writeStore" /\ l.todo = loc[t].todo /\ l.orig = loc[t].orig
      /\ l.at = loc[t].at /\ l.count = loc[t].count /\ l.mem = loc[t].mem
  BY Parts DEF Locals, PC
<1> HIDE DEF l
<1>4. HeldIn(l) = HeldIn(loc[t])
  BY <1>1, <1>3 DEF HeldIn
<1>5. tag' = tag /\ use' = use /\ data' \in [Elements -> Value]
  <2>1. loc[t].arg \in Value /\ data \in [Elements -> Value]
    BY Parts DEF Locals
  <2> QED BY <2>1 DEF WriteData
<1>6. l.at \in 0 .. Len(l.todo)
  BY <1>3, Parts, Items
<1>7. ~l.todo[l.at].readOnly /\ l.mem = tag[l.todo[l.at].e] /\ l.at >= 1
  BY <1>1, <1>3 DEF Current
<1>8. l.pc \in {"body", "end"} \cup Storing /\ loc[t].pc \in {"body", "writeData", "writeStore", "end"}
  BY <1>1, <1>3 DEF Storing
<1> QED BY <1>2, <1>3, <1>4, <1>5, <1>6, <1>7, <1>8, Working

\* The tag byte is stored: it is the tag.
LEMMA WriteStoreKeeps ==
  ASSUME TxInv, NEW t \in Threads, WriteStore(t)
  PROVE  TxInv'
<1> DEFINE l == [loc[t] EXCEPT !.pc = "body"]
<1>1. loc[t].pc = "writeStore" /\ LocalOK(loc[t]) /\ loc[t].mem = tag[Current(t).e]
  BY Parts DEF WriteStore, At, Fresh, Storing, Current
<1>2. loc' = [loc EXCEPT ![t] = l]
  BY DEF WriteStore
<1>3. /\ l \in Locals /\ l.pc = "body" /\ l.todo = loc[t].todo /\ l.orig = loc[t].orig
      /\ l.at = loc[t].at /\ l.count = loc[t].count
  BY Parts DEF Locals, PC
<1> HIDE DEF l
<1>4. HeldIn(l) = HeldIn(loc[t])
  BY <1>1, <1>3 DEF HeldIn
<1>5. tag' = tag /\ use' = use /\ data' \in [Elements -> Value]
  BY <1>1, Parts DEF WriteStore
<1>6. l.at \in 0 .. Len(l.todo)
  BY <1>3, Parts, Items
<1> QED BY <1>1, <1>2, <1>3, <1>4, <1>5, <1>6, Working DEF Storing

\* tmEnd is called.
LEMMA EndKeeps ==
  ASSUME TxInv, NEW t \in Threads, End(t)
  PROVE  TxInv'
<1> PICK c \in BOOLEAN : loc' = [loc EXCEPT ![t].pc = "end", ![t].at = 1, ![t].commit = c]
  BY DEF End
<1> DEFINE l == [loc[t] EXCEPT !.pc = "end", !.at = 1, !.commit = c]
<1>1. loc[t].pc = "body" /\ Len(loc[t].todo) # 0 /\ Len(loc[t].todo) \in Nat /\ DOMAIN loc[t].orig \subseteq Nat \ {0}
  <2>1. Len(loc[t].todo) \in Nat /\ DOMAIN loc[t].orig = 1 .. Len(loc[t].orig) /\ Len(loc[t].orig) \in Nat
    BY Parts, Items
  <2> QED BY <2>1, Parts DEF End, At, LocalOK
<1>2. loc' = [loc EXCEPT ![t] = l]
  BY Parts DEF Locals
<1>3. /\ l \in Locals /\ l.pc = "end" /\ l.todo = loc[t].todo /\ l.orig = loc[t].orig /\ l.at = 1
      /\ l.count = loc[t].count
  BY Parts DEF Locals, PC
<1> HIDE DEF l
<1>4. HeldIn(l) = HeldIn(loc[t])
  BY <1>1, <1>3 DEF HeldIn
<1>5. tag' = tag /\ use' = use /\ data' \in [Elements -> Value]
  BY Parts DEF End
<1>6. l.at \in 0 .. Len(l.todo) /\ l.at >= 1
  BY <1>1, <1>3
<1>7. /\ l.pc \in {"body", "end"} \cup Storing /\ l.pc \notin Storing
      /\ loc[t].pc \in {"body", "writeData", "writeStore", "end"}
  BY <1>1, <1>3 DEF Storing
<1> QED BY <1>2, <1>3, <1>4, <1>5, <1>6, <1>7, Working

\* setTag of an element that is held read-write: load of the tag.
LEMMA EndSetLoadKeeps ==
  ASSUME TxInv, NEW t \in Threads, EndSetLoad(t)
  PROVE  TxInv'
<1> DEFINE g == tag[Current(t).e]
           l == [loc[t] EXCEPT !.pc = "setStore", !.mem = g]
<1>1. loc[t].pc = "end" /\ LocalOK(loc[t]) /\ loc[t].at >= 1 /\ ~Current(t).readOnly
  BY Parts DEF EndSetLoad, At, LocalOK
<1>2. g \in Tag
  <2>1. loc[t].at \in DOMAIN loc[t].todo
    BY <1>1, CurrentHeld
  <2>2. loc[t].todo[loc[t].at].e \in Elements
    BY <1>1, <2>1, Items
  <2> QED BY <2>2, Parts DEF Current
<1>3. loc' = [loc EXCEPT ![t] = l]
  BY Parts DEF EndSetLoad, Locals
<1> HIDE DEF g
<1>4. /\ l \in Locals /\ l.pc = "setStore" /\ l.todo = loc[t].todo /\ l.orig = loc[t].orig
      /\ l.at = loc[t].at /\ l.count = loc[t].count /\ l.mem = g
  BY <1>2, Parts DEF Locals, PC
<1> HIDE DEF l
<1>5. HeldIn(l) = HeldIn(loc[t])
  BY <1>1, <1>4 DEF HeldIn
<1>6. tag' = tag /\ use' = use /\ data' \in [Elements -> Value]
  BY Parts DEF EndSetLoad
<1>7. l.at \in 0 .. Len(l.todo)
  BY <1>4, Parts, Items
<1>8. ~l.todo[l.at].readOnly /\ l.mem = tag[l.todo[l.at].e] /\ l.at >= 1
  BY <1>1, <1>4 DEF g, Current
<1>9. l.pc \in {"body", "end"} \cup Storing /\ loc[t].pc \in {"body", "writeData", "writeStore", "end"}
  BY <1>1, <1>4 DEF Storing
<1> QED BY <1>3, <1>4, <1>5, <1>6, <1>7, <1>8, <1>9, Working

\* tmEnd goes on to the next element: the current one, and no other, is no longer held.
LEMMA Advances ==
  ASSUME TxInv, NEW t \in Threads, loc[t].pc \in {"end", "setStore"}, Advance(t, FALSE), use' = use
  PROVE  \E l : /\ Becomes(t, l) /\ l.pc \notin Storing
                /\ \A e, b : Holds(l, e, b) <=> (Holds(loc[t], e, b) /\ e # Current(t).e)
<1>1. /\ LocalOK(loc[t]) /\ loc[t].at >= 1 /\ Len(loc[t].orig) = Len(loc[t].todo)
      /\ DOMAIN loc[t].orig = 1 .. Len(loc[t].orig) /\ Len(loc[t].todo) \in Nat /\ loc[t].at \in Nat
      /\ DOMAIN loc[t].todo = 1 .. Len(loc[t].todo) /\ loc[t].at <= Len(loc[t].todo)
  BY Parts, Items DEF LocalOK, Storing
<1>2. HeldIn(loc[t]) = loc[t].at .. Len(loc[t].todo)
  <2>1. HeldIn(loc[t]) = {i \in DOMAIN loc[t].orig : i >= loc[t].at}
    BY DEF HeldIn
  <2> QED BY <1>1, <2>1
<1>3. ASSUME NEW e, NEW b, NEW i \in HeldIn(loc[t]), loc[t].todo[i] = [e |-> e, readOnly |-> b]
      PROVE  e = Current(t).e <=> i = loc[t].at
  <2>1. i \in DOMAIN loc[t].todo /\ loc[t].at \in DOMAIN loc[t].todo
    BY <1>1, <1>2
  <2>2. loc[t].todo[i].e = e
    BY <1>3
  <2> QED BY <1>1, <2>1, <2>2 DEF LocalOK, Current
<1>4. CASE loc[t].at < Len(loc[t].todo)
  <2> DEFINE q == loc[t].failed \/ FALSE
           l == [loc[t] EXCEPT !.pc = "end", !.at = loc[t].at + 1, !.failed = q]
  <2>1. loc' = [loc EXCEPT ![t].pc = "end", ![t].at = loc[t].at + 1, ![t].failed = q]
    BY <1>4 DEF Advance
  <2>2. q \in {FALSE}
    BY <1>1 DEF LocalOK, Locals
  <2> HIDE DEF q
  <2>3. /\ l \in Locals /\ l.pc = "end" /\ l.at = loc[t].at + 1 /\ l.todo = loc[t].todo
        /\ l.orig = loc[t].orig /\ l.count = loc[t].count
    <3>1. loc[t] \in Locals /\ loc[t].at + 1 \in Nat
      BY <1>1, Parts
    <3> QED BY <2>2, <3>1 DEF Locals, PC
  <2>4. loc' = [loc EXCEPT ![t] = l]
    BY <2>1, Parts DEF Locals
  <2> HIDE DEF l
  <2>5. LocalOK(l) /\ l.pc \notin Storing
    <3>1. l.at <= Len(l.todo) /\ l.at >= 1
      BY <1>1, <1>4, <2>3
    <3> QED BY <1>1, <2>3, <3>1 DEF LocalOK, Storing
  <2>6. HeldIn(l) = HeldIn(loc[t]) \ {loc[t].at}
    BY <1>1, <1>2, <1>4, <2>3 DEF HeldIn
  <2>7. \A e, b : Holds(l, e, b) <=> (Holds(loc[t], e, b) /\ e # Current(t).e)
    BY <1>3, <2>3, <2>6 DEF Holds
  <2> QED BY <2>3, <2>5, <2>7, <2>4 DEF Becomes
<1>5. CASE ~(loc[t].at < Len(loc[t].todo))
  <2> DEFINE l == [Idle EXCEPT !.count = loc[t].count + 1, !.failed = loc[t].failed \/ FALSE]
  <2>1. loc' = [loc EXCEPT ![t] = l]
    BY <1>5 DEF Advance
  <2>2. (loc[t].failed \/ FALSE) = loc[t].failed
    BY <1>1 DEF LocalOK, Locals
  <2>3. LocalOK(l) /\ HeldIn(l) = {} /\ l.pc = "idle" /\ InOrder(use, t, l.todo)
    BY <2>2, Returns
  <2> HIDE DEF l
  <2>4. HeldIn(loc[t]) = {loc[t].at}
    BY <1>1, <1>2, <1>5
  <2>5. \A e, b : Holds(l, e, b) <=> (Holds(loc[t], e, b) /\ e # Current(t).e)
    BY <1>3, <2>3, <2>4 DEF Holds
  <2> QED BY <2>1, <2>3, <2>5 DEF Becomes, Storing
<1> QED BY <1>4, <1>5

\* The current element is given back with the tag g.
LEMMA GivesBack ==
  ASSUME TxInv, NEW t \in Threads, loc[t].pc \in {"end", "setStore"}, Advance(t, FALSE), use' = use,
         data' \in [Elements -> Value], NEW g, tag' = [tag EXCEPT ![Current(t).e] = g],
         Current(t).e \in Elements =>
           CellOK(g, Readers(Current(t).e) \ {t}, Writers(Current(t).e) \ {t})
  PROVE  TxInv'
<1> DEFINE x == Current(t).e
<1>1. PICK l : /\ Becomes(t, l) /\ l.pc \notin Storing
               /\ \A e, b : Holds(l, e, b) <=> (Holds(loc[t], e, b) /\ e # x)
  BY Advances
<1>2. LocalOK(loc[t]) /\ loc[t].pc \in Storing \cup {"end"}
  BY Parts DEF Storing
<1>3. x \in Elements /\ Current(t).readOnly \in BOOLEAN /\ Holds(loc[t], x, Current(t).readOnly)
  BY <1>2, CurrentHeld, Items DEF Current
<1> HIDE DEF x
<1>4. ReadersBy(t, l, x) = Readers(x) \ {t} /\ WritersBy(t, l, x) = Writers(x) \ {t}
  BY <1>1 DEF ReadersBy, WritersBy
<1>5. CellOK(g, ReadersBy(t, l, x), WritersBy(t, l, x)) /\ g \in Tag
  BY <1>3, <1>4 DEF x, CellOK
<1>6. tag' \in [Elements -> Tag] /\ tag'[x] = g /\ \A e \in Elements : e # x => tag'[e] = tag[e]
  BY <1>3, <1>5, Parts DEF x
<1>7. Spares(t, l, x) /\ Fresh(l, tag')
  BY <1>1, <1>6 DEF Spares, Fresh
<1>8. CellOK(tag[x], Readers(x), Writers(x))
  BY <1>3, Parts
<1>9. \A u \in Threads \ {t} : ~Holds(loc[u], x, FALSE)
  <2>1. CASE t \in Writers(x)
    BY <1>8, <2>1 DEF CellOK, Writers
  <2>2. CASE t \in Readers(x)
    BY <1>8, <2>2 DEF CellOK, Writers
  <2>3. t \in Writers(x) \/ t \in Readers(x)
    BY <1>3 DEF Writers, Readers
  <2> QED BY <2>1, <2>2, <2>3
<1> QED BY <1>1, <1>5, <1>6, <1>7, <1>9, TxMoves

\* releaseRW in tmEnd: the lock is there, and the last reader makes the element FULL.
LEMMA EndReleaseKeeps ==
  ASSUME TxInv, NEW t \in Threads, EndRelease(t)
  PROVE  TxInv'
<1> DEFINE x == Current(t).e
           g == tag[x]
<1>1. LocalOK(loc[t]) /\ loc[t].pc = "end" /\ Current(t).readOnly /\ loc[t].pc \in Storing \cup {"end"}
  BY Parts DEF EndRelease, At
<1>2. x \in Elements /\ Current(t).readOnly \in BOOLEAN /\ Holds(loc[t], x, Current(t).readOnly)
  BY <1>1, CurrentHeld, Items DEF Current
<1>3. t \in Readers(x)
  <2>1. Current(t).readOnly = TRUE
    BY <1>1, <1>2
  <2> QED BY <1>2, <2>1 DEF Readers
<1>4. CellOK(g, Readers(x), Writers(x)) /\ RWMax \in Nat \ {0}
  BY <1>2, Parts, TransactionAssumption
<1>5. /\ use' = use /\ data' = data
      /\ IF g.fe = "RW_LOCK" /\ g.rw > 0
         THEN tag' = [tag EXCEPT ![x] = Released(g)] /\ Advance(t, FALSE)
         ELSE UNCHANGED tag /\ Advance(t, TRUE)
  BY DEF EndRelease
<1> HIDE DEF x, g
<1>6. g \in Tag /\ g.fe = "RW_LOCK" /\ Writers(x) = {} /\ IsFiniteSet(Readers(x)) /\ Cardinality(Readers(x)) = g.rw
  BY <1>3, <1>4 DEF CellOK
<1>7. g.rw \in 0 .. RWMax /\ g.rw # 0
  BY <1>3, <1>6, FS_EmptySet DEF Tag
<1>8. IsFiniteSet(Readers(x) \ {t}) /\ Cardinality(Readers(x) \ {t}) = g.rw - 1
  BY <1>3, <1>6, FS_RemoveElement
<1>9. CellOK(Released(g), Readers(x) \ {t}, Writers(x) \ {t})
  <2>1. CASE g.rw = 1
    <3>1. Readers(x) \ {t} = {}
      BY <1>8, <2>1, FS_EmptySet
    <3>2. Released(g) = [fe |-> "FULL", rw |-> 0]
      BY <2>1 DEF Released, FullTag
    <3>3. Released(g) \in Tag /\ Released(g).fe = "FULL" /\ Released(g).rw = 0
      BY <1>4, <3>2 DEF Tag
    <3> HIDE DEF Released
    <3> QED BY <1>6, <3>1, <3>3, FS_EmptySet DEF CellOK
  <2>2. CASE g.rw # 1
    <3>1. Released(g) \in Tag /\ Released(g).fe = "RW_LOCK" /\ Released(g).rw = g.rw - 1
      BY <1>4, <1>6, <1>7, <2>2 DEF Released, Tag
    <3>2. Readers(x) \ {t} # {}
      BY <1>7, <1>8, <2>2, FS_EmptySet
    <3> QED BY <1>6, <1>8, <3>1, <3>2 DEF CellOK
  <2> QED BY <2>1, <2>2
<1>10. tag' = [tag EXCEPT ![x] = Released(g)] /\ Advance(t, FALSE)
  <2>1. g.rw > 0
    BY <1>4, <1>7
  <2> QED BY <1>5, <1>6, <2>1
<1>11. data' \in [Elements -> Value]
  BY <1>5, Parts
<1> QED BY <1>1, <1>5, <1>9, <1>10, <1>11, GivesBack DEF x

\* An element that is held read-write: its tag, and what may be stored there to give it back.
LEMMA WriterGivesBack ==
  ASSUME TxInv, NEW t \in Threads, loc[t].pc \in {"end", "setStore"}, ~Current(t).readOnly,
         NEW g \in Tag, g.fe = "FULL", g.rw = tag[Current(t).e].rw \/ g.rw = 0
  PROVE  /\ Current(t).e \in Elements /\ loc[t].at \in DOMAIN loc[t].orig
         /\ CellOK(g, Readers(Current(t).e) \ {t}, Writers(Current(t).e) \ {t})
<1> DEFINE x == Current(t).e
<1>1. LocalOK(loc[t]) /\ loc[t].pc \in Storing \cup {"end"}
  BY Parts DEF Storing
<1>2. /\ x \in Elements /\ Current(t).readOnly \in BOOLEAN /\ Holds(loc[t], x, Current(t).readOnly)
      /\ loc[t].at \in HeldIn(loc[t])
  BY <1>1, CurrentHeld, Items DEF Current
<1>3. loc[t].at \in DOMAIN loc[t].orig
  BY <1>2 DEF HeldIn
<1> HIDE DEF x
<1>4. t \in Writers(x)
  <2>1. Current(t).readOnly = FALSE
    BY <1>2
  <2> QED BY <1>2, <2>1 DEF Writers
<1>5. CellOK(tag[x], Readers(x), Writers(x))
  BY <1>2, Parts
<1>6. Readers(x) = {} /\ Writers(x) \ {t} = {} /\ tag[x].rw = 0
  <2>1. Readers(x) = {} /\ Writers(x) \ {t} = {}
    BY <1>4, <1>5 DEF CellOK
  <2> QED BY <1>5, <2>1, FS_EmptySet DEF CellOK
<1>7. g.rw = 0
  BY <1>6 DEF x
<1>8. CellOK(g, Readers(x) \ {t}, Writers(x) \ {t})
  BY <1>6, <1>7, FS_EmptySet DEF CellOK
<1> QED BY <1>2, <1>3, <1>8 DEF x

\* setTag in tmEnd: the byte that is stored is the tag, but FULL.
LEMMA EndSetStoreKeeps ==
  ASSUME TxInv, NEW t \in Threads, EndSetStore(t)
  PROVE  TxInv'
<1> DEFINE g == [loc[t].mem EXCEPT !.fe = "FULL"]
<1>1. loc[t].pc = "setStore" /\ loc[t].pc \in Storing
  BY DEF EndSetStore, At, Storing
<1>2. ~Current(t).readOnly /\ loc[t].mem = tag[Current(t).e] /\ loc[t].mem \in Tag
  BY <1>1, Parts DEF LocalOK, Locals, Fresh, Current
<1>3. g \in Tag /\ g.fe = "FULL" /\ g.rw = loc[t].mem.rw
  BY <1>2 DEF Tag
<1>4. tag' = [tag EXCEPT ![Current(t).e] = g] /\ Advance(t, FALSE) /\ use' = use /\ data' \in [Elements -> Value]
  BY Parts DEF EndSetStore
<1> HIDE DEF g
<1>5. CellOK(g, Readers(Current(t).e) \ {t}, Writers(Current(t).e) \ {t})
  BY <1>1, <1>2, <1>3, WriterGivesBack
<1> QED BY <1>1, <1>4, <1>5, GivesBack

\* writeEF in tmEnd: the saved value is stored, and the element is FULL.
LEMMA EndWriteEFKeeps ==
  ASSUME TxInv, NEW t \in Threads, EndWriteEF(t)
  PROVE  TxInv'
<1>1. loc[t].pc = "end" /\ ~Current(t).readOnly
  BY DEF EndWriteEF, At
<1>2. FullTag \in Tag /\ FullTag.fe = "FULL" /\ FullTag.rw = 0
  BY TransactionAssumption DEF FullTag, Tag
<1>3. /\ CellOK(FullTag, Readers(Current(t).e) \ {t}, Writers(Current(t).e) \ {t})
      /\ Current(t).e \in Elements /\ loc[t].at \in DOMAIN loc[t].orig
  BY <1>1, <1>2, WriterGivesBack
<1>4. data' \in [Elements -> Value]
  <2>1. loc[t].orig[loc[t].at] \in Value
    <3>1. loc[t].orig \in Seq(Value)
      BY Parts DEF Locals
    <3> QED BY <1>3, <3>1
  <2> QED BY <1>3, <2>1, Parts DEF EndWriteEF, Restored
<1>5. tag' = [tag EXCEPT ![Current(t).e] = FullTag] /\ Advance(t, FALSE) /\ use' = use
  BY DEF EndWriteEF
<1> QED BY <1>1, <1>3, <1>4, <1>5, GivesBack

-------------------------------------------------------------------------------
(* The theorems *)

\* Every step keeps the invariant.
LEMMA TxInductive ==
  ASSUME Comparable, Distinct, TxInv, [Next]_vars
  PROVE  TxInv'
<1>1. CASE Next
  <2> PICK t \in Threads : Start(t) \/ Observe(t) \/ Step(t)
    BY <1>1 DEF Next
  <2> QED BY StartKeeps, ObserveKeeps, TakeKeeps, WriteLoadKeeps, WriteDataKeeps, WriteStoreKeeps,
             EndKeeps, EndReleaseKeeps, EndSetLoadKeeps, EndSetStoreKeeps, EndWriteEFKeeps,
             ObservedKeeps DEF Step
<1>2. CASE UNCHANGED vars
  BY <1>2 DEF vars, TxInv, Fresh, Readers, Writers
<1> QED BY <1>1, <1>2

\* The invariant holds of the specification.
LEMMA TxInvHolds == ASSUME Comparable, Distinct PROVE Spec => []TxInv
<1>1. TxInv /\ [Next]_vars => TxInv'
  BY TxInductive
<1> QED BY InitTx, <1>1, PTL DEF Spec

\* The locals of a transaction are well typed: tmStart and tmEnd stay within the list of
\* its elements, and a stored tag byte is a tag.
THEOREM TransactionsTyped == ASSUME Comparable, Distinct PROVE Spec => []TypeOK
<1>1. TxInv => TypeOK
  <2> SUFFICES ASSUME TxInv, NEW t \in Threads
               PROVE  /\ loc[t].pc \in PC /\ loc[t].count \in 0 .. MaxTx /\ loc[t].mem \in Tag
                      /\ loc[t].todo \in Seq(Item) /\ loc[t].orig \in Seq(Value)
                      /\ Len(loc[t].orig) <= Len(loc[t].todo) /\ loc[t].at \in 0 .. Len(loc[t].todo)
    BY DEF TxInv, TypeOK
  <2>1. loc[t].at \in 0 .. Len(loc[t].todo) /\ Len(loc[t].orig) <= Len(loc[t].todo)
    BY Parts, Items
  <2> QED BY <2>1, Parts DEF Locals
<1> QED BY <1>1, TxInvHolds, PTL

\* ems.js:155-183 and tmEnd: an element is EMPTY exactly while one transaction holds it
\* read-write, its reader count is the number of transactions that hold it read-only, and no
\* releaseRW of tmEnd fails, although write and setTag store tag bytes they have loaded
\* earlier.
THEOREM ElementsIsolated == ASSUME Comparable, Distinct PROVE Spec => []Isolated
<1>1. TxInv => Isolated
  <2> SUFFICES ASSUME TxInv PROVE Isolated
    OBVIOUS
  <2>1. \A t \in Threads : ~loc[t].failed
    BY Parts, AtRest
  <2>2. ASSUME NEW e \in Elements
        PROVE  /\ Cardinality(Holders(e, FALSE)) = IF tag[e].fe = "EMPTY" THEN 1 ELSE 0
               /\ Cardinality(Holders(e, TRUE)) = tag[e].rw
    <3>1. Holders(e, FALSE) = Writers(e) /\ Holders(e, TRUE) = Readers(e)
      BY DEF Holders, Writers, Readers, Holds, Held, HeldIn, Ending, At
    <3>2. CellOK(tag[e], Readers(e), Writers(e))
      BY DEF TxInv
    <3>3. CASE tag[e].fe = "EMPTY"
      <4>1. PICK w : w \in Writers(e)
        BY <3>2, <3>3 DEF CellOK
      <4>2. Writers(e) = {w}
        BY <3>2, <4>1 DEF CellOK
      <4> QED BY <3>1, <3>2, <3>3, <4>2, FS_Singleton DEF CellOK
    <3>4. CASE tag[e].fe # "EMPTY"
      BY <3>1, <3>2, <3>4, FS_EmptySet DEF CellOK
    <3> QED BY <3>3, <3>4
  <2> QED BY <2>1, <2>2 DEF Isolated
<1> QED BY <1>1, TxInvHolds, PTL

\* The position by number and index orders the elements like their pair.
LEMMA PositionsDiffer ==
  ASSUME NEW m \in Nat, NEW p \in Nat, NEW q \in Nat, NEW a \in Nat, NEW b \in Nat,
         a < m, p < q
  PROVE  p * m + a < q * m + b
<1>1. (p + 1) * m = p * m + m
  OBVIOUS
<1>2. q * m = (p + 1) * m + (q - p - 1) * m
  OBVIOUS
<1>3. (q - p - 1) * m >= 0
  OBVIOUS
<1>4. p * m \in Nat /\ q * m \in Nat
  OBVIOUS
<1> QED BY <1>1, <1>2, <1>3, <1>4

\* In the global ordering one of two elements comes before the other, for all threads alike.
LEMMA OrderTotal ==
  ASSUME GlobalOrder, use \in Uses, NEW t \in Threads, NEW v \in Threads,
         NEW a \in Elements, NEW b \in Elements
  PROVE  /\ BeforeIn(use, t, a, b) <=> BeforeIn(use, v, a, b)
         /\ BeforeIn(use, t, a, b) <=> Before(t, a, b)
         /\ a # b => BeforeIn(use, t, a, b) \/ BeforeIn(use, t, b, a)
<1> DEFINE p == use.number[t][a.arr]
           q == use.number[t][b.arr]
<1>1. /\ p \in Nat /\ q \in Nat /\ a.key \in Nat /\ b.key \in Nat /\ a.rank \in Nat /\ b.rank \in Nat
      /\ MaxElem \in Nat /\ use.lang \in {"js", "py"}
  BY TransactionAssumption
<1>2. (BeforeIn(use, t, a, b) <=> BeforeIn(use, v, a, b)) /\ (BeforeIn(use, t, a, b) <=> Before(t, a, b))
  BY DEF GlobalOrder, BeforeIn, Before, Position
<1>3. a.arr # b.arr => p # q
  BY DEF GlobalOrder
<1>4. ASSUME a # b, use.lang = "js"
      PROVE  BeforeIn(use, t, a, b) \/ BeforeIn(use, t, b, a)
  <2>1. ~a.isText /\ ~b.isText /\ a.key < MaxElem /\ b.key < MaxElem /\ (a.arr = b.arr => a.key # b.key)
    BY <1>4 DEF GlobalOrder
  <2>2. /\ BeforeIn(use, t, a, b) <=> p * MaxElem + a.key < q * MaxElem + b.key
        /\ BeforeIn(use, t, b, a) <=> q * MaxElem + b.key < p * MaxElem + a.key
    BY <1>4, <2>1 DEF BeforeIn
  <2>3. CASE a.arr = b.arr
    <3>1. p = q /\ p * MaxElem \in Nat /\ a.key # b.key
      BY <1>1, <2>1, <2>3
    <3> HIDE DEF p, q
    <3> QED BY <1>1, <2>2, <3>1
  <2>4. CASE a.arr # b.arr
    <3>1. p # q
      BY <1>3, <2>4
    <3> HIDE DEF p, q
    <3>2. p < q \/ q < p
      BY <1>1, <3>1
    <3> QED BY <1>1, <2>1, <2>2, <3>2, PositionsDiffer
  <2> QED BY <2>3, <2>4
<1>5. ASSUME a # b, use.lang = "py"
      PROVE  BeforeIn(use, t, a, b) \/ BeforeIn(use, t, b, a)
  <2>1. a.arr = b.arr => p = q /\ a.rank # b.rank
    BY <1>5 DEF GlobalOrder
  <2>2. /\ BeforeIn(use, t, a, b) <=> (p < q \/ (p = q /\ a.rank < b.rank))
        /\ BeforeIn(use, t, b, a) <=> (q < p \/ (q = p /\ b.rank < a.rank))
    BY <1>5 DEF BeforeIn
  <2> HIDE DEF p, q
  <2> QED BY <1>1, <1>3, <2>1, <2>2
<1> QED BY <1>1, <1>2, <1>4, <1>5

\* The global ordering compares keys that are numbers.
LEMMA OrderComparable == GlobalOrder => Comparable
<1> SUFFICES ASSUME GlobalOrder, NEW u \in Uses, NEW t \in Threads, NEW r \in u.requests[t],
                    u.lang = "js", NEW i \in DOMAIN r, NEW j \in DOMAIN r
             PROVE  r[i].e.isText = r[j].e.isText
  BY DEF Comparable
<1>1. \A a \in Elements : a.isText = FALSE
  <2>1. \A a \in Elements : a.isText \in BOOLEAN /\ ~a.isText
    BY TransactionAssumption DEF GlobalOrder
  <2> QED BY <2>1
<1>2. r \in Seq([e : Elements, flag : {"absent", "true", "false"}])
  BY TransactionAssumption
<1>3. \A g \in [e : Elements, flag : {"absent", "true", "false"}] : g.e \in Elements
  OBVIOUS
<1>4. r[i].e \in Elements /\ r[j].e \in Elements
  <2> DEFINE Given == [e : Elements, flag : {"absent", "true", "false"}]
  <2>1. r \in Seq(Given) /\ \A g \in Given : g.e \in Elements
    BY <1>2, <1>3
  <2> HIDE DEF Given
  <2> QED BY <2>1
<1> QED BY <1>1, <1>4

\* What a transaction waits for is held by another one, which is not idle and, if it waits
\* too, does so for an element further on in the global ordering.
LEMMA HolderIsAhead ==
  ASSUME TxInv, GlobalOrder, NEW t \in Threads, Waits(t)
  PROVE  /\ Wanted(t).e \in Elements
         /\ \E u \in Threads : /\ ~At(u, "idle")
                               /\ Waits(u) => /\ Wanted(u).e \in Elements
                                              /\ BeforeIn(use, u, Wanted(t).e, Wanted(u).e)
<1> DEFINE x == Wanted(t).e
           W(v) == loc[v].todo[Len(loc[v].orig) + 1]
<1>1. ASSUME NEW v \in Threads, Waits(v)
      PROVE  /\ loc[v].pc = "take" /\ Len(loc[v].orig) \in Nat
             /\ Len(loc[v].orig) + 1 \in DOMAIN loc[v].todo /\ Wanted(v).e \in Elements
             /\ HeldIn(loc[v]) = 1 .. Len(loc[v].orig)
  <2>1. loc[v].pc = "take" /\ Len(loc[v].orig) < Len(loc[v].todo) /\ LocalOK(loc[v])
    BY <1>1, Parts DEF Waits, At, LocalOK
  <2>2. Len(loc[v].orig) + 1 \in DOMAIN loc[v].todo /\ Len(loc[v].orig) \in Nat
        /\ DOMAIN loc[v].orig = 1 .. Len(loc[v].orig)
    BY <2>1, Items
  <2>3. Wanted(v).e \in Elements
    BY <2>1, <2>2, Items DEF Wanted
  <2> QED BY <2>1, <2>2, <2>3 DEF HeldIn
<1>2. x \in Elements /\ CellOK(tag[x], Readers(x), Writers(x))
  BY <1>1, Parts
<1>3. tag[x].fe # "FULL"
  BY DEF Waits, Available
<1> HIDE DEF x
<1>4. Readers(x) # {} \/ Writers(x) # {}
  BY <1>2, <1>3 DEF CellOK, Tag
<1>5. PICK u \in Threads, b \in BOOLEAN : Holds(loc[u], x, b)
  BY <1>4 DEF Readers, Writers
<1>6. PICK i \in HeldIn(loc[u]) : loc[u].todo[i] = [e |-> x, readOnly |-> b]
  BY <1>5 DEF Holds
<1>7. ~At(u, "idle")
  <2>1. loc[u].pc = "idle" => loc[u].orig = <<>>
    BY Parts, AtRest
  <2>2. loc[u].orig = <<>> => HeldIn(loc[u]) = {}
    BY DEF HeldIn
  <2> QED BY <1>6, <2>1, <2>2 DEF At
<1>8. ASSUME Waits(u)
      PROVE  Wanted(u).e \in Elements /\ BeforeIn(use, u, x, Wanted(u).e)
  <2> DEFINE k == Len(loc[u].orig) + 1
  <2>1. k \in DOMAIN loc[u].todo /\ i \in DOMAIN loc[u].todo /\ i < k /\ i # k /\ Wanted(u).e \in Elements
    BY <1>1, <1>6, <1>8, Parts, Items
  <2>2. loc[u].todo[k].e = Wanted(u).e /\ loc[u].todo[i].e = x
    BY <1>6 DEF Wanted
  <2> HIDE DEF k
  <2>3. x # Wanted(u).e
    BY <2>1, <2>2, Parts DEF LocalOK
  <2>4. ~BeforeIn(use, u, Wanted(u).e, x)
    BY <2>1, <2>2 DEF TxInv, InOrder
  <2> QED BY <1>2, <2>1, <2>3, <2>4, Parts, OrderTotal
<1> QED BY <1>2, <1>7, <1>8 DEF x

\* ems.js:155-161, the elements are "sorted for deadlock free acquisition": the transactions in
\* progress never all wait for one another.  Of those that wait, one waits for
\* the last element in the global ordering, and the holder of that element does not wait.
THEOREM TransactionsNeverDeadlock ==
  ASSUME Distinct, GlobalOrder, IsFiniteSet(Threads)
  PROVE  Spec => []NoDeadlock
<1>1. TxInv => NoDeadlock
  <2> SUFFICES ASSUME TxInv, NEW v \in Threads, ~At(v, "idle"),
                      \A t \in Threads : ~At(t, "idle") => Waits(t)
               PROVE  FALSE
    BY DEF NoDeadlock
  <2> DEFINE T == {t \in Threads : ~At(t, "idle")}
             D == {Wanted(t).e : t \in T}
             f == [t \in T |-> Wanted(t).e]
             R == {p \in D \X D : BeforeIn(use, v, p[1], p[2])}
             n == Cardinality(D)
  <2>1. \A d \in D : d \in Elements /\ \E e \in D : BeforeIn(use, v, d, e)
    <3> SUFFICES ASSUME NEW t \in T
                 PROVE  /\ Wanted(t).e \in Elements
                        /\ \E e \in D : BeforeIn(use, v, Wanted(t).e, e)
      OBVIOUS
    <3>1. Waits(t)
      OBVIOUS
    <3>2. Wanted(t).e \in Elements
      BY <3>1, HolderIsAhead
    <3>3. PICK u \in T : Wanted(u).e \in Elements /\ BeforeIn(use, u, Wanted(t).e, Wanted(u).e)
      BY <3>1, HolderIsAhead
    <3>4. BeforeIn(use, v, Wanted(t).e, Wanted(u).e)
      BY <3>2, <3>3, Parts, OrderTotal
    <3> QED BY <3>2, <3>4
  <2>2. IsFiniteSet(T)
    BY FS_Subset
  <2>3. f \in Surjection(T, D)
    BY DEF Surjection
  <2>4. IsFiniteSet(D)
    BY <2>2, <2>3, FS_Surjection
  <2>5. v \in T /\ D # {}
    OBVIOUS
  <2>6. \A a, b \in D : <<a, b>> \in R <=> BeforeIn(use, v, a, b)
    OBVIOUS
  <2>7. D \subseteq Elements
    BY <2>1
  <2> HIDE DEF T, D, f, R
  <2>8. Orders(R, D)
    <3>1. ASSUME NEW a \in D, NEW b \in D, NEW c \in D
          PROVE  /\ ~BeforeIn(use, v, a, a)
                 /\ BeforeIn(use, v, a, b) /\ BeforeIn(use, v, b, c) => BeforeIn(use, v, a, c)
                 /\ a # b => BeforeIn(use, v, a, b) \/ BeforeIn(use, v, b, a)
      <4>1. a \in Elements /\ b \in Elements /\ c \in Elements /\ use \in Uses
        BY <2>7, Parts
      <4>2. use.lang = "js" => a.isText = b.isText /\ b.isText = c.isText
        <5> SUFFICES ASSUME use.lang = "js" PROVE a.isText = b.isText /\ b.isText = c.isText
          OBVIOUS
        <5>1. \A e \in Elements : e.isText \in BOOLEAN /\ ~e.isText
          BY <4>1, TransactionAssumption DEF GlobalOrder
        <5> QED BY <4>1, <5>1
      <4>3. ~Before(v, a, a) /\ (Before(v, a, b) /\ Before(v, b, c) => Before(v, a, c))
        BY <4>1, <4>2, WeakOrder
      <4>4. /\ BeforeIn(use, v, a, a) <=> Before(v, a, a)
            /\ BeforeIn(use, v, a, b) <=> Before(v, a, b)
            /\ BeforeIn(use, v, b, c) <=> Before(v, b, c)
            /\ BeforeIn(use, v, a, c) <=> Before(v, a, c)
        BY <4>1, OrderTotal
      <4>5. a # b => BeforeIn(use, v, a, b) \/ BeforeIn(use, v, b, a)
        BY <4>1, OrderTotal
      <4> QED BY <4>3, <4>4, <4>5
    <3> QED BY <2>6, <3>1 DEF Orders
  <2>9. n \in Nat /\ n # 0
    BY <2>4, <2>5, FS_CardinalityType, FS_EmptySet
  <2>10. PICK d \in D : Rank(R, D, d) = n
    <3>1. n \in 1 .. n
      BY <2>9
    <3> QED BY <2>4, <2>8, <3>1, Ranking
  <2>11. PICK e \in D : <<d, e>> \in R
    BY <2>1, <2>6
  <2>12. Rank(R, D, d) < Rank(R, D, e) /\ Rank(R, D, e) \in 1 .. n
    BY <2>4, <2>8, <2>11, Ranking
  <2> QED BY <2>9, <2>10, <2>12
<1> QED BY <1>1, OrderComparable, TxInvHolds, PTL

-------------------------------------------------------------------------------
(* Serializability *)

\* Nobody stores into an element that a transaction holds read-only.
ReadStable ==
  \A t \in Threads : \A i \in HeldIn(loc[t]) :
    loc[t].todo[i].readOnly => data[loc[t].todo[i].e] = loc[t].orig[i]

\* The positions at which a thread with locals l hides the data word of e.
Hides(l, e) ==
  {i \in HeldIn(l) : /\ l.todo[i] = [e |-> e, readOnly |-> FALSE]
                     /\ ~(l.pc \in {"end", "setStore"} /\ l.commit)}

StoreOf(lc, dt) ==
  [e \in Elements |->
     IF \E t \in Threads : Hides(lc[t], e) # {}
     THEN LET t == CHOOSE t \in Threads : Hides(lc[t], e) # {}
          IN  lc[t].orig[CHOOSE i \in Hides(lc[t], e) : TRUE]
     ELSE dt[e]]

Closed == {"end", "setStore", "observed"}
Opening == {"take", "body", "writeData", "writeStore"}

\* What the abstract client sees of locals l.
CellsOf(l) == {l.todo[i].e : i \in DOMAIN l.todo}
WritableOf(l) == {l.todo[i].e : i \in {j \in DOMAIN l.todo : ~l.todo[j].readOnly}}
SeenOf(l) == [e \in CellsOf(l) |-> l.orig[CHOOSE i \in DOMAIN l.todo : l.todo[i].e = e]]

Shown(l) ==
  [state |-> IF l.pc = "idle" THEN "idle" ELSE IF l.pc \in Closed THEN "closed" ELSE "open",
   cells |-> CellsOf(l),
   writable |-> WritableOf(l),
   seen |-> IF l.pc \in Closed THEN SeenOf(l) ELSE <<>>]

LEMMA Mapping ==
  /\ Store = StoreOf(loc, data) /\ Store' = StoreOf(loc', data')
  /\ Client = [t \in Threads |-> Shown(loc[t])] /\ Client' = [t \in Threads |-> Shown(loc'[t])]
<1>1. Store = StoreOf(loc, data)
  BY DEF Store, StoreOf, Hidden, Hides, Held, HeldIn, Ending, At
<1>2. Store' = StoreOf(loc', data')
  BY DEF Store, StoreOf, Hidden, Hides, Held, HeldIn, Ending, At
<1>3. Client = [t \in Threads |-> Shown(loc[t])] /\ Client' = [t \in Threads |-> Shown(loc'[t])]
  <2> DEFINE Sees(l, end, observed) ==
               [state |-> IF l.pc = "idle" THEN "idle" ELSE IF end \/ observed THEN "closed" ELSE "open",
                cells |-> CellsOf(l), writable |-> WritableOf(l),
                seen |-> IF end \/ observed THEN SeenOf(l) ELSE <<>>]
  <2>1. Client = [t \in Threads |-> Sees(loc[t], Ending(t), At(t, "observed"))]
    BY DEF Client, CellsOf, WritableOf, SeenOf, At
  <2>2. Client' = [t \in Threads |-> Sees(loc'[t], Ending(t)', At(t, "observed")')]
    BY DEF Client, CellsOf, WritableOf, SeenOf, At
  <2>3. \A l : Shown(l) = Sees(l, l.pc \in {"end", "setStore"}, l.pc = "observed")
    BY DEF Shown, Closed
  <2> QED BY <2>1, <2>2, <2>3 DEF Ending, At
<1> QED BY <1>1, <1>2, <1>3

\* The abstract state of a thread between two calls, in the middle and at the end of one.
LEMMA ShownAt ==
  ASSUME NEW l
  PROVE  /\ l.pc = "idle" /\ l.todo = <<>> => Shown(l) = Cells!Idle
         /\ l.pc \in Opening => Shown(l) = [state |-> "open", cells |-> CellsOf(l),
                                            writable |-> WritableOf(l), seen |-> <<>>]
         /\ l.pc \in Closed => Shown(l) = [state |-> "closed", cells |-> CellsOf(l),
                                           writable |-> WritableOf(l), seen |-> SeenOf(l)]
<1>1. l.todo = <<>> => CellsOf(l) = {} /\ WritableOf(l) = {}
  BY DEF CellsOf, WritableOf
<1> QED BY <1>1 DEF Shown, Opening, Closed, Cells!Idle

\* At most one thread hides an element, at one position.
OneHider(lc) ==
  \A e \in Elements, t, u \in Threads : \A i \in Hides(lc[t], e), j \in Hides(lc[u], e) : t = u /\ i = j

LEMMA Hiders == (TxInv => OneHider(loc)) /\ (TxInv' => OneHider(loc'))
<1>1. ASSUME NEW lc, \A t \in Threads : LocalOK(lc[t]),
             \A e \in Elements, t, u \in Threads : Holds(lc[t], e, FALSE) /\ Holds(lc[u], e, FALSE) => t = u
      PROVE  OneHider(lc)
  <2> SUFFICES ASSUME NEW e \in Elements, NEW t \in Threads, NEW u \in Threads,
                      NEW i \in Hides(lc[t], e), NEW j \in Hides(lc[u], e)
               PROVE  t = u /\ i = j
    BY DEF OneHider
  <2>1. /\ i \in HeldIn(lc[t]) /\ lc[t].todo[i] = [e |-> e, readOnly |-> FALSE]
        /\ j \in HeldIn(lc[u]) /\ lc[u].todo[j] = [e |-> e, readOnly |-> FALSE]
    BY DEF Hides
  <2>2. t = u
    BY <1>1, <2>1 DEF Holds
  <2>3. i \in DOMAIN lc[t].todo /\ j \in DOMAIN lc[t].todo
    BY <1>1, <2>1, <2>2, Items
  <2> QED BY <1>1, <2>1, <2>2, <2>3 DEF LocalOK
<1>2. ASSUME TxInv PROVE OneHider(loc)
  BY <1>1, <1>2 DEF TxInv, CellOK, Writers
<1>3. ASSUME TxInv' PROVE OneHider(loc')
  <2>1. \A t \in Threads : LocalOK(loc'[t])
    BY <1>3 DEF TxInv, LocalOK
  <2>2. \A e \in Elements : \A t, u \in Writers(e)' : t = u
    BY <1>3 DEF TxInv, CellOK
  <2>3. \A e \in Elements : Writers(e)' = {t \in Threads : Holds(loc'[t], e, FALSE)}
    BY DEF Writers, Holds, HeldIn
  <2> QED BY <1>1, <2>1, <2>2, <2>3
<1> QED BY <1>2, <1>3

\* The value of an element in the store.
LEMMA Visible ==
  ASSUME NEW lc, NEW dt, OneHider(lc), NEW e \in Elements
  PROVE  /\ \A t \in Threads : \A i \in Hides(lc[t], e) : StoreOf(lc, dt)[e] = lc[t].orig[i]
         /\ (\A t \in Threads : Hides(lc[t], e) = {}) => StoreOf(lc, dt)[e] = dt[e]
<1>1. ASSUME NEW t \in Threads, NEW i \in Hides(lc[t], e)
      PROVE  StoreOf(lc, dt)[e] = lc[t].orig[i]
  <2> DEFINE u == CHOOSE u \in Threads : Hides(lc[u], e) # {}
             j == CHOOSE j \in Hides(lc[u], e) : TRUE
  <2>1. u \in Threads /\ Hides(lc[u], e) # {}
    BY <1>1
  <2>2. j \in Hides(lc[u], e)
    BY <2>1
  <2>3. StoreOf(lc, dt)[e] = lc[u].orig[j]
    BY <1>1 DEF StoreOf
  <2> HIDE DEF u, j
  <2>4. u = t /\ j = i
    BY <1>1, <2>1, <2>2 DEF OneHider
  <2> QED BY <2>3, <2>4
<1>2. (\A t \in Threads : Hides(lc[t], e) = {}) => StoreOf(lc, dt)[e] = dt[e]
  BY DEF StoreOf
<1> QED BY <1>1, <1>2

\* What the store shows before and after a step.
LEMMA StoreNow ==
  ASSUME TxInv, NEW e \in Elements
  PROVE  /\ \A t \in Threads : \A i \in Hides(loc[t], e) : Store[e] = loc[t].orig[i]
         /\ (\A t \in Threads : Hides(loc[t], e) = {}) => Store[e] = data[e]
<1>1. OneHider(loc) /\ Store = StoreOf(loc, data)
  BY Hiders, Mapping
<1>2. /\ \A t \in Threads : \A i \in Hides(loc[t], e) : StoreOf(loc, data)[e] = loc[t].orig[i]
      /\ (\A t \in Threads : Hides(loc[t], e) = {}) => StoreOf(loc, data)[e] = data[e]
  BY <1>1, Visible
<1> QED BY <1>1, <1>2

LEMMA StoreNext ==
  ASSUME TxInv', NEW e \in Elements
  PROVE  /\ \A t \in Threads : \A i \in Hides(loc'[t], e) : Store'[e] = loc'[t].orig[i]
         /\ (\A t \in Threads : Hides(loc'[t], e) = {}) => Store'[e] = data'[e]
<1> DEFINE lc == loc'
           dt == data'
<1>1. OneHider(lc) /\ Store' = StoreOf(lc, dt)
  BY Hiders, Mapping
<1> HIDE DEF lc, dt
<1>2. /\ \A t \in Threads : \A i \in Hides(lc[t], e) : StoreOf(lc, dt)[e] = lc[t].orig[i]
      /\ (\A t \in Threads : Hides(lc[t], e) = {}) => StoreOf(lc, dt)[e] = dt[e]
  BY <1>1, Visible
<1> QED BY <1>1, <1>2 DEF lc, dt

Mapped == [Cells!Next]_(Cells!vars)

\* Locals k and l hide the same of e.
HidesAlike(k, l, e) == Hides(l, e) = Hides(k, e) /\ \A i \in Hides(l, e) : l.orig[i] = k.orig[i]

\* A step of t that leaves what it hides of e, and the data word unless it is hidden, alone.
LEMMA VisibleStays ==
  ASSUME TxInv, TxInv', NEW t \in Threads, NEW l, loc' = [loc EXCEPT ![t] = l], NEW e \in Elements,
         HidesAlike(loc[t], l, e), data'[e] = data[e] \/ Hides(l, e) # {}
  PROVE  Store'[e] = Store[e]
<1>0. Hides(l, e) = Hides(loc[t], e) /\ \A i \in Hides(l, e) : l.orig[i] = loc[t].orig[i]
  BY DEF HidesAlike
<1>1. loc'[t] = l /\ \A u \in Threads : u # t => loc'[u] = loc[u]
  BY Parts
<1>2. CASE \E u \in Threads : Hides(loc[u], e) # {}
  <2>1. PICK u \in Threads : Hides(loc[u], e) # {}
    BY <1>2
  <2> PICK i \in Hides(loc[u], e) : TRUE
    BY <2>1
  <2>2. i \in Hides(loc'[u], e) /\ loc'[u].orig[i] = loc[u].orig[i]
    BY <1>0, <1>1
  <2>3. Store'[e] = loc'[u].orig[i]
    BY <2>2, StoreNext
  <2>4. Store[e] = loc[u].orig[i]
    BY StoreNow
  <2> QED BY <2>2, <2>3, <2>4
<1>3. CASE \A u \in Threads : Hides(loc[u], e) = {}
  <2>1. \A u \in Threads : Hides(loc'[u], e) = {}
    BY <1>0, <1>1, <1>3
  <2>2. Store'[e] = data'[e] /\ Store[e] = data[e]
    BY <1>3, <2>1, StoreNow, StoreNext
  <2> QED BY <1>0, <1>3, <2>2
<1> QED BY <1>2, <1>3

\* The store is a function on the elements.
LEMMA SameStore == ASSUME \A e \in Elements : Store'[e] = Store[e] PROVE Store' = Store
<1>1. Store = [e \in Elements |-> Store[e]] /\ Store' = [e \in Elements |-> Store'[e]]
  BY DEF Store
<1> QED BY <1>1, Zenon

\* What t sees changes alone.
LEMMA ClientMoves ==
  ASSUME TxInv, NEW t \in Threads, NEW l, loc' = [loc EXCEPT ![t] = l]
  PROVE  Client' = [Client EXCEPT ![t] = Shown(l)] /\ Client[t] = Shown(loc[t])
<1>1. loc'[t] = l /\ \A u \in Threads : u # t => loc'[u] = loc[u]
  BY Parts
<1>2. Client = [u \in Threads |-> Shown(loc[u])] /\ Client' = [u \in Threads |-> Shown(loc'[u])]
  BY Mapping
<1>3. [Client EXCEPT ![t] = Shown(l)] = [u \in Threads |-> Shown(loc'[u])]
  <2>1. \A u \in Threads : Shown(loc'[u]) = IF u = t THEN Shown(l) ELSE Shown(loc[u])
    BY <1>1
  <2> DEFINE S(u) == Shown(loc[u])
             N(u) == Shown(loc'[u])
             z == Shown(l)
  <2>2. Client = [u \in Threads |-> S(u)] /\ \A u \in Threads : N(u) = IF u = t THEN z ELSE S(u)
    BY <1>2, <2>1
  <2> HIDE DEF S, N, z
  <2>3. [Client EXCEPT ![t] = z] = [u \in Threads |-> N(u)]
    BY <2>2
  <2> QED BY <2>3 DEF N, z
<1>4. Client[t] = Shown(loc[t])
  BY <1>2
<1> QED BY <1>2, <1>3, <1>4

LEMMA SameClient ==
  ASSUME TxInv, NEW t \in Threads, NEW l, loc' = [loc EXCEPT ![t] = l], Shown(l) = Shown(loc[t])
  PROVE  Client' = Client
<1> DEFINE z == Shown(l)
<1>1. Client' = [Client EXCEPT ![t] = z] /\ Client[t] = z
  BY ClientMoves
<1>2. DOMAIN Client = Threads /\ Client = [u \in Threads |-> Client[u]]
  BY DEF Client
<1> HIDE DEF z
<1> QED BY <1>1, <1>2

\* No element is held read-only by one thread and read-write by another.
LEMMA NotBoth ==
  ASSUME TxInv, NEW e \in Elements, NEW t \in Threads, NEW u \in Threads, Holds(loc[t], e, TRUE)
  PROVE  ~Holds(loc[u], e, FALSE)
<1>1. CellOK(tag[e], Readers(e), Writers(e)) /\ t \in Readers(e)
  BY Parts DEF Readers
<1> QED BY <1>1 DEF CellOK, Writers

\* A store into an element that is held read-write is not read by those who hold others.
LEMMA ReadersStay ==
  ASSUME TxInv, ReadStable, NEW t \in Threads, NEW l, loc' = [loc EXCEPT ![t] = l],
         \A i \in HeldIn(l) : l.todo[i].readOnly => data'[l.todo[i].e] = l.orig[i],
         \/ data' = data
         \/ \E x \in Elements : Holds(loc[t], x, FALSE) /\ \A e \in Elements : e # x => data'[e] = data[e]
  PROVE  ReadStable'
<1>1. loc'[t] = l /\ \A u \in Threads : u # t => loc'[u] = loc[u]
  BY Parts
<1>2. ASSUME NEW u \in Threads, u # t, NEW i \in HeldIn(loc[u]), loc[u].todo[i].readOnly
      PROVE  data'[loc[u].todo[i].e] = loc[u].orig[i]
  <2> DEFINE e == loc[u].todo[i].e
  <2>1. LocalOK(loc[u]) /\ data[e] = loc[u].orig[i]
    BY <1>2, Parts DEF ReadStable
  <2>2. i \in DOMAIN loc[u].todo
    BY <2>1, Items
  <2>3. e \in Elements /\ loc[u].todo[i].readOnly = TRUE
    BY <1>2, <2>1, <2>2, Items
  <2>4. Holds(loc[u], e, TRUE)
    BY <1>2, <2>1, <2>3, HoldsItem
  <2> HIDE DEF e
  <2>5. data'[e] = data[e]
    BY <2>3, <2>4, NotBoth
  <2> QED BY <2>1, <2>5 DEF e
<1> QED BY <1>1, <1>2 DEF ReadStable, HeldIn

\* A step of the body or of tmEnd that takes and gives back nothing.
LEMMA QuietMaps ==
  ASSUME TxInv, TxInv', ReadStable, NEW t \in Threads, NEW l, loc' = [loc EXCEPT ![t] = l],
         l.todo = loc[t].todo, l.orig = loc[t].orig, l.commit = loc[t].commit,
         HeldIn(l) = HeldIn(loc[t]),
         \/ loc[t].pc \in Opening /\ l.pc \in Opening
         \/ loc[t].pc \in {"end", "setStore"} /\ l.pc \in {"end", "setStore"},
         \/ data' = data
         \/ \E x \in Elements : Hides(loc[t], x) # {} /\ \A e \in Elements : e # x => data'[e] = data[e]
  PROVE  ReadStable' /\ Mapped
<1>1. \A e : Hides(l, e) = Hides(loc[t], e)
  BY DEF Hides, Opening
<1>2. Store' = Store
  <2>1. ASSUME NEW e \in Elements
        PROVE  Store'[e] = Store[e]
    <3>1. data'[e] = data[e] \/ Hides(l, e) # {}
      BY <1>1
    <3>2. HidesAlike(loc[t], l, e)
      BY <1>1 DEF HidesAlike
    <3> QED BY <3>1, <3>2, VisibleStays
  <2> QED BY <2>1, SameStore
<1>3. Shown(l) = Shown(loc[t])
  <2>1. CellsOf(l) = CellsOf(loc[t]) /\ WritableOf(l) = WritableOf(loc[t]) /\ SeenOf(l) = SeenOf(loc[t])
    BY DEF CellsOf, WritableOf, SeenOf
  <2>2. (l.pc \in Opening /\ loc[t].pc \in Opening) \/ (l.pc \in Closed /\ loc[t].pc \in Closed)
    BY DEF Closed
  <2> QED BY <2>1, <2>2, ShownAt
<1>4. \A x : Hides(loc[t], x) # {} => Holds(loc[t], x, FALSE)
  BY DEF Hides, Holds
<1>5. ASSUME NEW i \in HeldIn(l), l.todo[i].readOnly
      PROVE  data'[l.todo[i].e] = l.orig[i]
  <2>1. LocalOK(loc[t]) /\ data[loc[t].todo[i].e] = loc[t].orig[i]
    BY <1>5, Parts DEF ReadStable
  <2>2. i \in DOMAIN loc[t].todo
    BY <2>1, <1>5, Items
  <2>3. loc[t].todo[i].e \in Elements /\ loc[t].todo[i].readOnly = TRUE
    BY <1>5, <2>1, <2>2, Items
  <2>4. Holds(loc[t], loc[t].todo[i].e, TRUE)
    BY <1>5, <2>1, <2>3, HoldsItem
  <2>5. data'[loc[t].todo[i].e] = data[loc[t].todo[i].e]
    BY <1>4, <2>3, <2>4, NotBoth
  <2> QED BY <2>1, <2>5
<1>6. ReadStable'
  BY <1>4, <1>5, ReadersStay
<1> QED BY <1>2, <1>3, <1>6, SameClient DEF Mapped, Cells!vars

\* write in the body, and the load of setTag.
LEMMA BodyMaps ==
  ASSUME TxInv, TxInv', ReadStable, NEW t \in Threads,
         WriteLoad(t) \/ WriteData(t) \/ WriteStore(t) \/ EndSetLoad(t)
  PROVE  ReadStable' /\ Mapped
<1>1. LocalOK(loc[t]) /\ loc[t] \in Locals
  BY Parts
<1>2. CASE WriteLoad(t)
  <2> PICK i \in loc[t].at + 1 .. Len(loc[t].todo), v \in Value :
        loc' = [loc EXCEPT ![t].pc = "writeData", ![t].at = i, ![t].arg = v,
                           ![t].mem = tag[loc[t].todo[i].e]]
    BY <1>2 DEF WriteLoad
  <2> DEFINE g == tag[loc[t].todo[i].e]
             l == [loc[t] EXCEPT !.pc = "writeData", !.at = i, !.arg = v, !.mem = g]
  <2>1. loc[t].pc = "body" /\ data' = data
    BY <1>2 DEF WriteLoad, At
  <2>2. loc' = [loc EXCEPT ![t] = l]
    BY Parts DEF Locals
  <2> HIDE DEF g
  <2>3. l.pc = "writeData" /\ l.todo = loc[t].todo /\ l.orig = loc[t].orig /\ l.commit = loc[t].commit
    BY <1>1 DEF Locals
  <2> HIDE DEF l
  <2>4. HeldIn(l) = HeldIn(loc[t])
    BY <2>1, <2>3 DEF HeldIn
  <2> QED BY <2>1, <2>2, <2>3, <2>4, QuietMaps DEF Opening
<1>3. CASE WriteData(t)
  <2> DEFINE l == [loc[t] EXCEPT !.pc = "writeStore"]
             x == Current(t).e
  <2>1. loc[t].pc = "writeData" /\ data' = [data EXCEPT ![x] = loc[t].arg] /\ loc' = [loc EXCEPT ![t] = l]
    BY <1>3 DEF WriteData, At
  <2>2. l.pc = "writeStore" /\ l.todo = loc[t].todo /\ l.orig = loc[t].orig /\ l.commit = loc[t].commit
    BY <1>1 DEF Locals
  <2> HIDE DEF l
  <2>3. HeldIn(l) = HeldIn(loc[t])
    BY <2>1, <2>2 DEF HeldIn
  <2>4. loc[t].at \in HeldIn(loc[t]) /\ loc[t].at \in DOMAIN loc[t].todo /\ ~Current(t).readOnly
    BY <1>1, <2>1, CurrentHeld DEF Storing, LocalOK, Current
  <2>5. x \in Elements /\ Current(t) = [e |-> x, readOnly |-> FALSE]
    <3>1. Current(t).readOnly \in BOOLEAN /\ x \in Elements /\ Current(t) = [e |-> x, readOnly |-> Current(t).readOnly]
      BY <1>1, <2>4, Items DEF Current
    <3> QED BY <2>4, <3>1
  <2>6. Hides(loc[t], x) # {}
    BY <2>1, <2>4, <2>5 DEF Hides, Current
  <2>7. \A e \in Elements : e # x => data'[e] = data[e]
    BY <2>1, Parts
  <2> HIDE DEF x
  <2> QED BY <2>1, <2>2, <2>3, <2>5, <2>6, <2>7, QuietMaps DEF Opening
<1>4. CASE WriteStore(t)
  <2> DEFINE l == [loc[t] EXCEPT !.pc = "body"]
  <2>1. loc[t].pc = "writeStore" /\ data' = data /\ loc' = [loc EXCEPT ![t] = l]
    BY <1>4 DEF WriteStore, At
  <2>2. l.pc = "body" /\ l.todo = loc[t].todo /\ l.orig = loc[t].orig /\ l.commit = loc[t].commit
    BY <1>1 DEF Locals
  <2> HIDE DEF l
  <2>3. HeldIn(l) = HeldIn(loc[t])
    BY <2>1, <2>2 DEF HeldIn
  <2> QED BY <2>1, <2>2, <2>3, QuietMaps DEF Opening
<1>5. CASE EndSetLoad(t)
  <2> DEFINE g == tag[Current(t).e]
             l == [loc[t] EXCEPT !.pc = "setStore", !.mem = g]
  <2>1. loc[t].pc = "end" /\ data' = data
    BY <1>5 DEF EndSetLoad, At
  <2>2. loc' = [loc EXCEPT ![t] = l]
    BY <1>5, Parts DEF EndSetLoad, Locals
  <2> HIDE DEF g
  <2>3. /\ l.pc = "setStore" /\ l.todo = loc[t].todo /\ l.orig = loc[t].orig /\ l.commit = loc[t].commit
        /\ l.at = loc[t].at
    BY <1>1 DEF Locals
  <2> HIDE DEF l
  <2>4. HeldIn(l) = HeldIn(loc[t])
    BY <2>1, <2>3 DEF HeldIn
  <2> QED BY <2>1, <2>2, <2>3, <2>4, QuietMaps
<1> QED BY <1>2, <1>3, <1>4, <1>5

\* tmStart has been called: the abstract transaction begins.
LEMMA StartMaps ==
  ASSUME Comparable, Distinct, TxInv, TxInv', ReadStable, NEW t \in Threads, Start(t)
  PROVE  ReadStable' /\ Mapped
<1> PICK r \in use.requests[t], f \in BOOLEAN :
      loc' = [loc EXCEPT ![t].pc = "take", ![t].todo = Sorted(t, r), ![t].full = f]
  BY DEF Start, Garbage
<1> DEFINE s == Sorted(t, r)
           l == [loc[t] EXCEPT !.pc = "take", !.todo = s, !.full = f]
<1>1. s \in Seq(Item)
  BY Parts, SortedRequest
<1> HIDE DEF s
<1>2. loc[t].pc = "idle" /\ loc[t].todo = <<>> /\ loc[t].orig = <<>> /\ data' = data
  BY Parts, AtRest DEF Start, At
<1>3. loc' = [loc EXCEPT ![t] = l]
  BY Parts DEF s, Locals
<1>4. l.pc = "take" /\ l.todo = s /\ l.orig = <<>>
  BY <1>2, Parts DEF Locals
<1> HIDE DEF l
<1>5. HeldIn(l) = {} /\ HeldIn(loc[t]) = {}
  BY <1>2, <1>4 DEF HeldIn
<1>6. Store' = Store
  <2>1. \A e \in Elements : HidesAlike(loc[t], l, e) /\ data'[e] = data[e]
    BY <1>2, <1>5 DEF HidesAlike, Hides
  <2> QED BY <1>3, <2>1, VisibleStays, SameStore
<1>7. ReadStable'
  BY <1>2, <1>3, <1>5, ReadersStay
<1>8. CellsOf(l) \subseteq Elements /\ WritableOf(l) \subseteq CellsOf(l)
  <2>1. \A m \in Item : m.e \in Elements
    BY DEF Item
  <2>2. \A i \in DOMAIN s : s[i].e \in Elements
    BY <1>1, <2>1
  <2> QED BY <1>4, <2>2 DEF CellsOf, WritableOf
<1>9. /\ Client' = [Client EXCEPT ![t] = [state |-> "open", cells |-> CellsOf(l),
                                          writable |-> WritableOf(l), seen |-> <<>>]]
      /\ Client[t].state = "idle"
  <2>1. Client' = [Client EXCEPT ![t] = Shown(l)] /\ Client[t] = Shown(loc[t])
    BY <1>3, ClientMoves
  <2>2. Shown(loc[t]) = Cells!Idle /\ Shown(l) = [state |-> "open", cells |-> CellsOf(l),
                                                  writable |-> WritableOf(l), seen |-> <<>>]
    BY <1>2, <1>4, ShownAt DEF Opening
  <2> QED BY <2>1, <2>2 DEF Cells!Idle
<1>10. Cells!Begin(t)
  BY <1>6, <1>8, <1>9 DEF Cells!Begin
<1> QED BY <1>7, <1>10 DEF Mapped, Cells!Next

\* An element that is FULL, or locked by readers, shows its data word.
LEMMA Plain ==
  ASSUME TxInv, NEW e \in Elements, tag[e].fe # "EMPTY"
  PROVE  (\A u \in Threads : Hides(loc[u], e) = {}) /\ Store[e] = data[e]
<1>1. Writers(e) = {}
  <2>1. CellOK(tag[e], Readers(e), Writers(e))
    BY DEF TxInv
  <2> QED BY <2>1 DEF CellOK
<1>2. \A u \in Threads : Hides(loc[u], e) = {}
  BY <1>1 DEF Writers, Holds, Hides
<1> QED BY <1>2, StoreNow

\* A read outside of any transaction.
LEMMA ObserveMaps ==
  ASSUME TxInv, TxInv', ReadStable, NEW t \in Threads, Observe(t)
  PROVE  ReadStable' /\ Mapped
<1> PICK e \in Elements :
      /\ tag[e].fe = "FULL"
      /\ loc' = [loc EXCEPT ![t].pc = "observed", ![t].todo = <<[e |-> e, readOnly |-> TRUE]>>,
                            ![t].orig = <<data[e]>>]
  BY DEF Observe
<1> DEFINE s == <<[e |-> e, readOnly |-> TRUE]>>
           o == <<data[e]>>
           l == [loc[t] EXCEPT !.pc = "observed", !.todo = s, !.orig = o]
<1>1. loc[t].pc = "idle" /\ loc[t].todo = <<>> /\ loc[t].orig = <<>> /\ data' = data
  BY Parts, AtRest DEF Observe, At
<1>2. loc' = [loc EXCEPT ![t] = l]
  BY Parts DEF Locals
<1>3. DOMAIN s = {1} /\ s[1].e = e /\ s[1].readOnly = TRUE /\ o[1] = data[e]
  OBVIOUS
<1> HIDE DEF s, o
<1>4. l.pc = "observed" /\ l.todo = s /\ l.orig = o
  BY <1>1, Parts DEF Locals
<1> HIDE DEF l
<1>5. HeldIn(l) = {} /\ HeldIn(loc[t]) = {}
  BY <1>1, <1>4 DEF HeldIn
<1>6. Store' = Store
  <2>1. \A c \in Elements : HidesAlike(loc[t], l, c) /\ data'[c] = data[c]
    BY <1>1, <1>5 DEF HidesAlike, Hides
  <2> QED BY <1>2, <2>1, VisibleStays, SameStore
<1>7. ReadStable'
  BY <1>1, <1>2, <1>5, ReadersStay
<1>8. CellsOf(l) = {e} /\ WritableOf(l) = {}
  BY <1>3, <1>4 DEF CellsOf, WritableOf
<1>9. SeenOf(l) = [x \in {e} |-> Store[x]]
  <2>1. Store[e] = data[e]
    BY Plain
  <2>2. (CHOOSE i \in {1} : l.todo[i].e = e) = 1
    BY <1>3, <1>4
  <2> QED BY <1>3, <1>4, <1>8, <2>1, <2>2 DEF SeenOf
<1>10. /\ Client' = [Client EXCEPT ![t] = [state |-> "closed", cells |-> {e}, writable |-> {},
                                           seen |-> [x \in {e} |-> Store[x]]]]
       /\ Client[t].state = "idle"
  <2>1. Client' = [Client EXCEPT ![t] = Shown(l)] /\ Client[t] = Shown(loc[t])
    BY <1>2, ClientMoves
  <2>2. Shown(loc[t]) = Cells!Idle /\ Shown(l) = [state |-> "closed", cells |-> CellsOf(l),
                                                  writable |-> WritableOf(l), seen |-> SeenOf(l)]
    BY <1>1, <1>4, ShownAt DEF Closed
  <2> QED BY <1>8, <1>9, <2>1, <2>2 DEF Cells!Idle
<1>11. Cells!Observe(t)
  BY <1>6, <1>10 DEF Cells!Observe
<1> QED BY <1>7, <1>11 DEF Mapped, Cells!Next

\* A thread returns to idle and gives nothing back.
LEMMA ReturnMaps ==
  ASSUME TxInv, NEW t \in Threads, NEW l, loc' = [loc EXCEPT ![t] = l],
         loc[t].pc \in Closed, l.pc = "idle", l.todo = <<>>, Store' = Store
  PROVE  Mapped
<1>1. Client' = [Client EXCEPT ![t] = Cells!Idle] /\ Client[t].state = "closed"
  <2>1. Client' = [Client EXCEPT ![t] = Shown(l)] /\ Client[t] = Shown(loc[t])
    BY ClientMoves
  <2>2. Shown(l) = Cells!Idle /\ Shown(loc[t]).state = "closed"
    BY ShownAt
  <2> QED BY <2>1, <2>2
<1>2. Cells!End(t)
  BY <1>1 DEF Cells!End
<1> QED BY <1>2 DEF Mapped, Cells!Next

\* The reader outside of any transaction is done.
LEMMA ObservedMaps ==
  ASSUME TxInv, TxInv', ReadStable, NEW t \in Threads, Observed(t)
  PROVE  ReadStable' /\ Mapped
<1> DEFINE l == [Idle EXCEPT !.count = loc[t].count + 1, !.failed = loc[t].failed]
<1>1. HeldIn(l) = {} /\ l.pc = "idle" /\ l.todo = <<>>
  BY Returns DEF Observed, At
<1>2. loc' = [loc EXCEPT ![t] = l] /\ data' = data /\ loc[t].pc = "observed"
  BY DEF Observed, At
<1> HIDE DEF l
<1>3. HeldIn(loc[t]) = {}
  BY <1>2 DEF HeldIn
<1>4. Store' = Store
  <2>1. \A c \in Elements : HidesAlike(loc[t], l, c) /\ data'[c] = data[c]
    BY <1>1, <1>2, <1>3 DEF HidesAlike, Hides
  <2> QED BY <1>2, <2>1, VisibleStays, SameStore
<1>5. ReadStable'
  BY <1>1, <1>2, ReadersStay
<1> QED BY <1>1, <1>2, <1>4, <1>5, ReturnMaps DEF Closed

\* An element has been taken: the store shows what is saved.
LEMMA TakeMaps ==
  ASSUME TxInv, TxInv', ReadStable, NEW t \in Threads, Take(t)
  PROVE  ReadStable' /\ Mapped
<1> DEFINE k == Len(loc[t].orig) + 1
           m == loc[t].todo[k]
           x == m.e
           o == Append(loc[t].orig, data[x])
           p == IF k = Len(loc[t].todo) THEN "body" ELSE "take"
<1> PICK f \in BOOLEAN :
      loc' = [loc EXCEPT ![t].orig = o, ![t].full = f, ![t].pc = p]
  BY Parts DEF Take, Garbage, Wanted
<1> DEFINE l == [loc[t] EXCEPT !.orig = o, !.full = f, !.pc = p]
<1>1. /\ loc[t].pc = "take" /\ k \in Nat /\ k >= 1 /\ k \in DOMAIN loc[t].todo
      /\ DOMAIN loc[t].orig = 1 .. k - 1
  <2>1. loc[t].pc = "take" /\ Len(loc[t].orig) < Len(loc[t].todo)
    BY Parts DEF Take, At, LocalOK
  <2> DEFINE n == Len(loc[t].orig)
             c == Len(loc[t].todo)
             D == DOMAIN loc[t].orig
             E == DOMAIN loc[t].todo
  <2>2. n \in Nat /\ D = 1 .. n /\ c \in Nat /\ E = 1 .. c /\ n < c
    BY <2>1, Parts, Items
  <2> HIDE DEF n, c, D, E
  <2>3. n + 1 \in Nat /\ n + 1 <= c /\ n + 1 >= 1 /\ n + 1 \in 1 .. c /\ (n + 1) - 1 = n
    BY <2>2, NextIndex
  <2>4. n + 1 \in E /\ D = 1 .. (n + 1) - 1
    BY <2>2, <2>3, Zenon
  <2> QED BY <2>1, <2>2, <2>3, <2>4 DEF n, c, D, E
<1>2. x \in Elements /\ m.readOnly \in BOOLEAN /\ data' = data
  BY <1>1, Parts, Items DEF Take
<1>3. DOMAIN o = 1 .. k /\ o[k] = data[x] /\ \A i \in 1 .. k - 1 : o[i] = loc[t].orig[i]
  <2> DEFINE q == loc[t].orig
             v == data[x]
  <2>1. v \in Value /\ q \in Seq(Value)
    <3>1. data \in [Elements -> Value] /\ loc[t] \in Locals
      BY Parts
    <3>2. q \in Seq(Value)
      BY <3>1 DEF Locals
    <3> HIDE DEF q, x
    <3> QED BY <1>2, <3>1, <3>2
  <2>2. o = Append(q, v) /\ k = Len(q) + 1
    OBVIOUS
  <2> HIDE DEF q, v, o, k
  <2>3. Len(q) \in Nat
    BY <2>1
  <2>4. k - 1 = Len(q)
    BY <2>2, <2>3
  <2>5. /\ DOMAIN Append(q, v) = 1 .. Len(q) + 1 /\ Append(q, v)[Len(q) + 1] = v
        /\ \A i \in 1 .. Len(q) : Append(q, v)[i] = q[i]
    BY <2>1, Appended
  <2>6. DOMAIN o = 1 .. k /\ o[k] = v /\ \A i \in 1 .. k - 1 : o[i] = q[i]
    BY <2>2, <2>4, <2>5
  <2> QED BY <2>6 DEF q, v
<1>4. p \in {"take", "body"}
  OBVIOUS
<1>5. tag[x].fe # "EMPTY"
  BY DEF Take, Available, Wanted
<1> HIDE DEF o, p
<1>6. l.pc = p /\ l.todo = loc[t].todo /\ l.orig = o /\ l.commit = loc[t].commit
  BY Parts DEF Locals
<1>7. loc' = [loc EXCEPT ![t] = l]
  BY Parts DEF Locals
<1> HIDE DEF l, k, m, x
<1>8. HeldIn(loc[t]) = 1 .. k - 1 /\ HeldIn(l) = (1 .. k - 1) \cup {k}
  BY <1>1, <1>3, <1>4, <1>6 DEF HeldIn
<1>9. loc'[t] = l /\ \A u \in Threads : u # t => loc'[u] = loc[u]
  BY <1>7, Parts
<1>10. l.todo[k] = m /\ l.orig[k] = data[x]
  BY <1>3, <1>6 DEF m
<1>11. ASSUME NEW e \in Elements
       PROVE  Store'[e] = Store[e]
  <2>1. CASE e # x
    <3>1. \A i : i \in Hides(l, e) <=> i \in Hides(loc[t], e)
      <4>1. m # [e |-> e, readOnly |-> FALSE]
        BY <2>1 DEF x
      <4> QED BY <1>1, <1>4, <1>6, <1>8, <1>10, <4>1 DEF Hides
    <3>2. \A i \in Hides(l, e) : l.orig[i] = loc[t].orig[i]
      <4>1. \A i \in Hides(loc[t], e) : i \in 1 .. k - 1
        BY <1>8 DEF Hides
      <4> QED BY <1>3, <1>6, <3>1, <4>1
    <3>3. HidesAlike(loc[t], l, e)
      BY <3>1, <3>2 DEF HidesAlike
    <3> QED BY <1>2, <1>7, <3>3, VisibleStays
  <2>2. CASE e = x
    <3>1. (\A u \in Threads : Hides(loc[u], x) = {}) /\ Store[x] = data[x]
      BY <1>2, <1>5, Plain
    <3>2. \A i \in Hides(l, x) : i = k
      BY <1>1, <1>4, <1>6, <1>8, <3>1 DEF Hides
    <3>3. CASE Hides(l, x) = {}
      <4>1. \A u \in Threads : Hides(loc'[u], x) = {}
        BY <1>9, <3>1, <3>3
      <4> QED BY <1>2, <2>2, <3>1, <4>1, StoreNext
    <3>4. CASE k \in Hides(l, x)
      <4>1. Store'[x] = loc'[t].orig[k]
        BY <1>2, <1>9, <3>4, StoreNext
      <4> QED BY <1>9, <1>10, <2>2, <3>1, <4>1
    <3> QED BY <3>2, <3>3, <3>4
  <2> QED BY <2>1, <2>2
<1>12. Store' = Store
  BY <1>11, SameStore
<1>13. ReadStable'
  <2>1. ASSUME NEW i \in HeldIn(l), l.todo[i].readOnly
        PROVE  data'[l.todo[i].e] = l.orig[i]
    <3>1. CASE i = k
      BY <1>2, <1>10, <3>1 DEF x
    <3>2. CASE i # k
      <4>1. i \in HeldIn(loc[t]) /\ l.orig[i] = loc[t].orig[i]
        BY <1>3, <1>6, <1>8, <2>1, <3>2
      <4>2. data[loc[t].todo[i].e] = loc[t].orig[i]
        BY <1>6, <2>1, <4>1 DEF ReadStable
      <4> QED BY <1>2, <1>6, <4>1, <4>2
    <3> QED BY <3>1, <3>2
  <2> QED BY <1>2, <1>7, <2>1, ReadersStay
<1>14. Shown(l) = Shown(loc[t])
  <2>1. CellsOf(l) = CellsOf(loc[t]) /\ WritableOf(l) = WritableOf(loc[t])
    BY <1>6 DEF CellsOf, WritableOf
  <2> QED BY <1>1, <1>4, <1>6, <2>1, ShownAt DEF Opening
<1> QED BY <1>7, <1>12, <1>13, <1>14, SameClient DEF Mapped, Cells!vars

\* The store is a store.
LEMMA StoreTyped == TxInv' => Store' \in [Elements -> Value]
<1> SUFFICES ASSUME TxInv', NEW e \in Elements PROVE Store'[e] \in Value
  BY DEF Store
<1>1. \A t \in Threads : LocalOK(loc'[t])
  BY DEF TxInv, LocalOK
<1>2. data' \in [Elements -> Value]
  BY DEF TxInv
<1>3. ASSUME NEW t \in Threads, NEW i \in Hides(loc'[t], e)
      PROVE  Store'[e] \in Value
  <2>1. Store'[e] = loc'[t].orig[i]
    BY StoreNext
  <2>2. i \in DOMAIN loc'[t].orig
    BY DEF Hides, HeldIn
  <2>3. loc'[t].orig \in Seq(Value)
    BY <1>1 DEF LocalOK, Locals
  <2> HIDE DEF Hides
  <2> QED BY <2>1, <2>2, <2>3
<1>4. CASE \A t \in Threads : Hides(loc'[t], e) = {}
  BY <1>2, <1>4, StoreNext
<1> QED BY <1>3, <1>4

\* What an open transaction has saved of an element it holds is what the store shows.
LEMMA SavedShown ==
  ASSUME TxInv, ReadStable, NEW t \in Threads, loc[t].pc = "body", NEW i \in DOMAIN loc[t].todo
  PROVE  i \in HeldIn(loc[t]) /\ loc[t].todo[i].e \in Elements /\ loc[t].orig[i] = Store[loc[t].todo[i].e]
<1> DEFINE e == loc[t].todo[i].e
<1>1. LocalOK(loc[t]) /\ Len(loc[t].orig) = Len(loc[t].todo)
  BY Parts DEF LocalOK
<1>2. DOMAIN loc[t].orig = DOMAIN loc[t].todo
  BY <1>1, Items
<1>3. i \in HeldIn(loc[t])
  BY <1>2 DEF HeldIn
<1>4. e \in Elements /\ loc[t].todo[i].readOnly \in BOOLEAN /\ loc[t].todo[i] = [e |-> e, readOnly |-> loc[t].todo[i].readOnly]
  BY <1>1, Items
<1>5. CASE loc[t].todo[i].readOnly = TRUE
  <2>1. Holds(loc[t], e, TRUE)
    BY <1>1, <1>3, <1>5, HoldsItem
  <2>2. \A u \in Threads : ~Holds(loc[u], e, FALSE)
    BY <1>4, <2>1, NotBoth
  <2>3. \A u \in Threads : Hides(loc[u], e) = {}
    BY <2>2 DEF Hides, Holds
  <2>4. Store[e] = data[e]
    BY <1>4, <2>3, StoreNow
  <2> QED BY <1>3, <1>4, <1>5, <2>4 DEF ReadStable
<1>6. CASE loc[t].todo[i].readOnly = FALSE
  <2>1. i \in Hides(loc[t], e)
    BY <1>3, <1>4, <1>6 DEF Hides
  <2> QED BY <1>3, <1>4, <2>1, StoreNow
<1> QED BY <1>4, <1>5, <1>6

\* tmEnd has been called: the abstract transaction takes effect.
LEMMA EndMaps ==
  ASSUME TxInv, TxInv', ReadStable, NEW t \in Threads, End(t)
  PROVE  ReadStable' /\ Mapped
<1> PICK c \in BOOLEAN : loc' = [loc EXCEPT ![t].pc = "end", ![t].at = 1, ![t].commit = c]
  BY DEF End
<1> DEFINE l == [loc[t] EXCEPT !.pc = "end", !.at = 1, !.commit = c]
<1>1. loc[t].pc = "body" /\ data' = data /\ DOMAIN loc[t].orig \subseteq Nat \ {0}
  <2>1. DOMAIN loc[t].orig = 1 .. Len(loc[t].orig) /\ Len(loc[t].orig) \in Nat
    BY Parts, Items
  <2> QED BY <2>1 DEF End, At
<1>2. loc' = [loc EXCEPT ![t] = l]
  BY Parts DEF Locals
<1>3. l.pc = "end" /\ l.todo = loc[t].todo /\ l.orig = loc[t].orig /\ l.at = 1
  BY Parts DEF Locals
<1> HIDE DEF l
<1>4. HeldIn(l) = HeldIn(loc[t])
  BY <1>1, <1>3 DEF HeldIn
<1>5. ReadStable'
  <2>1. \A i \in HeldIn(l) : l.todo[i].readOnly => data'[l.todo[i].e] = l.orig[i]
    BY <1>1, <1>3, <1>4 DEF ReadStable
  <2> QED BY <1>1, <1>2, <2>1, ReadersStay
<1>6. CellsOf(l) = CellsOf(loc[t]) /\ WritableOf(l) = WritableOf(loc[t]) /\ SeenOf(l) = SeenOf(loc[t])
  BY <1>3 DEF CellsOf, WritableOf, SeenOf
<1>7. SeenOf(loc[t]) = [e \in CellsOf(loc[t]) |-> Store[e]]
  <2>1. ASSUME NEW e \in CellsOf(loc[t])
        PROVE  loc[t].orig[CHOOSE i \in DOMAIN loc[t].todo : loc[t].todo[i].e = e] = Store[e]
    <3> DEFINE j == CHOOSE i \in DOMAIN loc[t].todo : loc[t].todo[i].e = e
    <3>1. j \in DOMAIN loc[t].todo /\ loc[t].todo[j].e = e
      BY DEF CellsOf
    <3> HIDE DEF j
    <3>2. loc[t].orig[j] = Store[e]
      BY <1>1, <3>1, SavedShown
    <3> QED BY <3>2 DEF j
  <2> DEFINE F(e) == loc[t].orig[CHOOSE i \in DOMAIN loc[t].todo : loc[t].todo[i].e = e]
             C == CellsOf(loc[t])
  <2>2. SeenOf(loc[t]) = [e \in C |-> F(e)] /\ \A e \in C : F(e) = Store[e]
    BY <2>1 DEF SeenOf
  <2> HIDE DEF F, C
  <2>3. SeenOf(loc[t]) = [e \in C |-> Store[e]]
    BY <2>2
  <2> QED BY <2>3 DEF C
<1>8. ASSUME NEW e \in Elements \ WritableOf(loc[t])
      PROVE  Store'[e] = Store[e]
  <2>1. \A i \in DOMAIN loc[t].todo : loc[t].todo[i] # [e |-> e, readOnly |-> FALSE]
    BY DEF WritableOf
  <2>2. HeldIn(loc[t]) \subseteq DOMAIN loc[t].todo
    BY Parts, Items
  <2>3. Hides(l, e) = {} /\ Hides(loc[t], e) = {}
    BY <1>3, <1>4, <2>1, <2>2 DEF Hides
  <2>4. HidesAlike(loc[t], l, e)
    BY <2>3 DEF HidesAlike
  <2> QED BY <1>1, <1>2, <2>4, VisibleStays
<1>9. Cells!Execute(t)
  <2> DEFINE old == [state |-> "open", cells |-> CellsOf(loc[t]), writable |-> WritableOf(loc[t]), seen |-> <<>>]
             new == [state |-> "closed", cells |-> CellsOf(loc[t]), writable |-> WritableOf(loc[t]),
                     seen |-> [e \in CellsOf(loc[t]) |-> Store[e]]]
  <2>1. Client' = [Client EXCEPT ![t] = Shown(l)] /\ Client[t] = Shown(loc[t])
    BY <1>2, ClientMoves
  <2>2. Shown(loc[t]) = old /\ Shown(l) = new
    BY <1>1, <1>3, <1>6, <1>7, ShownAt DEF Opening, Closed
  <2>3. Client[t] = old /\ Client' = [Client EXCEPT ![t] = new]
    BY <2>1, <2>2
  <2>4. /\ Client[t].state = "open" /\ Client[t].cells = CellsOf(loc[t])
        /\ Client[t].writable = WritableOf(loc[t])
    BY <2>3
  <2>5. [Client EXCEPT ![t].state = "closed", ![t].seen = [e \in Client[t].cells |-> Store[e]]]
          = [Client EXCEPT ![t] = new]
    <3> DEFINE C == CellsOf(loc[t])
               W == WritableOf(loc[t])
               S == [e \in C |-> Store[e]]
    <3>1. [e \in Client[t].cells |-> Store[e]] = S
      BY <2>4
    <3>2. [Client[t] EXCEPT !.state = "closed", !.seen = S] = new
      <4> DEFINE z == <<>>
      <4>1. Client[t] = [state |-> "open", cells |-> C, writable |-> W, seen |-> z]
        BY <2>3
      <4> HIDE DEF C, W, S, z
      <4>2. [Client[t] EXCEPT !.state = "closed", !.seen = S]
              = [state |-> "closed", cells |-> C, writable |-> W, seen |-> S]
        <5> DEFINE r == Client[t]
                   q == [r EXCEPT !.state = "closed"]
        <5>1. r = [state |-> "open", cells |-> C, writable |-> W, seen |-> z]
          BY <4>1
        <5> HIDE DEF r
        <5>2. q = [state |-> "closed", cells |-> C, writable |-> W, seen |-> z]
          BY <5>1
        <5>3. [r EXCEPT !.state = "closed", !.seen = S] = [q EXCEPT !.seen = S]
          BY <5>1
        <5> HIDE DEF q
        <5> QED BY <5>2, <5>3 DEF r
      <4> QED BY <4>2 DEF C, W, S
    <3>3. DOMAIN Client = Threads
      BY DEF Client
    <3> HIDE DEF new, S
    <3>4. [Client EXCEPT ![t].state = "closed", ![t].seen = S] = [Client EXCEPT ![t] = [Client[t] EXCEPT !.state = "closed", !.seen = S]]
      BY <3>3
    <3> QED BY <3>1, <3>2, <3>4
  <2> QED BY <1>8, <2>3, <2>4, <2>5, StoreTyped DEF Cells!Execute
<1> QED BY <1>5, <1>9 DEF Mapped, Cells!Next

\* tmEnd goes on: the current element is no longer held, and the thread is idle after the last.
LEMMA GoesOn ==
  ASSUME TxInv, NEW t \in Threads, loc[t].pc \in {"end", "setStore"}, Advance(t, FALSE)
  PROVE  \E l : /\ loc' = [loc EXCEPT ![t] = l] /\ HeldIn(l) = HeldIn(loc[t]) \ {loc[t].at}
                /\ \/ /\ l.pc = "end" /\ l.todo = loc[t].todo /\ l.orig = loc[t].orig
                      /\ l.commit = loc[t].commit
                   \/ l.pc = "idle" /\ l.todo = <<>> /\ HeldIn(l) = {}
<1>1. /\ LocalOK(loc[t]) /\ loc[t].at >= 1 /\ Len(loc[t].orig) = Len(loc[t].todo)
      /\ DOMAIN loc[t].orig = 1 .. Len(loc[t].orig) /\ Len(loc[t].todo) \in Nat /\ loc[t].at \in Nat
      /\ loc[t].at <= Len(loc[t].todo)
  BY Parts, Items DEF LocalOK, Storing
<1>2. HeldIn(loc[t]) = loc[t].at .. Len(loc[t].todo)
  <2>1. HeldIn(loc[t]) = {i \in DOMAIN loc[t].orig : i >= loc[t].at}
    BY DEF HeldIn
  <2> QED BY <1>1, <2>1
<1>3. CASE loc[t].at < Len(loc[t].todo)
  <2> DEFINE q == loc[t].failed \/ FALSE
             l == [loc[t] EXCEPT !.pc = "end", !.at = loc[t].at + 1, !.failed = q]
  <2>1. loc' = [loc EXCEPT ![t].pc = "end", ![t].at = loc[t].at + 1, ![t].failed = q]
    BY <1>3 DEF Advance
  <2> HIDE DEF q
  <2>2. /\ l.pc = "end" /\ l.at = loc[t].at + 1 /\ l.todo = loc[t].todo
        /\ l.orig = loc[t].orig /\ l.commit = loc[t].commit
    BY Parts DEF Locals
  <2>3. loc' = [loc EXCEPT ![t] = l]
    BY <2>1, Parts DEF Locals
  <2> HIDE DEF l
  <2>4. HeldIn(l) = HeldIn(loc[t]) \ {loc[t].at}
    BY <1>1, <1>2, <1>3, <2>2 DEF HeldIn
  <2> QED BY <2>2, <2>3, <2>4
<1>4. CASE ~(loc[t].at < Len(loc[t].todo))
  <2> DEFINE l == [Idle EXCEPT !.count = loc[t].count + 1, !.failed = loc[t].failed \/ FALSE]
  <2>1. loc' = [loc EXCEPT ![t] = l]
    BY <1>4 DEF Advance
  <2>2. (loc[t].failed \/ FALSE) = loc[t].failed
    BY <1>1 DEF LocalOK, Locals
  <2>3. HeldIn(l) = {} /\ l.pc = "idle" /\ l.todo = <<>>
    BY <2>2, Returns
  <2> HIDE DEF l
  <2>4. HeldIn(loc[t]) = {loc[t].at}
    BY <1>1, <1>2, <1>4
  <2> QED BY <2>1, <2>3, <2>4
<1> QED BY <1>3, <1>4

\* One element is given back: the store shows for it what it has shown, because it holds
\* what the transaction has saved if it is aborted.
LEMMA BackMaps ==
  ASSUME TxInv, TxInv', ReadStable, NEW t \in Threads, loc[t].pc \in {"end", "setStore"}, Advance(t, FALSE),
         \/ data' = data /\ (Current(t).readOnly \/ loc[t].commit)
         \/ /\ ~Current(t).readOnly /\ ~loc[t].commit
            /\ data' = [data EXCEPT ![Current(t).e] = loc[t].orig[loc[t].at]]
  PROVE  ReadStable' /\ Mapped
<1> DEFINE x == Current(t).e
           k == loc[t].at
<1> PICK l : /\ loc' = [loc EXCEPT ![t] = l] /\ HeldIn(l) = HeldIn(loc[t]) \ {k}
             /\ \/ /\ l.pc = "end" /\ l.todo = loc[t].todo /\ l.orig = loc[t].orig
                   /\ l.commit = loc[t].commit
                \/ l.pc = "idle" /\ l.todo = <<>> /\ HeldIn(l) = {}
  BY GoesOn
<1>1. LocalOK(loc[t]) /\ loc[t].pc \in Storing \cup {"end"} /\ loc'[t] = l
      /\ \A u \in Threads : u # t => loc'[u] = loc[u]
  BY Parts DEF Storing
<1>2. k \in HeldIn(loc[t]) /\ k \in DOMAIN loc[t].todo /\ Holds(loc[t], x, Current(t).readOnly)
  BY <1>1, CurrentHeld DEF Current
<1>3. x \in Elements /\ Current(t).readOnly \in BOOLEAN /\ loc[t].todo[k] = [e |-> x, readOnly |-> Current(t).readOnly]
  <2>1. \A i \in DOMAIN loc[t].todo :
          /\ loc[t].todo[i].e \in Elements /\ loc[t].todo[i].readOnly \in BOOLEAN
          /\ loc[t].todo[i] = [e |-> loc[t].todo[i].e, readOnly |-> loc[t].todo[i].readOnly]
    BY <1>1, Items
  <2>2. k \in DOMAIN loc[t].todo /\ Current(t) = loc[t].todo[k] /\ x = Current(t).e
    BY <1>2 DEF Current
  <2> HIDE DEF k, x
  <2> QED BY <2>1, <2>2, Zenon
<1>4. \A i \in HeldIn(loc[t]) : loc[t].todo[i].e = x => i = k
  <2>1. HeldIn(loc[t]) \subseteq DOMAIN loc[t].todo /\ loc[t].todo[k].e = x
    BY <1>1, Items DEF Current
  <2> QED BY <1>1, <1>2, <2>1 DEF LocalOK
<1>5. \A e \in Elements : e # x => data'[e] = data[e]
  BY <1>3, Parts
<1> HIDE DEF x, k
<1>6. \A u \in Threads \ {t} : ~Holds(loc[u], x, FALSE)
  <2>1. CASE Current(t).readOnly = TRUE
    BY <1>2, <1>3, <2>1, NotBoth
  <2>2. CASE Current(t).readOnly = FALSE
    <3>1. \A v, w \in Writers(x) : v = w
      BY <1>3 DEF TxInv, CellOK
    <3> QED BY <1>2, <2>2, <3>1 DEF Writers
  <2> QED BY <1>3, <2>1, <2>2
<1>7. \A u \in Threads : Hides(loc'[u], x) = {}
  <2>1. Hides(l, x) = {}
    <3> SUFFICES ASSUME NEW i \in Hides(l, x) PROVE FALSE
      OBVIOUS
    <3>1. i \in HeldIn(l) /\ l.todo[i].e = x
      BY DEF Hides
    <3> QED BY <1>4, <3>1
  <2>2. \A u \in Threads \ {t} : Hides(loc[u], x) = {}
    BY <1>6 DEF Hides, Holds
  <2> QED BY <1>1, <2>1, <2>2
<1>8. Store'[x] = Store[x]
  <2>1. Store'[x] = data'[x]
    BY <1>3, <1>7, StoreNext
  <2>2. CASE data' = data /\ (Current(t).readOnly \/ loc[t].commit)
    <3>1. Hides(loc[t], x) = {}
      <4> SUFFICES ASSUME NEW i \in Hides(loc[t], x) PROVE FALSE
        OBVIOUS
      <4>1. /\ i \in HeldIn(loc[t]) /\ loc[t].todo[i] = [e |-> x, readOnly |-> FALSE]
            /\ ~loc[t].commit
        BY DEF Hides
      <4>2. i = k
        BY <1>4, <4>1
      <4> QED BY <1>3, <2>2, <4>1, <4>2
    <3>2. \A u \in Threads \ {t} : Hides(loc[u], x) = {}
      BY <1>6 DEF Hides, Holds
    <3>3. \A u \in Threads : Hides(loc[u], x) = {}
      BY <3>1, <3>2
    <3> QED BY <1>3, <2>1, <2>2, <3>3, StoreNow
  <2>3. CASE /\ ~Current(t).readOnly /\ ~loc[t].commit
             /\ data' = [data EXCEPT ![Current(t).e] = loc[t].orig[loc[t].at]]
    <3>1. data'[x] = loc[t].orig[k]
      BY <1>3, <2>3, Parts DEF x, k
    <3>2. k \in Hides(loc[t], x)
      <4>1. Current(t).readOnly = FALSE
        BY <1>3, <2>3
      <4> QED BY <1>2, <1>3, <2>3, <4>1 DEF Hides
    <3> QED BY <1>3, <2>1, <3>1, <3>2, StoreNow
  <2> QED BY <2>2, <2>3
<1>9. ASSUME NEW e \in Elements, e # x
      PROVE  Store'[e] = Store[e]
  <2>1. k \notin Hides(loc[t], e)
    BY <1>3, <1>9 DEF Hides
  <2>2. HidesAlike(loc[t], l, e)
    <3>1. CASE l.pc = "end" /\ l.todo = loc[t].todo /\ l.orig = loc[t].orig /\ l.commit = loc[t].commit
      BY <2>1, <3>1 DEF HidesAlike, Hides
    <3>2. CASE HeldIn(l) = {}
      BY <2>1, <3>2 DEF HidesAlike, Hides
    <3> QED BY <3>1, <3>2
  <2> QED BY <1>5, <1>9, <2>2, VisibleStays
<1>10. Store' = Store
  BY <1>8, <1>9, SameStore
<1>11. ReadStable'
  <2>1. ASSUME NEW i \in HeldIn(l), l.todo[i].readOnly
        PROVE  data'[l.todo[i].e] = l.orig[i]
    <3>1. l.todo = loc[t].todo /\ l.orig = loc[t].orig /\ i \in HeldIn(loc[t]) /\ i # k
      OBVIOUS
    <3>2. data[loc[t].todo[i].e] = loc[t].orig[i]
      BY <2>1, <3>1 DEF ReadStable
    <3>3. loc[t].todo[i].e # x /\ loc[t].todo[i].e \in Elements
      BY <1>1, <1>4, <3>1, Items
    <3> QED BY <1>5, <3>1, <3>2, <3>3
  <2>2. \/ data' = data
        \/ \E y \in Elements : Holds(loc[t], y, FALSE) /\ \A e \in Elements : e # y => data'[e] = data[e]
    <3>1. ~Current(t).readOnly => Holds(loc[t], x, FALSE)
      <4>1. ~Current(t).readOnly => Current(t).readOnly = FALSE
        BY <1>3
      <4> QED BY <1>2, <4>1
    <3> QED BY <1>3, <1>5, <3>1
  <2> QED BY <2>1, <2>2, ReadersStay
<1>12. CASE l.pc = "end" /\ l.todo = loc[t].todo /\ l.orig = loc[t].orig
  <2>1. CellsOf(l) = CellsOf(loc[t]) /\ WritableOf(l) = WritableOf(loc[t]) /\ SeenOf(l) = SeenOf(loc[t])
    BY <1>12 DEF CellsOf, WritableOf, SeenOf
  <2>2. Shown(l) = Shown(loc[t])
    BY <1>12, <2>1, ShownAt DEF Closed
  <2> QED BY <1>10, <1>11, <2>2, SameClient DEF Mapped, Cells!vars
<1>13. CASE l.pc = "idle" /\ l.todo = <<>>
  BY <1>10, <1>11, <1>13, ReturnMaps DEF Closed
<1> QED BY <1>12, <1>13

\* releaseRW, setTag and writeEF of tmEnd.
LEMMA GiveBackMaps ==
  ASSUME TxInv, TxInv', ReadStable, \A u \in Threads : loc[u].pc = "setStore" => loc[u].commit,
         NEW t \in Threads, EndRelease(t) \/ EndSetStore(t) \/ EndWriteEF(t)
  PROVE  ReadStable' /\ Mapped
<1>1. CASE EndRelease(t)
  <2> DEFINE x == Current(t).e
             g == tag[x]
  <2>1. LocalOK(loc[t]) /\ loc[t].pc = "end" /\ Current(t).readOnly /\ data' = data
        /\ loc[t].pc \in Storing \cup {"end"}
    BY <1>1, Parts DEF EndRelease, At
  <2>2. x \in Elements /\ Current(t).readOnly \in BOOLEAN /\ Holds(loc[t], x, Current(t).readOnly)
    BY <2>1, CurrentHeld, Items DEF Current
  <2>3. t \in Readers(x)
    <3>1. Current(t).readOnly = TRUE
      BY <2>1, <2>2
    <3> QED BY <2>2, <3>1 DEF Readers
  <2>4. CellOK(g, Readers(x), Writers(x)) /\ RWMax \in Nat
    BY <2>2, Parts, TransactionAssumption
  <2> HIDE DEF x, g
  <2>5. g.fe = "RW_LOCK" /\ g.rw # 0 /\ g.rw \in 0 .. RWMax
    BY <2>3, <2>4, FS_EmptySet DEF CellOK, Tag
  <2>6. g.fe = "RW_LOCK" /\ g.rw > 0
    BY <2>4, <2>5
  <2>7. Advance(t, FALSE)
    BY <1>1, <2>6 DEF EndRelease, x, g
  <2> QED BY <2>1, <2>7, BackMaps
<1>2. CASE EndSetStore(t)
  BY <1>2, BackMaps DEF EndSetStore, At
<1>3. CASE EndWriteEF(t)
  BY <1>3, BackMaps DEF EndWriteEF, At, Restored
<1> QED BY <1>1, <1>2, <1>3

\* What serializability rests on besides TxInv.
SerInv == ReadStable /\ \A t \in Threads : loc[t].pc = "setStore" => loc[t].commit

\* setTag is called by a commit alone.
LEMMA CommitSets ==
  ASSUME TxInv, SerInv, NEW t \in Threads, Start(t) \/ Observe(t) \/ Step(t)
  PROVE  \A u \in Threads : loc'[u].pc = "setStore" => loc'[u].commit
<1>1. loc \in [Threads -> Locals] /\ loc[t] \in Locals /\ \A u \in Threads : loc[u].pc = "setStore" => loc[u].commit
  BY Parts DEF SerInv
<1>2. ASSUME NEW l, loc' = [loc EXCEPT ![t] = l], l.pc = "setStore" => l.commit
      PROVE  \A u \in Threads : loc'[u].pc = "setStore" => loc'[u].commit
  BY <1>1, <1>2
<1>3. CASE EndSetLoad(t)
  <2> DEFINE g == tag[Current(t).e]
             l == [loc[t] EXCEPT !.pc = "setStore", !.mem = g]
  <2>1. loc' = [loc EXCEPT ![t] = l] /\ loc[t].commit
    BY <1>1, <1>3 DEF EndSetLoad, Locals
  <2> HIDE DEF g
  <2>2. l.commit = loc[t].commit
    BY <1>1 DEF Locals
  <2> HIDE DEF l
  <2> QED BY <1>2, <2>1, <2>2
<1>4. CASE ~EndSetLoad(t)
  <2>1. \A u \in Threads : u # t => loc'[u] = loc[u]
    BY <1>1, <1>4 DEF Start, Observe, Step, Take, WriteLoad, WriteData, WriteStore, End, EndRelease,
       EndSetStore, EndWriteEF, Observed, Advance
  <2>2. loc'[t].pc # "setStore"
    <3>1. CASE Start(t) \/ Observe(t) \/ Take(t) \/ WriteLoad(t) \/ WriteData(t) \/ WriteStore(t) \/ End(t)
      <4>1. CASE Start(t)
        <5>1. PICK s, f : loc' = [loc EXCEPT ![t].pc = "take", ![t].todo = s, ![t].full = f]
          BY <4>1 DEF Start
        <5> QED BY <1>1, <5>1 DEF Locals
      <4>2. CASE Observe(t)
        <5>1. PICK s, o : loc' = [loc EXCEPT ![t].pc = "observed", ![t].todo = s, ![t].orig = o]
          BY <4>2 DEF Observe
        <5> QED BY <1>1, <5>1 DEF Locals
      <4>3. CASE Take(t)
        <5> DEFINE p == IF Len(loc[t].orig) + 1 = Len(loc[t].todo) THEN "body" ELSE "take"
        <5>1. PICK o, f : loc' = [loc EXCEPT ![t].orig = o, ![t].full = f, ![t].pc = p]
          BY <4>3 DEF Take
        <5>2. p # "setStore"
          OBVIOUS
        <5> HIDE DEF p
        <5> QED BY <1>1, <5>1, <5>2 DEF Locals
      <4>4. CASE WriteLoad(t)
        BY <1>1, <4>4 DEF WriteLoad, Locals
      <4>5. CASE WriteData(t)
        BY <1>1, <4>5 DEF WriteData, Locals
      <4>6. CASE WriteStore(t)
        BY <1>1, <4>6 DEF WriteStore, Locals
      <4>7. CASE End(t)
        BY <1>1, <4>7 DEF End, Locals
      <4> QED BY <3>1, <4>1, <4>2, <4>3, <4>4, <4>5, <4>6, <4>7
    <3>2. ASSUME NEW f, Advance(t, f)
          PROVE  loc'[t].pc # "setStore"
      <4> DEFINE q == loc[t].failed \/ f
      <4>1. CASE loc[t].at < Len(loc[t].todo)
        <5>1. loc' = [loc EXCEPT ![t].pc = "end", ![t].at = loc[t].at + 1, ![t].failed = q]
          BY <3>2, <4>1 DEF Advance
        <5> HIDE DEF q
        <5> QED BY <1>1, <5>1 DEF Locals
      <4>2. CASE ~(loc[t].at < Len(loc[t].todo))
        <5>1. loc' = [loc EXCEPT ![t] = [Idle EXCEPT !.count = loc[t].count + 1, !.failed = q]]
          BY <3>2, <4>2 DEF Advance
        <5> HIDE DEF q
        <5> QED BY <1>1, <5>1 DEF Idle
      <4> QED BY <4>1, <4>2
    <3>3. CASE EndRelease(t) \/ EndSetStore(t) \/ EndWriteEF(t)
      BY <3>2, <3>3 DEF EndRelease, EndSetStore, EndWriteEF
    <3>4. CASE Observed(t)
      BY <1>1, <3>4 DEF Observed, Idle
    <3> QED BY <1>4, <3>1, <3>3, <3>4 DEF Step
  <2> QED BY <1>1, <2>1, <2>2
<1> QED BY <1>3, <1>4

\* Every step is a step of the atomic cells, or leaves them alone.
LEMMA TransactionsMap ==
  ASSUME Comparable, Distinct, TxInv, TxInv', SerInv, [Next]_vars
  PROVE  SerInv' /\ Mapped
<1>1. CASE Next
  <2> PICK t \in Threads : Start(t) \/ Observe(t) \/ Step(t)
    BY <1>1 DEF Next
  <2>1. ReadStable' /\ Mapped
    BY StartMaps, ObserveMaps, TakeMaps, BodyMaps, EndMaps, GiveBackMaps, ObservedMaps DEF Step, SerInv
  <2>2. \A u \in Threads : loc'[u].pc = "setStore" => loc'[u].commit
    BY CommitSets
  <2> QED BY <2>1, <2>2 DEF SerInv
<1>2. CASE UNCHANGED vars
  <2>1. SerInv'
    BY <1>2 DEF vars, SerInv, ReadStable, HeldIn
  <2>2. Store' = Store /\ Client' = Client
    BY <1>2, Mapping DEF vars
  <2> QED BY <2>1, <2>2 DEF Mapped, Cells!vars
<1> QED BY <1>1, <1>2

\* The initial state is one of the atomic cells.
LEMMA InitMaps == Init => SerInv /\ Cells!Init
<1> SUFFICES ASSUME Init PROVE SerInv /\ Cells!Init
  OBVIOUS
<1>1. Idle.pc = "idle" /\ Idle.todo = <<>> /\ Idle.orig = <<>>
  BY DEF Idle
<1>2. \A t \in Threads : loc[t] = Idle
  BY DEF Init
<1>3. \A t \in Threads : HeldIn(loc[t]) = {}
  BY <1>1, <1>2 DEF HeldIn
<1>4. SerInv
  BY <1>1, <1>2, <1>3 DEF SerInv, ReadStable
<1>5. Store = [e \in Elements |-> Zero]
  <2>1. \A e \in Elements : ~\E t \in Threads : Hides(loc[t], e) # {}
    BY <1>3 DEF Hides
  <2>2. Store = [e \in Elements |-> data[e]]
    BY <2>1, Mapping DEF StoreOf
  <2> QED BY <2>2 DEF Init
<1>6. Client = [t \in Threads |-> Cells!Idle]
  <2>1. \A t \in Threads : Shown(loc[t]) = Cells!Idle
    BY <1>1, <1>2, ShownAt
  <2> QED BY <2>1, Mapping
<1> QED BY <1>4, <1>5, <1>6 DEF Cells!Init

\* ems.js:155-183 and tmEnd: each transaction takes effect at one instant, the call of tmEnd,
\* together with the reads outside of any transaction; the values it has read one after the
\* other are those of that instant, and an aborted one leaves nothing behind.
THEOREM TransactionsSerializable == ASSUME Comparable, Distinct PROVE Spec => Serializable
<1>1. TxInv /\ TxInv' /\ SerInv /\ [Next]_vars => SerInv' /\ Mapped
  BY TransactionsMap
<1>2. Spec => []TxInv
  BY TxInvHolds
<1> QED BY InitMaps, <1>1, <1>2, PTL DEF Spec, Serializable, Cells!Spec, Mapped
===============================================================================
