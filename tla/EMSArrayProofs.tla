---------------------------- MODULE EMSArrayProofs ----------------------------
(***************************************************************************)
(* Processes that create, use and destroy an array under one name meet at  *)
(* barriers only, find themselves in one region, and own the blocks of its *)
(* heap, for every number of processes, of elements and of lives, every    *)
(* size of the heap and every program.                                     *)
(*                                                                         *)
(* The argument for the region is a count.  The barriers that a process    *)
(* has come to tell in which life and where in it the process is           *)
(* (Counted): four a life, three if it attaches.  No process has left more *)
(* barriers than another has come to (Lockstep).  So when process 0        *)
(* creates a file nobody else has an array (Alone), when another process   *)
(* opens it the file is there (Opened), and when a process uses the array  *)
(* everybody has filled its share of the elements (Together).              *)
(*                                                                         *)
(* The argument for the heap is a ledger.  Elements and processes have     *)
(* titles to blocks: an element to the string in it, a process to the      *)
(* block it was given, is about to give back or has written (Titles).      *)
(* Every title has its block and every block one title (Owned), the tag of *)
(* an element says who may change it (Working, Exclusive, Sounds), and no  *)
(* element has a title before it is filled (Blank).  A step outside the    *)
(* allocator passes a title on (StepOwns), a round of the allocator hands  *)
(* out a block with a title or takes both back (RoundOwned).  So the       *)
(* allocator is asked for what it can do (AsksRightly), which is what its  *)
(* own invariant needs, and nobody writes over a block that another        *)
(* process copies (Spared).                                                *)
(***************************************************************************)
EXTENDS EMSArray, EMSAllocProofs

-------------------------------------------------------------------------------
(* The inductive invariant *)

\* Operations on elements.
Work == {"ready", "copy", "copied", "acquire", "replace", "allocated", "publish"}

\* At a barrier.
Waiting == {"meet", "meetZero", "meetLast", "meetDestroy", "meetEnd"}

\* The share of the elements is filled.
Past == {"meetZero", "meetLast", "meetDestroy", "unmap"} \cup Work

\* With a region.
Mapping == {"control", "fill", "fillText"} \cup Past

PC == {"idle", "unlink", "open", "meetEnd", "meet", "stopped"} \cup Mapping

Fields == {"pc", "lives", "done", "id", "region", "todo", "short", "e", "op", "arg", "ptr", "saw", "got"}

Locals(l) ==
  /\ DOMAIN l = Fields
  /\ l.pc \in PC /\ l.lives \in Nat /\ l.todo \subseteq Elements /\ l.short \in BOOLEAN

\* Process with locals l has been through the first life of a program that attaches.
Attached(l) == use.attach /\ l.lives > 0

\* The barriers of the lives that are over, if l is between two lives.
Base(l) == IF Attached(l) THEN 3 * l.lives + 1 ELSE 4 * l.lives

\* What process p with locals l has come to.
Count(p, l, a) ==
  /\ l.pc \in {"unlink", "control", "meetZero", "unmap"} => p = 0
  /\ l.pc \in {"unlink", "control", "meet", "meetZero"} => ~Attached(l)
  /\ l.pc = "meet" => p # 0
  /\ l.pc \in {"idle", "unlink", "control", "meetEnd"} => a = Base(l)
  /\ l.pc \in {"open", "fill", "fillText"} => a = Base(l) + IF p # 0 /\ ~Attached(l) THEN 1 ELSE 0
  /\ l.pc \in {"meet", "meetZero"} => a = Base(l) + 1
  /\ l.pc = "meetLast" => a = Base(l) + IF Attached(l) THEN 1 ELSE 2
  /\ l.pc \in Work => a = Base(l) - 2
  /\ l.pc \in {"meetDestroy", "unmap"} => a = Base(l) - 1
  /\ l.pc \in Work \cup {"meetDestroy", "unmap", "meetEnd"} => l.lives > 0
  /\ l.pc = "stopped" => \/ a = Base(l)
                         \/ a = Base(l) + 1 /\ p # 0 /\ ~Attached(l)
                         \/ a = Base(l) - 1 /\ p = 0 /\ l.lives > 0

\* The barriers that a process has left, if it has come to a.
Left(l, a) == IF l.pc \in Waiting THEN a - 1 ELSE a

\* What process 0 with locals l knows of file f, when fs were created, and of the control block.
Knows(l, f, fs, r) ==
  /\ l.pc = "control" => f = fs
  /\ l.pc \in Mapping \ {"control"} => f = fs /\ r
  /\ l.pc = "open" /\ ~Attached(l) => f = 0
  /\ Attached(l) => r

\* What process p has filled of its share.
Fills(p, l, el) ==
  /\ Attached(l) => l.pc # "fillText" /\ (l.pc = "fill" => l.todo = {})
  /\ l.pc \in Mapping \/ Attached(l) =>
       \/ l.short
       \/ /\ \A e \in Share(p) \ l.todo : el[e].type # "invalid"
          /\ l.pc \in Past \/ Attached(l) => l.todo = {}

Cell(c) == DOMAIN c = {"fe", "rw", "type", "data"}

Typed ==
  /\ use \in Uses /\ files \in Nat \ {0} /\ file \in {0, files} /\ ready \in BOOLEAN
  /\ loc = [p \in Processes |-> loc[p]] /\ \A p \in Processes : Locals(loc[p])
  /\ arrived \in [Processes -> Nat]
  /\ elem = [e \in Elements |-> elem[e]] /\ \A e \in Elements : Cell(elem[e])

Counted == \A p \in Processes : Count(p, loc[p], arrived[p])
Lockstep == \A p, q \in Processes : Left(loc[p], arrived[p]) <= arrived[q]
Managed == \A p \in Processes : p = 0 => Knows(loc[p], file, files, ready)
Mapped == \A p \in Processes : loc[p].pc \in Mapping => loc[p].region = files
Filled == \A p \in Processes : Fills(p, loc[p], elem)

RegionInv == Typed /\ Counted /\ Lockstep /\ Managed /\ Mapped /\ Filled

-------------------------------------------------------------------------------
(* What the counts say *)

\* When process 0 is about to create a file, nobody else has an array or has had one that
\* it will attach to.
LEMMA Alone ==
  ASSUME RegionInv, 0 \in Processes, At(0, "open"), ~Attached(loc[0]), NEW q \in Processes, q # 0
  PROVE  loc[q].pc \notin Mapping /\ ~Attached(loc[q])
<1>1. /\ Count(0, loc[0], arrived[0]) /\ Count(q, loc[q], arrived[q])
      /\ Left(loc[0], arrived[0]) <= arrived[q] /\ Left(loc[q], arrived[q]) <= arrived[0]
      /\ loc[0].lives \in Nat /\ loc[q].lives \in Nat /\ arrived[0] \in Nat /\ arrived[q] \in Nat
      /\ loc[q].pc \in PC
  BY DEF RegionInv, Typed, Counted, Lockstep, Locals
<1>2. arrived[0] = 4 * loc[0].lives /\ Left(loc[0], arrived[0]) = arrived[0]
      /\ (use.attach => loc[0].lives = 0)
  BY <1>1 DEF At, Count, Left, Base, Attached, Waiting
<1>3. ~Attached(loc[q])
  BY <1>1, <1>2, SMTT(30) DEF Count, Left, Base, Attached, Waiting, PC, Mapping, Past, Work
<1>4. loc[q].pc \notin Mapping
  <2>1. Base(loc[q]) = 4 * loc[q].lives
    BY <1>3 DEF Base
  <2> DEFINE l == loc[q]
             a == arrived[q]
             m == l.lives
             k == loc[0].lives
  <2>2. Left(l, a) <= 4 * k /\ 4 * k <= a /\ k \in Nat /\ m \in Nat /\ a \in Nat
    BY <1>1, <1>2
  <2>3. Count(q, l, a) /\ ~Attached(l) /\ Base(l) = 4 * m
    BY <1>1, <1>3, <2>1
  <2> HIDE DEF l, a, m, k
  <2>4. l.pc \notin {"control", "fill", "fillText", "meetZero", "unmap"}
    BY <2>2, <2>3 DEF Count, Left, Waiting
  <2>5. l.pc # "meetLast"
    BY <2>2, <2>3 DEF Count, Left, Waiting
  <2>6. l.pc \notin Work
    BY <2>2, <2>3 DEF Count, Left, Waiting, Work
  <2>7. l.pc # "meetDestroy"
    BY <2>2, <2>3 DEF Count, Left, Waiting
  <2> QED BY <2>4, <2>5, <2>6, <2>7 DEF Mapping, Past, l
<1> QED BY <1>3, <1>4

\* When another process opens an array that it does not attach to, process 0 has created it.
LEMMA Opened ==
  ASSUME RegionInv, NEW q \in Processes, q # 0, At(q, "open"), ~Attached(loc[q]), 0 \in Processes
  PROVE  loc[0].pc \in {"meetZero", "meetLast"}
<1>1. /\ Count(0, loc[0], arrived[0]) /\ Count(q, loc[q], arrived[q])
      /\ Left(loc[0], arrived[0]) <= arrived[q] /\ Left(loc[q], arrived[q]) <= arrived[0]
      /\ loc[0].lives \in Nat /\ loc[q].lives \in Nat /\ arrived[0] \in Nat /\ arrived[q] \in Nat
      /\ loc[0].pc \in PC
  BY DEF RegionInv, Typed, Counted, Lockstep, Locals
<1>2. arrived[q] = 4 * loc[q].lives + 1 /\ Left(loc[q], arrived[q]) = arrived[q]
      /\ (use.attach => loc[q].lives = 0)
  BY <1>1 DEF At, Count, Left, Base, Attached, Waiting
<1> DEFINE l == loc[0]
           a == arrived[0]
           m == l.lives
           k == loc[q].lives
<1>3. /\ Left(l, a) <= 4 * k + 1 /\ 4 * k + 1 <= a /\ k \in Nat /\ m \in Nat /\ a \in Nat
      /\ Count(0, l, a) /\ l.pc \in PC /\ (use.attach => k = 0)
  BY <1>1, <1>2
<1>4. CASE Attached(l)
  <2>1. Base(l) = 3 * m + 1 /\ m > 0 /\ k = 0
    BY <1>3, <1>4 DEF Base, Attached
  <2> HIDE DEF l, a, m, k
  <2>2. l.pc \notin {"idle", "unlink", "control", "meetEnd", "open", "fill", "fillText", "meet", "stopped"}
    BY <1>3, <1>4, <2>1 DEF Count, Left, Waiting
  <2>3. l.pc \notin Work \cup {"meetDestroy", "unmap"}
    BY <1>3, <1>4, <2>1 DEF Count, Left, Waiting, Work
  <2> QED BY <1>3, <2>2, <2>3 DEF PC, Mapping, Past, l
<1>5. CASE ~Attached(l)
  <2>1. Base(l) = 4 * m
    BY <1>3, <1>5 DEF Base
  <2> HIDE DEF l, a, m, k
  <2>2. l.pc \notin {"idle", "unlink", "control", "meetEnd", "open", "fill", "fillText", "meet", "stopped"}
    BY <1>3, <1>5, <2>1 DEF Count, Left, Waiting
  <2>3. l.pc \notin Work \cup {"meetDestroy", "unmap"}
    BY <1>3, <1>5, <2>1 DEF Count, Left, Waiting, Work
  <2> QED BY <1>3, <2>2, <2>3 DEF PC, Mapping, Past, l
<1> QED BY <1>4, <1>5

\* When a process uses the array every other is at the barrier before or after.
LEMMA Together ==
  ASSUME RegionInv, NEW p \in Processes, loc[p].pc \in Work, NEW q \in Processes
  PROVE  loc[q].pc \in Work \cup {"meetLast", "meetDestroy"}
<1>1. /\ Count(p, loc[p], arrived[p]) /\ Count(q, loc[q], arrived[q])
      /\ Left(loc[p], arrived[p]) <= arrived[q] /\ Left(loc[q], arrived[q]) <= arrived[p]
      /\ loc[p].lives \in Nat /\ loc[q].lives \in Nat /\ arrived[p] \in Nat /\ arrived[q] \in Nat
      /\ loc[q].pc \in PC
  BY DEF RegionInv, Typed, Counted, Lockstep, Locals
<1>2. arrived[p] = Base(loc[p]) - 2 /\ Left(loc[p], arrived[p]) = arrived[p] /\ loc[p].lives > 0
  BY <1>1 DEF Count, Left, Base, Attached, Waiting, Work
<1>3. CASE use.attach
  <2>1. CASE loc[q].lives = 0
    BY <1>1, <1>2, <1>3, <2>1, SMTT(60) DEF Count, Left, Base, Attached, Waiting, PC, Mapping, Past, Work
  <2>2. CASE loc[q].lives > 0
    BY <1>1, <1>2, <1>3, <2>2, SMTT(60) DEF Count, Left, Base, Attached, Waiting, PC, Mapping, Past, Work
  <2> QED BY <1>1, <2>1, <2>2
<1>4. CASE ~use.attach
  BY <1>1, <1>2, <1>4, SMTT(60) DEF Count, Left, Base, Attached, Waiting, PC, Mapping, Past, Work
<1> QED BY <1>3, <1>4

\* Every element is in the share of a process.
LEMMA Shared ==
  ASSUME NEW e \in Elements, NEW q \in Processes
  PROVE  \E p \in Processes : e \in Share(p)
<1> DEFINE c == Cardinality(Processes)
           each == N \div c + 1
           p == e \div each
<1>1. c \in Nat /\ Processes = 0 .. c - 1 /\ N \in Nat \ {0}
  BY ArrayAssumption, FS_CardinalityType
<1>2. c > 0
  BY <1>1
<1> HIDE DEF c
<1>3. each \in Nat \ {0} /\ N < c * each
  <2> DEFINE d == N \div c
  <2>1. d \in Nat /\ N < c * d + c
    BY <1>1, <1>2
  <2> HIDE DEF d
  <2>2. c * (d + 1) = c * d + c
    BY <1>1, <2>1
  <2>3. each = d + 1
    BY DEF d
  <2> QED BY <1>1, <2>1, <2>2, <2>3
<1> HIDE DEF each
<1>4. e \in Nat /\ e < N
  BY <1>1 DEF Elements
<1>5. p \in Nat /\ each * p <= e /\ e < each * p + each
  BY <1>3, <1>4
<1> HIDE DEF p
<1>6. each * (p + 1) = each * p + each
  BY <1>3, <1>5
<1>7. p < c
  <2> SUFFICES ASSUME p >= c PROVE FALSE
    BY <1>1, <1>5
  <2>1. PICK k \in Nat : p = c + k
    <3>1. p - c \in Nat /\ p = c + (p - c)
      BY <1>1, <1>5
    <3> QED BY <3>1
  <2>2. each * p = c * each + each * k /\ each * k \in Nat
    BY <1>1, <1>3, <2>1
  <2> QED BY <1>1, <1>3, <1>4, <1>5, <2>2
<1>8. p \in Processes
  BY <1>1, <1>5, <1>7
<1>9. e \in Share(p)
  BY <1>1, <1>3, <1>4, <1>5, <1>6 DEF Share, each, c
<1> QED BY <1>8, <1>9

\* A share is some of the elements.
LEMMA ShareType == ASSUME NEW p \in Processes PROVE Share(p) \subseteq Elements
<1> DEFINE c == Cardinality(Processes)
           each == N \div c + 1
           first == each * p
           past == each * (p + 1)
<1>1. c \in Nat /\ Processes = 0 .. c - 1 /\ N \in Nat
  BY ArrayAssumption, FS_CardinalityType
<1>2. p \in Nat /\ c > 0
  BY <1>1
<1> HIDE DEF c
<1>3. each \in Nat
  BY <1>1, <1>2
<1> HIDE DEF each
<1>4. first \in Nat /\ past \in Nat
  BY <1>2, <1>3
<1>5. Share(p) = first .. (IF past > N THEN N ELSE past) - 1
  BY DEF Share, each, c
<1> HIDE DEF first, past
<1> QED BY <1>1, <1>4, <1>5 DEF Elements

-------------------------------------------------------------------------------
(* Steps *)

\* Locals of a process after a step, with a barriers come to.
Goes(p, l, a) ==
  /\ Locals(l) /\ a \in Nat /\ a >= arrived[p]
  /\ Count(p, l, a)
  /\ \A q \in Processes : q # p => Left(l, a) <= arrived[q]
  /\ l.pc \in Mapping => l.region = files

\* Elements keep their values, or have values afterwards.
Initialises ==
  /\ elem' = [e \in Elements |-> elem'[e]]
  /\ \A e \in Elements : Cell(elem'[e]) /\ (elem'[e].type = "invalid" => elem[e].type = "invalid")

\* A step of a process that creates no file keeps the invariant.
LEMMA StepKeeps ==
  ASSUME RegionInv, NEW p \in Processes, NEW l, NEW a, Goes(p, l, a),
         loc' = [loc EXCEPT ![p] = l], arrived' = [arrived EXCEPT ![p] = a],
         use' = use, files' = files, file' \in {0, files}, ready' \in BOOLEAN,
         p # 0 => file' = file /\ ready' = ready,
         p = 0 => Knows(l, file', files, ready'),
         Initialises, Fills(p, l, elem')
  PROVE  RegionInv'
<1>1. /\ loc' = [q \in Processes |-> loc'[q]] /\ loc'[p] = l /\ \A q \in Processes : q # p => loc'[q] = loc[q]
      /\ arrived' \in [Processes -> Nat] /\ arrived'[p] = a
      /\ \A q \in Processes : q # p => arrived'[q] = arrived[q]
  BY DEF RegionInv, Typed, Goes
<1>2. \A q \in Processes : arrived[q] \in Nat /\ arrived'[q] \in Nat /\ arrived'[q] >= arrived[q]
  BY <1>1 DEF RegionInv, Typed, Goes
<1>3. Typed'
  <2>1. \A q \in Processes : Locals(loc'[q])
    BY <1>1 DEF RegionInv, Typed, Goes
  <2>2. \A q \in Processes : Locals(loc[q])'
    BY <2>1 DEF Locals
  <2>3. \A e \in Elements : Cell(elem[e])'
    BY DEF Cell, Initialises
  <2> QED BY <1>1, <2>2, <2>3 DEF RegionInv, Typed, Initialises
<1>4. Counted'
  <2>1. \A q \in Processes : Count(q, loc'[q], arrived'[q])
    BY <1>1 DEF RegionInv, Counted, Goes
  <2> QED BY <2>1 DEF Counted, Count, Base, Attached
<1>5. Lockstep'
  <2> SUFFICES ASSUME NEW q \in Processes, NEW r \in Processes
               PROVE  Left(loc'[q], arrived'[q]) <= arrived'[r]
    BY DEF Lockstep, Left
  <2>1. CASE q = p
    <3>1. CASE r = p
      BY <1>1, <1>2, <2>1, <3>1 DEF Left
    <3>2. CASE r # p
      BY <1>1, <2>1, <3>2 DEF Goes
    <3> QED BY <3>1, <3>2
  <2>2. CASE q # p
    <3>1. Left(loc[q], arrived[q]) <= arrived[r] /\ Left(loc[q], arrived[q]) \in Int
      BY <1>2 DEF RegionInv, Lockstep, Left
    <3> QED BY <1>1, <1>2, <2>2, <3>1
  <2> QED BY <2>1, <2>2
<1>6. Managed'
  <2>1. \A q \in Processes : q = 0 => Knows(loc'[q], file', files', ready')
    BY <1>1 DEF RegionInv, Managed
  <2> QED BY <2>1 DEF Managed, Knows, Attached
<1>7. Mapped'
  BY <1>1 DEF RegionInv, Mapped, Goes
<1>8. Filled'
  <2>1. \A q \in Processes : Share(q) \subseteq Elements
    BY ShareType
  <2>2. \A q \in Processes : Fills(q, loc'[q], elem')
    BY <1>1, <2>1 DEF RegionInv, Filled, Fills, Initialises
  <2> QED BY <2>2 DEF Filled, Fills, Attached
<1> QED BY <1>3, <1>4, <1>5, <1>6, <1>7, <1>8 DEF RegionInv

\* Locals that agree on the life and what was mapped and filled in it.
Alike(k, l) ==
  /\ Locals(l)
  /\ l.lives = k.lives /\ l.todo = k.todo /\ l.short = k.short /\ l.region = k.region

\* A step that only moves the program counter.
LEMMA Goto ==
  ASSUME RegionInv, NEW p \in Processes, NEW c \in PC, loc' = [loc EXCEPT ![p].pc = c]
  PROVE  \E l : loc' = [loc EXCEPT ![p] = l] /\ Alike(loc[p], l) /\ l.pc = c
<1> DEFINE l == [loc[p] EXCEPT !.pc = c]
<1>1. Locals(loc[p]) /\ loc = [q \in Processes |-> loc[q]]
  BY DEF RegionInv, Typed
<1>2. Alike(loc[p], l) /\ l.pc = c
  BY <1>1 DEF Alike, Locals, Fields
<1>3. loc' = [loc EXCEPT ![p] = l]
  BY <1>1
<1> QED BY <1>2, <1>3

\* The elements stay, or one gets a value.
LEMMA SameElements == RegionInv /\ elem' = elem => Initialises
BY DEF RegionInv, Typed, Initialises

LEMMA OneElement ==
  ASSUME RegionInv, NEW e, NEW c, elem' = [elem EXCEPT ![e] = c],
         e \in Elements => Cell(c) /\ (c.type = "invalid" => elem[e].type = "invalid")
  PROVE  Initialises
BY DEF RegionInv, Typed, Initialises

\* A step from one operation on elements to another.
LEMMA WorkKeeps ==
  ASSUME RegionInv, NEW p \in Processes, loc[p].pc \in Work,
         NEW l, loc' = [loc EXCEPT ![p] = l], Alike(loc[p], l), l.pc \in Work,
         UNCHANGED <<use, file, files, ready, arrived>>, Initialises
  PROVE  RegionInv'
<1> DEFINE a == arrived[p]
<1>1. /\ Locals(loc[p]) /\ Count(p, loc[p], a) /\ a \in Nat /\ loc[p].region = files
      /\ arrived = [arrived EXCEPT ![p] = a] /\ Work \cap Waiting = {} /\ Work \subseteq Past /\ Past \subseteq Mapping
      /\ \A q \in Processes : Left(loc[p], a) <= arrived[q]
      /\ Fills(p, loc[p], elem) /\ Share(p) \subseteq Elements
      /\ file \in {0, files} /\ ready \in BOOLEAN /\ (p = 0 => Knows(loc[p], file, files, ready))
  BY ShareType DEF RegionInv, Typed, Counted, Lockstep, Mapped, Filled, Managed, Work, Waiting, Mapping, Past
<1> HIDE DEF a
<1>2. Count(p, l, a)
  BY <1>1 DEF Count, Alike, Base, Attached, Work
<1>3. Left(l, a) = a /\ Left(loc[p], a) = a
  BY <1>1 DEF Left
<1>4. Goes(p, l, a)
  BY <1>1, <1>2, <1>3 DEF Goes, Alike, a
<1>5. p = 0 => Knows(l, file, files, ready)
  BY <1>1 DEF Knows, Work, Mapping, Past
<1>6. Fills(p, l, elem')
  <2>1. l.pc \notin {"fill", "fillText"} /\ l.pc \in Past /\ loc[p].pc \in Past
    BY <1>1 DEF Work
  <2> QED BY <1>1, <2>1 DEF Fills, Alike, Attached, Initialises
<1> QED BY <1>1, <1>4, <1>5, <1>6, StepKeeps

\* Operations on elements.
LEMMA WorkSteps ==
  ASSUME RegionInv, NEW p \in Processes,
         \/ ReadRW(p) \/ ReadFE(p) \/ Copy(p) \/ Copied(p) \/ Acquire(p) \/ Replace(p) \/ Allocated(p) \/ Publish(p)
  PROVE  RegionInv'
<1> DEFINE k == loc[p]
<1>1. Locals(k) /\ loc = [q \in Processes |-> loc[q]] /\ elem = [e \in Elements |-> elem[e]]
      /\ \A e \in Elements : Cell(elem[e])
  BY DEF RegionInv, Typed
<1>2. Work \subseteq PC
  BY DEF Work, PC, Mapping, Past
<1>3. \E l : loc' = [loc EXCEPT ![p] = l] /\ Alike(k, l) /\ l.pc \in Work
  <2>1. CASE ReadRW(p) \/ ReadFE(p)
    <3>1. PICK o, e, v : Reads(p, o, e, v)
      BY <2>1 DEF ReadRW, ReadFE
    <3> DEFINE d == elem[e].data
               s == Pointed(elem[e].data)
               l == [k EXCEPT !.pc = "copy", !.op = o, !.e = e, !.arg = v, !.done = @ + 1, !.ptr = d, !.saw = s]
    <3>2. loc' = [loc EXCEPT ![p] = l]
      BY <1>1, <3>1 DEF Reads
    <3> HIDE DEF d, s
    <3>3. Alike(k, l) /\ l.pc \in Work
      BY <1>1, <1>2 DEF Alike, Locals, Fields, Work
    <3> QED BY <3>2, <3>3
  <2>2. CASE Copy(p)
    <3> DEFINE g == Pointed(loc[p].ptr)
               l == [k EXCEPT !.pc = "copied", !.got = g]
    <3>1. loc' = [loc EXCEPT ![p] = l]
      BY <1>1, <2>2 DEF Copy
    <3> HIDE DEF g
    <3>2. Alike(k, l) /\ l.pc \in Work
      BY <1>1, <1>2 DEF Alike, Locals, Fields, Work
    <3> QED BY <3>1, <3>2
  <2>3. CASE loc' = [loc EXCEPT ![p] = Over(p)]
    <3>1. Alike(k, Over(p)) /\ Over(p).pc \in Work
      BY <1>1, <1>2 DEF Alike, Locals, Fields, Work, Over
    <3> QED BY <2>3, <3>1
  <2>4. CASE \E c \in Work : To(p, c)
    <3>1. PICK c \in Work : loc' = [loc EXCEPT ![p].pc = c]
      BY <2>4 DEF To
    <3>2. c \in PC
      BY <1>2
    <3> QED BY <3>1, <3>2, Goto
  <2>5. Copied(p) => loc' = [loc EXCEPT ![p] = Over(p)] \/ To(p, "acquire")
    BY DEF Copied
  <2>6. Acquire(p) => To(p, "replace")
    BY DEF Acquire
  <2>7. Replace(p) => To(p, "allocated") \/ To(p, "publish")
    BY DEF Replace
  <2>8. Allocated(p) => To(p, "publish") \/ loc' = [loc EXCEPT ![p] = Over(p)]
    BY DEF Allocated
  <2>9. Publish(p) => loc' = [loc EXCEPT ![p] = Over(p)]
    BY DEF Publish
  <2> QED BY <2>1, <2>2, <2>3, <2>4, <2>5, <2>6, <2>7, <2>8, <2>9 DEF Work
<1>4. loc[p].pc \in Work /\ UNCHANGED <<use, file, files, ready, arrived>>
  BY DEF ReadRW, ReadFE, Copy, Copied, Acquire, Replace, Allocated, Publish, Opens, At, Work
<1>5. Initialises
  <2>1. CASE elem' = elem
    BY <2>1, SameElements
  <2>2. CASE \E e, f : elem' = [elem EXCEPT ![e].fe = f]
    <3>1. PICK e, f : elem' = [elem EXCEPT ![e].fe = f]
      BY <2>2
    <3> DEFINE c == [elem[e] EXCEPT !.fe = f]
    <3>2. elem' = [elem EXCEPT ![e] = c]
      BY <1>1, <3>1
    <3>3. e \in Elements => Cell(c) /\ c.type = elem[e].type
      BY <1>1 DEF Cell
    <3> QED BY <3>2, <3>3, OneElement
  <2>3. CASE \E e, d : elem' = [elem EXCEPT ![e].data = d]
    <3>1. PICK e, d : elem' = [elem EXCEPT ![e].data = d]
      BY <2>3
    <3> DEFINE c == [elem[e] EXCEPT !.data = d]
    <3>2. elem' = [elem EXCEPT ![e] = c]
      BY <1>1, <3>1
    <3>3. e \in Elements => Cell(c) /\ c.type = elem[e].type
      BY <1>1 DEF Cell
    <3> QED BY <3>2, <3>3, OneElement
  <2>4. CASE ReadRW(p)
    <3>1. PICK e \in Elements : elem' = [elem EXCEPT ![e].fe = "RW_LOCK", ![e].rw = @ + 1]
      BY <2>4 DEF ReadRW
    <3> DEFINE n == elem[e].rw + 1
               c == [elem[e] EXCEPT !.fe = "RW_LOCK", !.rw = n]
    <3>2. elem' = [elem EXCEPT ![e] = c]
      BY <1>1, <3>1 DEF Cell
    <3> HIDE DEF n
    <3>3. e \in Elements => Cell(c) /\ c.type = elem[e].type
      BY <1>1 DEF Cell
    <3> QED BY <3>2, <3>3, OneElement
  <2>5. CASE Publish(p)
    <3> DEFINE e == loc[p].e
               t == IF loc[p].arg \in Texts THEN "string" ELSE "number"
               c == [elem[e] EXCEPT !.fe = "FULL", !.type = t]
    <3>1. elem' = [elem EXCEPT ![e] = c]
      BY <1>1, <2>5 DEF Publish, Cell
    <3>2. t # "invalid"
      OBVIOUS
    <3> HIDE DEF t, e
    <3>3. e \in Elements => Cell(c) /\ c.type = t
      BY <1>1 DEF Cell
    <3> QED BY <3>1, <3>2, <3>3, OneElement
  <2>6. CASE Copied(p) /\ elem' # elem
    <3> DEFINE e == loc[p].e
               g == elem[e]
               n == g.rw - 1
               f == IF g.rw = 1 THEN "FULL" ELSE g.fe
               c == [g EXCEPT !.rw = n, !.fe = f]
    <3>1. elem' = [elem EXCEPT ![e] = [g EXCEPT !.rw = @ - 1, !.fe = IF g.rw = 1 THEN "FULL" ELSE @]]
      BY <2>6 DEF Copied
    <3>2. e \in Elements => [g EXCEPT !.rw = @ - 1, !.fe = IF g.rw = 1 THEN "FULL" ELSE @] = c
      BY <1>1 DEF Cell
    <3>3. elem' = [elem EXCEPT ![e] = c]
      BY <1>1, <3>1, <3>2
    <3> HIDE DEF n, f, e
    <3>4. e \in Elements => Cell(c) /\ c.type = elem[e].type
      BY <1>1 DEF Cell
    <3> QED BY <3>3, <3>4, OneElement
  <2>7. ReadFE(p) => \E e, f : elem' = [elem EXCEPT ![e].fe = f]
    BY DEF ReadFE
  <2>8. Copy(p) => elem' = elem
    BY DEF Copy
  <2>9. Acquire(p) => \E e, f : elem' = [elem EXCEPT ![e].fe = f]
    BY DEF Acquire
  <2>10. Replace(p) => elem' = elem \/ \E e, d : elem' = [elem EXCEPT ![e].data = d]
    BY DEF Replace
  <2>11. Allocated(p) => elem' = elem \/ \E e, d : elem' = [elem EXCEPT ![e].data = d]
    BY DEF Allocated
  <2> QED BY <2>1, <2>2, <2>3, <2>4, <2>5, <2>6, <2>7, <2>8, <2>9, <2>10, <2>11
<1>6. PICK l : loc' = [loc EXCEPT ![p] = l] /\ Alike(loc[p], l) /\ l.pc \in Work
  BY <1>3
<1> QED BY <1>4, <1>5, <1>6, WorkKeeps

\* A step that leaves the elements and the control block alone.
LEMMA PlainKeeps ==
  ASSUME RegionInv, NEW p \in Processes, NEW l, NEW a, Goes(p, l, a),
         loc' = [loc EXCEPT ![p] = l], arrived' = [arrived EXCEPT ![p] = a],
         UNCHANGED <<use, files, elem, ready>>, file' \in {0, files},
         p # 0 => file' = file, p = 0 => Knows(l, file', files, ready),
         Fills(p, l, elem)
  PROVE  RegionInv'
<1>1. Initialises
  BY SameElements
<1> QED BY <1>1, StepKeeps DEF RegionInv, Typed

\* What the invariant says of a process.
LEMMA Here ==
  ASSUME RegionInv, NEW p \in Processes
  PROVE  /\ Locals(loc[p]) /\ Count(p, loc[p], arrived[p]) /\ arrived[p] \in Nat
         /\ arrived = [arrived EXCEPT ![p] = arrived[p]] /\ file \in {0, files}
         /\ p = 0 => Knows(loc[p], file, files, ready)
         /\ loc[p].pc \in Mapping => loc[p].region = files
         /\ Fills(p, loc[p], elem)
         /\ \A q \in Processes : Left(loc[p], arrived[p]) <= arrived[q]
         /\ Everybody(p) => \A q \in Processes : arrived[p] <= arrived[q]
<1>1. arrived \in [Processes -> Nat]
  BY DEF RegionInv, Typed
<1> QED BY <1>1 DEF RegionInv, Typed, Counted, Lockstep, Managed, Mapped, Filled, Everybody

\* A process begins to create the array, or to attach to it.
LEMMA NewKeeps == ASSUME RegionInv, NEW p \in Processes, New(p) PROVE RegionInv'
<1> DEFINE k == loc[p]
           c == IF p = 0 THEN "unlink" ELSE "meet"
           a == arrived[p] + IF p = 0 THEN 0 ELSE 1
<1>1. PICK l : loc' = [loc EXCEPT ![p] = l] /\ Alike(k, l) /\ l.pc = c
  BY Goto DEF New, Arrive, To, PC
<1>2. /\ k.pc = "idle" /\ ~Attached(k)
      /\ arrived' = [arrived EXCEPT ![p] = a]
  BY Here DEF New, Creates, At, Attaches, Attached, Arrive
<1>3. Goes(p, l, a)
  <2>1. Count(p, l, a)
    BY <1>1, <1>2, Here DEF Count, Alike, Base, Attached, Locals, Work
  <2>2. Left(l, a) = Left(k, arrived[p])
    BY <1>1, <1>2, Here DEF Left, Waiting
  <2> QED BY <1>1, <1>2, <2>1, <2>2, Here DEF Goes, Alike, Mapping, Past, Work
<1>4. Knows(l, file, files, ready) /\ Fills(p, l, elem)
  BY <1>1, <1>2 DEF Knows, Fills, Alike, Attached, Mapping, Past, Work
<1> QED BY <1>1, <1>2, <1>3, <1>4, Here, PlainKeeps DEF New

LEMMA AttachKeeps == ASSUME RegionInv, NEW p \in Processes, Attach(p) PROVE RegionInv'
<1> DEFINE k == loc[p]
           c == IF use.persist /\ file # 0 THEN "open" ELSE "stopped"
           a == arrived[p]
<1>1. PICK l : loc' = [loc EXCEPT ![p] = l] /\ Alike(k, l) /\ l.pc = c
  BY Goto DEF Attach, To, PC
<1>2. k.pc = "idle" /\ Attached(k) /\ Attached(l)
  BY <1>1 DEF Attach, At, Attaches, Attached, Alike
<1>3. Goes(p, l, a)
  <2>1. Count(p, l, a)
    BY <1>1, <1>2, Here DEF Count, Alike, Base, Attached, Locals, Work
  <2>2. Left(l, a) = Left(k, a)
    BY <1>1, <1>2 DEF Left, Waiting
  <2> QED BY <1>1, <2>1, <2>2, Here DEF Goes, Alike, Mapping, Past, Work
<1>4. p = 0 => Knows(l, file, files, ready)
  BY <1>1, <1>2, Here DEF Knows, Mapping, Past, Work
<1>5. Fills(p, l, elem)
  BY <1>1, <1>2, Here DEF Fills, Alike
<1> QED BY <1>1, <1>3, <1>4, <1>5, Here, PlainKeeps DEF Attach

\* A process leaves the barrier that process 0 comes to when the file is there.
LEMMA MeetKeeps == ASSUME RegionInv, NEW p \in Processes, Meet(p) PROVE RegionInv'
<1> DEFINE k == loc[p]
           a == arrived[p]
<1>1. PICK l : loc' = [loc EXCEPT ![p] = l] /\ Alike(k, l) /\ l.pc = "open"
  BY Goto DEF Meet, To, PC
<1>2. k.pc = "meet" /\ Everybody(p) /\ p # 0 /\ ~Attached(k)
  BY Here DEF Meet, At, Count
<1>3. Goes(p, l, a)
  <2>1. Count(p, l, a)
    BY <1>1, <1>2, Here DEF Count, Alike, Base, Attached, Locals, Work
  <2>2. Left(l, a) = a
    BY <1>1 DEF Left, Waiting
  <2> QED BY <1>1, <1>2, <2>1, <2>2, Here DEF Goes, Alike, Mapping, Past, Work
<1>4. Fills(p, l, elem)
  BY <1>1, <1>2 DEF Fills, Alike, Attached, Mapping, Past, Work
<1> QED BY <1>1, <1>2, <1>3, <1>4, Here, PlainKeeps DEF Meet

\* Process 0 removes the file that is left.
LEMMA UnlinkKeeps == ASSUME RegionInv, NEW p \in Processes, Unlink(p) PROVE RegionInv'
<1> DEFINE k == loc[p]
           a == arrived[p]
<1>1. PICK l : loc' = [loc EXCEPT ![p] = l] /\ Alike(k, l) /\ l.pc = "open"
  BY Goto DEF Unlink, To, PC
<1>2. k.pc = "unlink" /\ p = 0 /\ ~Attached(k) /\ ~Attached(l)
  BY <1>1, Here DEF Unlink, At, Count, Alike, Attached
<1>3. Goes(p, l, a)
  <2>1. Count(p, l, a)
    BY <1>1, <1>2, Here DEF Count, Alike, Base, Attached, Locals, Work
  <2>2. Left(l, a) = Left(k, a)
    BY <1>1, <1>2 DEF Left, Waiting
  <2> QED BY <1>1, <1>2, <2>1, <2>2, Here DEF Goes, Alike, Mapping, Past, Work
<1>4. Knows(l, 0, files, ready) /\ Fills(p, l, elem)
  BY <1>1, <1>2 DEF Knows, Fills, Alike, Mapping, Past, Work
<1> QED BY <1>1, <1>2, <1>3, <1>4, Here, PlainKeeps DEF Unlink

\* The array gets a slot.
LEMMA SlotKeeps == ASSUME RegionInv, NEW p \in Processes, Slot(p) PROVE RegionInv'
<1> DEFINE k == loc[p]
           free == 0 .. use.slots - 1 \ bufs[p]
           id == Least(free)
           c == IF p = 0 /\ ~Attaches(p) THEN "meetZero" ELSE "meetLast"
<1>1. k.pc = "fill" /\ k.todo = {} /\ Locals(k) /\ loc = [q \in Processes |-> loc[q]]
  BY DEF Slot, At, RegionInv, Typed
<1>2. Attaches(p) <=> Attached(k)
  BY DEF Attaches, Attached
<1>3. CASE free = {}
  <2> DEFINE a == arrived[p]
  <2>1. PICK l : loc' = [loc EXCEPT ![p] = l] /\ Alike(k, l) /\ l.pc = "stopped"
    BY <1>3, Goto DEF Slot, To, PC
  <2>2. Count(p, l, a)
    BY <1>1, <2>1, Here DEF Count, Alike, Base, Attached, Locals, Work
  <2>3. Left(l, a) = Left(k, a)
    BY <1>1, <2>1 DEF Left, Waiting
  <2>4. Goes(p, l, a)
    BY <2>1, <2>2, <2>3, Here DEF Goes, Alike, Mapping, Past, Work
  <2>5. p = 0 => Knows(l, file, files, ready)
    BY <1>1, <2>1, Here DEF Knows, Alike, Attached, Mapping, Past, Work
  <2>6. Fills(p, l, elem)
    BY <1>1, <2>1, Here DEF Fills, Alike, Attached, Mapping, Past, Work
  <2> QED BY <1>3, <2>1, <2>4, <2>5, <2>6, Here, PlainKeeps DEF Slot
<1>4. CASE free # {}
  <2> DEFINE a == arrived[p] + 1
             l == [k EXCEPT !.id = id, !.pc = c]
  <2>1. loc' = [loc EXCEPT ![p] = l] /\ arrived' = [arrived EXCEPT ![p] = a]
    BY <1>1, <1>4, Here DEF Slot, Locals, Fields
  <2>2. c \in {"meetZero", "meetLast"} /\ (c = "meetZero" <=> p = 0 /\ ~Attached(k))
    BY <1>2
  <2> HIDE DEF id, c
  <2>3. Alike(k, l) /\ l.pc = c
    BY <1>1, <2>2 DEF Alike, Locals, Fields, PC, Mapping, Past
  <2> HIDE DEF l
  <2>4. Count(p, l, a)
    BY <1>1, <2>2, <2>3, Here DEF Count, Alike, Base, Attached, Locals, Work
  <2>5. Left(l, a) = Left(k, arrived[p])
    BY <1>1, <2>2, <2>3, Here DEF Left, Waiting
  <2>6. Goes(p, l, a)
    BY <1>1, <2>2, <2>3, <2>4, <2>5, Here DEF Goes, Alike, Mapping
  <2>7. p = 0 => Knows(l, file, files, ready)
    BY <1>1, <2>2, <2>3, Here DEF Knows, Alike, Attached, Mapping, Past, Work
  <2>8. Fills(p, l, elem)
    BY <1>1, <2>2, <2>3, Here DEF Fills, Alike, Attached, Mapping, Past, Work
  <2> QED BY <1>4, <2>1, <2>6, <2>7, <2>8, Here, PlainKeeps DEF Slot
<1> QED BY <1>3, <1>4

\* A string does not fit.
LEMMA FillFailsKeeps == ASSUME RegionInv, NEW p \in Processes, FillFails(p) PROVE RegionInv'
<1> DEFINE k == loc[p]
           c == IF p = 0 THEN "meetZero" ELSE "meetLast"
           a == arrived[p] + 1
           l == [k EXCEPT !.pc = c, !.short = TRUE]
<1>1. k.pc = "fillText" /\ Locals(k) /\ loc = [q \in Processes |-> loc[q]]
  BY DEF FillFails, At, RegionInv, Typed
<1>2. loc' = [loc EXCEPT ![p] = l] /\ arrived' = [arrived EXCEPT ![p] = a]
  BY <1>1, Here DEF FillFails, Locals, Fields
<1>3. c \in {"meetZero", "meetLast"} /\ (c = "meetZero" <=> p = 0)
  OBVIOUS
<1> HIDE DEF c
<1>4. /\ Locals(l) /\ l.pc = c /\ l.lives = k.lives /\ l.todo = k.todo /\ l.short = TRUE
      /\ l.region = k.region
  BY <1>1, <1>3 DEF Locals, Fields, PC, Mapping, Past
<1> HIDE DEF l
<1>5. ~Attached(k) /\ ~Attached(l)
  BY <1>1, <1>4, Here DEF Fills, Attached
<1>6. Goes(p, l, a)
  <2>1. Count(p, l, a)
    BY <1>1, <1>3, <1>4, <1>5, Here DEF Count, Base, Locals, Work
  <2>2. Left(l, a) = Left(k, arrived[p])
    BY <1>1, <1>3, <1>4, Here DEF Left, Waiting
  <2> QED BY <1>1, <1>3, <1>4, <2>1, <2>2, Here DEF Goes, Mapping
<1>7. p = 0 => Knows(l, file, files, ready)
  BY <1>1, <1>3, <1>4, <1>5, Here DEF Knows, Mapping, Past, Work
<1>8. Fills(p, l, elem)
  BY <1>4, <1>5 DEF Fills
<1> QED BY <1>2, <1>6, <1>7, <1>8, Here, PlainKeeps DEF FillFails

\* Process 0 comes to the barrier that the others began with.
LEMMA MeetZeroKeeps == ASSUME RegionInv, NEW p \in Processes, MeetZero(p) PROVE RegionInv'
<1> DEFINE k == loc[p]
           a == arrived[p] + 1
<1>1. PICK l : loc' = [loc EXCEPT ![p] = l] /\ Alike(k, l) /\ l.pc = "meetLast"
  BY Goto DEF MeetZero, Arrive, To, PC, Mapping, Past
<1>2. k.pc = "meetZero" /\ Everybody(p) /\ p = 0 /\ ~Attached(k) /\ ~Attached(l)
      /\ arrived' = [arrived EXCEPT ![p] = a]
  BY <1>1, Here DEF MeetZero, At, Count, Attached, Alike, Arrive
<1>3. Goes(p, l, a)
  <2>1. Count(p, l, a)
    BY <1>1, <1>2, Here DEF Count, Alike, Base, Locals, Work
  <2>2. Left(l, a) = arrived[p]
    BY <1>1, Here DEF Left, Waiting
  <2> QED BY <1>1, <1>2, <2>1, <2>2, Here DEF Goes, Alike, Mapping, Past, Work
<1>4. p = 0 => Knows(l, file, files, ready)
  BY <1>1, <1>2, Here DEF Knows, Mapping, Past, Work
<1>5. Fills(p, l, elem)
  BY <1>1, <1>2, Here DEF Fills, Alike, Mapping, Past, Work
<1> QED BY <1>1, <1>2, <1>3, <1>4, <1>5, Here, PlainKeeps DEF MeetZero

\* The array is ready.
LEMMA MeetLastKeeps == ASSUME RegionInv, NEW p \in Processes, MeetLast(p) PROVE RegionInv'
<1> DEFINE k == loc[p]
           a == arrived[p]
           m == k.lives + 1
           l == [k EXCEPT !.pc = "ready", !.lives = m, !.done = 0]
<1>1. k.pc = "meetLast" /\ Locals(k) /\ loc = [q \in Processes |-> loc[q]] /\ Everybody(p)
  BY DEF MeetLast, At, RegionInv, Typed
<1>2. loc' = [loc EXCEPT ![p] = l]
  BY <1>1 DEF MeetLast, Locals, Fields
<1>3. m \in Nat /\ m = k.lives + 1 /\ k.lives \in Nat
  BY <1>1 DEF Locals
<1> HIDE DEF m
<1>4. /\ Locals(l) /\ l.pc = "ready" /\ l.lives = m /\ l.todo = k.todo /\ l.short = k.short
      /\ l.region = k.region
  BY <1>1, <1>3 DEF Locals, Fields, PC, Mapping, Past, Work
<1> HIDE DEF l
<1>5. Goes(p, l, a)
  <2>1. Count(p, l, a)
    BY <1>1, <1>3, <1>4, Here DEF Count, Base, Attached, Work
  <2>2. Left(l, a) = a
    BY <1>4 DEF Left, Waiting
  <2> QED BY <1>1, <1>4, <2>1, <2>2, Here DEF Goes, Mapping, Past
<1>6. p = 0 => Knows(l, file, files, ready)
  BY <1>1, <1>4, Here DEF Knows, Mapping, Past, Work
<1>7. Fills(p, l, elem)
  BY <1>1, <1>4, Here DEF Fills, Mapping, Past, Work
<1> QED BY <1>1, <1>2, <1>5, <1>6, <1>7, Here, PlainKeeps DEF MeetLast

\* A process begins to destroy the array.
LEMMA DestroyKeeps == ASSUME RegionInv, NEW p \in Processes, Destroy(p) PROVE RegionInv'
<1> DEFINE k == loc[p]
           a == arrived[p] + 1
<1>1. PICK l : loc' = [loc EXCEPT ![p] = l] /\ Alike(k, l) /\ l.pc = "meetDestroy"
  BY Goto DEF Destroy, Arrive, To, PC, Mapping, Past
<1>2. k.pc = "ready" /\ arrived' = [arrived EXCEPT ![p] = a]
  BY DEF Destroy, At, Arrive
<1>3. Goes(p, l, a)
  <2>1. Count(p, l, a)
    BY <1>1, <1>2, Here DEF Count, Alike, Base, Attached, Locals, Work
  <2>2. Left(l, a) = Left(k, arrived[p])
    BY <1>1, <1>2, Here DEF Left, Waiting
  <2> QED BY <1>1, <1>2, <2>1, <2>2, Here DEF Goes, Alike, Mapping, Past, Work
<1>4. p = 0 => Knows(l, file, files, ready)
  BY <1>1, <1>2, Here DEF Knows, Mapping, Past, Work, Attached, Alike
<1>5. Fills(p, l, elem)
  BY <1>1, <1>2, Here DEF Fills, Alike, Mapping, Past, Work, Attached
<1> QED BY <1>1, <1>2, <1>3, <1>4, <1>5, Here, PlainKeeps DEF Destroy

LEMMA MeetDestroyKeeps == ASSUME RegionInv, NEW p \in Processes, MeetDestroy(p) PROVE RegionInv'
<1> DEFINE k == loc[p]
           c == IF p = 0 THEN "unmap" ELSE "meetEnd"
           a == arrived[p] + IF p = 0 THEN 0 ELSE 1
<1>1. PICK l : loc' = [loc EXCEPT ![p] = l] /\ Alike(k, l) /\ l.pc = c
  BY Goto DEF MeetDestroy, Arrive, To, PC, Mapping, Past
<1>2. k.pc = "meetDestroy" /\ Everybody(p) /\ arrived' = [arrived EXCEPT ![p] = a]
  BY Here DEF MeetDestroy, At, Arrive
<1>3. Goes(p, l, a)
  <2>1. Count(p, l, a)
    BY <1>1, <1>2, Here DEF Count, Alike, Base, Attached, Locals, Work
  <2>2. Left(l, a) = arrived[p]
    BY <1>1, <1>2, Here DEF Left, Waiting
  <2> QED BY <1>1, <1>2, <2>1, <2>2, Here DEF Goes, Alike, Mapping, Past, Work
<1>4. p = 0 => Knows(l, file, files, ready)
  BY <1>1, <1>2, Here DEF Knows, Mapping, Past, Work, Attached, Alike
<1>5. Fills(p, l, elem)
  BY <1>1, <1>2, Here DEF Fills, Alike, Mapping, Past, Work, Attached
<1> QED BY <1>1, <1>2, <1>3, <1>4, <1>5, Here, PlainKeeps DEF MeetDestroy

\* Process 0 unmaps the array.
LEMMA UnmapKeeps == ASSUME RegionInv, NEW p \in Processes, Unmap(p) PROVE RegionInv'
<1> DEFINE k == loc[p]
           fails == use.unlink /\ ~use.persist
           stops == loc[p].id = 0 \/ (fails /\ use.lang = "js")
           c == IF stops THEN "stopped" ELSE "meetEnd"
           a == arrived[p] + IF stops THEN 0 ELSE 1
<1>1. PICK l : loc' = [loc EXCEPT ![p] = l] /\ Alike(k, l) /\ l.pc = c
  BY Goto DEF Unmap, Arrive, To, PC
<1>2. k.pc = "unmap" /\ p = 0 /\ arrived' = [arrived EXCEPT ![p] = a]
  BY Here DEF Unmap, At, Arrive, Count
<1> HIDE DEF fails
<1>3. Goes(p, l, a)
  <2>1. Count(p, l, a)
    BY <1>1, <1>2, Here DEF Count, Alike, Base, Attached, Locals, Work
  <2>2. Left(l, a) = Left(k, arrived[p])
    BY <1>1, <1>2, Here DEF Left, Waiting
  <2> QED BY <1>1, <1>2, <2>1, <2>2, Here DEF Goes, Alike, Mapping, Past, Work
<1>4. file' \in {0, files} /\ UNCHANGED <<use, files, elem, ready>>
  BY Here DEF Unmap
<1>5. Knows(l, file', files, ready)
  BY <1>1, <1>2, Here DEF Knows, Mapping, Past, Work, Attached, Alike
<1>6. Fills(p, l, elem)
  BY <1>1, <1>2, Here DEF Fills, Alike, Mapping, Past, Work, Attached
<1> QED BY <1>1, <1>2, <1>3, <1>4, <1>5, <1>6, PlainKeeps

\* A life is over.
LEMMA MeetEndKeeps == ASSUME RegionInv, NEW p \in Processes, MeetEnd(p) PROVE RegionInv'
<1> DEFINE k == loc[p]
           a == arrived[p]
           l == [Fresh EXCEPT !.lives = loc[p].lives, !.short = loc[p].short]
<1>1. k.pc = "meetEnd" /\ Locals(k) /\ Everybody(p) /\ loc' = [loc EXCEPT ![p] = l]
  BY DEF MeetEnd, At, RegionInv, Typed
<1>2. Locals(l) /\ l.pc = "idle" /\ l.lives = k.lives /\ l.todo = {} /\ l.short = k.short
  BY <1>1 DEF Locals, Fields, Fresh, PC
<1> HIDE DEF l
<1>3. Goes(p, l, a)
  <2>1. Count(p, l, a)
    BY <1>1, <1>2, Here DEF Count, Base, Attached, Locals, Work
  <2>2. Left(l, a) = a
    BY <1>2 DEF Left, Waiting
  <2> QED BY <1>1, <1>2, <2>1, <2>2, Here DEF Goes, Mapping, Past, Work
<1>4. p = 0 => Knows(l, file, files, ready)
  BY <1>1, <1>2, Here DEF Knows, Mapping, Past, Work, Attached
<1>5. Fills(p, l, elem)
  BY <1>1, <1>2, Here DEF Fills, Mapping, Past, Work, Attached
<1> QED BY <1>1, <1>3, <1>4, <1>5, Here, PlainKeeps DEF MeetEnd

\* Process 0 fills the control block.
LEMMA ControlKeeps == ASSUME RegionInv, NEW p \in Processes, Control(p) PROVE RegionInv'
<1> DEFINE k == loc[p]
           a == arrived[p]
<1>1. PICK l : loc' = [loc EXCEPT ![p] = l] /\ Alike(k, l) /\ l.pc = "fill"
  BY Goto DEF Control, To, PC, Mapping
<1>2. k.pc = "control" /\ p = 0 /\ ~Attached(k) /\ ~Attached(l)
  BY <1>1, Here DEF Control, At, Count, Attached, Alike
<1>3. Goes(p, l, a)
  <2>1. Count(p, l, a)
    BY <1>1, <1>2, Here DEF Count, Alike, Base, Locals, Work
  <2>2. Left(l, a) = Left(k, a)
    BY <1>1, <1>2 DEF Left, Waiting
  <2> QED BY <1>1, <1>2, <2>1, <2>2, Here DEF Goes, Alike, Mapping
<1>4. Knows(l, file, files, TRUE)
  BY <1>1, <1>2, Here DEF Knows
<1>5. Fills(p, l, elem)
  BY <1>1, <1>2, Here DEF Fills, Alike, Mapping, Past, Work
<1>6. elem' = elem /\ Initialises
  BY SameElements DEF Control
<1> QED BY <1>1, <1>2, <1>3, <1>4, <1>5, <1>6, Here, StepKeeps DEF Control

\* A round of the loop that fills the elements.
LEMMA FillKeeps == ASSUME RegionInv, NEW p \in Processes, Fill(p) PROVE RegionInv'
<1> DEFINE k == loc[p]
           a == arrived[p]
           e == Least(loc[p].todo)
<1>1. k.pc = "fill" /\ Locals(k) /\ loc = [q \in Processes |-> loc[q]] /\ ~Attached(k)
  BY Here DEF Fill, At, RegionInv, Typed, Fills
<1>2. UNCHANGED <<use, file, files, ready, arrived>>
  BY DEF Fill
<1>3. CASE use.fill \in Texts
  <2> DEFINE l == [k EXCEPT !.pc = "fillText", !.e = e]
  <2>1. loc' = [loc EXCEPT ![p] = l] /\ elem' = elem
    BY <1>1, <1>3 DEF Fill
  <2> HIDE DEF e
  <2>2. Alike(k, l) /\ l.pc = "fillText"
    BY <1>1 DEF Alike, Locals, Fields, PC, Mapping
  <2> HIDE DEF l
  <2>3. ~Attached(l)
    BY <1>1, <2>2 DEF Attached, Alike
  <2>4. Goes(p, l, a)
    <3>1. Count(p, l, a)
      BY <1>1, <2>2, <2>3, Here DEF Count, Alike, Base, Locals, Work
    <3>2. Left(l, a) = Left(k, a)
      BY <1>1, <2>2 DEF Left, Waiting
    <3> QED BY <1>1, <2>2, <3>1, <3>2, Here DEF Goes, Alike, Mapping
  <2>5. p = 0 => Knows(l, file, files, ready)
    BY <1>1, <2>2, <2>3, Here DEF Knows, Mapping
  <2>6. Fills(p, l, elem)
    BY <1>1, <2>2, <2>3, Here DEF Fills, Alike, Mapping, Past, Work
  <2> QED BY <1>2, <2>1, <2>4, <2>5, <2>6, Here, PlainKeeps
<1>4. CASE use.fill \notin Texts
  <2> DEFINE todo == loc[p].todo \ {e}
             l == [k EXCEPT !.todo = todo]
             z == [fe |-> "FULL", rw |-> 0, type |-> "number", data |-> -1]
  <2>1. loc' = [loc EXCEPT ![p] = l] /\ elem' = [elem EXCEPT ![e] = z]
    BY <1>1, <1>4 DEF Fill
  <2>2. Cell(z) /\ z.type = "number"
    BY DEF Cell
  <2> HIDE DEF e, z
  <2>3. todo \subseteq Elements /\ todo = k.todo \ {e}
    BY <1>1 DEF Locals
  <2> HIDE DEF todo
  <2>4. /\ Locals(l) /\ l.pc = "fill" /\ l.lives = k.lives /\ l.todo = todo /\ l.short = k.short
        /\ l.region = k.region
    BY <1>1, <2>3 DEF Locals, Fields, PC, Mapping
  <2> HIDE DEF l
  <2>5. ~Attached(l)
    BY <1>1, <2>4 DEF Attached
  <2>6. Initialises
    BY <2>1, <2>2, OneElement
  <2>7. Goes(p, l, a)
    <3>1. Count(p, l, a)
      BY <1>1, <2>4, <2>5, Here DEF Count, Base, Work
    <3>2. Left(l, a) = Left(k, a)
      BY <1>1, <2>4 DEF Left, Waiting
    <3> QED BY <1>1, <2>4, <3>1, <3>2, Here DEF Goes, Mapping
  <2>8. p = 0 => Knows(l, file, files, ready)
    BY <1>1, <2>4, <2>5, Here DEF Knows
  <2>9. Fills(p, l, elem')
    <3>1. \A x \in Elements : elem[x].type # "invalid" \/ x = e => elem'[x].type # "invalid"
      BY <2>1, <2>2, <2>6 DEF Initialises, RegionInv, Typed
    <3> QED BY <1>1, <2>3, <2>4, <2>5, <3>1, Here, ShareType DEF Fills, Mapping, Past, Work
  <2> QED BY <1>2, <2>1, <2>6, <2>7, <2>8, <2>9, Here, StepKeeps DEF RegionInv, Typed
<1> QED BY <1>3, <1>4

\* The string is in its place.
LEMMA FillTextKeeps == ASSUME RegionInv, NEW p \in Processes, FillText(p) PROVE RegionInv'
<1> DEFINE k == loc[p]
           a == arrived[p]
           e == loc[p].e
           b == call[p].offset
           todo == loc[p].todo \ {e}
           l == [k EXCEPT !.pc = "fill", !.todo = todo]
           z == [fe |-> "FULL", rw |-> 0, type |-> "string", data |-> b]
<1>1. k.pc = "fillText" /\ Locals(k) /\ loc = [q \in Processes |-> loc[q]] /\ ~Attached(k)
  BY Here DEF FillText, At, RegionInv, Typed, Fills
<1>2. UNCHANGED <<use, file, files, ready, arrived>>
  BY DEF FillText
<1>3. loc' = [loc EXCEPT ![p] = l] /\ elem' = [elem EXCEPT ![e] = z]
  BY <1>1 DEF FillText, Locals, Fields
<1> HIDE DEF b
<1>4. Cell(z) /\ z.type = "string"
  BY DEF Cell
<1> HIDE DEF e, z
<1>5. todo \subseteq Elements /\ todo = k.todo \ {e}
  BY <1>1 DEF Locals
<1> HIDE DEF todo
<1>6. /\ Locals(l) /\ l.pc = "fill" /\ l.lives = k.lives /\ l.todo = todo /\ l.short = k.short
      /\ l.region = k.region
  BY <1>1, <1>5 DEF Locals, Fields, PC, Mapping
<1> HIDE DEF l
<1>7. ~Attached(l)
  BY <1>1, <1>6 DEF Attached
<1>8. Initialises
  BY <1>3, <1>4, OneElement
<1>9. Goes(p, l, a)
  <2>1. Count(p, l, a)
    BY <1>1, <1>6, <1>7, Here DEF Count, Base, Work
  <2>2. Left(l, a) = Left(k, a)
    BY <1>1, <1>6 DEF Left, Waiting
  <2> QED BY <1>1, <1>6, <2>1, <2>2, Here DEF Goes, Mapping
<1>10. p = 0 => Knows(l, file, files, ready)
  BY <1>1, <1>6, <1>7, Here DEF Knows, Mapping
<1>11. Fills(p, l, elem')
  <2>1. \A x \in Elements : elem[x].type # "invalid" \/ x = e => elem'[x].type # "invalid"
    BY <1>3, <1>4, <1>8 DEF Initialises, RegionInv, Typed
  <2> QED BY <1>1, <1>5, <1>6, <1>7, <2>1, Here, ShareType DEF Fills, Mapping, Past, Work
<1> QED BY <1>2, <1>3, <1>8, <1>9, <1>10, <1>11, Here, StepKeeps DEF RegionInv, Typed

\* There is a process 0.
LEMMA Zero == ASSUME NEW p \in Processes PROVE 0 \in Processes
<1>1. Cardinality(Processes) \in Nat /\ Processes = 0 .. Cardinality(Processes) - 1
  BY ArrayAssumption, FS_CardinalityType
<1> QED BY <1>1

\* What Open makes of the locals of a process.
LEMMA OpenLocals ==
  ASSUME RegionInv, NEW p \in Processes, Open(p)
  PROVE  \E l : /\ loc' = [loc EXCEPT ![p] = l] /\ Locals(l) /\ l.lives = loc[p].lives /\ l.region = file'
                /\ l.pc = IF p = 0 /\ ~Attached(loc[p]) THEN "control" ELSE "fill"
                /\ l.todo = IF Attached(loc[p]) THEN {} ELSE Share(p)
                /\ l.short = (Attached(loc[p]) /\ loc[p].short)
<1> DEFINE k == loc[p]
           f == file'
           c == IF p = 0 /\ ~Attached(loc[p]) THEN "control" ELSE "fill"
           todo == IF Attached(loc[p]) THEN {} ELSE Share(p)
           s == Attached(loc[p]) /\ loc[p].short
           l == [k EXCEPT !.region = f, !.pc = c, !.todo = todo, !.short = s]
<1>1. Locals(k) /\ loc = [q \in Processes |-> loc[q]] /\ (Attaches(p) <=> Attached(k))
  BY DEF RegionInv, Typed, Attaches, Attached
<1>2. loc' = [loc EXCEPT ![p].region = f, ![p].pc = c, ![p].todo = todo, ![p].short = Attaches(p) /\ @]
  BY <1>1 DEF Open
<1>3. c \in PC /\ todo \subseteq Elements /\ s \in BOOLEAN
  BY ShareType DEF PC, Mapping
<1>4. s = (Attaches(p) /\ k.short)
  BY <1>1
<1> HIDE DEF c, todo, s, f
<1>5. loc' = [loc EXCEPT ![p] = l]
  BY <1>1, <1>2, <1>4 DEF Locals, Fields
<1>6. /\ Locals(l) /\ l.lives = k.lives /\ l.region = f /\ l.pc = c /\ l.todo = todo /\ l.short = s
  BY <1>1, <1>3 DEF Locals, Fields
<1> HIDE DEF l
<1> QED BY <1>5, <1>6 DEF c, todo, s, f

\* A process maps the file, and process 0 has it created.
LEMMA OpenKeeps == ASSUME RegionInv, NEW p \in Processes, Open(p) PROVE RegionInv'
<1> DEFINE k == loc[p]
           a == arrived[p]
<1>1. PICK l : /\ loc' = [loc EXCEPT ![p] = l] /\ Locals(l) /\ l.lives = k.lives /\ l.region = file'
               /\ l.pc = IF p = 0 /\ ~Attached(k) THEN "control" ELSE "fill"
               /\ l.todo = IF Attached(k) THEN {} ELSE Share(p)
               /\ l.short = (Attached(k) /\ k.short)
  BY OpenLocals
<1>2. /\ k.pc = "open" /\ (Attached(k) => file # 0) /\ (Attached(l) <=> Attached(k))
      /\ UNCHANGED <<use, arrived>> /\ 0 \in Processes
  BY <1>1, Zero DEF Open, At, Attaches, Attached
<1>3. files \in Nat \ {0}
  BY DEF RegionInv, Typed
<1>4. p # 0 /\ ~Attached(k) => file = files
  <2>1. SUFFICES ASSUME p # 0, ~Attached(k) PROVE file = files
    OBVIOUS
  <2>2. loc[0].pc \in {"meetZero", "meetLast"}
    BY <1>2, <2>1, Opened DEF At
  <2> QED BY <1>2, <2>2, Here DEF Knows, Mapping, Past
<1>5. Count(p, l, a) /\ Left(l, a) = Left(k, a)
  <2>1. Base(l) = Base(k) /\ Base(k) \in Nat
    BY <1>1, <1>2, Here DEF Base, Locals
  <2>2. Count(p, k, a) /\ k.pc = "open" /\ (Attached(l) <=> Attached(k))
        /\ l.pc = IF p = 0 /\ ~Attached(k) THEN "control" ELSE "fill"
    BY <1>1, <1>2, Here
  <2> HIDE DEF k, a
  <2>3. Count(p, l, a)
    BY <2>1, <2>2 DEF Count, Work
  <2> QED BY <2>2, <2>3 DEF Left, Waiting
<1>6. CASE file # 0
  <2>1. file = files /\ (p = 0 => Attached(k))
    BY <1>2, <1>3, <1>6, Here DEF Knows
  <2>2. UNCHANGED <<file, files, ready, elem>>
    BY <1>6 DEF Open
  <2>3. Goes(p, l, a)
    BY <1>1, <1>5, <2>1, <2>2, Here DEF Goes
  <2>4. p = 0 => Knows(l, file, files, ready)
    BY <1>1, <1>2, <2>1, Here DEF Knows, Mapping, Past, Work
  <2>5. Fills(p, l, elem)
    BY <1>1, <1>2, Here DEF Fills, Mapping, Past, Work
  <2> QED BY <1>1, <1>2, <2>2, <2>3, <2>4, <2>5, Here, PlainKeeps
<1>7. CASE file = 0
  <2>1. p = 0 /\ ~Attached(k)
    BY <1>2, <1>3, <1>4, <1>7
  <2>2. /\ file' = files + 1 /\ files' = files + 1 /\ ready' = FALSE
        /\ elem' = [e \in Elements |-> ZeroElem]
    BY <1>7 DEF Open
  <2>3. \A q \in Processes : q # 0 => loc[q].pc \notin Mapping /\ ~Attached(loc[q])
    BY <1>2, <2>1, Alone DEF At
  <2>4. /\ loc' = [q \in Processes |-> loc'[q]] /\ loc'[0] = l
        /\ \A q \in Processes : q # 0 => loc'[q] = loc[q]
    BY <1>1, <2>1 DEF RegionInv, Typed
  <2>5. Typed'
    <3>1. \A q \in Processes : Locals(loc'[q])
      BY <1>1, <2>4 DEF RegionInv, Typed
    <3>2. \A q \in Processes : Locals(loc[q])'
      BY <3>1 DEF Locals
    <3>3. \A e \in Elements : Cell(elem[e])'
      BY <2>2 DEF Cell, ZeroElem
    <3>4. file' \in {0, files'} /\ files' \in Nat \ {0}
      BY <1>3, <2>2
    <3> QED BY <1>2, <2>2, <2>4, <3>2, <3>3, <3>4 DEF RegionInv, Typed
  <2>6. Counted'
    <3>1. \A q \in Processes : Count(q, loc'[q], arrived'[q])
      BY <1>2, <1>5, <2>1, <2>4 DEF RegionInv, Counted
    <3> QED BY <1>2, <3>1 DEF Counted, Count, Base, Attached
  <2>7. Lockstep'
    <3>1. \A q, r \in Processes : Left(loc'[q], arrived'[q]) <= arrived'[r]
      BY <1>2, <1>5, <2>1, <2>4 DEF RegionInv, Lockstep
    <3> QED BY <3>1 DEF Lockstep, Left
  <2>8. Managed'
    <3>1. Knows(l, file', files', ready')
      BY <1>1, <1>2, <2>1, <2>2 DEF Knows
    <3> QED BY <1>2, <2>4, <3>1 DEF Managed, Knows, Attached
  <2>9. Mapped'
    BY <1>1, <2>1, <2>2, <2>3, <2>4 DEF Mapped
  <2>10. Filled'
    <3>1. Fills(p, l, elem')
      BY <1>1, <1>2, <2>1 DEF Fills, Mapping, Past, Work
    <3>2. \A q \in Processes : Fills(q, loc'[q], elem')
      BY <2>1, <2>3, <2>4, <3>1 DEF Fills
    <3> QED BY <1>2, <3>2 DEF Filled, Fills, Attached
  <2> QED BY <2>5, <2>6, <2>7, <2>8, <2>9, <2>10 DEF RegionInv
<1> QED BY <1>6, <1>7

-------------------------------------------------------------------------------

\* A step that leaves all of the above alone keeps it.
LEMMA StutterKeeps == RegionInv /\ UNCHANGED arrayVars => RegionInv'
BY DEF arrayVars, RegionInv, Typed, Counted, Lockstep, Managed, Mapped, Filled, Locals, Cell, Count, Base,
       Attached, Left, Knows, Fills

\* Every step keeps the invariant.
LEMMA StepsKeep == RegionInv /\ [Next]_vars => RegionInv'
<1> SUFFICES ASSUME RegionInv, [Next]_vars PROVE RegionInv'
  OBVIOUS
<1>1. CASE UNCHANGED vars
  BY <1>1, StutterKeeps DEF vars
<1>2. ASSUME NEW p \in Processes, Step(p) \/ ReadRW(p) \/ ReadFE(p) PROVE RegionInv'
  <2>1. CASE New(p) \/ Attach(p) \/ Meet(p) \/ Unlink(p) \/ Open(p) \/ Control(p)
    BY <2>1, NewKeeps, AttachKeeps, MeetKeeps, UnlinkKeeps, OpenKeeps, ControlKeeps
  <2>2. CASE Fill(p) \/ FillText(p) \/ FillFails(p) \/ Slot(p) \/ MeetZero(p) \/ MeetLast(p)
    BY <2>2, FillKeeps, FillTextKeeps, FillFailsKeeps, SlotKeeps, MeetZeroKeeps, MeetLastKeeps
  <2>3. CASE ReadRW(p) \/ ReadFE(p) \/ Copy(p) \/ Copied(p) \/ Acquire(p) \/ Replace(p) \/ Allocated(p) \/ Publish(p)
    BY <2>3, WorkSteps
  <2>4. CASE Destroy(p) \/ MeetDestroy(p) \/ Unmap(p) \/ MeetEnd(p)
    BY <2>4, DestroyKeeps, MeetDestroyKeeps, UnmapKeeps, MeetEndKeeps
  <2>5. CASE HeapStep(p)
    BY <2>5, StutterKeeps DEF HeapStep
  <2> QED BY <1>2, <2>1, <2>2, <2>3, <2>4, <2>5 DEF Step
<1> QED BY <1>1, <1>2 DEF Next

\* No process has come to a barrier, and there is one file at most.
LEMMA InitRegion == Init => RegionInv
<1> SUFFICES ASSUME Init PROVE RegionInv
  OBVIOUS
<1>1. \A p \in Processes : loc[p] = Fresh /\ arrived[p] = 0
  BY DEF Init
<1>2. Locals(Fresh) /\ Fresh.pc = "idle" /\ Fresh.lives = 0 /\ ~Attached(Fresh)
  BY DEF Locals, Fresh, Fields, PC, Attached
<1>3. Typed
  <2>1. use \in Uses /\ files \in Nat \ {0} /\ file \in {0, files} /\ ready \in BOOLEAN
    <3>1. use \in Uses /\ file \in {0, 1} /\ files = 1
      BY DEF Init
    <3>2. ready = FALSE
      BY DEF Init
    <3>3. files \in Nat \ {0} /\ file \in {0, files}
      BY <3>1
    <3>4. ready \in BOOLEAN
      BY <3>2
    <3> QED BY <3>1, <3>3, <3>4
  <2>2. loc = [p \in Processes |-> loc[p]] /\ arrived \in [Processes -> Nat]
    BY DEF Init
  <2>3. elem = [e \in Elements |-> elem[e]] /\ \A e \in Elements : Cell(elem[e])
    BY DEF Init, Cell, ZeroElem
  <2> QED BY <1>1, <1>2, <2>1, <2>2, <2>3 DEF Typed
<1>4. \A p \in Processes : Count(p, Fresh, 0) /\ Left(Fresh, 0) = 0 /\ Fills(p, Fresh, elem)
  BY <1>2 DEF Count, Base, Left, Fills, Waiting, Mapping, Past, Work
<1>5. Knows(Fresh, file, files, ready)
  BY <1>2 DEF Knows, Mapping, Past, Work
<1>6. Mapped
  BY <1>1, <1>2 DEF Mapped, Mapping, Past, Work
<1> QED BY <1>1, <1>3, <1>4, <1>5, <1>6 DEF RegionInv, Counted, Lockstep, Managed, Filled

\* The invariant puts the users of an array into one region.
LEMMA RegionOne == RegionInv => OneRegion
<1> SUFFICES ASSUME RegionInv, NEW p \in Using
             PROVE  /\ loc[p].region = files /\ ready
                    /\ (\A q \in Processes : ~loc[q].short) => \A e \in Elements : elem[e].type # "invalid"
  BY DEF OneRegion
<1>1. p \in Processes /\ loc[p].pc \in Work
  BY DEF Using, Work
<1>2. loc[p].region = files
  BY <1>1, Here DEF Mapping, Past
<1>3. \A q \in Processes : loc[q].pc \in Past
  BY <1>1, Together DEF Past
<1>4. ready
  BY <1>1, <1>3, Zero, Here DEF Knows, Mapping, Past, Work
<1>5. ASSUME \A q \in Processes : ~loc[q].short, NEW e \in Elements PROVE elem[e].type # "invalid"
  <2>1. PICK q \in Processes : e \in Share(q)
    BY <1>1, Shared
  <2> QED BY <1>3, <1>5, <2>1, Here DEF Fills, Mapping
<1> QED BY <1>2, <1>4, <1>5

\* Processes that use an array have all mapped one file, the last one created, whose control
\* block is filled and, unless an allocation has failed, every element of which is initialised.
THEOREM UsersShareOneRegion == Spec => []OneRegion
<1>1. RegionInv /\ [Next]_vars => RegionInv'
  BY StepsKeep
<1> QED BY <1>1, InitRegion, RegionOne, PTL DEF Spec

-------------------------------------------------------------------------------
(* Who owns the blocks of the heap *)

\* Calls of the allocator that ask for a block, and that give one back.
Asking == {"lockAlloc", "seek", "climb", "mark", "unlock", "fail", "returned", "failed"}
Returning == {"lockFree", "find", "combine", "refresh", "unlock", "returned"}

\* The process with locals l is in call c of the allocator.
Fits(l, c) ==
  /\ l.pc = "fillText" =>
       c.pc \in Asking /\ use.fill \in Texts /\ c.size = Size(Bytes[use.fill]) /\ l.e \in l.todo
  /\ l.pc = "allocated" => c.pc \in Asking /\ l.arg \in Texts /\ c.size = Size(Bytes[l.arg])
  /\ l.pc = "replace" => c.pc \in Returning \cup {"none"}
  /\ l.pc \notin {"fillText", "allocated", "replace"} => c.pc = "none"

\* Operations that read an element beside others, that hold it EMPTY, and that change it.
Reader(l) == l.pc \in {"copy", "copied"} /\ l.op = "inspect"
Waiter(l) == l.pc \in {"copy", "copied", "acquire"} /\ l.op = "update"
Writer(l) == l.pc \in {"replace", "allocated", "publish"}
Changes(l) == Waiter(l) \/ Writer(l)

\* The string, or number, that a data word d stands for.
Points(tx, d) == IF d < 0 THEN Number ELSE tx[d]

\* What an operation with locals l knows of element e, if it has one.
Works(l, g, tx) ==
  /\ l.pc \in Work \ {"ready"} => l.e \in Elements /\ l.arg \in Values /\ (Reader(l) \/ Changes(l))
  /\ Reader(l) \/ Waiter(l) => l.ptr = g.data
  /\ Waiter(l) => g.fe = "EMPTY"
  /\ Writer(l) => g.fe = "BUSY"
  /\ l.pc = "publish" /\ l.arg \notin Texts => g.data = -1
  /\ l.pc = "copy" => l.saw = Points(tx, l.ptr)
  /\ l.pc = "copied" => l.got = l.saw

\* Tags, types and data words agree.
Sound(c) ==
  /\ c.fe \in {"FULL", "EMPTY", "BUSY", "RW_LOCK"} /\ c.rw \in Nat
  /\ c.fe = "RW_LOCK" <=> c.rw > 0
  /\ c.fe # "BUSY" => IF c.type = "string" THEN c.data \in 0 .. Length(0) - 1 ELSE c.data = -1

Readers(lo, e) == {p \in Processes : Reader(lo[p]) /\ lo[p].e = e}

\* Elements that nobody has filled yet: those that process p is still to fill, and those of
\* a process that has not opened the file that process 0 has created.
Creating(lo) ==
  0 \in Processes /\ lo[0].pc \in {"control", "fill", "fillText", "meetZero", "meetLast"} /\ ~Attached(lo[0])
Unfilled(p, lo) ==
  IF lo[p].pc \in {"control", "fill", "fillText"} THEN lo[p].todo
  ELSE IF p # 0 /\ lo[p].pc \in {"idle", "meetEnd", "meet", "open"} /\ Creating(lo) THEN Share(p) ELSE {}

\* What a process has: a block that it was given, is about to give back, or has written.
Given(l, c) == l.pc \in {"fillText", "allocated"} /\ c.pc \in {"mark", "unlock", "returned"}
Holds(l, c) ==
  \/ Given(l, c)
  \/ l.pc = "replace" /\ c.pc \in {"lockFree", "find"}
  \/ l.pc = "publish" /\ l.arg \in Texts
Place(l, c, el) == IF l.pc = "publish" THEN el[l.e].data ELSE c.offset

\* An element has a string, unless a process is about to change it.
Keeping(c) == c.type = "string" /\ c.fe # "BUSY"

Title(kind, who, at) == [kind |-> kind, who |-> who, at |-> at]
Titles(el, lo, ca) ==
  {Title("element", e, el[e].data) : e \in {x \in Elements : Keeping(el[x])}}
  \cup {Title("process", p, Place(lo[p], ca[p], el)) : p \in {q \in Processes : Holds(lo[q], ca[q])}}

\* Every title has its block, and every block one title.
Ledger(T, L) ==
  /\ \A t \in T : \E b \in L : b.offset = t.at
  /\ \A b \in L : \E t \in T : b.offset = t.at
  /\ \A s, t \in T : s.at = t.at => s = t

Fitting == \A p \in Processes : Fits(loc[p], call[p])
Working == \A p \in Processes : Works(loc[p], elem[loc[p].e], text)
Exclusive == \A p, q \in Processes : Changes(loc[p]) /\ Changes(loc[q]) /\ loc[p].e = loc[q].e => p = q
Sounds == \A e \in Elements : Sound(elem[e]) /\ elem[e].rw = Cardinality(Readers(loc, e))
Blank ==
  \A p \in Processes : /\ \A e \in Unfilled(p, loc) : elem[e] = ZeroElem
                       /\ loc[p].pc \in {"control", "fill", "fillText"} => loc[p].todo \subseteq Share(p)
Owned == Ledger(Titles(elem, loc, call), live)
Exact == \A p \in Processes : Given(loc[p], call[p]) => [offset |-> call[p].offset, size |-> call[p].size] \in live
Written == text = [b \in 0 .. Length(0) - 1 |-> text[b]]

\* A block that a process is about to give back is that of its element.
Frees(l, c, g) == l.pc = "replace" /\ c.pc = "lockFree" => c.offset = g.data
Freeing == \A p \in Processes : Frees(loc[p], call[p], elem[loc[p].e])

OwnInv == HeapInv /\ Fitting /\ Working /\ Exclusive /\ Sounds /\ Blank /\ Owned /\ Exact /\ Written /\ Freeing

-------------------------------------------------------------------------------
(* Lemmas *)

\* Blocks in use are those of nodes, and do not overlap.
LEMMA LiveBlocks ==
  ASSUME HeapInv
  PROVE  /\ \A b \in live : \E n \in Nodes : b = Block(n)
         /\ \A b, c \in live : Overlap(b, c) => b = c
<1>1. \E S : live = Blocks(tree, S)
  <2>1. CASE \A p \in Processes : call[p].pc \notin Inside
    BY <2>1 DEF HeapInv, Quiet
  <2>2. ASSUME NEW p \in Processes, call[p].pc \in Inside PROVE \E S : live = Blocks(tree, S)
    <3>1. Phase(tree, live, call[p])
      BY <2>2 DEF HeapInv
    <3> QED BY <2>2, <3>1 DEF Phase, SeekInv, ClimbInv, MarkInv, FindInv, CombineInv, RefreshInv, FailInv, Quiet, Inside
  <2> QED BY <2>1, <2>2
<1>2. PICK S : live = Blocks(tree, S)
  BY <1>1
<1>3. \A b \in live : \E n \in Nodes : b = Block(n)
  BY <1>2 DEF Blocks, ReachedIn
<1>4. \A b, c \in live : Overlap(b, c) => b = c
  BY <1>2, BlocksApart
<1> QED BY <1>3, <1>4

\* A call outside the allocator begins or ends.
LEMMA HeapStays ==
  ASSUME HeapInv, NEW p \in Processes, NEW c, CallTyped(c), call[p].pc \notin Inside, c.pc \notin Inside,
         call' = [call EXCEPT ![p] = c], tree' = tree, live' = live,
         mutex' = mutex \/ \A q \in Processes : call[q].pc \notin Inside
  PROVE  HeapInv'
<1>1. /\ call' = [q \in Processes |-> call'[q]] /\ call'[p] = c /\ \A q \in Processes \ {p} : call'[q] = call[q]
      /\ \A q \in Processes : CallTyped(call[q])
  BY DEF HeapInv, CallsTyped
<1>2. CallsTyped'
  <2>1. \A q \in Processes : CallTyped(call'[q])
    BY <1>1
  <2> QED BY <1>1, <2>1 DEF CallsTyped, CallTyped
<1>3. \A q \in Processes : call'[q].pc \in Inside => call[q].pc \in Inside /\ call'[q] = call[q]
  BY <1>1
<1>4. \A q \in Processes : call[q].pc \in Inside => call'[q].pc \in Inside
  BY <1>1
<1>5. ASSUME NEW q \in Processes, call'[q].pc \in Inside
      PROVE  mutex' = "FULL" /\ Phase(tree', live', call'[q]) /\ \A r \in Processes \ {q} : call'[r].pc \notin Inside
  BY <1>3, <1>5 DEF HeapInv
<1>6. (\A q \in Processes : call'[q].pc \notin Inside) => Quiet(tree', live')
  BY <1>4 DEF HeapInv
<1> QED BY <1>2, <1>5, <1>6 DEF HeapInv, Tree

LEMMA NoCallIs == CallTyped(NoCall) /\ NoCall.pc = "none"
BY DEF CallTyped, NoCall, Calls

-------------------------------------------------------------------------------
(* Titles *)

\* What element e with cell g, and process p with locals l, call c and data word d, have.
ElementTitle(e, g) == IF Keeping(g) THEN {Title("element", e, g.data)} ELSE {}
ProcessTitle(p, l, c, d) ==
  IF Holds(l, c) THEN {Title("process", p, IF l.pc = "publish" THEN d ELSE c.offset)} ELSE {}

\* The titles of the others.
Others(el, lo, ca, e, p) ==
  (UNION {ElementTitle(x, el[x]) : x \in Elements \ {e}})
  \cup (UNION {ProcessTitle(q, lo[q], ca[q], el[lo[q].e].data) : q \in Processes \ {p}})

\* The titles are those of element e, of process p and of the others.
Splits(el, lo, ca, e, p) ==
  Titles(el, lo, ca) =
    Others(el, lo, ca, e, p) \cup ElementTitle(e, el[e]) \cup ProcessTitle(p, lo[p], ca[p], el[lo[p].e].data)

LEMMA TitlesSplit ==
  ASSUME NEW el, NEW lo, NEW ca, NEW e \in Elements, NEW p \in Processes
  PROVE  Splits(el, lo, ca, e, p)
<1>1. ASSUME NEW t
      PROVE  t \in Titles(el, lo, ca) <=>
               \/ \E x \in Elements : t \in ElementTitle(x, el[x])
               \/ \E q \in Processes : t \in ProcessTitle(q, lo[q], ca[q], el[lo[q].e].data)
  <2>1. (\E x \in Elements : t \in ElementTitle(x, el[x])) <=>
        t \in {Title("element", x, el[x].data) : x \in {y \in Elements : Keeping(el[y])}}
    BY DEF ElementTitle
  <2>2. ASSUME NEW q \in Processes
        PROVE  t \in ProcessTitle(q, lo[q], ca[q], el[lo[q].e].data) <=>
                 Holds(lo[q], ca[q]) /\ t = Title("process", q, Place(lo[q], ca[q], el))
    BY DEF ProcessTitle, Place
  <2>3. (\E q \in Processes : t \in ProcessTitle(q, lo[q], ca[q], el[lo[q].e].data)) <=>
        t \in {Title("process", q, Place(lo[q], ca[q], el)) : q \in {r \in Processes : Holds(lo[r], ca[r])}}
    BY <2>2
  <2> QED BY <2>1, <2>3 DEF Titles
<1>2. ASSUME NEW t
      PROVE  t \in Others(el, lo, ca, e, p) <=>
               \/ \E x \in Elements \ {e} : t \in ElementTitle(x, el[x])
               \/ \E q \in Processes \ {p} : t \in ProcessTitle(q, lo[q], ca[q], el[lo[q].e].data)
  <2> DEFINE A == UNION {ElementTitle(x, el[x]) : x \in Elements \ {e}}
             B == UNION {ProcessTitle(q, lo[q], ca[q], el[lo[q].e].data) : q \in Processes \ {p}}
  <2>1. t \in A <=> \E x \in Elements \ {e} : t \in ElementTitle(x, el[x])
    OBVIOUS
  <2>2. t \in B <=> \E q \in Processes \ {p} : t \in ProcessTitle(q, lo[q], ca[q], el[lo[q].e].data)
    OBVIOUS
  <2>3. Others(el, lo, ca, e, p) = A \cup B
    BY DEF Others
  <2> HIDE DEF A, B
  <2> QED BY <2>1, <2>2, <2>3
<1>3. Titles(el, lo, ca) =
        Others(el, lo, ca, e, p) \cup ElementTitle(e, el[e]) \cup ProcessTitle(p, lo[p], ca[p], el[lo[p].e].data)
  BY <1>1, <1>2
<1> QED BY <1>3 DEF Splits

\* The titles of the others stay when their elements and calls stay.
Aside(el, lo, ca, el2, lo2, ca2, e, p) ==
  /\ \A x \in Elements \ {e} : el2[x] = el[x]
  /\ \A q \in Processes \ {p} : /\ lo2[q] = lo[q] /\ ca2[q] = ca[q]
                                /\ lo[q].pc = "publish" => el2[lo[q].e].data = el[lo[q].e].data

LEMMA OthersStay ==
  ASSUME NEW el, NEW lo, NEW ca, NEW el2, NEW lo2, NEW ca2, NEW e \in Elements, NEW p \in Processes,
         Aside(el, lo, ca, el2, lo2, ca2, e, p)
  PROVE  Others(el2, lo2, ca2, e, p) = Others(el, lo, ca, e, p)
<1>1. \A x \in Elements \ {e} : ElementTitle(x, el2[x]) = ElementTitle(x, el[x])
  BY DEF Aside
<1>2. \A q \in Processes \ {p} :
        ProcessTitle(q, lo2[q], ca2[q], el2[lo2[q].e].data) = ProcessTitle(q, lo[q], ca[q], el[lo[q].e].data)
  BY DEF ProcessTitle, Aside
<1>3. UNION {ElementTitle(x, el2[x]) : x \in Elements \ {e}} = UNION {ElementTitle(x, el[x]) : x \in Elements \ {e}}
  BY <1>1
<1>4. UNION {ProcessTitle(q, lo2[q], ca2[q], el2[lo2[q].e].data) : q \in Processes \ {p}} =
      UNION {ProcessTitle(q, lo[q], ca[q], el[lo[q].e].data) : q \in Processes \ {p}}
  BY <1>2
<1> QED BY <1>3, <1>4 DEF Others

LEMMA TitleIs ==
  ASSUME NEW k, NEW w, NEW o
  PROVE  Title(k, w, o).kind = k /\ Title(k, w, o).who = w /\ Title(k, w, o).at = o
BY DEF Title

\* A title changes hands.
LEMMA LedgerMoves ==
  ASSUME NEW R, NEW s, NEW t, NEW L, s \notin R, Ledger(R \cup {s}, L), t.at = s.at
  PROVE  Ledger(R \cup {t}, L)
<1>1. \A r \in R : r.at = s.at => r = s
  BY DEF Ledger
<1>2. \A u \in R \cup {t} : \E b \in L : b.offset = u.at
  BY DEF Ledger
<1>3. \A b \in L : \E u \in R \cup {t} : b.offset = u.at
  BY DEF Ledger
<1>4. ASSUME NEW u \in R \cup {t}, NEW v \in R \cup {t}, u.at = v.at PROVE u = v
  BY <1>1, <1>4 DEF Ledger
<1> QED BY <1>2, <1>3, <1>4 DEF Ledger

LEMMA OthersApart ==
  ASSUME NEW el, NEW lo, NEW ca, NEW e \in Elements, NEW p \in Processes, NEW o
  PROVE  Title("element", e, o) \notin Others(el, lo, ca, e, p) /\ Title("process", p, o) \notin Others(el, lo, ca, e, p)
<1> DEFINE A == UNION {ElementTitle(x, el[x]) : x \in Elements \ {e}}
           B == UNION {ProcessTitle(q, lo[q], ca[q], el[lo[q].e].data) : q \in Processes \ {p}}
<1>1. ASSUME NEW t \in A PROVE t.kind = "element" /\ t.who # e
  <2>1. PICK x \in Elements \ {e} : t \in ElementTitle(x, el[x])
    OBVIOUS
  <2>2. t = Title("element", x, el[x].data)
    BY <2>1 DEF ElementTitle
  <2> QED BY <2>2, TitleIs
<1>2. ASSUME NEW t \in B PROVE t.kind = "process" /\ t.who # p
  <2>1. PICK q \in Processes \ {p} : t \in ProcessTitle(q, lo[q], ca[q], el[lo[q].e].data)
    OBVIOUS
  <2>2. \E d : t = Title("process", q, d)
    BY <2>1 DEF ProcessTitle
  <2> QED BY <2>2, TitleIs
<1>3. Others(el, lo, ca, e, p) = A \cup B
  BY DEF Others
<1> HIDE DEF A, B
<1> QED BY <1>1, <1>2, <1>3, TitleIs

\* A step of process p with element e that leaves the heap alone keeps the ledger, if what the two
\* have stays, or goes from one to the other.
LEMMA OwnedSwaps ==
  ASSUME NEW el, NEW lo, NEW ca, NEW el2, NEW lo2, NEW ca2, NEW e \in Elements, NEW p \in Processes, NEW L,
         Ledger(Titles(el, lo, ca), L), Others(el2, lo2, ca2, e, p) = Others(el, lo, ca, e, p),
         NEW A, A = ElementTitle(e, el[e]), NEW B, B = ProcessTitle(p, lo[p], ca[p], el[lo[p].e].data),
         NEW C, C = ElementTitle(e, el2[e]), NEW D, D = ProcessTitle(p, lo2[p], ca2[p], el2[lo2[p].e].data),
         \/ A = C /\ B = D
         \/ \E o : A = {} /\ B = {Title("process", p, o)} /\ C = {Title("element", e, o)} /\ D = {}
         \/ \E o : A = {Title("element", e, o)} /\ B = {} /\ C = {} /\ D = {Title("process", p, o)}
  PROVE  Ledger(Titles(el2, lo2, ca2), L)
<1> DEFINE R == Others(el, lo, ca, e, p)
<1>1. Titles(el, lo, ca) = R \cup A \cup B /\ Titles(el2, lo2, ca2) = R \cup C \cup D
  <2>1. Splits(el, lo, ca, e, p) /\ Splits(el2, lo2, ca2, e, p)
    BY TitlesSplit
  <2> QED BY <2>1 DEF Splits
<1>2. \A o : Title("element", e, o) \notin R /\ Title("process", p, o) \notin R
  BY OthersApart
<1> HIDE DEF R
<1>3. CASE A = C /\ B = D
  BY <1>1, <1>3
<1>4. ASSUME NEW o, A = {}, B = {Title("process", p, o)}, C = {Title("element", e, o)}, D = {}
      PROVE  Ledger(R \cup C \cup D, L)
  <2>1. Ledger(R \cup {Title("process", p, o)}, L)
    BY <1>1, <1>4
  <2>2. Ledger(R \cup {Title("element", e, o)}, L)
    <3> DEFINE s == Title("process", p, o)
           u == Title("element", e, o)
    <3>1. s \notin R /\ u.at = s.at
      BY <1>2, TitleIs
    <3>2. Ledger(R \cup {s}, L)
      BY <2>1
    <3> HIDE DEF s, u
    <3>3. Ledger(R \cup {u}, L)
      BY <3>1, <3>2, LedgerMoves
    <3> QED BY <3>3 DEF u
  <2> QED BY <1>4, <2>2
<1>5. ASSUME NEW o, A = {Title("element", e, o)}, B = {}, C = {}, D = {Title("process", p, o)}
      PROVE  Ledger(R \cup C \cup D, L)
  <2>1. Ledger(R \cup {Title("element", e, o)}, L)
    BY <1>1, <1>5
  <2>2. Ledger(R \cup {Title("process", p, o)}, L)
    <3> DEFINE s == Title("element", e, o)
           u == Title("process", p, o)
    <3>1. s \notin R /\ u.at = s.at
      BY <1>2, TitleIs
    <3>2. Ledger(R \cup {s}, L)
      BY <2>1
    <3> HIDE DEF s, u
    <3>3. Ledger(R \cup {u}, L)
      BY <3>1, <3>2, LedgerMoves
    <3> QED BY <3>3 DEF u
  <2> QED BY <1>5, <2>2
<1> QED BY <1>1, <1>3, <1>4, <1>5

\* A block is handed out to a process that had none.
LEMMA LedgerGrows ==
  ASSUME NEW R, NEW t, NEW L, NEW b, Ledger(R, L), b.offset = t.at, \A c \in L : c.offset # b.offset
  PROVE  Ledger(R \cup {t}, L \cup {b})
<1>1. \A r \in R : r.at # t.at
  BY DEF Ledger
<1> QED BY <1>1 DEF Ledger

\* A block is taken back.
LEMMA LedgerShrinks ==
  ASSUME NEW R, NEW t, NEW L, Ledger(R \cup {t}, L), t \notin R
  PROVE  Ledger(R, {b \in L : b.offset # t.at})
<1>1. \A r \in R : r.at # t.at
  BY DEF Ledger
<1>2. \A r \in R : \E b \in {c \in L : c.offset # t.at} : b.offset = r.at
  BY <1>1 DEF Ledger
<1>3. \A b \in {c \in L : c.offset # t.at} : \E r \in R : b.offset = r.at
  BY DEF Ledger
<1>4. \A r, s \in R : r.at = s.at => r = s
  BY DEF Ledger
<1> QED BY <1>2, <1>3, <1>4 DEF Ledger

-------------------------------------------------------------------------------
(* Rounds of the allocator *)

\* The block for a string is a power of two and takes it all.
LEMMA SizeIs ==
  ASSUME NEW x \in Texts
  PROVE  /\ Requested(Size(Bytes[x])) /\ Size(Bytes[x]) \in Nat \ {0}
         /\ (Bytes[x] - 1) \div BlockSize \in Nat /\ (Bytes[x] - 1) \div BlockSize < Size(Bytes[x])
<1> DEFINE b == Bytes[x]
           q == (b - 1) \div BlockSize
           n == (b + BlockSize - 1) \div BlockSize
<1>1. b \in Nat \ {0} /\ q < MaxBlocks
  BY ArrayAssumption
<1>2. BlockSize \in Nat \ {0}
  BY AllocAssumption
<1>3. MaxBlocks \in Nat
  BY Powers DEF Bits, Pow, MaxBlocks
<1> HIDE DEF b
<1>4. b \in Nat /\ b >= 1
  BY <1>1
<1>5. q \in Nat
  BY <1>2, <1>4
<1>6. n = q + 1
  BY <1>2, <1>4
<1> HIDE DEF q, n
<1>7. n \in Nat /\ n <= MaxBlocks
  BY <1>1, <1>3, <1>5, <1>6
<1>8. PICK k \in Bits : emsNextPow2(n) = Pow(k) /\ n <= Pow(k)
  BY <1>7, NextPow2
<1>9. Size(b) = Pow(k)
  BY <1>8 DEF Size, n
<1>10. Pow(k) \in Nat \ {0}
  BY Powers
<1>11. Requested(Size(b))
  BY <1>9 DEF Requested
<1>12. q < Size(b)
  BY <1>5, <1>6, <1>8, <1>9, <1>10
<1> QED BY <1>5, <1>9, <1>10, <1>11, <1>12 DEF b, q

\* What the invariant says of a process and its call.
LEMMA Call ==
  ASSUME OwnInv, NEW p \in Processes
  PROVE  Fits(loc[p], call[p]) /\ CallTyped(call[p]) /\ call = [q \in Processes |-> call[q]]
BY DEF OwnInv, Fitting, HeapInv, CallsTyped

\* A process that has something has a title.
LEMMA TitleOf ==
  ASSUME NEW p \in Processes, Holds(loc[p], call[p])
  PROVE  Title("process", p, Place(loc[p], call[p], elem)) \in Titles(elem, loc, call)
BY DEF Titles

\* A process calls the allocator for a size that is possible, and to free a block in use.
LEMMA AsksRightly == ASSUME OwnInv, NEW p \in Processes PROVE Asks(call[p], live)
<1>1. Fits(loc[p], call[p])
  BY Call
<1>2. ASSUME call[p].pc = "lockAlloc" PROVE Requested(call[p].size)
  <2>1. \E x \in Texts : call[p].size = Size(Bytes[x])
    BY <1>1, <1>2 DEF Fits, Returning
  <2> QED BY <2>1, SizeIs
<1>3. ASSUME call[p].pc = "lockFree" PROVE \E b \in live : b.offset = call[p].offset
  <2>1. loc[p].pc = "replace" /\ Holds(loc[p], call[p])
    BY <1>1, <1>3 DEF Fits, Asking, Holds
  <2>2. Title("process", p, call[p].offset) \in Titles(elem, loc, call)
    BY <2>1, TitleOf DEF Place
  <2> QED BY <2>2, TitleIs DEF OwnInv, Owned, Ledger
<1> QED BY <1>2, <1>3 DEF Asks

\* Two processes that have something have different blocks.
LEMMA TitlesApart ==
  ASSUME OwnInv, NEW p \in Processes, NEW q \in Processes, p # q, Holds(loc[p], call[p]), Holds(loc[q], call[q])
  PROVE  Place(loc[p], call[p], elem) # Place(loc[q], call[q], elem)
BY TitleOf, TitleIs DEF OwnInv, Owned, Ledger

LEMMA AnElement == 0 \in Elements
<1>1. N \in Nat \ {0}
  BY ArrayAssumption
<1> QED BY <1>1 DEF Elements

\* A round of a call changes what its process has exactly if it changes the blocks in use.
LEMMA RoundOwned ==
  ASSUME OwnInv, RegionInv, NEW p \in Processes, AllocStep(p), UNCHANGED <<loc, elem>>
  PROVE  Owned' /\ Exact'
<1>1. /\ Fits(loc[p], call[p]) /\ CallsTyped' /\ \A q \in Processes \ {p} : call'[q] = call[q]
      /\ call'[p].size = call[p].size /\ call'[p].pc \in Inside \cup {"returned", "failed"}
      /\ loc' = loc /\ elem' = elem
  BY Call, CallMoves DEF OwnInv, HeapInv
<1>2. Round(p, live, live', call[p], call'[p])
  BY AsksRightly, AllocKeeps DEF OwnInv
<1>3. PICK e \in Elements : TRUE
  BY AnElement
<1> DEFINE R == Others(elem, loc, call, e, p) \cup ElementTitle(e, elem[e])
           B == ProcessTitle(p, loc[p], call[p], elem[loc[p].e].data)
           D == ProcessTitle(p, loc[p], call'[p], elem[loc[p].e].data)
<1>4. Titles(elem, loc, call) = R \cup B /\ Titles(elem, loc, call') = R \cup D
  <2>1. ASSUME NEW ca, \A q \in Processes \ {p} : ca[q] = call[q]
        PROVE  /\ Others(elem, loc, ca, e, p) = Others(elem, loc, call, e, p)
               /\ Titles(elem, loc, ca) = Others(elem, loc, ca, e, p) \cup ElementTitle(e, elem[e])
                                           \cup ProcessTitle(p, loc[p], ca[p], elem[loc[p].e].data)
    <3>1. Others(elem, loc, ca, e, p) = Others(elem, loc, call, e, p)
      <4>1. Aside(elem, loc, call, elem, loc, ca, e, p)
        BY <2>1 DEF Aside
      <4> QED BY <1>3, <4>1, OthersStay
    <3>2. Titles(elem, loc, ca) = Others(elem, loc, ca, e, p) \cup ElementTitle(e, elem[e])
                                  \cup ProcessTitle(p, loc[p], ca[p], elem[loc[p].e].data)
      <4>1. Splits(elem, loc, ca, e, p)
        BY <1>3, TitlesSplit
      <4> QED BY <4>1 DEF Splits
    <3> QED BY <3>1, <3>2
  <2>2. /\ Others(elem, loc, call', e, p) = Others(elem, loc, call, e, p)
        /\ Titles(elem, loc, call') = Others(elem, loc, call', e, p) \cup ElementTitle(e, elem[e]) \cup D
    BY <1>1, <2>1
  <2>3. Titles(elem, loc, call) = Others(elem, loc, call, e, p) \cup ElementTitle(e, elem[e]) \cup B
    <3>1. Splits(elem, loc, call, e, p)
      BY <1>3, TitlesSplit
    <3> QED BY <3>1 DEF Splits
  <2> QED BY <2>2, <2>3
<1>5. \A o : Title("process", p, o) \notin R
  <2>1. \A o : Title("process", p, o) \notin Others(elem, loc, call, e, p)
    BY OthersApart
  <2>2. \A o : Title("process", p, o) \notin ElementTitle(e, elem[e])
    BY TitleIs DEF ElementTitle
  <2> QED BY <2>1, <2>2
<1>6. Ledger(R \cup B, live)
  BY <1>4 DEF OwnInv, Owned
<1>7. loc[p].pc \in {"fillText", "allocated", "replace"}
  <2>1. call[p].pc # "none"
    BY CallMoves DEF OwnInv, HeapInv, Inside
  <2> QED BY <1>1, <2>1 DEF Fits
<1> HIDE DEF R
<1>8. CASE HandsOut(p, live, live', call[p], call'[p])
  <2> DEFINE b == [offset |-> call'[p].offset, size |-> call[p].size]
  <2>1. call[p].pc = "seek" /\ call'[p].pc = "mark" /\ live' = live \cup {b} /\ \A c \in live : ~Overlap(c, b)
    BY <1>8 DEF HandsOut
  <2>2. loc[p].pc \in {"fillText", "allocated"} /\ call[p].size \in Nat \ {0}
    BY <1>1, <1>7, <2>1, SizeIs DEF Fits, Returning
  <2>3. B = {} /\ D = {Title("process", p, call'[p].offset)}
    BY <2>1, <2>2 DEF ProcessTitle, Holds, Given
  <2>4. \A c \in live : c.offset # b.offset
    <3>1. ASSUME NEW c \in live, c.offset = b.offset PROVE FALSE
      <4>1. PICK n \in Nodes : c = Block(n)
        BY LiveBlocks DEF OwnInv
      <4>2. c.offset \in Nat /\ c.size \in Nat \ {0} /\ b.size \in Nat \ {0}
        BY <2>2, <4>1, NodeBlocks DEF Block
      <4>3. Overlap(c, b)
        BY <3>1, <4>2 DEF Overlap
      <4> QED BY <2>1, <4>3
    <3> QED BY <3>1
  <2>5. Ledger(R \cup {Title("process", p, call'[p].offset)}, live \cup {b})
    <3>1. Ledger(R, live)
      BY <1>6, <2>3
    <3>2. b.offset = Title("process", p, call'[p].offset).at
      BY TitleIs
    <3> HIDE DEF b
    <3> QED BY <2>4, <3>1, <3>2, LedgerGrows
  <2>6. Owned'
    <3>1. Titles(elem, loc, call') = R \cup {Title("process", p, call'[p].offset)}
      BY <1>4, <2>3
    <3>2. Ledger(Titles(elem, loc, call'), live')
      BY <2>1, <2>5, <3>1
    <3> QED BY <1>1, <3>2 DEF Owned
  <2>7. Exact'
    <3>1. \A q \in Processes : Given(loc[q], call'[q]) =>
            [offset |-> call'[q].offset, size |-> call'[q].size] \in live'
      BY <1>1, <2>1 DEF OwnInv, Exact
    <3> QED BY <1>1, <3>1 DEF Exact
  <2> QED BY <2>6, <2>7
<1>9. CASE TakesBack(p, live, live', call[p], call'[p])
  <2>1. /\ call[p].pc = "find" /\ call'[p].pc = "combine"
        /\ live' = {b \in live : b.offset # call[p].offset}
    BY <1>9 DEF TakesBack
  <2>2. loc[p].pc = "replace"
    BY <1>1, <1>7, <2>1 DEF Fits, Asking
  <2>3. B = {Title("process", p, call[p].offset)} /\ D = {} /\ Holds(loc[p], call[p])
    BY <2>1, <2>2 DEF ProcessTitle, Holds, Given
  <2>4. Ledger(R, {b \in live : b.offset # Title("process", p, call[p].offset).at})
    <3> DEFINE t == Title("process", p, call[p].offset)
    <3>1. t \notin R /\ Ledger(R \cup {t}, live)
      BY <1>5, <1>6, <2>3
    <3> HIDE DEF t
    <3>2. Ledger(R, {b \in live : b.offset # t.at})
      BY <3>1, LedgerShrinks
    <3> QED BY <3>2 DEF t
  <2>5. Owned'
    <3>1. Titles(elem, loc, call') = R
      <4>1. Titles(elem, loc, call') = R \cup D /\ D = {}
        BY <1>4, <2>3
      <4> HIDE DEF D
      <4> QED BY <4>1
    <3>2. Title("process", p, call[p].offset).at = call[p].offset
      BY TitleIs
    <3>3. Ledger(R, live')
      BY <2>1, <2>4, <3>2
    <3>4. Ledger(Titles(elem, loc, call'), live')
      BY <3>1, <3>3
    <3> QED BY <1>1, <3>4 DEF Owned
  <2>6. Exact'
    <3>1. ASSUME NEW q \in Processes, Given(loc[q], call'[q])
          PROVE  [offset |-> call'[q].offset, size |-> call'[q].size] \in live'
      <4>1. q # p /\ call'[q] = call[q]
        BY <1>1, <2>1, <3>1 DEF Given
      <4>2. [offset |-> call[q].offset, size |-> call[q].size] \in live
        BY <3>1, <4>1 DEF OwnInv, Exact
      <4>3. call[q].offset # call[p].offset
        BY <2>2, <2>3, <3>1, <4>1, TitlesApart DEF Holds, Place, Given
      <4> QED BY <2>1, <4>1, <4>2, <4>3
    <3> QED BY <1>1, <3>1 DEF Exact
  <2> QED BY <2>5, <2>6
<1>10. CASE ~HandsOut(p, live, live', call[p], call'[p]) /\ ~TakesBack(p, live, live', call[p], call'[p])
  <2>1. /\ live' = live /\ call'[p].offset = call[p].offset
        /\ Given(loc[p], call'[p]) <=> Given(loc[p], call[p])
        /\ Holds(loc[p], call'[p]) <=> Holds(loc[p], call[p])
    BY <1>1, <1>2, <1>7, <1>10 DEF Round, Given, Holds, Fits, Asking, Returning
  <2>2. D = B
    BY <2>1 DEF ProcessTitle
  <2>3. Owned'
    BY <1>1, <1>4, <1>6, <2>1, <2>2 DEF Owned
  <2>4. Exact'
    <3>1. \A q \in Processes : Given(loc[q], call'[q]) =>
            [offset |-> call'[q].offset, size |-> call'[q].size] \in live'
      BY <1>1, <2>1 DEF OwnInv, Exact
    <3> QED BY <1>1, <3>1 DEF Exact
  <2> QED BY <2>3, <2>4
<1> QED BY <1>8, <1>9, <1>10

LEMMA HeapStepOwns ==
  ASSUME OwnInv, RegionInv, NEW p \in Processes, HeapStep(p)
  PROVE  OwnInv'
<1>1. AllocStep(p) /\ UNCHANGED arrayVars
  BY DEF HeapStep
<1>2. use' = use /\ elem' = elem /\ loc' = loc /\ text' = text
  BY <1>1 DEF arrayVars
<1>3. HeapInv' /\ Round(p, live, live', call[p], call'[p])
  BY <1>1, AsksRightly, AllocKeeps DEF OwnInv
<1>4. Fitting'
  <2>1. /\ \A q \in Processes \ {p} : call'[q] = call[q]
        /\ call'[p].size = call[p].size /\ Fits(loc[p], call[p])
        /\ call[p].pc # "none"
    BY <1>1, CallMoves, Call DEF OwnInv, HeapInv, Inside
  <2>2. loc[p].pc \in {"fillText", "allocated", "replace"}
    BY <2>1 DEF Fits
  <2>3. call[p].pc \in Asking => call'[p].pc \in Asking \/ call[p].pc \in {"find", "combine", "refresh"}
    BY <1>3 DEF Round, HandsOut, TakesBack, Asking
  <2>4. call[p].pc \in Returning => call'[p].pc \in Returning
    BY <1>3 DEF Round, HandsOut, TakesBack, Returning
  <2>5. \A q \in Processes : Fits(loc[q], call'[q])
    BY <2>1, <2>2, <2>3, <2>4 DEF OwnInv, Fitting, Fits, Asking
  <2> QED BY <1>2, <2>5 DEF Fitting, Fits
<1>5. Working' /\ Exclusive' /\ Sounds' /\ Written'
  BY <1>2 DEF OwnInv, Working, Exclusive, Sounds, Written, Readers
<1>6. Blank'
  BY <1>2 DEF OwnInv, Blank, Unfilled, Creating, Attached
<1>7. Owned' /\ Exact'
  BY <1>1, <1>2, RoundOwned
<1>8. Freeing'
  <2>1. (\A q \in Processes \ {p} : call'[q] = call[q]) /\ call'[p].pc \in Inside \cup {"returned", "failed"}
    BY <1>1, CallMoves DEF OwnInv, HeapInv
  <2>2. call'[p].pc # "lockFree"
    BY <2>1 DEF Inside
  <2>3. \A q \in Processes : Frees(loc[q], call'[q], elem[loc[q].e])
    BY <2>1, <2>2 DEF OwnInv, Freeing, Frees
  <2> QED BY <1>2, <2>3 DEF Freeing, Frees
<1> QED BY <1>3, <1>4, <1>5, <1>6, <1>7, <1>8 DEF OwnInv

-------------------------------------------------------------------------------
(* Steps outside the allocator *)

\* Who has an element.
Has(l, e) == (Reader(l) \/ Changes(l)) /\ l.e = e

\* What a step of p does with element e disturbs nobody: it does nothing, nobody changes the
\* element, or only p does, or nobody works.
Undisturbed(p, e, g) ==
  \/ g = elem[e]
  \/ elem[e].fe \in {"FULL", "RW_LOCK"} /\ g.data = elem[e].data
  \/ Changes(loc[p]) /\ loc[p].e = e
  \/ \A q \in Processes : loc[q].pc \notin Work \ {"ready"}

\* The tag says who has an element.
LEMMA TagTells ==
  ASSUME OwnInv, NEW q \in Processes, NEW e \in Elements
  PROVE  /\ Changes(loc[q]) /\ loc[q].e = e => elem[e].fe = IF Waiter(loc[q]) THEN "EMPTY" ELSE "BUSY"
         /\ Reader(loc[q]) /\ loc[q].e = e => elem[e].fe = "RW_LOCK"
<1>1. Works(loc[q], elem[loc[q].e], text)
  BY DEF OwnInv, Working
<1>2. Changes(loc[q]) /\ loc[q].e = e => elem[e].fe = IF Waiter(loc[q]) THEN "EMPTY" ELSE "BUSY"
  BY <1>1 DEF Works, Changes
<1>3. ASSUME Reader(loc[q]), loc[q].e = e PROVE elem[e].fe = "RW_LOCK"
  <2>1. q \in Readers(loc, e) /\ Readers(loc, e) \subseteq Processes
    BY <1>3 DEF Readers
  <2>2. IsFiniteSet(Processes)
    BY ArrayAssumption
  <2>3. IsFiniteSet(Readers(loc, e))
    BY <2>1, <2>2, FS_Subset
  <2>4. Cardinality(Readers(loc, e)) # 0 /\ Cardinality(Readers(loc, e)) \in Nat
    BY <2>1, <2>3, FS_EmptySet, FS_CardinalityType
  <2>5. Sound(elem[e]) /\ elem[e].rw = Cardinality(Readers(loc, e))
    BY DEF OwnInv, Sounds
  <2> QED BY <2>4, <2>5 DEF Sound
<1> QED BY <1>2, <1>3

\* When p changes an element nobody else has it.
LEMMA Alone1 ==
  ASSUME OwnInv, NEW p \in Processes, NEW e \in Elements, Changes(loc[p]), loc[p].e = e, NEW q \in Processes, q # p
  PROVE  ~Has(loc[q], e)
<1>1. ~(Changes(loc[q]) /\ loc[q].e = e)
  BY DEF OwnInv, Exclusive
<1>2. ~(Reader(loc[q]) /\ loc[q].e = e)
  BY TagTells
<1> QED BY <1>1, <1>2 DEF Has

\* What the others know stays true.
LEMMA OthersWork ==
  ASSUME OwnInv, NEW p \in Processes, NEW e \in Elements, NEW g, Undisturbed(p, e, g), NEW q \in Processes, q # p,
         NEW tx, loc[q].pc = "copy" => Points(tx, loc[q].ptr) = Points(text, loc[q].ptr)
  PROVE  Works(loc[q], IF loc[q].e = e THEN g ELSE elem[loc[q].e], tx)
<1>1. Works(loc[q], elem[loc[q].e], text)
  BY DEF OwnInv, Working
<1>2. CASE ~Has(loc[q], e)
  <2>1. CASE loc[q].e = e
    <3>1. ~Reader(loc[q]) /\ ~Changes(loc[q])
      BY <1>2, <2>1 DEF Has
    <3>2. loc[q].pc \notin Work \ {"ready"}
      BY <1>1, <3>1 DEF Works
    <3> QED BY <1>1, <3>1, <3>2 DEF Works, Work, Changes
  <2>2. CASE loc[q].e # e
    BY <1>1, <2>2 DEF Works
  <2> QED BY <2>1, <2>2
<1>3. CASE g = elem[e]
  BY <1>1, <1>3 DEF Works
<1>4. CASE Has(loc[q], e) /\ g # elem[e]
  <2>1. elem[e].fe \in {"FULL", "RW_LOCK"} /\ g.data = elem[e].data
    <3>1. ~(Changes(loc[p]) /\ loc[p].e = e)
      BY <1>4, Alone1
    <3>2. loc[q].pc \in Work \ {"ready"}
      BY <1>4 DEF Has, Reader, Changes, Waiter, Writer, Work
    <3> QED BY <1>4, <3>1, <3>2 DEF Undisturbed
  <2>2. loc[q].e = e /\ ~Changes(loc[q]) /\ Reader(loc[q])
    BY <1>4, <2>1, TagTells DEF Has
  <2>3. ~Waiter(loc[q]) /\ ~Writer(loc[q]) /\ loc[q].pc # "publish"
    BY <2>2 DEF Changes, Writer
  <2> QED BY <1>1, <2>1, <2>2, <2>3 DEF Works
<1> QED BY <1>2, <1>3, <1>4

\* A reader comes or goes.
Turns(lo, lo2, p, e) ==
  /\ \A q \in Processes \ {p} : lo2[q] = lo[q]
  /\ (Reader(lo[p]) => lo[p].e = e) /\ (Reader(lo2[p]) => lo2[p].e = e)

Recounts(lo, lo2, p, e) ==
  /\ Cardinality(Readers(lo, e)) \in Nat
  /\ Cardinality(Readers(lo2, e)) =
       Cardinality(Readers(lo, e)) + (IF Reader(lo2[p]) THEN 1 ELSE 0) - (IF Reader(lo[p]) THEN 1 ELSE 0)
  /\ \A x : x # e => Readers(lo2, x) = Readers(lo, x)

LEMMA ReadersCount ==
  ASSUME NEW lo, NEW lo2, NEW p \in Processes, NEW e, Turns(lo, lo2, p, e)
  PROVE  Recounts(lo, lo2, p, e)
<1> DEFINE S == Readers(lo, e) \ {p}
<1>1. IsFiniteSet(Processes)
  BY ArrayAssumption
<1>2. S \subseteq Processes /\ p \notin S
  BY DEF Readers
<1>3. IsFiniteSet(S) /\ Cardinality(S) \in Nat
  BY <1>1, <1>2, FS_Subset, FS_CardinalityType
<1>4. Cardinality(S \cup {p}) = Cardinality(S) + 1
  BY <1>2, <1>3, FS_AddElement
<1>5. Readers(lo, e) = IF Reader(lo[p]) THEN S \cup {p} ELSE S
  BY DEF Readers, Turns
<1>6. Readers(lo2, e) = IF Reader(lo2[p]) THEN S \cup {p} ELSE S
  BY DEF Readers, Turns
<1>7. \A x : x # e => Readers(lo2, x) = Readers(lo, x)
  BY DEF Readers, Turns
<1> HIDE DEF S
<1> QED BY <1>3, <1>4, <1>5, <1>6, <1>7 DEF Recounts

\* What process p and element e have after the step is what they had, one or the other.
Swaps(p, e, l, c, g) ==
  \/ /\ Keeping(g) <=> Keeping(elem[e])
     /\ Keeping(g) => g.data = elem[e].data
     /\ Holds(l, c) <=> Holds(loc[p], call[p])
     /\ Holds(l, c) => (IF l.pc = "publish" THEN g.data ELSE c.offset) = Place(loc[p], call[p], elem)
  \/ /\ ~Keeping(elem[e]) /\ Keeping(g) /\ Holds(loc[p], call[p]) /\ ~Holds(l, c)
     /\ g.data = Place(loc[p], call[p], elem)
  \/ /\ Keeping(elem[e]) /\ ~Keeping(g) /\ ~Holds(loc[p], call[p]) /\ Holds(l, c)
     /\ elem[e].data = IF l.pc = "publish" THEN g.data ELSE c.offset

\* Process p, with locals l and in call c after the step, gives element e the cell g.
Does(p, e, l, c, g) ==
  /\ loc' = [loc EXCEPT ![p] = l] /\ call' = [call EXCEPT ![p] = c] /\ elem' = [elem EXCEPT ![e] = g]
  /\ live' = live /\ use' = use

\* The step is one that process p may make.
May(p, e, l, c, g) ==
  /\ Fits(l, c) /\ ~Given(l, c)
  /\ \A x : Has(loc[p], x) => x = e
  /\ \A x : Has(l, x) => x = e
  /\ Undisturbed(p, e, g)
  /\ Changes(l) => Changes(loc[p]) \/ elem[e].fe = "FULL"
  /\ Sound(g)
  /\ g.rw = elem[e].rw + (IF Reader(l) THEN 1 ELSE 0) - (IF Reader(loc[p]) THEN 1 ELSE 0)
  /\ Swaps(p, e, l, c, g)

\* What a step of p makes of the variables.
LEMMA DoesIs ==
  ASSUME OwnInv, RegionInv, NEW p \in Processes, NEW e \in Elements, NEW l, NEW c, NEW g, Does(p, e, l, c, g)
  PROVE  /\ loc'[p] = l /\ call'[p] = c /\ elem'[e] = g
         /\ \A q \in Processes \ {p} : loc'[q] = loc[q] /\ call'[q] = call[q]
         /\ \A x \in Elements \ {e} : elem'[x] = elem[x]
<1>1. call = [q \in Processes |-> call[q]]
  BY Call
<1>2. loc = [q \in Processes |-> loc[q]] /\ elem = [x \in Elements |-> elem[x]]
  BY DEF RegionInv, Typed
<1> QED BY <1>1, <1>2 DEF Does

LEMMA StepSounds ==
  ASSUME OwnInv, RegionInv, NEW p \in Processes, NEW e \in Elements, NEW l, NEW c, NEW g,
         Does(p, e, l, c, g), May(p, e, l, c, g)
  PROVE  Exclusive' /\ Sounds'
<1>1. /\ loc'[p] = l /\ elem'[e] = g
      /\ \A q \in Processes \ {p} : loc'[q] = loc[q]
      /\ \A x \in Elements \ {e} : elem'[x] = elem[x]
  BY DoesIs
<1>2. Reader(loc[p]) => loc[p].e = e
  BY DEF May, Has
<1>3. Reader(l) => l.e = e
  BY DEF May, Has
<1>4. Changes(loc[p]) => loc[p].e = e
  BY DEF May, Has
<1>5. Changes(l) => l.e = e
  BY DEF May, Has
<1>6. ASSUME NEW q \in Processes \ {p}, Changes(l), Changes(loc[q]), loc[q].e = l.e PROVE FALSE
  <2>1. CASE Changes(loc[p])
    BY <1>4, <1>5, <1>6, <2>1 DEF OwnInv, Exclusive
  <2>2. CASE elem[e].fe = "FULL"
    BY <1>5, <1>6, <2>2, TagTells
  <2> QED BY <1>6, <2>1, <2>2 DEF May
<1>7. Exclusive'
  <2>1. \A q, r \in Processes : Changes(loc'[q]) /\ Changes(loc'[r]) /\ loc'[q].e = loc'[r].e => q = r
    BY <1>1, <1>6 DEF OwnInv, Exclusive
  <2> QED BY <2>1 DEF Exclusive, Changes, Waiter, Writer
<1>8. Sounds'
  <2>1. /\ Cardinality(Readers(loc, e)) \in Nat
        /\ Cardinality(Readers(loc', e)) =
              Cardinality(Readers(loc, e)) + (IF Reader(l) THEN 1 ELSE 0) - (IF Reader(loc[p]) THEN 1 ELSE 0)
        /\ \A x : x # e => Readers(loc', x) = Readers(loc, x)
    <3>1. \A q \in Processes \ {p} : loc'[q] = loc[q]
      BY <1>1
    <3>2. (Reader(loc'[p]) => loc'[p].e = e) /\ (Reader(loc'[p]) <=> Reader(l))
      BY <1>1, <1>3
    <3>3. Turns(loc, loc', p, e)
      BY <1>2, <3>1, <3>2 DEF Turns
    <3>4. Recounts(loc, loc', p, e)
      BY <3>3, ReadersCount
    <3> QED BY <3>2, <3>4, <1>1 DEF Recounts
  <2>2. \A x \in Elements : Sound(elem[x]) /\ elem[x].rw = Cardinality(Readers(loc, x))
    BY DEF OwnInv, Sounds
  <2>3. \A x \in Elements : Sound(elem'[x]) /\ elem'[x].rw = Cardinality(Readers(loc', x))
    <3>1. Sound(g) /\ g.rw = Cardinality(Readers(loc', e))
      BY <2>1, <2>2 DEF May
    <3> QED BY <1>1, <2>1, <2>2, <3>1
  <2>4. \A x : Readers(loc, x)' = Readers(loc', x)
    BY DEF Readers, Reader
  <2> QED BY <2>3, <2>4 DEF Sounds, Sound
<1> QED BY <1>7, <1>8

\* What another process is about to store or to free stays.
LEMMA WriterKeeps ==
  ASSUME OwnInv, RegionInv, NEW p \in Processes, NEW e \in Elements, NEW l, NEW c, NEW g,
         Does(p, e, l, c, g), May(p, e, l, c, g), NEW q \in Processes, q # p, Writer(loc[q])
  PROVE  elem'[loc[q].e].data = elem[loc[q].e].data
<1>1. elem'[e] = g /\ \A x \in Elements \ {e} : elem'[x] = elem[x]
  BY DoesIs
<1>2. Changes(loc[q]) /\ Has(loc[q], loc[q].e) /\ loc[q].pc \in Work \ {"ready"}
  BY DEF Changes, Writer, Has, Work
<1>3. loc[q].e \in Elements
  BY <1>2 DEF OwnInv, Working, Works
<1>4. CASE loc[q].e # e
  BY <1>1, <1>3, <1>4
<1>5. CASE loc[q].e = e
  <2>1. elem[e].fe \notin {"FULL", "RW_LOCK"}
    BY <1>2, <1>5, TagTells
  <2>2. ~(Changes(loc[p]) /\ loc[p].e = e)
    BY <1>2, <1>5, Alone1
  <2>3. g.data = elem[e].data
    BY <1>2, <2>1, <2>2 DEF May, Undisturbed
  <2> QED BY <1>1, <1>5, <2>3
<1> QED BY <1>4, <1>5

LEMMA StepOwned ==
  ASSUME OwnInv, RegionInv, NEW p \in Processes, NEW e \in Elements, NEW l, NEW c, NEW g,
         Does(p, e, l, c, g), May(p, e, l, c, g)
  PROVE  Owned' /\ Exact'
<1>1. /\ loc'[p] = l /\ elem'[e] = g /\ call'[p] = c /\ live' = live
      /\ \A q \in Processes \ {p} : loc'[q] = loc[q] /\ call'[q] = call[q]
      /\ \A x \in Elements \ {e} : elem'[x] = elem[x]
  <2>1. live' = live
    BY DEF Does
  <2> QED BY <2>1, DoesIs
<1>2. ASSUME NEW q \in Processes \ {p}, loc[q].pc = "publish" PROVE elem'[loc[q].e].data = elem[loc[q].e].data
  BY <1>2, WriterKeeps DEF Writer
<1>3. ASSUME NEW lo, NEW ca, NEW el, lo = loc', ca = call', el = elem' PROVE Ledger(Titles(el, lo, ca), live)
  <2>1. Aside(elem, loc, call, el, lo, ca, e, p)
    BY <1>1, <1>2, <1>3 DEF Aside
  <2>2. Others(el, lo, ca, e, p) = Others(elem, loc, call, e, p)
    BY <2>1, OthersStay
  <2> DEFINE A == ElementTitle(e, elem[e])
             B == ProcessTitle(p, loc[p], call[p], elem[loc[p].e].data)
             C == ElementTitle(e, el[e])
             D == ProcessTitle(p, lo[p], ca[p], el[lo[p].e].data)
             o == IF l.pc = "publish" THEN g.data ELSE c.offset
  <2>3. l.pc = "publish" => l.e = e
    BY DEF May, Has, Changes, Writer
  <2>4. C = ElementTitle(e, g) /\ D = IF Holds(l, c) THEN {Title("process", p, o)} ELSE {}
    BY <1>1, <1>3, <2>3 DEF ProcessTitle
  <2>5. B = IF Holds(loc[p], call[p]) THEN {Title("process", p, Place(loc[p], call[p], elem))} ELSE {}
    BY DEF ProcessTitle, Place
  <2> DEFINE w == Place(loc[p], call[p], elem)
  <2>6. \/ A = C /\ B = D
        \/ A = {} /\ B = {Title("process", p, w)} /\ C = {Title("element", e, w)} /\ D = {}
        \/ A = {Title("element", e, o)} /\ B = {} /\ C = {} /\ D = {Title("process", p, o)}
    <3> HIDE DEF o, w, B, C, D
    <3>1. Swaps(p, e, l, c, g)
      BY DEF May
    <3> QED BY <2>4, <2>5, <3>1 DEF Swaps, ElementTitle, w, o
  <2>7. Ledger(Titles(elem, loc, call), live)
    BY DEF OwnInv, Owned
  <2> HIDE DEF A, B, C, D, o, w
  <2> QED BY <2>2, <2>6, <2>7, OwnedSwaps DEF A, B, C, D
<1>4. Owned'
  BY <1>1, <1>3 DEF Owned
<1>5. Exact'
  <2>1. \A q \in Processes : Given(loc'[q], call'[q]) => [offset |-> call'[q].offset, size |-> call'[q].size] \in live
    BY <1>1 DEF OwnInv, Exact, May
  <2> QED BY <1>1, <2>1 DEF Exact, Given
<1> QED BY <1>4, <1>5

LEMMA StepOwns ==
  ASSUME OwnInv, RegionInv, NEW p \in Processes, NEW e \in Elements, NEW l, NEW c, NEW g,
         Does(p, e, l, c, g), May(p, e, l, c, g), HeapInv', Blank', Written',
         l.pc \in Work \ {"ready"} => Works(l, g, text'), l.pc = "replace" => Frees(l, c, g),
         \A q \in Processes \ {p} : loc[q].pc = "copy" => Points(text', loc[q].ptr) = Points(text, loc[q].ptr)
  PROVE  OwnInv'
<1>1. /\ loc'[p] = l /\ elem'[e] = g /\ call'[p] = c
      /\ \A q \in Processes \ {p} : loc'[q] = loc[q] /\ call'[q] = call[q]
      /\ \A x \in Elements \ {e} : elem'[x] = elem[x]
  BY DoesIs
<1>2. use' = use
  BY DEF Does
<1>3. Fitting'
  <2>1. \A q \in Processes : Fits(loc'[q], call'[q])
    BY <1>1 DEF OwnInv, Fitting, May
  <2> QED BY <1>2, <2>1 DEF Fitting, Fits
<1>4. Working'
  <2>1. ASSUME NEW q \in Processes, q # p PROVE Works(loc'[q], elem'[loc'[q].e], text')
    <3>1. Undisturbed(p, e, g)
      BY DEF May
    <3>2. Works(loc[q], IF loc[q].e = e THEN g ELSE elem[loc[q].e], text')
      BY <2>1, <3>1, OthersWork
    <3>3. CASE loc[q].pc \in Work \ {"ready"}
      <4>1. loc[q].e \in Elements
        BY <3>3 DEF OwnInv, Working, Works
      <4>2. elem'[loc[q].e] = IF loc[q].e = e THEN g ELSE elem[loc[q].e]
        BY <1>1, <4>1
      <4> QED BY <1>1, <2>1, <3>2, <4>2
    <3>4. CASE loc[q].pc \notin Work \ {"ready"}
      BY <1>1, <2>1, <3>4 DEF Works, Work, Reader, Waiter, Writer, Changes
    <3> QED BY <3>3, <3>4
  <2>2. Works(loc'[p], elem'[loc'[p].e], text')
    <3>1. CASE l.pc \in Work \ {"ready"}
      <4>1. Works(l, g, text')
        BY <3>1
      <4>2. Has(l, l.e)
        BY <3>1, <4>1 DEF Works, Has
      <4>3. l.e = e
        BY <4>2 DEF May
      <4> QED BY <1>1, <4>1, <4>3
    <3>2. CASE l.pc \notin Work \ {"ready"}
      BY <1>1, <3>2 DEF Works, Work, Reader, Waiter, Writer, Changes
    <3> QED BY <3>1, <3>2
  <2>3. \A q \in Processes : Works(loc'[q], elem'[loc'[q].e], text')
    BY <2>1, <2>2
  <2> QED BY <2>3 DEF Working, Works, Reader, Waiter, Writer, Changes, Points
<1>5. Exclusive' /\ Sounds'
  BY StepSounds
<1>6. Owned' /\ Exact'
  BY StepOwned
<1>7. Freeing'
  <2>1. ASSUME NEW q \in Processes PROVE Frees(loc'[q], call'[q], elem'[loc'[q].e])
    <3>1. CASE q # p /\ loc[q].pc = "replace"
      <4>1. elem'[loc[q].e].data = elem[loc[q].e].data
        BY <3>1, WriterKeeps DEF Writer
      <4>2. Frees(loc[q], call[q], elem[loc[q].e])
        BY DEF OwnInv, Freeing
      <4> QED BY <1>1, <3>1, <4>1, <4>2 DEF Frees
    <3>2. CASE q = p /\ l.pc = "replace"
      <4>1. Works(l, g, text') /\ Has(l, l.e)
        BY <3>2 DEF Work, Has, Changes, Writer
      <4>2. l.e = e
        BY <4>1 DEF May
      <4> QED BY <1>1, <3>2, <4>2
    <3>3. CASE loc'[q].pc # "replace"
      BY <3>3 DEF Frees
    <3> QED BY <1>1, <3>1, <3>2, <3>3
  <2> QED BY <2>1 DEF Freeing, Frees
<1> QED BY <1>3, <1>4, <1>5, <1>6, <1>7 DEF OwnInv

\* When a process works there is nothing to fill.
LEMMA WorkBlank == RegionInv /\ (\E p \in Processes : loc[p].pc \in Work) => Blank
<1> SUFFICES ASSUME RegionInv, NEW p \in Processes, loc[p].pc \in Work PROVE Blank
  OBVIOUS
<1>1. \A q \in Processes : loc[q].pc \in Work \cup {"meetLast", "meetDestroy"}
  BY Together
<1>2. \A q \in Processes : Unfilled(q, loc) = {} /\ loc[q].pc \notin {"control", "fill", "fillText"}
  BY <1>1 DEF Unfilled, Work
<1> QED BY <1>2 DEF Blank

LEMMA WorkBlankAfter == (RegionInv /\ (\E p \in Processes : loc[p].pc \in Work) => Blank)'
BY WorkBlank, PTL

\* What is left to fill was left to fill before.
LEMMA BlankStays ==
  ASSUME Blank, NEW p \in Processes, use' = use,
         \A q \in Processes \ {p} : loc'[q] = loc[q],
         \A q \in Processes : \A x \in Unfilled(q, loc') : x \in Unfilled(q, loc) /\ elem'[x] = elem[x],
         loc'[p].pc \in {"control", "fill", "fillText"} => loc'[p].todo \subseteq Share(p)
  PROVE  Blank'
<1>1. \A q \in Processes : \A x \in Unfilled(q, loc') : elem'[x] = ZeroElem
  BY DEF Blank
<1>2. \A q \in Processes : loc'[q].pc \in {"control", "fill", "fillText"} => loc'[q].todo \subseteq Share(q)
  BY DEF Blank
<1>3. \A q \in Processes : Unfilled(q, loc)' = Unfilled(q, loc')
  BY DEF Unfilled, Creating, Attached
<1> QED BY <1>1, <1>2, <1>3 DEF Blank

-------------------------------------------------------------------------------
(* Operations on elements *)

LEMMA HeapSame == HeapInv /\ UNCHANGED <<tree, mutex, call, live>> => HeapInv'
BY DEF HeapInv, CallsTyped, Tree

\* A step from one operation on elements to another.
LEMMA WorkOwns ==
  ASSUME OwnInv, RegionInv, RegionInv', NEW p \in Processes, NEW e \in Elements, NEW l, NEW c, NEW g,
         Does(p, e, l, c, g), May(p, e, l, c, g), HeapInv', Written', l.pc \in Work,
         l.pc # "ready" => Works(l, g, text'), l.pc = "replace" => Frees(l, c, g),
         \A q \in Processes \ {p} : loc[q].pc = "copy" => Points(text', loc[q].ptr) = Points(text, loc[q].ptr)
  PROVE  OwnInv'
<1>1. loc'[p].pc \in Work
  BY DoesIs
<1>2. Blank'
  BY <1>1, WorkBlankAfter
<1> QED BY <1>2, StepOwns

\* What the invariants say of a process and of an element.
LEMMA Mine ==
  ASSUME OwnInv, RegionInv, NEW p \in Processes
  PROVE  /\ Locals(loc[p]) /\ loc = [q \in Processes |-> loc[q]] /\ elem = [x \in Elements |-> elem[x]]
         /\ call = [q \in Processes |-> call[q]] /\ call = [call EXCEPT ![p] = call[p]]
         /\ \A x \in Elements : Cell(elem[x]) /\ Sound(elem[x])
         /\ Works(loc[p], elem[loc[p].e], text) /\ Fits(loc[p], call[p])
         /\ loc[p].pc \notin {"fillText", "allocated", "replace"} => call[p].pc = "none" /\ ~Given(loc[p], call[p])
<1>1. call = [q \in Processes |-> call[q]] /\ Fits(loc[p], call[p])
  BY Call
<1>2. call = [call EXCEPT ![p] = call[p]]
  BY <1>1
<1>3. Locals(loc[p]) /\ loc = [q \in Processes |-> loc[q]] /\ elem = [x \in Elements |-> elem[x]]
      /\ \A x \in Elements : Cell(elem[x])
  BY DEF RegionInv, Typed
<1>4. loc[p].pc \notin {"fillText", "allocated", "replace"} => call[p].pc = "none" /\ ~Given(loc[p], call[p])
  BY <1>1 DEF Fits, Given
<1>5. Works(loc[p], elem[loc[p].e], text) /\ \A x \in Elements : Sound(elem[x])
  BY DEF OwnInv, Working, Sounds
<1> QED BY <1>1, <1>2, <1>3, <1>4, <1>5

\* What a read leaves in the locals.
LEMMA ReadsIs ==
  ASSUME OwnInv, RegionInv, NEW p \in Processes, NEW o, NEW e, NEW v, Reads(p, o, e, v)
  PROVE  \E l : /\ loc' = [loc EXCEPT ![p] = l] /\ l.pc = "copy" /\ l.op = o /\ l.e = e /\ l.arg = v
                /\ l.ptr = elem[e].data /\ l.saw = Points(text, elem[e].data)
<1> DEFINE d == elem[e].data
           s == Pointed(elem[e].data)
           n == loc[p].done + 1
           l == [loc[p] EXCEPT !.pc = "copy", !.op = o, !.e = e, !.arg = v, !.done = n, !.ptr = d, !.saw = s]
<1>1. DOMAIN loc[p] = Fields /\ loc = [q \in Processes |-> loc[q]]
  BY Mine DEF Locals
<1>2. loc' = [loc EXCEPT ![p] = l]
  BY <1>1 DEF Reads, Fields
<1>3. s = Points(text, d)
  BY DEF Pointed, Points
<1> HIDE DEF d, s, n
<1>4. l.pc = "copy" /\ l.op = o /\ l.e = e /\ l.arg = v /\ l.ptr = d /\ l.saw = s
  BY <1>1 DEF Fields
<1> HIDE DEF l
<1> QED BY <1>2, <1>3, <1>4 DEF d

LEMMA ReadRWOwns ==
  ASSUME OwnInv, RegionInv, RegionInv', NEW p \in Processes, ReadRW(p)
  PROVE  OwnInv'
<1>1. PICK e \in Elements : /\ elem[e].fe = "FULL" \/ (elem[e].fe = "RW_LOCK" /\ elem[e].rw < RWMax)
                            /\ elem' = [elem EXCEPT ![e].fe = "RW_LOCK", ![e].rw = @ + 1]
                            /\ Reads(p, "inspect", e, Number)
  BY DEF ReadRW
<1>2. loc[p].pc = "ready" /\ UNCHANGED <<tree, mutex, call, live, use, text>>
  BY DEF ReadRW, Opens, At, allocVars
<1>3. PICK l : /\ loc' = [loc EXCEPT ![p] = l] /\ l.pc = "copy" /\ l.op = "inspect" /\ l.e = e /\ l.arg = Number
               /\ l.ptr = elem[e].data /\ l.saw = Points(text, elem[e].data)
  BY <1>1, ReadsIs
<1> DEFINE n == elem[e].rw + 1
           g == [elem[e] EXCEPT !.fe = "RW_LOCK", !.rw = n]
           c == call[p]
<1>4. Cell(elem[e]) /\ Sound(elem[e]) /\ elem = [x \in Elements |-> elem[x]] /\ e \in Elements
  BY <1>1, Mine
<1>5. elem' = [elem EXCEPT ![e] = g]
  BY <1>1, <1>4 DEF Cell
<1>6. n \in Nat /\ n > 0 /\ n = elem[e].rw + 1
  BY <1>4 DEF Sound
<1> HIDE DEF n
<1>7. g.fe = "RW_LOCK" /\ g.rw = n /\ g.type = elem[e].type /\ g.data = elem[e].data
  BY <1>4 DEF Cell
<1> HIDE DEF g
<1>8. Does(p, e, l, c, g)
  BY <1>2, <1>3, <1>5, Mine DEF Does
<1>9. Reader(l) /\ ~Changes(l) /\ ~Reader(loc[p]) /\ ~Changes(loc[p]) /\ call[p].pc = "none"
  BY <1>2, <1>3, Mine DEF Reader, Changes, Waiter, Writer
<1>10. May(p, e, l, c, g)
  <2>1. Fits(l, c) /\ ~Given(l, c) /\ ~Holds(l, c) /\ ~Holds(loc[p], call[p])
    BY <1>2, <1>3, <1>9 DEF Fits, Given, Holds
  <2>2. Sound(g)
    BY <1>1, <1>4, <1>6, <1>7 DEF Sound
  <2>3. Swaps(p, e, l, c, g)
    BY <1>1, <1>7, <2>1 DEF Swaps, Keeping
  <2>4. Undisturbed(p, e, g)
    BY <1>1, <1>7 DEF Undisturbed
  <2>5. \A x : (Has(loc[p], x) => x = e) /\ (Has(l, x) => x = e)
    BY <1>3, <1>9 DEF Has
  <2> QED BY <1>6, <1>7, <1>9, <2>1, <2>2, <2>3, <2>4, <2>5, <1>4 DEF May, Sound
<1>11. Works(l, g, text')
  BY <1>2, <1>3, <1>4, <1>7, <1>9 DEF Works, Changes, Values
<1>12. HeapInv' /\ Written'
  BY <1>2, HeapSame DEF OwnInv, Written
<1> QED BY <1>2, <1>3, <1>4, <1>8, <1>10, <1>11, <1>12, WorkOwns DEF Work

LEMMA ReadFEOwns ==
  ASSUME OwnInv, RegionInv, RegionInv', NEW p \in Processes, ReadFE(p)
  PROVE  OwnInv'
<1>1. PICK e \in Elements, v \in use.values : /\ elem[e].fe = "FULL"
                                              /\ elem' = [elem EXCEPT ![e].fe = "EMPTY"]
                                              /\ Reads(p, "update", e, v)
  BY DEF ReadFE
<1>2. loc[p].pc = "ready" /\ UNCHANGED <<tree, mutex, call, live, use, text>>
  BY DEF ReadFE, Opens, At, allocVars
<1>3. PICK l : /\ loc' = [loc EXCEPT ![p] = l] /\ l.pc = "copy" /\ l.op = "update" /\ l.e = e /\ l.arg = v
               /\ l.ptr = elem[e].data /\ l.saw = Points(text, elem[e].data)
  BY <1>1, ReadsIs
<1> DEFINE g == [elem[e] EXCEPT !.fe = "EMPTY"]
           c == call[p]
<1>4. Cell(elem[e]) /\ Sound(elem[e]) /\ elem = [x \in Elements |-> elem[x]] /\ e \in Elements
  BY <1>1, Mine
<1>5. elem' = [elem EXCEPT ![e] = g]
  BY <1>1, <1>4 DEF Cell
<1>6. g.fe = "EMPTY" /\ g.rw = elem[e].rw /\ g.type = elem[e].type /\ g.data = elem[e].data
  BY <1>4 DEF Cell
<1> HIDE DEF g
<1>7. v \in Values
  <2>1. use \in Uses
    BY DEF RegionInv, Typed
  <2>2. \A u \in Uses : u.values \subseteq Values
    BY ArrayAssumption
  <2> QED BY <1>1, <2>1, <2>2
<1>8. Does(p, e, l, c, g)
  BY <1>2, <1>3, <1>5, Mine DEF Does
<1>9. ~Reader(l) /\ Waiter(l) /\ Changes(l) /\ ~Reader(loc[p]) /\ ~Changes(loc[p]) /\ call[p].pc = "none" /\ ~Writer(l)
  BY <1>2, <1>3, Mine DEF Reader, Changes, Waiter, Writer
<1>10. May(p, e, l, c, g)
  <2>1. Fits(l, c) /\ ~Given(l, c) /\ ~Holds(l, c) /\ ~Holds(loc[p], call[p])
    BY <1>2, <1>3, <1>9 DEF Fits, Given, Holds
  <2>2. Sound(g)
    BY <1>1, <1>4, <1>6 DEF Sound
  <2>3. Swaps(p, e, l, c, g)
    BY <1>1, <1>6, <2>1 DEF Swaps, Keeping
  <2>4. Undisturbed(p, e, g)
    BY <1>1, <1>6 DEF Undisturbed
  <2>5. \A x : (Has(loc[p], x) => x = e) /\ (Has(l, x) => x = e)
    BY <1>3, <1>9 DEF Has
  <2> QED BY <1>1, <1>6, <1>9, <2>1, <2>2, <2>3, <2>4, <2>5, <1>4 DEF May, Sound
<1>11. Works(l, g, text')
  BY <1>2, <1>3, <1>4, <1>6, <1>7, <1>9 DEF Works
<1>12. HeapInv' /\ Written'
  BY <1>2, HeapSame DEF OwnInv, Written
<1> QED BY <1>2, <1>3, <1>4, <1>8, <1>10, <1>11, <1>12, WorkOwns DEF Work

\* The binding copies what it has read.
LEMMA CopyOwns ==
  ASSUME OwnInv, RegionInv, RegionInv', NEW p \in Processes, Copy(p)
  PROVE  OwnInv'
<1> DEFINE k == loc[p]
           e == loc[p].e
           g == elem[loc[p].e]
           c == call[p]
           s == Pointed(loc[p].ptr)
           l == [k EXCEPT !.pc = "copied", !.got = s]
<1>1. loc[p].pc = "copy" /\ UNCHANGED <<tree, mutex, call, live, use, text, elem>>
  BY DEF Copy, At, allocVars
<1>2. DOMAIN k = Fields /\ loc = [q \in Processes |-> loc[q]] /\ Works(k, g, text) /\ call[p].pc = "none"
      /\ elem = [x \in Elements |-> elem[x]]
  BY <1>1, Mine DEF Locals
<1>3. loc' = [loc EXCEPT ![p] = l]
  BY <1>2 DEF Copy, Fields
<1>4. s = Points(text, k.ptr)
  BY DEF Pointed, Points
<1> HIDE DEF s
<1>5. l.pc = "copied" /\ l.got = s /\ l.op = k.op /\ l.e = k.e /\ l.arg = k.arg /\ l.ptr = k.ptr /\ l.saw = k.saw
  BY <1>2 DEF Fields
<1> HIDE DEF l
<1>6. e \in Elements
  BY <1>1, <1>2 DEF Works, Work
<1>7. (Reader(l) <=> Reader(k)) /\ (Waiter(l) <=> Waiter(k)) /\ ~Writer(l) /\ ~Writer(k) /\ (Changes(l) <=> Changes(k))
  BY <1>1, <1>5 DEF Reader, Waiter, Writer, Changes
<1>8. Sound(g)
  BY <1>6, Mine
<1>9. Does(p, e, l, c, g)
  BY <1>1, <1>2, <1>3, Mine DEF Does
<1>10. May(p, e, l, c, g)
  <2>1. Fits(l, c) /\ ~Given(l, c) /\ ~Holds(l, c) /\ ~Holds(loc[p], call[p])
    BY <1>1, <1>2, <1>5 DEF Fits, Given, Holds
  <2>2. Swaps(p, e, l, c, g)
    BY <2>1 DEF Swaps
  <2>3. Undisturbed(p, e, g)
    <3>1. Reader(k) \/ Changes(k)
      BY <1>1, <1>2 DEF Works, Work
    <3>2. Reader(k) => g.fe = "RW_LOCK"
      BY <1>6, TagTells
    <3> QED BY <3>1, <3>2 DEF Undisturbed
  <2>4. \A x : (Has(loc[p], x) => x = e) /\ (Has(l, x) => x = e)
    BY <1>5, <1>7 DEF Has
  <2> QED BY <1>7, <1>8, <2>1, <2>2, <2>3, <2>4 DEF May, Sound
<1>11. Works(l, g, text')
  BY <1>1, <1>2, <1>4, <1>5, <1>6, <1>7 DEF Works, Work
<1>12. HeapInv' /\ Written'
  BY <1>1, HeapSame DEF OwnInv, Written
<1> QED BY <1>1, <1>5, <1>6, <1>9, <1>10, <1>11, <1>12, WorkOwns DEF Work

\* What is left of an operation that is over.
LEMMA OverIs ==
  ASSUME OwnInv, RegionInv, NEW p \in Processes
  PROVE  Over(p).pc = "ready" /\ Over(p).e = loc[p].e /\ Over(p).op = loc[p].op
<1>1. DOMAIN loc[p] = Fields
  BY Mine DEF Locals
<1> QED BY <1>1 DEF Over, Fields

\* A reader lets go of the element.
LEMMA ReleaseOwns ==
  ASSUME OwnInv, RegionInv, RegionInv', NEW p \in Processes, Copied(p), loc[p].op = "inspect"
  PROVE  OwnInv'
<1> DEFINE k == loc[p]
           e == loc[p].e
           h == elem[loc[p].e]
           n == h.rw - 1
           f == IF h.rw = 1 THEN "FULL" ELSE h.fe
           g == [h EXCEPT !.rw = n, !.fe = f]
           c == call[p]
           l == Over(p)
<1>1. loc[p].pc = "copied" /\ UNCHANGED <<tree, mutex, call, live, use, text>>
  BY DEF Copied, At, allocVars
<1>2. Works(k, h, text) /\ call[p].pc = "none" /\ elem = [x \in Elements |-> elem[x]]
  BY <1>1, Mine
<1>3. e \in Elements
  BY <1>1, <1>2 DEF Works, Work
<1>4. Cell(h) /\ Sound(h)
  BY <1>3, Mine
<1>5. loc' = [loc EXCEPT ![p] = l] /\ elem' = [elem EXCEPT ![e] = g]
  BY <1>2, <1>4 DEF Copied, Cell
<1>6. l.pc = "ready" /\ l.e = e
  BY OverIs
<1> HIDE DEF l
<1>7. Reader(k) /\ ~Changes(k) /\ ~Reader(l) /\ ~Changes(l)
  BY <1>1, <1>6 DEF Reader, Changes, Waiter, Writer
<1>8. h.fe = "RW_LOCK" /\ h.rw \in Nat /\ h.rw > 0
  BY <1>3, <1>4, <1>7, TagTells DEF Sound
<1>9. n \in Nat /\ n = h.rw - 1 /\ (f = IF n = 0 THEN "FULL" ELSE "RW_LOCK")
  BY <1>8
<1> HIDE DEF n, f
<1>10. g.fe = f /\ g.rw = n /\ g.type = h.type /\ g.data = h.data
  BY <1>4 DEF Cell
<1> HIDE DEF g
<1>11. Does(p, e, l, c, g)
  BY <1>1, <1>5, Mine DEF Does
<1>12. May(p, e, l, c, g)
  <2>1. Fits(l, c) /\ ~Given(l, c) /\ ~Holds(l, c) /\ ~Holds(loc[p], call[p])
    BY <1>1, <1>2, <1>6 DEF Fits, Given, Holds
  <2>2. Sound(g)
    BY <1>4, <1>8, <1>9, <1>10 DEF Sound
  <2>3. Swaps(p, e, l, c, g)
    BY <1>8, <1>9, <1>10, <2>1 DEF Swaps, Keeping
  <2>4. Undisturbed(p, e, g)
    BY <1>8, <1>10 DEF Undisturbed
  <2>5. \A x : (Has(loc[p], x) => x = e) /\ (Has(l, x) => x = e)
    BY <1>7 DEF Has
  <2>6. g.rw = elem[e].rw + (IF Reader(l) THEN 1 ELSE 0) - (IF Reader(loc[p]) THEN 1 ELSE 0)
    BY <1>7, <1>8, <1>9, <1>10
  <2> QED BY <1>7, <2>1, <2>2, <2>3, <2>4, <2>5, <2>6 DEF May
<1>13. HeapInv' /\ Written'
  BY <1>1, HeapSame DEF OwnInv, Written
<1> QED BY <1>1, <1>3, <1>6, <1>11, <1>12, <1>13, WorkOwns DEF Work

\* What a step to the program counter s leaves in the locals.
LEMMA ToIs ==
  ASSUME OwnInv, RegionInv, NEW p \in Processes, NEW s, To(p, s)
  PROVE  \E l : /\ loc' = [loc EXCEPT ![p] = l] /\ l.pc = s /\ l.op = loc[p].op /\ l.e = loc[p].e /\ l.arg = loc[p].arg
                /\ l.ptr = loc[p].ptr /\ l.saw = loc[p].saw /\ l.todo = loc[p].todo /\ l.lives = loc[p].lives
<1> DEFINE l == [loc[p] EXCEPT !.pc = s]
<1>1. DOMAIN loc[p] = Fields /\ loc = [q \in Processes |-> loc[q]]
  BY Mine DEF Locals
<1>2. loc' = [loc EXCEPT ![p] = l]
  BY <1>1 DEF To
<1>3. /\ l.pc = s /\ l.op = loc[p].op /\ l.e = loc[p].e /\ l.arg = loc[p].arg
      /\ l.ptr = loc[p].ptr /\ l.saw = loc[p].saw /\ l.todo = loc[p].todo /\ l.lives = loc[p].lives
  BY <1>1 DEF Fields
<1> HIDE DEF l
<1> QED BY <1>2, <1>3

\* A writer goes on to acquire the element.
LEMMA GoOnOwns ==
  ASSUME OwnInv, RegionInv, RegionInv', NEW p \in Processes, Copied(p), loc[p].op = "update"
  PROVE  OwnInv'
<1> DEFINE k == loc[p]
           e == loc[p].e
           g == elem[loc[p].e]
           c == call[p]
<1>1. loc[p].pc = "copied" /\ UNCHANGED <<tree, mutex, call, live, use, text, elem>> /\ To(p, "acquire")
  BY DEF Copied, At, allocVars
<1>2. PICK l : /\ loc' = [loc EXCEPT ![p] = l] /\ l.pc = "acquire" /\ l.op = k.op /\ l.e = e /\ l.arg = k.arg
               /\ l.ptr = k.ptr
  BY <1>1, ToIs
<1>3. Works(k, g, text) /\ call[p].pc = "none" /\ elem = [x \in Elements |-> elem[x]]
  BY <1>1, Mine
<1>4. e \in Elements
  BY <1>1, <1>3 DEF Works, Work
<1>5. Sound(g)
  BY <1>4, Mine
<1>6. Waiter(k) /\ Waiter(l) /\ ~Reader(k) /\ ~Reader(l) /\ ~Writer(l) /\ Changes(k) /\ Changes(l)
  BY <1>1, <1>2 DEF Reader, Changes, Waiter, Writer
<1>7. Does(p, e, l, c, g)
  BY <1>1, <1>2, <1>3, Mine DEF Does
<1>8. May(p, e, l, c, g)
  <2>1. Fits(l, c) /\ ~Given(l, c) /\ ~Holds(l, c) /\ ~Holds(loc[p], call[p])
    BY <1>1, <1>2, <1>3 DEF Fits, Given, Holds
  <2>2. Swaps(p, e, l, c, g)
    BY <2>1 DEF Swaps
  <2>3. Undisturbed(p, e, g)
    BY <1>6 DEF Undisturbed
  <2>4. \A x : (Has(loc[p], x) => x = e) /\ (Has(l, x) => x = e)
    BY <1>2 DEF Has
  <2>5. g.rw = elem[e].rw + (IF Reader(l) THEN 1 ELSE 0) - (IF Reader(loc[p]) THEN 1 ELSE 0)
    BY <1>5, <1>6 DEF Sound
  <2> QED BY <1>5, <1>6, <2>1, <2>2, <2>3, <2>4, <2>5 DEF May
<1>9. Works(l, g, text')
  BY <1>1, <1>2, <1>3, <1>4, <1>6 DEF Works, Work
<1>10. HeapInv' /\ Written'
  BY <1>1, HeapSame DEF OwnInv, Written
<1> QED BY <1>1, <1>2, <1>4, <1>7, <1>8, <1>9, <1>10, WorkOwns DEF Work

\* The calls that a process makes.
LEMMA AskIs ==
  ASSUME NEW p \in Processes, NEW z, CallAlloc(p, z)
  PROVE  \E c : call' = [call EXCEPT ![p] = c] /\ CallTyped(c) /\ c.pc = "lockAlloc" /\ c.size = Size(z)
<1> DEFINE s == Size(z)
           c == [NoCall EXCEPT !.pc = "lockAlloc", !.size = s]
<1>1. call' = [call EXCEPT ![p] = c]
  BY DEF CallAlloc
<1> HIDE DEF s
<1>2. CallTyped(c) /\ c.pc = "lockAlloc" /\ c.size = s
  BY DEF NoCall, CallTyped, Calls
<1> HIDE DEF c
<1> QED BY <1>1, <1>2 DEF s

LEMMA GiveIs ==
  ASSUME NEW p \in Processes, NEW o, CallFree(p, o)
  PROVE  \E c : call' = [call EXCEPT ![p] = c] /\ CallTyped(c) /\ c.pc = "lockFree" /\ c.offset = o
<1> DEFINE c == [NoCall EXCEPT !.pc = "lockFree", !.offset = o]
<1>1. call' = [call EXCEPT ![p] = c]
  BY DEF CallFree
<1>2. CallTyped(c) /\ c.pc = "lockFree" /\ c.offset = o
  BY DEF NoCall, CallTyped, Calls
<1> HIDE DEF c
<1> QED BY <1>1, <1>2

\* A writer takes the element, and with it the string that is in it.
LEMMA AcquireOwns ==
  ASSUME OwnInv, RegionInv, RegionInv', NEW p \in Processes, Acquire(p)
  PROVE  OwnInv'
<1> DEFINE k == loc[p]
           e == loc[p].e
           h == elem[loc[p].e]
           g == [h EXCEPT !.fe = "BUSY"]
<1>1. /\ loc[p].pc = "acquire" /\ UNCHANGED <<tree, mutex, live, use, text>> /\ To(p, "replace")
      /\ h.fe = "EMPTY" /\ elem' = [elem EXCEPT ![e].fe = "BUSY"]
      /\ IF h.type = "string" THEN CallFree(p, h.data) ELSE UNCHANGED call
  BY DEF Acquire, At, String
<1>2. PICK l : /\ loc' = [loc EXCEPT ![p] = l] /\ l.pc = "replace" /\ l.op = k.op /\ l.e = e /\ l.arg = k.arg
               /\ l.ptr = k.ptr
  BY <1>1, ToIs
<1>3. Works(k, h, text) /\ call[p].pc = "none" /\ elem = [x \in Elements |-> elem[x]] /\ CallTyped(call[p])
      /\ call = [call EXCEPT ![p] = call[p]]
  BY <1>1, Mine, Call
<1>4. e \in Elements /\ k.arg \in Values
  BY <1>1, <1>3 DEF Works, Work
<1>5. Cell(h) /\ Sound(h)
  BY <1>4, Mine
<1>6. elem' = [elem EXCEPT ![e] = g]
  BY <1>1, <1>3, <1>4, <1>5 DEF Cell
<1>7. g.fe = "BUSY" /\ g.rw = h.rw /\ g.type = h.type /\ g.data = h.data
  BY <1>5 DEF Cell
<1> HIDE DEF g
<1>8. PICK c : /\ call' = [call EXCEPT ![p] = c] /\ CallTyped(c)
               /\ IF h.type = "string" THEN c.pc = "lockFree" /\ c.offset = h.data ELSE c.pc = "none"
  <2>1. CASE h.type = "string"
    BY <1>1, <2>1, GiveIs
  <2>2. CASE h.type # "string"
    BY <1>1, <1>3, <2>2
  <2> QED BY <2>1, <2>2
<1>9. Waiter(k) /\ Writer(l) /\ ~Reader(k) /\ ~Reader(l) /\ ~Waiter(l) /\ Changes(k) /\ Changes(l)
  BY <1>1, <1>2, <1>3 DEF Reader, Changes, Waiter, Writer, Works, Work
<1>10. Does(p, e, l, c, g)
  BY <1>1, <1>2, <1>6, <1>8 DEF Does
<1>11. May(p, e, l, c, g)
  <2>1. Fits(l, c) /\ ~Given(l, c) /\ ~Holds(loc[p], call[p]) /\ (Holds(l, c) <=> h.type = "string")
    BY <1>1, <1>2, <1>3, <1>8 DEF Fits, Given, Holds, Returning
  <2>2. Swaps(p, e, l, c, g)
    BY <1>1, <1>2, <1>7, <1>8, <2>1 DEF Swaps, Keeping
  <2>3. Undisturbed(p, e, g)
    BY <1>9 DEF Undisturbed
  <2>4. \A x : (Has(loc[p], x) => x = e) /\ (Has(l, x) => x = e)
    BY <1>2 DEF Has
  <2>5. Sound(g) /\ g.rw = elem[e].rw + (IF Reader(l) THEN 1 ELSE 0) - (IF Reader(loc[p]) THEN 1 ELSE 0)
    BY <1>1, <1>5, <1>7, <1>9 DEF Sound
  <2> QED BY <1>9, <2>1, <2>2, <2>3, <2>4, <2>5 DEF May
<1>12. Works(l, g, text')
  BY <1>2, <1>4, <1>7, <1>9 DEF Works
<1>13. HeapInv' /\ Written'
  <2>1. call[p].pc \notin Inside /\ c.pc \notin Inside
    BY <1>3, <1>8 DEF Inside
  <2>2. HeapInv'
    BY <1>1, <1>8, <2>1, HeapStays DEF OwnInv
  <2> QED BY <1>1, <2>2 DEF OwnInv, Written
<1>14. Frees(l, c, g)
  BY <1>7, <1>8 DEF Frees
<1> QED BY <1>1, <1>2, <1>4, <1>10, <1>11, <1>12, <1>13, <1>14, WorkOwns DEF Work

\* The old string is gone, a string is allocated or a number stored.
LEMMA ReplaceOwns ==
  ASSUME OwnInv, RegionInv, RegionInv', NEW p \in Processes, Replace(p)
  PROVE  OwnInv'
<1> DEFINE k == loc[p]
           e == loc[p].e
           h == elem[loc[p].e]
           s == k.arg \in Texts
           g == IF s THEN h ELSE [h EXCEPT !.data = -1]
<1>1. /\ loc[p].pc = "replace" /\ call[p].pc \in {"none", "returned"} /\ UNCHANGED <<tree, mutex, live, use, text>>
      /\ To(p, IF s THEN "allocated" ELSE "publish")
      /\ IF s THEN CallAlloc(p, Bytes[k.arg]) /\ UNCHANGED elem
              ELSE elem' = [elem EXCEPT ![e].data = -1] /\ call' = [call EXCEPT ![p] = NoCall]
  BY DEF Replace, At
<1>2. PICK l : /\ loc' = [loc EXCEPT ![p] = l] /\ l.pc = (IF s THEN "allocated" ELSE "publish")
               /\ l.op = k.op /\ l.e = e /\ l.arg = k.arg /\ l.ptr = k.ptr
  BY <1>1, ToIs
<1>3. Works(k, h, text) /\ elem = [x \in Elements |-> elem[x]]
  BY <1>1, Mine
<1>4. e \in Elements /\ k.arg \in Values
  BY <1>1, <1>3 DEF Works, Work
<1>5. Cell(h) /\ Sound(h)
  BY <1>4, Mine
<1>6. elem' = [elem EXCEPT ![e] = g]
  BY <1>1, <1>3, <1>4, <1>5 DEF Cell
<1>7. g.fe = h.fe /\ g.rw = h.rw /\ g.type = h.type /\ (g.data = IF s THEN h.data ELSE -1)
  BY <1>5 DEF Cell
<1> HIDE DEF g
<1>8. PICK c : /\ call' = [call EXCEPT ![p] = c] /\ CallTyped(c)
               /\ IF s THEN c.pc = "lockAlloc" /\ c.size = Size(Bytes[k.arg]) ELSE c.pc = "none"
  <2>1. CASE s
    BY <1>1, <2>1, AskIs
  <2>2. CASE ~s
    BY <1>1, <2>2, NoCallIs
  <2> QED BY <2>1, <2>2
<1>9. Writer(k) /\ Writer(l) /\ ~Reader(k) /\ ~Reader(l) /\ ~Waiter(l) /\ Changes(k) /\ Changes(l)
  BY <1>1, <1>2, <1>3 DEF Reader, Changes, Waiter, Writer, Works, Work
<1>10. h.fe = "BUSY"
  BY <1>3, <1>9 DEF Works
<1>11. Does(p, e, l, c, g)
  BY <1>1, <1>2, <1>6, <1>8 DEF Does
<1>12. May(p, e, l, c, g)
  <2>1. Fits(l, c) /\ ~Given(l, c) /\ ~Holds(loc[p], call[p]) /\ ~Holds(l, c)
    BY <1>1, <1>2, <1>8 DEF Fits, Given, Holds, Asking
  <2>2. Swaps(p, e, l, c, g)
    BY <1>7, <1>10, <2>1 DEF Swaps, Keeping
  <2>3. Undisturbed(p, e, g)
    BY <1>9 DEF Undisturbed
  <2>4. \A x : (Has(loc[p], x) => x = e) /\ (Has(l, x) => x = e)
    BY <1>2 DEF Has
  <2>5. Sound(g) /\ g.rw = elem[e].rw + (IF Reader(l) THEN 1 ELSE 0) - (IF Reader(loc[p]) THEN 1 ELSE 0)
    BY <1>5, <1>7, <1>9, <1>10 DEF Sound
  <2> QED BY <1>9, <2>1, <2>2, <2>3, <2>4, <2>5 DEF May
<1>13. Works(l, g, text')
  BY <1>2, <1>4, <1>7, <1>9, <1>10 DEF Works
<1>14. HeapInv' /\ Written'
  <2>1. call[p].pc \notin Inside /\ c.pc \notin Inside
    BY <1>1, <1>8 DEF Inside
  <2>2. HeapInv'
    BY <1>1, <1>8, <2>1, HeapStays DEF OwnInv
  <2> QED BY <1>1, <2>2 DEF OwnInv, Written
<1> QED BY <1>1, <1>2, <1>4, <1>11, <1>12, <1>13, <1>14, WorkOwns DEF Work

\* A string that is written over a block of its own leaves alone what others copy.
LEMMA Spared ==
  ASSUME OwnInv, NEW p \in Processes, Given(loc[p], call[p]), NEW x \in Texts, call[p].size = Size(Bytes[x]),
         Strcpy(x, call[p].offset)
  PROVE  /\ Written'
         /\ \A q \in Processes \ {p} : loc[q].pc = "copy" => Points(text', loc[q].ptr) = Points(text, loc[q].ptr)
<1> DEFINE o == call[p].offset
           n == (Bytes[x] - 1) \div BlockSize
           z == Size(Bytes[x])
           own == [offset |-> o, size |-> call[p].size]
<1>1. /\ text' = [c \in DOMAIN text |-> IF c \in o .. o + n THEN x ELSE text[c]]
      /\ text = [b \in 0 .. Length(0) - 1 |-> text[b]]
  BY DEF Strcpy, Covers, OwnInv, Written
<1>2. DOMAIN text = 0 .. Length(0) - 1
  BY <1>1
<1>3. own \in live /\ n \in Nat /\ n < z /\ call[p].size = z /\ z \in Nat
  BY SizeIs DEF OwnInv, Exact
<1>4. own.offset = o /\ own.size = z
  BY <1>3
<1> HIDE DEF n, z, own
<1>5. ASSUME NEW b \in live, b.offset # o PROVE b.offset \notin o .. o + n
  <2>1. \A c \in live : c.offset \in Nat /\ c.size \in Nat \ {0}
    <3>1. ASSUME NEW c \in live PROVE c.offset \in Nat /\ c.size \in Nat \ {0}
      <4>1. PICK m \in Nodes : c = Block(m)
        BY LiveBlocks DEF OwnInv
      <4> QED BY <4>1, NodeBlocks DEF Block
    <3> QED BY <3>1
  <2>2. ~Overlap(b, own)
    BY <1>3, <1>4, <1>5, LiveBlocks DEF OwnInv
  <2>3. o \in Nat /\ b.offset \in Nat /\ b.size \in Nat \ {0}
    BY <1>3, <1>4, <2>1
  <2>4. ASSUME b.offset \in o .. o + n PROVE Overlap(b, own)
    <3>1. o <= b.offset /\ b.offset <= o + n
      BY <1>3, <2>3, <2>4
    <3>2. b.offset < o + z /\ o < b.offset + b.size
      BY <1>3, <2>3, <3>1
    <3> QED BY <1>4, <3>2 DEF Overlap
  <2> QED BY <2>2, <2>4
<1>6. Written'
  <2>1. text' = [b \in 0 .. Length(0) - 1 |-> text'[b]]
    BY <1>1, <1>2
  <2> QED BY <2>1 DEF Written
<1>7. ASSUME NEW q \in Processes \ {p}, loc[q].pc = "copy" PROVE Points(text', loc[q].ptr) = Points(text, loc[q].ptr)
  <2> DEFINE e == loc[q].e
             d == elem[loc[q].e].data
  <2>1. Works(loc[q], elem[e], text)
    BY DEF OwnInv, Working
  <2>2. e \in Elements /\ loc[q].ptr = d /\ (Reader(loc[q]) \/ Waiter(loc[q]))
    BY <1>7, <2>1 DEF Works, Work, Changes, Writer
  <2>3. elem[e].fe # "BUSY"
    BY <2>2, TagTells DEF Changes
  <2>4. Sound(elem[e])
    BY <2>2 DEF OwnInv, Sounds
  <2>5. CASE elem[e].type # "string"
    BY <2>2, <2>3, <2>4, <2>5 DEF Sound, Points
  <2>6. CASE elem[e].type = "string"
    <3>1. d \in 0 .. Length(0) - 1
      BY <2>3, <2>4, <2>6 DEF Sound
    <3>2. Title("element", e, d) \in Titles(elem, loc, call)
      BY <2>2, <2>3, <2>6 DEF Titles, Keeping
    <3>3. Title("process", p, o) \in Titles(elem, loc, call)
      <4>1. Holds(loc[p], call[p]) /\ Place(loc[p], call[p], elem) = o
        BY DEF Holds, Given, Place
      <4> QED BY <4>1, TitleOf
    <3>4. d # o /\ \E b \in live : b.offset = d
      BY <3>2, <3>3, TitleIs DEF OwnInv, Owned, Ledger
    <3>5. d \notin o .. o + n
      BY <1>5, <3>4
    <3>6. text'[d] = text[d]
      BY <1>1, <1>2, <3>1, <3>5
    <3> QED BY <2>2, <3>6 DEF Points
  <2> QED BY <2>5, <2>6
<1> QED BY <1>6, <1>7

\* The string is copied into the block that was allocated.
LEMMA StoreOwns ==
  ASSUME OwnInv, RegionInv, RegionInv', NEW p \in Processes, Allocated(p), In(p, "returned")
  PROVE  OwnInv'
<1> DEFINE k == loc[p]
           e == loc[p].e
           h == elem[loc[p].e]
           o == call[p].offset
           g == [h EXCEPT !.data = o]
           c == NoCall
<1>1. /\ loc[p].pc = "allocated" /\ call[p].pc = "returned" /\ UNCHANGED <<tree, mutex, live, use>>
      /\ To(p, "publish") /\ elem' = [elem EXCEPT ![e].data = o] /\ Strcpy(k.arg, o)
      /\ call' = [call EXCEPT ![p] = NoCall]
  BY DEF Allocated, At, In
<1>2. PICK l : /\ loc' = [loc EXCEPT ![p] = l] /\ l.pc = "publish" /\ l.op = k.op /\ l.e = e /\ l.arg = k.arg
               /\ l.ptr = k.ptr
  BY <1>1, ToIs
<1>3. Works(k, h, text) /\ elem = [x \in Elements |-> elem[x]] /\ Fits(k, call[p])
  BY <1>1, Mine
<1>4. e \in Elements /\ k.arg \in Values /\ k.arg \in Texts /\ call[p].size = Size(Bytes[k.arg]) /\ Given(k, call[p])
  BY <1>1, <1>3 DEF Works, Work, Fits, Given
<1>5. Cell(h) /\ Sound(h)
  BY <1>4, Mine
<1>6. elem' = [elem EXCEPT ![e] = g]
  BY <1>1, <1>3, <1>4, <1>5 DEF Cell
<1>7. g.fe = h.fe /\ g.rw = h.rw /\ g.type = h.type /\ g.data = o
  BY <1>5 DEF Cell
<1> HIDE DEF g
<1>8. Writer(k) /\ Writer(l) /\ ~Reader(k) /\ ~Reader(l) /\ ~Waiter(l) /\ Changes(k) /\ Changes(l)
  BY <1>1, <1>2, <1>3 DEF Reader, Changes, Waiter, Writer, Works, Work
<1>9. h.fe = "BUSY"
  BY <1>3, <1>8 DEF Works
<1>10. Does(p, e, l, c, g)
  BY <1>1, <1>2, <1>6 DEF Does
<1>11. May(p, e, l, c, g)
  <2>1. Fits(l, c) /\ ~Given(l, c) /\ Holds(loc[p], call[p]) /\ Holds(l, c)
    BY <1>1, <1>2, <1>4, NoCallIs DEF Fits, Given, Holds
  <2>2. Swaps(p, e, l, c, g)
    BY <1>1, <1>2, <1>7, <1>9, <2>1 DEF Swaps, Keeping, Place
  <2>3. Undisturbed(p, e, g)
    BY <1>8 DEF Undisturbed
  <2>4. \A x : (Has(loc[p], x) => x = e) /\ (Has(l, x) => x = e)
    BY <1>2 DEF Has
  <2>5. Sound(g) /\ g.rw = elem[e].rw + (IF Reader(l) THEN 1 ELSE 0) - (IF Reader(loc[p]) THEN 1 ELSE 0)
    BY <1>5, <1>7, <1>8, <1>9 DEF Sound
  <2> QED BY <1>8, <2>1, <2>2, <2>3, <2>4, <2>5 DEF May
<1>12. Works(l, g, text')
  BY <1>2, <1>4, <1>7, <1>8, <1>9 DEF Works
<1>13. HeapInv'
  BY <1>1, NoCallIs, HeapStays DEF OwnInv, Inside
<1>14. /\ Written'
       /\ \A q \in Processes \ {p} : loc[q].pc = "copy" => Points(text', loc[q].ptr) = Points(text, loc[q].ptr)
  BY <1>1, <1>4, Spared
<1> QED BY <1>2, <1>4, <1>10, <1>11, <1>12, <1>13, <1>14, WorkOwns DEF Work

\* There was no room: the write returns.
LEMMA GiveUpOwns ==
  ASSUME OwnInv, RegionInv, RegionInv', NEW p \in Processes, Allocated(p), In(p, "failed")
  PROVE  OwnInv'
<1> DEFINE k == loc[p]
           e == loc[p].e
           g == elem[loc[p].e]
           c == NoCall
           l == Over(p)
<1>1. /\ loc[p].pc = "allocated" /\ call[p].pc = "failed" /\ UNCHANGED <<tree, mutex, live, use, elem, text>>
      /\ loc' = [loc EXCEPT ![p] = l] /\ call' = [call EXCEPT ![p] = NoCall]
  BY DEF Allocated, At, In
<1>2. l.pc = "ready"
  BY OverIs
<1> HIDE DEF l
<1>3. Works(k, g, text) /\ elem = [x \in Elements |-> elem[x]]
  BY <1>1, Mine
<1>4. e \in Elements
  BY <1>1, <1>3 DEF Works, Work
<1>5. Sound(g)
  BY <1>4, Mine
<1>6. Writer(k) /\ ~Reader(k) /\ ~Reader(l) /\ ~Changes(l) /\ Changes(k)
  BY <1>1, <1>2 DEF Reader, Changes, Waiter, Writer
<1>7. Does(p, e, l, c, g)
  BY <1>1, <1>3 DEF Does
<1>8. May(p, e, l, c, g)
  <2>1. Fits(l, c) /\ ~Given(l, c) /\ ~Holds(loc[p], call[p]) /\ ~Holds(l, c)
    BY <1>1, <1>2, NoCallIs DEF Fits, Given, Holds
  <2>2. Swaps(p, e, l, c, g)
    BY <2>1 DEF Swaps
  <2>3. Undisturbed(p, e, g)
    BY <1>6 DEF Undisturbed
  <2>4. \A x : (Has(loc[p], x) => x = e) /\ (Has(l, x) => x = e)
    BY <1>6 DEF Has
  <2>5. g.rw = elem[e].rw + (IF Reader(l) THEN 1 ELSE 0) - (IF Reader(loc[p]) THEN 1 ELSE 0)
    BY <1>5, <1>6 DEF Sound
  <2> QED BY <1>5, <1>6, <2>1, <2>2, <2>3, <2>4, <2>5 DEF May
<1>9. HeapInv' /\ Written'
  <2>1. HeapInv'
    BY <1>1, NoCallIs, HeapStays DEF OwnInv, Inside
  <2> QED BY <1>1, <2>1 DEF OwnInv, Written
<1> QED BY <1>1, <1>2, <1>4, <1>7, <1>8, <1>9, WorkOwns DEF Work

\* The element has its value.
LEMMA PublishOwns ==
  ASSUME OwnInv, RegionInv, RegionInv', NEW p \in Processes, Publish(p)
  PROVE  OwnInv'
<1> DEFINE k == loc[p]
           e == loc[p].e
           h == elem[loc[p].e]
           t == IF k.arg \in Texts THEN "string" ELSE "number"
           g == [h EXCEPT !.fe = "FULL", !.type = t]
           c == call[p]
           l == Over(p)
<1>1. /\ loc[p].pc = "publish" /\ UNCHANGED <<tree, mutex, live, use, call, text>>
      /\ loc' = [loc EXCEPT ![p] = l] /\ elem' = [elem EXCEPT ![e].fe = "FULL", ![e].type = t]
  BY DEF Publish, At, allocVars
<1>2. l.pc = "ready"
  BY OverIs
<1> HIDE DEF l
<1>3. Works(k, h, text) /\ elem = [x \in Elements |-> elem[x]] /\ call = [call EXCEPT ![p] = call[p]] /\ c.pc = "none"
  BY <1>1, Mine
<1>4. e \in Elements
  BY <1>1, <1>3 DEF Works, Work
<1>5. Cell(h) /\ Sound(h)
  BY <1>4, Mine
<1>6. elem' = [elem EXCEPT ![e] = g]
  BY <1>1, <1>3, <1>4, <1>5 DEF Cell
<1>7. g.fe = "FULL" /\ g.rw = h.rw /\ g.type = t /\ g.data = h.data
  BY <1>5 DEF Cell
<1> HIDE DEF g
<1>8. Writer(k) /\ ~Reader(k) /\ ~Reader(l) /\ ~Changes(l) /\ Changes(k)
  BY <1>1, <1>2 DEF Reader, Changes, Waiter, Writer
<1>9. h.fe = "BUSY"
  BY <1>3, <1>8 DEF Works
<1>10. Does(p, e, l, c, g)
  BY <1>1, <1>3, <1>6 DEF Does
<1>11. k.arg \in Texts => Holds(k, c) /\ Place(k, c, elem) = h.data
  BY <1>1 DEF Holds, Place
<1>12. IF t = "string" THEN g.data \in 0 .. Length(0) - 1 ELSE g.data = -1
  <2>1. CASE k.arg \notin Texts
    BY <1>1, <1>3, <1>7, <2>1 DEF Works
  <2>2. CASE k.arg \in Texts
    <3>1. Title("process", p, h.data) \in Titles(elem, loc, call)
      BY <1>11, <2>2, TitleOf
    <3>2. PICK b \in live : b.offset = h.data
      BY <3>1, TitleIs DEF OwnInv, Owned, Ledger
    <3>3. PICK n \in Nodes : b = Block(n)
      BY LiveBlocks DEF OwnInv
    <3>4. h.data \in 0 .. Length(0) - 1
      BY <3>2, <3>3, NodeBlocks DEF Block
    <3> QED BY <1>7, <2>2, <3>4
  <2> QED BY <2>1, <2>2
<1>13. May(p, e, l, c, g)
  <2>1. Fits(l, c) /\ ~Given(l, c) /\ (Holds(loc[p], call[p]) <=> k.arg \in Texts) /\ ~Holds(l, c)
    BY <1>1, <1>2, <1>3 DEF Fits, Given, Holds
  <2>2. Swaps(p, e, l, c, g)
    BY <1>7, <1>9, <1>11, <2>1 DEF Swaps, Keeping
  <2>3. Undisturbed(p, e, g)
    BY <1>8 DEF Undisturbed
  <2>4. \A x : (Has(loc[p], x) => x = e) /\ (Has(l, x) => x = e)
    BY <1>8 DEF Has
  <2>5. Sound(g) /\ g.rw = elem[e].rw + (IF Reader(l) THEN 1 ELSE 0) - (IF Reader(loc[p]) THEN 1 ELSE 0)
    BY <1>5, <1>7, <1>8, <1>9, <1>12 DEF Sound
  <2> QED BY <1>8, <2>1, <2>2, <2>3, <2>4, <2>5 DEF May
<1>14. HeapInv' /\ Written'
  BY <1>1, HeapSame DEF OwnInv, Written
<1> QED BY <1>1, <1>2, <1>4, <1>10, <1>13, <1>14, WorkOwns DEF Work

-------------------------------------------------------------------------------
(* The elements are filled *)

LEMMA LeastIn == ASSUME NEW S, S \subseteq Nat, S # {} PROVE Least(S) \in S
<1>1. \E x \in S : \A y \in S : x <= y
  BY LeastExists
<1> QED BY <1>1 DEF Least

\* No element is in the shares of two processes.
LEMMA SharesApart ==
  ASSUME NEW p \in Processes, NEW q \in Processes, p # q PROVE Share(p) \cap Share(q) = {}
<1> DEFINE c == Cardinality(Processes)
           each == N \div c + 1
<1>1. c \in Nat /\ Processes = 0 .. c - 1 /\ N \in Nat
  BY ArrayAssumption, FS_CardinalityType
<1>2. p \in Nat /\ q \in Nat /\ c > 0
  BY <1>1
<1>3. \A r \in Processes : Share(r) = each * r .. (IF each * (r + 1) > N THEN N ELSE each * (r + 1)) - 1
  BY DEF Share
<1> HIDE DEF c
<1>4. each \in Nat
  BY <1>1, <1>2
<1> HIDE DEF each
<1>5. ASSUME NEW m \in Processes, NEW n \in Processes, m \in Nat, n \in Nat, m < n, NEW x \in Share(m), x \in Share(n)
      PROVE  FALSE
  <2>1. PICK k \in Nat : n = m + 1 + k
    <3>1. n - m - 1 \in Nat /\ n = m + 1 + (n - m - 1)
      BY <1>5
    <3> QED BY <3>1
  <2>2. each * n = each * (m + 1) + each * k /\ each * k \in Nat /\ each * (m + 1) \in Nat
    BY <1>4, <1>5, <2>1
  <2> DEFINE a == each * n
             b == each * (m + 1)
             d == each * m
             f == each * (n + 1)
  <2>3. x \in d .. (IF b > N THEN N ELSE b) - 1 /\ x \in a .. (IF f > N THEN N ELSE f) - 1
    BY <1>3, <1>5
  <2>4. a \in Nat /\ b \in Nat /\ d \in Nat /\ f \in Nat /\ b <= a
    BY <1>4, <1>5, <2>2
  <2> HIDE DEF a, b, d, f
  <2>5. x >= a /\ x < b
    BY <1>1, <2>3, <2>4
  <2> QED BY <2>3, <2>4, <2>5
<1> QED BY <1>2, <1>5

\* Nobody works on the array when a process is elsewhere.
LEMMA NobodyWorks ==
  ASSUME RegionInv, NEW p \in Processes, loc[p].pc \notin Work \cup {"meetLast", "meetDestroy"}
  PROVE  \A q \in Processes : loc[q].pc \notin Work
BY Together

\* What is left to fill is part of a share.
LEMMA UnfilledShare == ASSUME OwnInv, NEW p \in Processes PROVE Unfilled(p, loc) \subseteq Share(p)
BY DEF OwnInv, Blank, Unfilled

\* A round of the loop that fills the elements, with element e.
LEMMA FillingOwns ==
  ASSUME OwnInv, RegionInv, NEW p \in Processes, NEW e \in Elements, NEW l, NEW c, NEW g,
         Does(p, e, l, c, g), HeapInv', Written',
         loc[p].pc \in {"fill", "fillText"}, e \in loc[p].todo,
         l.pc \in {"fill", "fillText", "meetZero", "meetLast"}, l.lives = loc[p].lives, l.todo \subseteq loc[p].todo,
         e \in l.todo => g = elem[e],
         Fits(l, c), ~Given(l, c), Sound(g), g.rw = elem[e].rw, Swaps(p, e, l, c, g)
  PROVE  OwnInv'
<1>1. /\ loc'[p] = l /\ call'[p] = c /\ elem'[e] = g
      /\ \A q \in Processes \ {p} : loc'[q] = loc[q]
      /\ \A x \in Elements \ {e} : elem'[x] = elem[x]
  BY DoesIs
<1>2. use' = use
  BY DEF Does
<1>3. Blank /\ elem[e] = ZeroElem /\ loc[p].todo \subseteq Share(p)
  BY DEF OwnInv, Blank, Unfilled
<1>4. ASSUME NEW q \in Processes, NEW x \in Unfilled(q, loc')
      PROVE  x \in Unfilled(q, loc) /\ elem'[x] = elem[x]
  <2>1. Creating(loc') => Creating(loc)
    BY <1>1 DEF Creating, Attached
  <2>2. CASE q = p
    <3>1. x \in l.todo
      BY <1>1, <2>2 DEF Unfilled
    <3>2. x \in loc[p].todo /\ x \in Elements
      BY <1>3, <3>1, ShareType
    <3>3. x \in Unfilled(q, loc)
      BY <2>2, <3>2 DEF Unfilled
    <3> QED BY <1>1, <3>1, <3>2, <3>3
  <2>3. CASE q # p
    <3>1. x \in Unfilled(q, loc)
      BY <1>1, <2>1, <2>3 DEF Unfilled
    <3>2. x \in Share(q) /\ x \in Elements /\ x # e
      BY <1>3, <2>3, <3>1, SharesApart, ShareType, UnfilledShare
    <3> QED BY <1>1, <3>1, <3>2
  <2> QED BY <2>2, <2>3
<1>5. loc'[p].pc \in {"control", "fill", "fillText"} => loc'[p].todo \subseteq Share(p)
  BY <1>1, <1>3
<1>6. Blank'
  BY <1>1, <1>2, <1>3, <1>4, <1>5, BlankStays
<1>7. \A q \in Processes : loc[q].pc \notin Work
  BY NobodyWorks DEF Work
<1>8. ~Reader(loc[p]) /\ ~Changes(loc[p]) /\ ~Reader(l) /\ ~Changes(l)
  BY DEF Reader, Changes, Waiter, Writer
<1>9. May(p, e, l, c, g)
  <2>1. Undisturbed(p, e, g)
    BY <1>7 DEF Undisturbed
  <2>2. g.rw = elem[e].rw + (IF Reader(l) THEN 1 ELSE 0) - (IF Reader(loc[p]) THEN 1 ELSE 0)
    BY <1>8 DEF Sound
  <2>3. \A x : ~Has(loc[p], x) /\ ~Has(l, x)
    BY <1>8 DEF Has
  <2> QED BY <1>8, <2>1, <2>2, <2>3 DEF May
<1>10. l.pc \notin Work
  BY DEF Work
<1>11. \A q \in Processes \ {p} : loc[q].pc = "copy" => Points(text', loc[q].ptr) = Points(text, loc[q].ptr)
  BY <1>7 DEF Work
<1> QED BY <1>6, <1>9, <1>10, <1>11, StepOwns

\* An element that is still to fill.
LEMMA StillZero ==
  ASSUME OwnInv, NEW p \in Processes, loc[p].pc \in {"fill", "fillText"}, NEW e \in loc[p].todo
  PROVE  e \in Elements /\ elem[e] = ZeroElem /\ Sound(elem[e]) /\ ~Keeping(elem[e]) /\ elem[e].rw = 0
<1>1. Blank /\ elem[e] = ZeroElem /\ loc[p].todo \subseteq Share(p)
  BY DEF OwnInv, Blank, Unfilled
<1>2. Sound(elem[e]) /\ ~Keeping(elem[e]) /\ elem[e].rw = 0
  BY <1>1 DEF Sound, Keeping, ZeroElem
<1> QED BY <1>1, <1>2, ShareType

LEMMA FillOwns ==
  ASSUME OwnInv, RegionInv, NEW p \in Processes, Fill(p)
  PROVE  OwnInv'
<1> DEFINE k == loc[p]
           e == Least(loc[p].todo)
<1>1. /\ loc[p].pc = "fill" /\ k.todo # {} /\ UNCHANGED <<tree, mutex, live, use, text>>
  BY DEF Fill, At
<1>2. DOMAIN k = Fields /\ loc = [q \in Processes |-> loc[q]] /\ call[p].pc = "none" /\ k.todo \subseteq Elements
      /\ elem = [x \in Elements |-> elem[x]] /\ call = [call EXCEPT ![p] = call[p]]
  BY <1>1, Mine DEF Locals
<1>3. e \in k.todo
  <2>1. Elements \subseteq Nat
    <3>1. N \in Nat
      BY ArrayAssumption
    <3> QED BY <3>1 DEF Elements
  <2> QED BY <1>1, <1>2, <2>1, LeastIn
<1>4. e \in Elements /\ elem[e] = ZeroElem /\ Sound(elem[e]) /\ ~Keeping(elem[e]) /\ elem[e].rw = 0
  BY <1>1, <1>3, StillZero
<1>5. CASE use.fill \in Texts
  <2> DEFINE l == [k EXCEPT !.pc = "fillText", !.e = e]
             g == elem[e]
  <2>1. loc' = [loc EXCEPT ![p] = l] /\ elem' = elem /\ CallAlloc(p, Bytes[use.fill])
    BY <1>2, <1>5 DEF Fill
  <2> HIDE DEF e
  <2>2. l.pc = "fillText" /\ l.e = e /\ l.lives = k.lives /\ l.todo = k.todo
    BY <1>2 DEF Fields
  <2> HIDE DEF l
  <2>3. PICK c : call' = [call EXCEPT ![p] = c] /\ CallTyped(c) /\ c.pc = "lockAlloc" /\ c.size = Size(Bytes[use.fill])
    BY <2>1, AskIs
  <2>4. Does(p, e, l, c, g)
    BY <1>1, <1>2, <2>1, <2>3 DEF Does
  <2>5. Fits(l, c) /\ ~Given(l, c) /\ ~Holds(loc[p], call[p]) /\ ~Holds(l, c)
    BY <1>1, <1>2, <1>3, <1>5, <2>2, <2>3 DEF Fits, Given, Holds, Asking
  <2>6. Swaps(p, e, l, c, g)
    BY <2>5 DEF Swaps
  <2>7. HeapInv' /\ Written'
    <3>1. call[p].pc \notin Inside /\ c.pc \notin Inside
      BY <1>2, <2>3 DEF Inside
    <3>2. HeapInv'
      BY <1>1, <2>3, <3>1, HeapStays DEF OwnInv
    <3> QED BY <1>1, <3>2 DEF OwnInv, Written
  <2> QED BY <1>1, <1>3, <1>4, <2>2, <2>4, <2>5, <2>6, <2>7, FillingOwns
<1>6. CASE use.fill \notin Texts
  <2> DEFINE todo == loc[p].todo \ {e}
             l == [k EXCEPT !.todo = todo]
             g == [fe |-> "FULL", rw |-> 0, type |-> "number", data |-> -1]
             c == call[p]
  <2>1. loc' = [loc EXCEPT ![p] = l] /\ elem' = [elem EXCEPT ![e] = g] /\ call' = call
    BY <1>2, <1>6 DEF Fill
  <2> HIDE DEF e
  <2>2. l.pc = "fill" /\ l.lives = k.lives /\ l.todo = k.todo \ {e}
    BY <1>1, <1>2 DEF Fields
  <2> HIDE DEF l
  <2>3. Sound(g) /\ ~Keeping(g) /\ g.rw = 0
    BY DEF Sound, Keeping
  <2>4. Does(p, e, l, c, g)
    BY <1>1, <1>2, <2>1 DEF Does
  <2> HIDE DEF g
  <2>5. Fits(l, c) /\ ~Given(l, c) /\ ~Holds(loc[p], call[p]) /\ ~Holds(l, c)
    BY <1>1, <1>2, <2>2 DEF Fits, Given, Holds
  <2>6. Swaps(p, e, l, c, g)
    BY <1>4, <2>3, <2>5 DEF Swaps
  <2>7. HeapInv' /\ Written'
    BY <1>1, <2>1, HeapSame DEF OwnInv, Written
  <2> QED BY <1>1, <1>3, <1>4, <2>2, <2>3, <2>4, <2>5, <2>6, <2>7, FillingOwns
<1> QED BY <1>5, <1>6

LEMMA FillTextOwns ==
  ASSUME OwnInv, RegionInv, NEW p \in Processes, FillText(p)
  PROVE  OwnInv'
<1> DEFINE k == loc[p]
           e == loc[p].e
           o == call[p].offset
           todo == loc[p].todo \ {e}
           l == [k EXCEPT !.pc = "fill", !.todo = todo]
           g == [fe |-> "FULL", rw |-> 0, type |-> "string", data |-> o]
           c == NoCall
<1>1. /\ loc[p].pc = "fillText" /\ call[p].pc = "returned" /\ UNCHANGED <<tree, mutex, live, use>>
      /\ elem' = [elem EXCEPT ![e] = g] /\ call' = [call EXCEPT ![p] = c] /\ Strcpy(use.fill, o)
  BY DEF FillText, At, In
<1>2. DOMAIN k = Fields /\ loc = [q \in Processes |-> loc[q]] /\ Fits(k, call[p])
  BY Mine DEF Locals
<1>3. e \in k.todo /\ use.fill \in Texts /\ call[p].size = Size(Bytes[use.fill]) /\ Given(k, call[p])
  BY <1>1, <1>2 DEF Fits, Given
<1>4. e \in Elements /\ Sound(elem[e]) /\ ~Keeping(elem[e]) /\ elem[e].rw = 0
  BY <1>1, <1>3, StillZero
<1>5. loc' = [loc EXCEPT ![p] = l]
  BY <1>2 DEF FillText, Fields
<1> HIDE DEF e
<1>6. l.pc = "fill" /\ l.lives = k.lives /\ l.todo = k.todo \ {e}
  BY <1>2 DEF Fields
<1> HIDE DEF l
<1>7. o \in 0 .. Length(0) - 1
  <2>1. PICK b \in live : b.offset = o
    BY <1>3 DEF OwnInv, Exact
  <2>2. PICK n \in Nodes : b = Block(n)
    BY LiveBlocks DEF OwnInv
  <2> QED BY <2>1, <2>2, NodeBlocks DEF Block
<1> HIDE DEF o
<1>8. Sound(g) /\ Keeping(g) /\ g.rw = 0 /\ g.data = o
  BY <1>7 DEF Sound, Keeping
<1>9. Does(p, e, l, c, g)
  BY <1>1, <1>5 DEF Does
<1> HIDE DEF g
<1>10. Fits(l, c) /\ ~Given(l, c) /\ Holds(k, call[p]) /\ ~Holds(l, c)
  BY <1>3, <1>6, NoCallIs DEF Fits, Given, Holds
<1>11. Swaps(p, e, l, c, g)
  BY <1>1, <1>4, <1>8, <1>10 DEF Swaps, Place, o
<1>12. HeapInv'
  BY <1>1, NoCallIs, HeapStays DEF OwnInv, Inside
<1>13. Written'
  BY <1>1, <1>3, Spared DEF o
<1> QED BY <1>1, <1>3, <1>4, <1>6, <1>8, <1>9, <1>10, <1>11, <1>12, <1>13, FillingOwns

LEMMA FillFailsOwns ==
  ASSUME OwnInv, RegionInv, NEW p \in Processes, FillFails(p)
  PROVE  OwnInv'
<1> DEFINE k == loc[p]
           e == loc[p].e
           s == IF p = 0 THEN "meetZero" ELSE "meetLast"
           l == [k EXCEPT !.pc = s, !.short = TRUE]
           g == elem[e]
           c == NoCall
<1>1. /\ loc[p].pc = "fillText" /\ call[p].pc = "failed" /\ UNCHANGED <<tree, mutex, live, use, elem, text>>
      /\ call' = [call EXCEPT ![p] = c]
  BY DEF FillFails, At, In
<1>2. DOMAIN k = Fields /\ loc = [q \in Processes |-> loc[q]] /\ Fits(k, call[p])
      /\ elem = [x \in Elements |-> elem[x]]
  BY Mine DEF Locals
<1>3. e \in k.todo
  BY <1>1, <1>2 DEF Fits
<1>4. e \in Elements /\ Sound(elem[e]) /\ ~Keeping(elem[e]) /\ elem[e].rw = 0
  BY <1>1, <1>3, StillZero
<1>5. loc' = [loc EXCEPT ![p] = l]
  BY <1>2 DEF FillFails, Fields
<1>6. s \in {"meetZero", "meetLast"}
  OBVIOUS
<1> HIDE DEF s
<1>7. l.pc = s /\ l.lives = k.lives /\ l.todo = k.todo
  BY <1>2 DEF Fields
<1> HIDE DEF l
<1>8. Does(p, e, l, c, g)
  BY <1>1, <1>2, <1>5 DEF Does
<1>9. Fits(l, c) /\ ~Given(l, c) /\ ~Holds(k, call[p]) /\ ~Holds(l, c)
  BY <1>1, <1>6, <1>7, NoCallIs DEF Fits, Given, Holds
<1>10. Swaps(p, e, l, c, g)
  BY <1>9 DEF Swaps
<1>11. HeapInv' /\ Written'
  <2>1. HeapInv'
    BY <1>1, NoCallIs, HeapStays DEF OwnInv, Inside
  <2> QED BY <1>1, <2>1 DEF OwnInv, Written
<1> QED BY <1>1, <1>3, <1>4, <1>6, <1>7, <1>8, <1>9, <1>10, <1>11, FillingOwns

-------------------------------------------------------------------------------
(* Barriers *)

\* Process 0 creates the array; a process has not opened it.
Creators == {"control", "fill", "fillText", "meetZero", "meetLast"}
Before == {"idle", "meetEnd", "meet", "open"}

\* A step of p from locals k to l leaves nothing more to fill.
Follows(p, k, l) ==
  /\ p = 0 /\ l.pc \in Creators /\ ~Attached(l) => k.pc \in Creators /\ ~Attached(k)
  /\ l.pc \in {"control", "fill", "fillText"} => l.todo \subseteq Unfilled(p, loc)
  /\ p # 0 /\ l.pc \in Before => k.pc \in Before \/ ~Creating(loc)

LEMMA MoveBlank ==
  ASSUME OwnInv, RegionInv, NEW p \in Processes, NEW l, loc' = [loc EXCEPT ![p] = l], elem' = elem, use' = use,
         Follows(p, loc[p], l)
  PROVE  Blank'
<1>1. loc'[p] = l /\ \A q \in Processes \ {p} : loc'[q] = loc[q]
  BY Mine
<1>2. Blank
  BY DEF OwnInv
<1>3. Creating(loc') => Creating(loc)
  BY <1>1 DEF Creating, Attached, Follows, Creators
<1>4. ASSUME NEW q \in Processes, NEW x \in Unfilled(q, loc') PROVE x \in Unfilled(q, loc) /\ elem'[x] = elem[x]
  <2>1. CASE q # p
    BY <1>1, <1>3, <2>1 DEF Unfilled
  <2>2. CASE q = p /\ l.pc \in {"control", "fill", "fillText"}
    BY <1>1, <2>2 DEF Unfilled, Follows
  <2>3. CASE q = p /\ l.pc \notin {"control", "fill", "fillText"}
    <3>1. p # 0 /\ l.pc \in Before /\ Creating(loc') /\ x \in Share(p)
      BY <1>1, <2>3 DEF Unfilled, Before
    <3>2. loc[p].pc \in Before /\ Creating(loc)
      BY <1>3, <3>1 DEF Follows
    <3>3. x \in Unfilled(q, loc)
      BY <2>3, <3>1, <3>2 DEF Unfilled, Before
    <3> QED BY <3>3
  <2> QED BY <2>1, <2>2, <2>3
<1>5. loc'[p].pc \in {"control", "fill", "fillText"} => loc'[p].todo \subseteq Share(p)
  BY <1>1, UnfilledShare DEF Follows
<1> QED BY <1>1, <1>2, <1>4, <1>5, BlankStays

\* A step that leaves heap and elements alone.
LEMMA MoveOwns ==
  ASSUME OwnInv, RegionInv, NEW p \in Processes, NEW l, loc' = [loc EXCEPT ![p] = l],
         elem' = elem, use' = use, text' = text, tree' = tree, live' = live, call' = call,
         mutex' = mutex \/ \A q \in Processes : call[q].pc \notin Inside,
         loc[p].pc \notin (Work \ {"ready"}) \cup {"fillText"}, l.pc \notin (Work \ {"ready"}) \cup {"fillText"},
         Follows(p, loc[p], l)
  PROVE  OwnInv'
<1> DEFINE e == 0
           g == elem[e]
           c == call[p]
<1>1. e \in Elements
  BY AnElement
<1>2. elem = [x \in Elements |-> elem[x]] /\ call = [call EXCEPT ![p] = c] /\ c.pc = "none" /\ Sound(g)
      /\ CallTyped(c)
  BY <1>1, Mine, Call DEF Work
<1>3. Does(p, e, l, c, g)
  BY <1>1, <1>2 DEF Does
<1>4. ~Reader(loc[p]) /\ ~Reader(l) /\ ~Changes(loc[p]) /\ ~Changes(l)
  BY DEF Reader, Changes, Waiter, Writer, Work
<1>5. May(p, e, l, c, g)
  <2>1. Fits(l, c) /\ ~Given(l, c) /\ ~Holds(loc[p], call[p]) /\ ~Holds(l, c)
    BY <1>2 DEF Fits, Given, Holds, Work
  <2>2. Swaps(p, e, l, c, g)
    BY <2>1 DEF Swaps
  <2>3. Undisturbed(p, e, g)
    BY DEF Undisturbed
  <2>4. \A x : ~Has(loc[p], x) /\ ~Has(l, x)
    BY <1>4 DEF Has
  <2>5. g.rw = elem[e].rw + (IF Reader(l) THEN 1 ELSE 0) - (IF Reader(loc[p]) THEN 1 ELSE 0)
    BY <1>2, <1>4 DEF Sound
  <2> QED BY <1>2, <1>4, <2>1, <2>2, <2>3, <2>4, <2>5 DEF May
<1>6. HeapInv' /\ Written'
  <2>1. c.pc \notin Inside
    BY <1>2 DEF Inside
  <2>2. call' = [call EXCEPT ![p] = c]
    BY <1>2
  <2>3. HeapInv'
    BY <1>2, <2>1, <2>2, HeapStays DEF OwnInv
  <2> QED BY <2>3 DEF OwnInv, Written
<1>7. Blank'
  BY MoveBlank
<1>8. l.pc \notin Work \ {"ready"} /\ l.pc # "replace"
  BY DEF Work
<1> QED BY <1>1, <1>3, <1>5, <1>6, <1>7, <1>8, StepOwns

\* A process leaves the barrier of destroy only when the array is not being created.
LEMMA DestroyedLate ==
  ASSUME RegionInv, NEW p \in Processes, loc[p].pc = "meetDestroy", Everybody(p)
  PROVE  ~Creating(loc)
<1> SUFFICES ASSUME Creating(loc) PROVE FALSE
  OBVIOUS
<1> DEFINE l == loc[0]
           a == arrived[0]
           b == arrived[p]
           k == l.lives
           m == loc[p].lives
<1>1. 0 \in Processes /\ l.pc \in Creators /\ ~Attached(l)
  BY DEF Creating, Creators
<1>2. /\ Count(0, l, a) /\ Count(p, loc[p], b) /\ Left(l, a) <= b /\ b <= a
      /\ k \in Nat /\ m \in Nat /\ a \in Nat /\ b \in Nat
  BY <1>1 DEF RegionInv, Typed, Counted, Lockstep, Locals, Everybody
<1>3. m > 0 /\ b = Base(loc[p]) - 1
  BY <1>2 DEF Count
<1>4. Base(l) = 4 * k /\ (use.attach => k = 0)
  BY <1>1, <1>2 DEF Base, Attached
<1>5. IF use.attach THEN b = 3 * m ELSE b = 4 * m - 1
  BY <1>2, <1>3 DEF Base, Attached
<1> HIDE DEF l, a, b, k, m
<1>6. a <= 4 * k + 2 /\ (l.pc = "meetLast" => a = 4 * k + 2) /\ (l.pc # "meetLast" => Left(l, a) >= 4 * k)
  <2>1. CASE l.pc \in {"control", "fill", "fillText"}
    BY <1>1, <1>2, <1>4, <2>1 DEF Count, Left, Waiting
  <2>2. CASE l.pc \in {"meetZero", "meetLast"}
    BY <1>1, <1>2, <1>4, <2>2 DEF Count, Left, Waiting
  <2> QED BY <1>1, <2>1, <2>2 DEF Creators
<1>7. Left(l, a) >= 4 * k /\ Left(l, a) \in Int
  BY <1>2, <1>6 DEF Left, Waiting
<1> QED BY <1>2, <1>3, <1>4, <1>5, <1>6, <1>7

\* When process 0 fills the control block no other fills elements.
LEMMA ControlFirst ==
  ASSUME RegionInv, 0 \in Processes, loc[0].pc = "control", NEW p \in Processes
  PROVE  loc[p].pc # "fillText"
<1> SUFFICES ASSUME loc[p].pc = "fillText" PROVE FALSE
  OBVIOUS
<1> DEFINE a == arrived[0]
           b == arrived[p]
           k == loc[0].lives
           m == loc[p].lives
<1>1. /\ Count(0, loc[0], a) /\ Count(p, loc[p], b) /\ Fills(p, loc[p], elem)
      /\ Left(loc[0], a) <= b /\ Left(loc[p], b) <= a
      /\ k \in Nat /\ m \in Nat /\ a \in Nat /\ b \in Nat
  BY DEF RegionInv, Typed, Counted, Lockstep, Locals, Filled
<1>2. ~Attached(loc[p]) /\ ~Attached(loc[0]) /\ p # 0
  BY <1>1 DEF Fills, Count
<1>3. a = 4 * k /\ Left(loc[0], a) = a
  BY <1>1, <1>2 DEF Count, Base, Left, Waiting
<1>4. b = 4 * m + 1 /\ Left(loc[p], b) = b
  BY <1>1, <1>2 DEF Count, Base, Left, Waiting
<1> HIDE DEF a, b, k, m
<1> QED BY <1>1, <1>3, <1>4

LEMMA NewOwns == ASSUME OwnInv, RegionInv, NEW p \in Processes, New(p) PROVE OwnInv'
<1>1. /\ loc[p].pc = "idle" /\ UNCHANGED <<tree, mutex, call, live, use, elem, text>>
      /\ To(p, IF p = 0 THEN "unlink" ELSE "meet")
  BY DEF New, Creates, At, Arrive, allocVars
<1>2. PICK l : loc' = [loc EXCEPT ![p] = l] /\ l.pc = (IF p = 0 THEN "unlink" ELSE "meet")
  BY <1>1, ToIs
<1>3. Follows(p, loc[p], l)
  BY <1>1, <1>2 DEF Follows, Creators, Before
<1>4. l.pc \notin (Work \ {"ready"}) \cup {"fillText"}
  BY <1>2 DEF Work
<1> QED BY <1>1, <1>2, <1>3, <1>4, MoveOwns DEF Work

LEMMA AttachOwns == ASSUME OwnInv, RegionInv, NEW p \in Processes, Attach(p) PROVE OwnInv'
<1>1. /\ loc[p].pc = "idle" /\ UNCHANGED <<tree, mutex, call, live, use, elem, text>>
      /\ To(p, IF use.persist /\ file # 0 THEN "open" ELSE "stopped")
  BY DEF Attach, At, allocVars
<1>2. PICK l : loc' = [loc EXCEPT ![p] = l] /\ l.pc = (IF use.persist /\ file # 0 THEN "open" ELSE "stopped")
  BY <1>1, ToIs
<1>3. l.pc \in {"open", "stopped"}
  BY <1>2
<1>4. Follows(p, loc[p], l)
  BY <1>1, <1>3 DEF Follows, Creators, Before
<1> QED BY <1>1, <1>2, <1>3, <1>4, MoveOwns DEF Work

LEMMA MeetOwns == ASSUME OwnInv, RegionInv, NEW p \in Processes, Meet(p) PROVE OwnInv'
<1>1. /\ loc[p].pc = "meet" /\ UNCHANGED <<tree, mutex, call, live, use, elem, text>> /\ To(p, "open")
  BY DEF Meet, At, allocVars
<1>2. PICK l : loc' = [loc EXCEPT ![p] = l] /\ l.pc = "open"
  BY <1>1, ToIs
<1>3. Follows(p, loc[p], l)
  BY <1>1, <1>2 DEF Follows, Creators, Before
<1> QED BY <1>1, <1>2, <1>3, MoveOwns DEF Work

LEMMA UnlinkOwns == ASSUME OwnInv, RegionInv, NEW p \in Processes, Unlink(p) PROVE OwnInv'
<1>1. /\ loc[p].pc = "unlink" /\ UNCHANGED <<tree, mutex, call, live, use, elem, text>> /\ To(p, "open")
  BY DEF Unlink, At, allocVars
<1>2. PICK l : loc' = [loc EXCEPT ![p] = l] /\ l.pc = "open"
  BY <1>1, ToIs
<1>3. p = 0
  BY <1>1 DEF RegionInv, Counted, Count
<1>4. Follows(p, loc[p], l)
  BY <1>1, <1>2, <1>3 DEF Follows, Creators, Before
<1> QED BY <1>1, <1>2, <1>4, MoveOwns DEF Work

\* Process 0 fills the control block, which frees the mutex of the allocator: nobody is inside.
LEMMA ControlOwns == ASSUME OwnInv, RegionInv, NEW p \in Processes, Control(p) PROVE OwnInv'
<1>1. /\ loc[p].pc = "control" /\ UNCHANGED <<tree, call, live, use, elem, text>> /\ To(p, "fill")
  BY DEF Control, At
<1>2. PICK l : /\ loc' = [loc EXCEPT ![p] = l] /\ l.pc = "fill" /\ l.todo = loc[p].todo /\ l.lives = loc[p].lives
  BY <1>1, ToIs
<1>3. p = 0
  BY <1>1 DEF RegionInv, Counted, Count
<1>4. Follows(p, loc[p], l)
  BY <1>1, <1>2, <1>3 DEF Follows, Creators, Before, Attached, Unfilled
<1>5. ASSUME NEW q \in Processes PROVE call[q].pc \notin Inside
  <2>1. loc[q].pc \notin Work
    BY <1>1, NobodyWorks DEF Work
  <2>2. loc[q].pc # "fillText"
    BY <1>1, <1>3, ControlFirst
  <2>3. call[q].pc = "none"
    BY <2>1, <2>2, Mine DEF Work
  <2> QED BY <2>3 DEF Inside
<1> QED BY <1>1, <1>2, <1>4, <1>5, MoveOwns DEF Work

LEMMA SlotOwns == ASSUME OwnInv, RegionInv, NEW p \in Processes, Slot(p) PROVE OwnInv'
<1> DEFINE free == 0 .. use.slots - 1 \ bufs[p]
           id == Least(free)
           s == IF p = 0 /\ ~Attaches(p) THEN "meetZero" ELSE "meetLast"
<1>1. /\ loc[p].pc = "fill" /\ UNCHANGED <<tree, mutex, call, live, use, elem, text>>
      /\ IF free = {} THEN To(p, "stopped") ELSE loc' = [loc EXCEPT ![p].id = id, ![p].pc = s]
  BY DEF Slot, At, allocVars
<1>2. \E l : loc' = [loc EXCEPT ![p] = l] /\ l.pc \in {"stopped", "meetZero", "meetLast"} /\ l.lives = loc[p].lives
  <2>1. CASE free = {}
    BY <1>1, <2>1, ToIs
  <2>2. CASE free # {}
    <3> DEFINE l == [loc[p] EXCEPT !.id = id, !.pc = s]
    <3>1. DOMAIN loc[p] = Fields /\ loc = [q \in Processes |-> loc[q]]
      BY Mine DEF Locals
    <3>2. s \in {"meetZero", "meetLast"}
      OBVIOUS
    <3> HIDE DEF free, id, s
    <3>3. loc' = [loc EXCEPT ![p] = l]
      BY <1>1, <2>2, <3>1 DEF Fields
    <3>4. l.pc = s /\ l.lives = loc[p].lives
      BY <3>1 DEF Fields
    <3> HIDE DEF l
    <3> QED BY <3>2, <3>3, <3>4
  <2> QED BY <2>1, <2>2
<1>3. PICK l : loc' = [loc EXCEPT ![p] = l] /\ l.pc \in {"stopped", "meetZero", "meetLast"} /\ l.lives = loc[p].lives
  BY <1>2
<1>4. Follows(p, loc[p], l)
  BY <1>1, <1>3 DEF Follows, Creators, Before, Attached
<1> QED BY <1>1, <1>3, <1>4, MoveOwns DEF Work

LEMMA MeetZeroOwns == ASSUME OwnInv, RegionInv, NEW p \in Processes, MeetZero(p) PROVE OwnInv'
<1>1. /\ loc[p].pc = "meetZero" /\ UNCHANGED <<tree, mutex, call, live, use, elem, text>> /\ To(p, "meetLast")
  BY DEF MeetZero, At, Arrive, allocVars
<1>2. PICK l : loc' = [loc EXCEPT ![p] = l] /\ l.pc = "meetLast" /\ l.lives = loc[p].lives
  BY <1>1, ToIs
<1>3. Follows(p, loc[p], l)
  BY <1>1, <1>2 DEF Follows, Creators, Before, Attached
<1> QED BY <1>1, <1>2, <1>3, MoveOwns DEF Work

LEMMA MeetLastOwns == ASSUME OwnInv, RegionInv, NEW p \in Processes, MeetLast(p) PROVE OwnInv'
<1> DEFINE n == loc[p].lives + 1
           l == [loc[p] EXCEPT !.pc = "ready", !.lives = n, !.done = 0]
<1>1. /\ loc[p].pc = "meetLast" /\ UNCHANGED <<tree, mutex, call, live, use, elem, text>>
  BY DEF MeetLast, At, allocVars
<1>2. DOMAIN loc[p] = Fields /\ loc = [q \in Processes |-> loc[q]]
  BY Mine DEF Locals
<1>3. loc' = [loc EXCEPT ![p] = l]
  BY <1>2 DEF MeetLast, Fields
<1> HIDE DEF n
<1>4. l.pc = "ready"
  BY <1>2 DEF Fields
<1> HIDE DEF l
<1>5. Follows(p, loc[p], l)
  BY <1>1, <1>4 DEF Follows, Creators, Before
<1> QED BY <1>1, <1>3, <1>4, <1>5, MoveOwns DEF Work

LEMMA DestroyOwns == ASSUME OwnInv, RegionInv, NEW p \in Processes, Destroy(p) PROVE OwnInv'
<1>1. /\ loc[p].pc = "ready" /\ UNCHANGED <<tree, mutex, call, live, use, elem, text>> /\ To(p, "meetDestroy")
  BY DEF Destroy, At, Arrive, allocVars
<1>2. PICK l : loc' = [loc EXCEPT ![p] = l] /\ l.pc = "meetDestroy"
  BY <1>1, ToIs
<1>3. Follows(p, loc[p], l)
  BY <1>1, <1>2 DEF Follows, Creators, Before
<1> QED BY <1>1, <1>2, <1>3, MoveOwns DEF Work

LEMMA MeetDestroyOwns == ASSUME OwnInv, RegionInv, NEW p \in Processes, MeetDestroy(p) PROVE OwnInv'
<1>1. /\ loc[p].pc = "meetDestroy" /\ Everybody(p) /\ UNCHANGED <<tree, mutex, call, live, use, elem, text>>
      /\ To(p, IF p = 0 THEN "unmap" ELSE "meetEnd")
  BY DEF MeetDestroy, At, Arrive, allocVars
<1>2. PICK l : loc' = [loc EXCEPT ![p] = l] /\ l.pc = (IF p = 0 THEN "unmap" ELSE "meetEnd")
  BY <1>1, ToIs
<1>3. ~Creating(loc)
  BY <1>1, DestroyedLate
<1>4. l.pc \in {"unmap", "meetEnd"}
  BY <1>2
<1>5. Follows(p, loc[p], l)
  BY <1>3, <1>4 DEF Follows, Creators, Before
<1> QED BY <1>1, <1>2, <1>4, <1>5, MoveOwns DEF Work

LEMMA UnmapOwns == ASSUME OwnInv, RegionInv, NEW p \in Processes, Unmap(p) PROVE OwnInv'
<1>1. /\ loc[p].pc = "unmap" /\ UNCHANGED <<tree, mutex, call, live, use, elem, text>>
      /\ To(p, "stopped") \/ To(p, "meetEnd")
  BY DEF Unmap, At, Arrive, allocVars
<1>2. PICK l : loc' = [loc EXCEPT ![p] = l] /\ l.pc \in {"stopped", "meetEnd"}
  BY <1>1, ToIs
<1>3. p = 0
  BY <1>1 DEF RegionInv, Counted, Count
<1>4. Follows(p, loc[p], l)
  BY <1>2, <1>3 DEF Follows, Creators, Before
<1> QED BY <1>1, <1>2, <1>4, MoveOwns DEF Work

LEMMA MeetEndOwns == ASSUME OwnInv, RegionInv, NEW p \in Processes, MeetEnd(p) PROVE OwnInv'
<1> DEFINE l == [Fresh EXCEPT !.lives = loc[p].lives, !.short = loc[p].short]
<1>1. /\ loc[p].pc = "meetEnd" /\ UNCHANGED <<tree, mutex, call, live, use, elem, text>>
      /\ loc' = [loc EXCEPT ![p] = l]
  BY DEF MeetEnd, At, allocVars
<1>2. l.pc = "idle"
  BY DEF Fresh
<1> HIDE DEF l
<1>3. Follows(p, loc[p], l)
  BY <1>1, <1>2 DEF Follows, Creators, Before
<1> QED BY <1>1, <1>2, <1>3, MoveOwns DEF Work

-------------------------------------------------------------------------------
(* An array that is new *)

\* A heap that is not used.
LEMMA NewHeap ==
  ASSUME NEW t, t = [n \in Nodes |-> "UNUSED"]
  PROVE  Tree(t) /\ Quiet(t, {})
<1>1. \A n \in Nodes : t[n] = "UNUSED"
  OBVIOUS
<1>2. Tree(t)
  BY <1>1 DEF Tree, States, Parted, ReachedIn
<1>3. Blocks(t, {}) = {}
  BY <1>1 DEF Blocks, ReachedIn
<1>4. FullUpTo(t, {}) /\ PeopledUpTo(t, {})
  BY <1>1 DEF FullUpTo, PeopledUpTo, Parted, ReachedIn
<1> QED BY <1>2, <1>3, <1>4 DEF Quiet

\* Nobody has an element or calls the allocator.
Begun ==
  /\ tree = [n \in Nodes |-> "UNUSED"] /\ live = {}
  /\ elem = [e \in Elements |-> ZeroElem] /\ text = [b \in 0 .. Length(0) - 1 |-> Number]
  /\ CallsTyped
  /\ \A p \in Processes : /\ call[p].pc = "none" /\ loc[p].pc \notin (Work \ {"ready"}) \cup {"fillText"}
                          /\ loc[p].pc \in {"control", "fill"} => loc[p].todo \subseteq Share(p)

LEMMA BegunOwns == Begun => OwnInv
<1> SUFFICES ASSUME Begun PROVE OwnInv
  OBVIOUS
<1>1. HeapInv
  <2>1. Tree(tree) /\ Quiet(tree, live)
    BY NewHeap DEF Begun
  <2> QED BY <2>1 DEF Begun, HeapInv, Inside
<1>2. \A p \in Processes : ~Reader(loc[p]) /\ ~Changes(loc[p]) /\ ~Holds(loc[p], call[p]) /\ ~Given(loc[p], call[p])
  BY DEF Begun, Reader, Changes, Waiter, Writer, Work, Holds, Given
<1>3. Fitting
  BY DEF Begun, Fitting, Fits, Work
<1>4. Working
  BY <1>2 DEF Begun, Working, Works, Work, Changes
<1>5. Exclusive
  BY <1>2 DEF Exclusive
<1>6. Sounds
  <2>1. \A e \in Elements : elem[e] = ZeroElem /\ Readers(loc, e) = {}
    BY <1>2 DEF Begun, Readers
  <2>2. Sound(ZeroElem) /\ ZeroElem.rw = 0
    BY DEF Sound, ZeroElem
  <2> QED BY <2>1, <2>2, FS_EmptySet DEF Sounds
<1>7. Blank
  <2>1. \A p \in Processes : loc[p].pc \in {"control", "fill", "fillText"} => loc[p].todo \subseteq Share(p)
    BY DEF Begun
  <2>2. \A p \in Processes : Unfilled(p, loc) \subseteq Elements
    BY <2>1, ShareType DEF Unfilled
  <2>3. \A e \in Elements : elem[e] = ZeroElem
    BY DEF Begun
  <2> QED BY <2>1, <2>2, <2>3 DEF Blank
<1>8. Owned
  <2>1. \A e \in Elements : ~Keeping(elem[e])
    BY DEF Begun, Keeping, ZeroElem
  <2>2. Titles(elem, loc, call) = {}
    BY <1>2, <2>1 DEF Titles
  <2> QED BY <2>2 DEF Begun, Owned, Ledger
<1>9. Exact
  BY <1>2 DEF Exact
<1>10. Written
  BY DEF Begun, Written
<1>11. Freeing
  BY DEF Begun, Freeing, Frees
<1> QED BY <1>1, <1>3, <1>4, <1>5, <1>6, <1>7, <1>8, <1>9, <1>10, <1>11 DEF OwnInv

LEMMA BegunOwnsAfter == (Begun => OwnInv)'
BY BegunOwns, PTL

\* A process that opens an array that it does not attach to finds it being created.
LEMMA OpensNew ==
  ASSUME RegionInv, NEW p \in Processes, p # 0, loc[p].pc = "open", ~Attached(loc[p])
  PROVE  Creating(loc)
<1>1. 0 \in Processes
  BY Zero
<1>2. loc[0].pc \in {"meetZero", "meetLast"}
  BY <1>1, Opened DEF At
<1>3. ~Attached(loc[0])
  <2> SUFFICES ASSUME Attached(loc[0]) PROVE FALSE
    OBVIOUS
  <2> DEFINE a == arrived[0]
             b == arrived[p]
             k == loc[0].lives
             m == loc[p].lives
  <2>1. /\ Count(0, loc[0], a) /\ Count(p, loc[p], b) /\ Left(loc[0], a) <= b
        /\ k \in Nat /\ m \in Nat /\ a \in Nat /\ b \in Nat
    BY <1>1 DEF RegionInv, Typed, Counted, Lockstep, Locals
  <2>2. k > 0 /\ m = 0 /\ Base(loc[0]) = 3 * k + 1 /\ Base(loc[p]) = 4 * m
    BY <2>1 DEF Attached, Base
  <2>3. loc[0].pc = "meetLast"
    BY <1>2, <2>1 DEF Count
  <2> HIDE DEF a, b, k, m
  <2>4. a = 3 * k + 2 /\ Left(loc[0], a) = a - 1
    BY <2>1, <2>2, <2>3 DEF Count, Left, Waiting
  <2>5. b = 1
    BY <2>1, <2>2 DEF Count
  <2> QED BY <2>1, <2>2, <2>4, <2>5
<1> QED BY <1>1, <1>2, <1>3 DEF Creating

\* A process maps the file, and process 0 has it created.
LEMMA OpenOwns == ASSUME OwnInv, RegionInv, NEW p \in Processes, Open(p) PROVE OwnInv'
<1> DEFINE k == loc[p]
<1>1. PICK l : /\ loc' = [loc EXCEPT ![p] = l] /\ Locals(l) /\ l.lives = k.lives /\ l.region = file'
               /\ l.pc = IF p = 0 /\ ~Attached(k) THEN "control" ELSE "fill"
               /\ l.todo = IF Attached(k) THEN {} ELSE Share(p)
               /\ l.short = (Attached(k) /\ k.short)
  BY OpenLocals
<1>2. /\ k.pc = "open" /\ (Attached(k) => file # 0) /\ (Attached(l) <=> Attached(k))
      /\ use' = use /\ call' = call /\ 0 \in Processes
  BY <1>1, Zero DEF Open, At, Attaches, Attached
<1>3. files \in Nat \ {0}
  BY DEF RegionInv, Typed
<1>4. p # 0 /\ ~Attached(k) => file = files /\ Creating(loc)
  <2>1. SUFFICES ASSUME p # 0, ~Attached(k) PROVE file = files /\ Creating(loc)
    OBVIOUS
  <2>2. Creating(loc) /\ loc[0].pc \in {"meetZero", "meetLast"}
    BY <1>2, <2>1, OpensNew, Opened DEF At
  <2> QED BY <1>2, <2>2, Here DEF Knows, Mapping, Past
<1>5. CASE file # 0
  <2>1. p = 0 => Attached(k)
    BY <1>2, <1>5, Here DEF Knows
  <2>2. UNCHANGED <<elem, text, tree, mutex, live>>
    BY <1>5 DEF Open
  <2>3. Follows(p, k, l)
    BY <1>1, <1>2, <1>4, <2>1 DEF Follows, Unfilled, Before
  <2>4. k.pc \notin (Work \ {"ready"}) \cup {"fillText"} /\ l.pc \notin (Work \ {"ready"}) \cup {"fillText"}
    BY <1>1, <1>2, <2>1 DEF Work
  <2> QED BY <1>1, <1>2, <2>2, <2>3, <2>4, MoveOwns
<1>6. CASE file = 0
  <2>1. p = 0 /\ ~Attached(k)
    BY <1>2, <1>3, <1>4, <1>6
  <2>2. /\ elem' = [e \in Elements |-> ZeroElem] /\ text' = [b \in DOMAIN text |-> Number]
        /\ tree' = [n \in Nodes |-> "UNUSED"] /\ live' = {}
    BY <1>6 DEF Open
  <2>3. loc'[0] = l /\ \A q \in Processes \ {0} : loc'[q] = loc[q]
    BY <1>1, <1>2, <2>1, Mine
  <2>4. text' = [b \in 0 .. Length(0) - 1 |-> Number]
    BY <2>2 DEF OwnInv, Written
  <2>5. ASSUME NEW q \in Processes
        PROVE  /\ call'[q].pc = "none" /\ loc'[q].pc \notin (Work \ {"ready"}) \cup {"fillText"}
               /\ loc'[q].pc \in {"control", "fill"} => loc'[q].todo \subseteq Share(q)
    <3>1. CASE q = 0
      <4>1. l.pc = "control" /\ l.todo = Share(0)
        BY <1>1, <2>1
      <4>2. call[0].pc = "none"
        BY <1>2, <2>1, Mine
      <4> QED BY <1>2, <2>3, <3>1, <4>1, <4>2 DEF Work
    <3>2. CASE q # 0
      <4>1. loc[q].pc \notin Mapping
        BY <1>2, <2>1, <3>2, Alone DEF At
      <4>2. call[q].pc = "none"
        BY <4>1, Mine DEF Mapping, Past, Work
      <4> QED BY <1>2, <2>3, <3>2, <4>1, <4>2 DEF Mapping, Past, Work
    <3> QED BY <3>1, <3>2
  <2>6. CallsTyped'
    BY <1>2 DEF OwnInv, HeapInv, CallsTyped, CallTyped
  <2>7. Begun'
    BY <2>2, <2>4, <2>5, <2>6 DEF Begun
  <2> QED BY <2>7, BegunOwnsAfter
<1> QED BY <1>5, <1>6

-------------------------------------------------------------------------------
(* Every step *)

LEMMA CopiedOwns ==
  ASSUME OwnInv, RegionInv, RegionInv', NEW p \in Processes, Copied(p)
  PROVE  OwnInv'
<1>1. loc[p].op = "inspect" \/ loc[p].op = "update"
  BY DEF Copied
<1> QED BY <1>1, ReleaseOwns, GoOnOwns

LEMMA AllocatedOwns ==
  ASSUME OwnInv, RegionInv, RegionInv', NEW p \in Processes, Allocated(p)
  PROVE  OwnInv'
<1>1. In(p, "returned") \/ In(p, "failed")
  BY DEF Allocated
<1> QED BY <1>1, StoreOwns, GiveUpOwns

LEMMA StutterOwns == OwnInv /\ UNCHANGED vars => OwnInv'
<1> SUFFICES ASSUME OwnInv, UNCHANGED vars PROVE OwnInv'
  OBVIOUS
<1>1. UNCHANGED <<tree, mutex, call, live>> /\ use' = use /\ elem' = elem /\ text' = text /\ loc' = loc
  BY DEF vars, allocVars, arrayVars
<1>2. HeapInv'
  BY <1>1, HeapSame DEF OwnInv
<1>3. Fitting' /\ Exact' /\ Freeing'
  BY <1>1 DEF OwnInv, Fitting, Fits, Exact, Freeing, Frees
<1>4. Working'
  BY <1>1 DEF OwnInv, Working, Works
<1>5. Exclusive' /\ Sounds' /\ Written'
  BY <1>1 DEF OwnInv, Exclusive, Sounds, Written, Readers
<1>6. Blank'
  BY <1>1 DEF OwnInv, Blank, Unfilled, Creating, Attached
<1>7. Owned'
  BY <1>1 DEF OwnInv, Owned
<1> QED BY <1>2, <1>3, <1>4, <1>5, <1>6, <1>7 DEF OwnInv

\* Every step keeps the ownership of the blocks.
LEMMA StepsOwn == OwnInv /\ RegionInv /\ [Next]_vars => OwnInv'
<1> SUFFICES ASSUME OwnInv, RegionInv, [Next]_vars PROVE OwnInv'
  OBVIOUS
<1>1. RegionInv'
  BY StepsKeep
<1>2. CASE UNCHANGED vars
  BY <1>2, StutterOwns
<1>3. ASSUME NEW p \in Processes, Step(p) \/ ReadRW(p) \/ ReadFE(p) PROVE OwnInv'
  <2>1. CASE ReadRW(p)
    BY <1>1, <2>1, ReadRWOwns
  <2>2. CASE ReadFE(p)
    BY <1>1, <2>2, ReadFEOwns
  <2>3. CASE New(p) \/ Attach(p) \/ Meet(p) \/ Unlink(p) \/ Open(p) \/ Control(p)
    BY <2>3, NewOwns, AttachOwns, MeetOwns, UnlinkOwns, OpenOwns, ControlOwns
  <2>4. CASE Fill(p) \/ FillText(p) \/ FillFails(p) \/ Slot(p) \/ MeetZero(p) \/ MeetLast(p)
    BY <2>4, FillOwns, FillTextOwns, FillFailsOwns, SlotOwns, MeetZeroOwns, MeetLastOwns
  <2>5. CASE Copy(p) \/ Copied(p) \/ Acquire(p) \/ Replace(p) \/ Allocated(p) \/ Publish(p)
    BY <1>1, <2>5, CopyOwns, CopiedOwns, AcquireOwns, ReplaceOwns, AllocatedOwns, PublishOwns
  <2>6. CASE Destroy(p) \/ MeetDestroy(p) \/ Unmap(p) \/ MeetEnd(p) \/ HeapStep(p)
    BY <2>6, DestroyOwns, MeetDestroyOwns, UnmapOwns, MeetEndOwns, HeapStepOwns
  <2> QED BY <1>3, <2>1, <2>2, <2>3, <2>4, <2>5, <2>6 DEF Step
<1> QED BY <1>2, <1>3 DEF Next

LEMMA InitOwns == Init => OwnInv
<1> SUFFICES ASSUME Init PROVE OwnInv
  OBVIOUS
<1>1. \A p \in Processes : loc[p].pc = "idle"
  BY DEF Init, Fresh
<1>2. call = [p \in Processes |-> NoCall] /\ CallTyped(NoCall) /\ NoCall.pc = "none"
  BY NoCallIs DEF Init
<1>3. CallsTyped
  BY <1>2 DEF CallsTyped
<1>4. Begun
  BY <1>1, <1>2, <1>3 DEF Begun, Init, Reset, Work
<1> QED BY <1>4, BegunOwns

LEMMA InvariantsHold == Spec => [](RegionInv /\ OwnInv)
<1>1. Init => RegionInv /\ OwnInv
  BY InitRegion, InitOwns
<1>2. RegionInv /\ OwnInv /\ [Next]_vars => (RegionInv /\ OwnInv)'
  BY StepsKeep, StepsOwn
<1> QED BY <1>1, <1>2, PTL DEF Spec

-------------------------------------------------------------------------------
(* What the invariant says *)

\* Functions that are one to one.
LEMMA SameSize ==
  ASSUME NEW S, IsFiniteSet(S), NEW f, f = [x \in S |-> f[x]], \A x, y \in S : f[x] = f[y] => x = y
  PROVE  IsFiniteSet({f[x] : x \in S}) /\ Cardinality({f[x] : x \in S}) = Cardinality(S)
<1> DEFINE T == {f[x] : x \in S}
<1>1. f \in [S -> T]
  OBVIOUS
<1>2. f \in Bijection(S, T)
  BY <1>1 DEF Bijection, Injection, Surjection, IsInjective
<1>3. ExistsBijection(S, T)
  BY <1>2 DEF ExistsBijection
<1> HIDE DEF T
<1>4. IsFiniteSet(T) /\ Cardinality(T) = Cardinality(S)
  BY <1>3, FS_Bijection
<1> QED BY <1>4 DEF T

\* Nobody is in the allocator when its mutex is free.
LEMMA Outside == ASSUME OwnInv, mutex = "EMPTY", NEW p \in Processes PROVE call[p].pc \notin Inside
BY DEF OwnInv, HeapInv

\* What an element that has a block is called.
LEMMA OwningTitle ==
  ASSUME OwnInv, NEW e \in Owning
  PROVE  \E t \in Titles(elem, loc, call) :
           /\ t.at = elem[e].data
           /\ \/ t = Title("element", e, elem[e].data)
              \/ \E p \in Processes : /\ t = Title("process", p, elem[e].data) /\ loc[p].e = e
                                      /\ loc[p].pc \in {"replace", "publish"}
<1>1. e \in Elements
  BY DEF Owning
<1>2. CASE Keeping(elem[e])
  BY <1>1, <1>2, TitleIs DEF Titles
<1>3. ASSUME NEW p \in Processes, loc[p].e = e, loc[p].pc = "publish", elem[e].data >= 0
      PROVE  Title("process", p, elem[e].data) \in Titles(elem, loc, call)
  <2>1. loc[p].arg \in Texts
    <3>1. Works(loc[p], elem[loc[p].e], text)
      BY DEF OwnInv, Working
    <3> QED BY <1>3, <3>1 DEF Works
  <2>2. Holds(loc[p], call[p]) /\ Place(loc[p], call[p], elem) = elem[e].data
    BY <1>3, <2>1 DEF Holds, Place
  <2> QED BY <2>2, TitleOf
<1>4. ASSUME NEW p \in Processes, loc[p].e = e, loc[p].pc = "replace", call[p].pc = "lockFree"
      PROVE  Title("process", p, elem[e].data) \in Titles(elem, loc, call)
  <2>1. Holds(loc[p], call[p]) /\ Place(loc[p], call[p], elem) = elem[e].data
    BY <1>4 DEF Holds, Place, OwnInv, Freeing, Frees
  <2> QED BY <2>1, TitleOf
<1>5. \/ Keeping(elem[e])
      \/ \E p \in Processes : loc[p].e = e /\ loc[p].pc = "publish" /\ elem[e].data >= 0
      \/ \E p \in Processes : loc[p].e = e /\ loc[p].pc = "replace" /\ call[p].pc = "lockFree"
  BY DEF Owning, String, At, In, Keeping
<1> QED BY <1>2, <1>3, <1>4, <1>5, TitleIs

LEMMA PendingTitle ==
  ASSUME OwnInv, NEW p \in Pending
  PROVE  Title("process", p, call[p].offset) \in Titles(elem, loc, call)
<1>1. p \in Processes /\ Holds(loc[p], call[p]) /\ Place(loc[p], call[p], elem) = call[p].offset
  BY DEF Pending, In, Holds, Given, Place
<1> QED BY <1>1, TitleOf

\* Whose a title is when nobody is in the allocator.
LEMMA TitleWhose ==
  ASSUME OwnInv, mutex = "EMPTY", NEW t \in Titles(elem, loc, call), NEW b \in live, b.offset = t.at
  PROVE  (\E e \in Owning : t.at = elem[e].data) \/ (\E p \in Pending : t.at = call[p].offset)
<1>1. CASE \E e \in Elements : Keeping(elem[e]) /\ t = Title("element", e, elem[e].data)
  <2>1. PICK e \in Elements : Keeping(elem[e]) /\ t = Title("element", e, elem[e].data)
    BY <1>1
  <2>2. e \in Owning
    BY <2>1 DEF Owning, Keeping, String
  <2> QED BY <2>1, <2>2, TitleIs
<1>2. CASE \E p \in Processes : Holds(loc[p], call[p]) /\ t = Title("process", p, Place(loc[p], call[p], elem))
  <2>1. PICK p \in Processes : Holds(loc[p], call[p]) /\ t = Title("process", p, Place(loc[p], call[p], elem))
    BY <1>2
  <2>2. call[p].pc \notin Inside
    BY Outside
  <2>3. t.at = Place(loc[p], call[p], elem)
    BY <2>1, TitleIs
  <2>4. CASE Given(loc[p], call[p])
    <3>1. p \in Pending /\ t.at = call[p].offset
      BY <2>2, <2>3, <2>4 DEF Given, Pending, In, Inside, Place
    <3> QED BY <3>1
  <2>5. CASE loc[p].pc = "replace" /\ call[p].pc \in {"lockFree", "find"}
    <3>1. call[p].pc = "lockFree" /\ t.at = call[p].offset
      BY <2>2, <2>3, <2>5 DEF Inside, Place
    <3>2. call[p].offset = elem[loc[p].e].data /\ loc[p].e \in Elements
      BY <2>5, <3>1 DEF OwnInv, Freeing, Frees, Working, Works, Work
    <3>3. loc[p].e \in Owning
      BY <2>5, <3>1, <3>2 DEF Owning, At, In
    <3> QED BY <3>1, <3>2, <3>3
  <2>6. CASE loc[p].pc = "publish" /\ loc[p].arg \in Texts
    <3>1. t.at = elem[loc[p].e].data /\ loc[p].e \in Elements
      BY <2>3, <2>6 DEF OwnInv, Working, Works, Work, Place
    <3>2. PICK n \in Nodes : b = Block(n)
      BY LiveBlocks DEF OwnInv
    <3>3. elem[loc[p].e].data >= 0
      BY <3>1, <3>2, NodeBlocks DEF Block
    <3>4. loc[p].e \in Owning
      BY <2>6, <3>1, <3>3 DEF Owning, At
    <3> QED BY <3>1, <3>4
  <2> QED BY <2>1, <2>4, <2>5, <2>6 DEF Holds
<1> QED BY <1>1, <1>2 DEF Titles

LEMMA OwnersOne == OwnInv => OneOwner
<1> SUFFICES ASSUME OwnInv, mutex = "EMPTY"
             PROVE  /\ {b.offset : b \in live} = {elem[e].data : e \in Owning} \cup {call[p].offset : p \in Pending}
                    /\ Cardinality(live) = Cardinality(Owning) + Cardinality(Pending)
  BY DEF OneOwner
<1> DEFINE O == {b.offset : b \in live}
           A == {elem[e].data : e \in Owning}
           B == {call[p].offset : p \in Pending}
           T == Titles(elem, loc, call)
<1>1. Ledger(T, live)
  BY DEF OwnInv, Owned
<1>2. O = A \cup B
  <2>1. ASSUME NEW b \in live PROVE b.offset \in A \cup B
    <3>1. PICK t \in T : b.offset = t.at
      BY <1>1 DEF Ledger
    <3> QED BY <3>1, TitleWhose
  <2>2. ASSUME NEW e \in Owning PROVE elem[e].data \in O
    <3>1. PICK t \in T : t.at = elem[e].data
      BY OwningTitle
    <3> QED BY <1>1, <3>1 DEF Ledger
  <2>3. ASSUME NEW p \in Pending PROVE call[p].offset \in O
    <3>1. Title("process", p, call[p].offset) \in T
      BY PendingTitle
    <3> QED BY <1>1, <3>1, TitleIs DEF Ledger
  <2> QED BY <2>1, <2>2, <2>3
<1>3. \A e, f \in Owning : elem[e].data = elem[f].data => e = f
  <2>1. ASSUME NEW e \in Owning, NEW f \in Owning, elem[e].data = elem[f].data PROVE e = f
    <3>1. PICK s \in T : /\ s.at = elem[e].data
                         /\ \/ s = Title("element", e, elem[e].data)
                            \/ \E p \in Processes : /\ s = Title("process", p, elem[e].data) /\ loc[p].e = e
                                                    /\ loc[p].pc \in {"replace", "publish"}
      BY OwningTitle
    <3>2. PICK t \in T : /\ t.at = elem[f].data
                         /\ \/ t = Title("element", f, elem[f].data)
                            \/ \E p \in Processes : /\ t = Title("process", p, elem[f].data) /\ loc[p].e = f
                                                    /\ loc[p].pc \in {"replace", "publish"}
      BY OwningTitle
    <3>3. s = t
      BY <1>1, <2>1, <3>1, <3>2 DEF Ledger
    <3>4. s.kind = t.kind /\ s.who = t.who
      BY <3>3
    <3> QED BY <3>1, <3>2, <3>4, TitleIs
  <2> QED BY <2>1
<1>4. \A p, q \in Pending : call[p].offset = call[q].offset => p = q
  <2>1. ASSUME NEW p \in Pending, NEW q \in Pending, call[p].offset = call[q].offset PROVE p = q
    <3>1. Title("process", p, call[p].offset) \in T /\ Title("process", q, call[q].offset) \in T
      BY PendingTitle
    <3>2. Title("process", p, call[p].offset) = Title("process", q, call[q].offset)
      BY <1>1, <2>1, <3>1, TitleIs DEF Ledger
    <3> QED BY <3>2, TitleIs
  <2> QED BY <2>1
<1>5. A \cap B = {}
  <2>1. ASSUME NEW e \in Owning, NEW q \in Pending, elem[e].data = call[q].offset PROVE FALSE
    <3>1. PICK s \in T : /\ s.at = elem[e].data
                         /\ \/ s = Title("element", e, elem[e].data)
                            \/ \E p \in Processes : /\ s = Title("process", p, elem[e].data) /\ loc[p].e = e
                                                    /\ loc[p].pc \in {"replace", "publish"}
      BY OwningTitle
    <3>2. Title("process", q, call[q].offset) \in T
      BY PendingTitle
    <3>3. s = Title("process", q, call[q].offset)
      BY <1>1, <2>1, <3>1, <3>2, TitleIs DEF Ledger
    <3>4. s.kind = "process" /\ s.who = q
      BY <3>3, TitleIs
    <3>5. loc[q].pc \in {"replace", "publish"}
      BY <3>1, <3>4, TitleIs
    <3> QED BY <3>5 DEF Pending
  <2> QED BY <2>1
<1>6. IsFiniteSet(Owning) /\ IsFiniteSet(Pending)
  <2>1. IsFiniteSet(Processes) /\ N \in Nat
    BY ArrayAssumption
  <2>2. IsFiniteSet(Elements)
    BY <2>1, FS_Interval DEF Elements
  <2>3. Owning \subseteq Elements /\ Pending \subseteq Processes
    BY DEF Owning, Pending
  <2> QED BY <2>1, <2>2, <2>3, FS_Subset
<1>7. IsFiniteSet(A) /\ Cardinality(A) = Cardinality(Owning)
  <2> DEFINE f == [e \in Owning |-> elem[e].data]
  <2>1. \A x, y \in Owning : f[x] = f[y] => x = y
    BY <1>3
  <2>2. f = [x \in Owning |-> f[x]] /\ A = {f[x] : x \in Owning}
    OBVIOUS
  <2> HIDE DEF f, A
  <2> QED BY <1>6, <2>1, <2>2, SameSize
<1>8. IsFiniteSet(B) /\ Cardinality(B) = Cardinality(Pending)
  <2> DEFINE f == [p \in Pending |-> call[p].offset]
  <2>1. \A x, y \in Pending : f[x] = f[y] => x = y
    BY <1>4
  <2>2. f = [x \in Pending |-> f[x]] /\ B = {f[x] : x \in Pending}
    OBVIOUS
  <2> HIDE DEF f, B
  <2> QED BY <1>6, <2>1, <2>2, SameSize
<1>9. Cardinality(live) = Cardinality(O)
  <2> DEFINE f == [o \in O |-> CHOOSE b \in live : b.offset = o]
  <2>1. \A o \in O : f[o] \in live /\ f[o].offset = o
    OBVIOUS
  <2>2. \A b, c \in live : b.offset = c.offset => b = c
    <3>1. ASSUME NEW b \in live, NEW c \in live, b.offset = c.offset PROVE b = c
      <4>1. \A d \in live : d.offset \in Nat /\ d.size \in Nat \ {0}
        <5>1. ASSUME NEW d \in live PROVE d.offset \in Nat /\ d.size \in Nat \ {0}
          <6>1. PICK n \in Nodes : d = Block(n)
            BY LiveBlocks DEF OwnInv
          <6> QED BY <6>1, NodeBlocks DEF Block
        <5> QED BY <5>1
      <4>2. Overlap(b, c)
        BY <3>1, <4>1 DEF Overlap
      <4> QED BY <4>2, LiveBlocks DEF OwnInv
    <3> QED BY <3>1
  <2>3. \A x, y \in O : f[x] = f[y] => x = y
    BY <2>1
  <2>4. f = [o \in O |-> f[o]]
    OBVIOUS
  <2>5. \A b \in live : b.offset \in O
    OBVIOUS
  <2>6. IsFiniteSet(O)
    <3> HIDE DEF O, A, B
    <3>1. IsFiniteSet(A \cup B)
      BY <1>7, <1>8, FS_Union
    <3> QED BY <1>2, <3>1
  <2> HIDE DEF f, O
  <2>7. {f[o] : o \in O} = live
    BY <2>1, <2>2, <2>5
  <2> QED BY <2>3, <2>4, <2>6, <2>7, SameSize
<1>10. Cardinality(A \cup B) = Cardinality(A) + Cardinality(B)
  <2> HIDE DEF A, B
  <2>1. Cardinality(A \cup B) = Cardinality(A) + Cardinality(B) - Cardinality(A \cap B)
    BY <1>7, <1>8, FS_Union
  <2>2. Cardinality(A) \in Nat /\ Cardinality(B) \in Nat
    BY <1>7, <1>8, FS_CardinalityType
  <2>3. Cardinality(A \cap B) = 0
    BY <1>5, FS_EmptySet
  <2> QED BY <2>1, <2>2, <2>3
<1> QED BY <1>2, <1>7, <1>8, <1>9, <1>10

\* No assertion of emsMem_free fails, and between calls the tree of the allocator tells the truth:
\* its used nodes are the blocks handed out and not freed, apart from each other; a node is full
\* exactly if there is no room below; and neighbours that are free have become one block.
THEOREM TreeTells == Spec => []TreeTrue
<1>1. RegionInv /\ OwnInv => TreeTrue
  BY HeapTrue DEF OwnInv
<1> QED BY <1>1, InvariantsHold, PTL

\* emsMem_alloc returns -1 only if every aligned run of as many blocks as it needs has a block in
\* it that is in use.
THEOREM AllocationExhausts == Spec => []FailsOnlyIfFull
<1>1. RegionInv /\ OwnInv => FailsOnlyIfFull
  BY HeapFull DEF OwnInv
<1> QED BY <1>1, InvariantsHold, PTL

\* Through creation, attachment, replacement and failed allocations, every block in use belongs to
\* exactly one element or to the process about to store it.
THEOREM BlocksOwned == Spec => []OneOwner
<1>1. RegionInv /\ OwnInv => OneOwner
  BY OwnersOne
<1> QED BY <1>1, InvariantsHold, PTL

\* What the binding copies after a read is the string that was read.
THEOREM CopiesIntact == Spec => []CopyIntact
<1>1. RegionInv /\ OwnInv => CopyIntact
  BY DEF OwnInv, Working, Works, CopyIntact, At
<1> QED BY <1>1, InvariantsHold, PTL
===============================================================================
