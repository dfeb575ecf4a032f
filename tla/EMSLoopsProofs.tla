---------------------------- MODULE EMSLoopsProofs -----------------------------
(***************************************************************************)
(* Theorems on EMSLoops, for every sequence of loops that Fits, every      *)
(* number of threads and width of an index.                                *)
(***************************************************************************)
EXTENDS EMSLoops, FiniteSetTheorems, TLAPS

\* The largest chunk that loop l hands out: the first one.
Most(l) ==
  IF l.sched = "guided" THEN Larger(Share(l.end - l.start), l.minChunk) ELSE 1

\* The loops of the program do not end before they start; guided ones have a least chunk; the
\* shared index, which every thread advances past the end once, does not wrap; static
\* ones of ems.js start at 0.
Fits ==
  \A k \in 1 .. Len(Program) : LET l == Program[k] IN
    /\ l.start <= l.end /\ l.end - l.start < HalfRange
    /\ l.sched = "guided" => l.minChunk >= 1
    /\ l.sched # "static" => /\ l.end + (NThreads + 1) * Most(l) < HalfRange
                             /\ (NThreads + 1) * Most(l) < HalfRange
    /\ l.sched = "static" /\ Binding = "js" => l.start = 0

-------------------------------------------------------------------------------
(* Types *)

PC == {"next", "initBounds", "initChunk", "initFix", "enter", "load", "add", "update", "body",
       "static", "leave"}

Numbered == 1 .. Len(Program)

LoopTyped ==
  /\ idx \in Int /\ end \in Int /\ chunkSz \in Int /\ minChunk \in Int /\ sched \in Sched
  /\ ip \in [Threads -> 1 .. Len(Program) + 1]
  /\ loc \in [Threads -> [pc : PC, size : Int, start : Int, end : Int]]
  /\ arrived \in [Threads -> Nat]
  /\ ran \in [Numbered -> [Int32 -> Nat]]
  /\ \A t \in Threads :
       /\ loc[t].pc # "next" => ip[t] \in Numbered
       /\ loc[t].pc \notin {"next", "static", "leave"} => Loop(t).sched # "static"
       /\ loc[t].pc = "static" => Loop(t).sched = "static"

-------------------------------------------------------------------------------
(* Barriers *)

\* Between the barriers of a shared loop.
Chunks == {"load", "add", "update", "body"}

IsStatic(k) == Program[k].sched = "static"

\* t is past the barrier that begins loop k.
Inside(t, k) ==
  ip[t] = k /\ (loc[t].pc \in Chunks \/ (loc[t].pc = "leave" /\ ~IsStatic(k)))

\* The barriers of its loop that t has arrived at.
Part(t) ==
  CASE loc[t].pc \in {"enter"} \cup Chunks -> 1
    [] loc[t].pc = "leave" -> IF IsStatic(ip[t]) THEN 1 ELSE 2
    [] OTHER -> 0

\* Two threads in the same loop, and one that is ahead of the other.
Lockstep ==
  /\ \A t, u \in Threads : ip[t] = ip[u] =>
       /\ arrived[t] - Part(t) = arrived[u] - Part(u)
       /\ Inside(t, ip[t]) => Part(u) >= 1
  /\ \A t, u \in Threads : ip[t] > ip[u] =>
       /\ ip[t] = ip[u] + 1 /\ loc[u].pc = "leave" /\ ~Inside(t, ip[t])
       /\ arrived[t] - Part(t) = arrived[u]

-------------------------------------------------------------------------------
(* The words of the control block *)

Least(k) == LeastChunk(Program[k])

\* The threads at loop k that have advanced the index past its end.
Past(k) ==
  {t \in Threads : /\ ip[t] = k
                   /\ \/ loc[t].pc = "leave"
                      \/ loc[t].pc \in {"update", "body"} /\ loc[t].start >= Program[k].end}

\* The index and the end that the threads at loop k store before its first barrier.
Bounds(t, k) ==
  loc[t].pc \in {"initChunk", "initFix", "enter"} /\ (\A u \in Threads : ~Inside(u, k)) =>
    idx = Program[k].start /\ end = Program[k].end

\* The size of a chunk; it may be too small only while a thread is about to raise it.
Sizes(t, k) ==
  /\ loc[t].pc \in {"initFix", "enter"} \cup Chunks => chunkSz <= Most(Program[k])
  /\ loc[t].pc \in {"enter"} \cup Chunks =>
       /\ end = Program[k].end /\ minChunk = Least(k) /\ sched = Program[k].sched
       /\ chunkSz >= Least(k) \/ \E u \in Threads : ip[u] = k /\ loc[u].pc = "initFix"
  /\ loc[t].pc = "add" => Least(k) <= loc[t].size /\ loc[t].size <= Most(Program[k])

\* The chunk that t has been given.
Given(t, k) ==
  loc[t].pc \in {"update", "body"} =>
    /\ loc[t].pc = "update" => Program[k].sched = "guided"
    /\ Program[k].start <= loc[t].start /\ loc[t].start < idx
    /\ loc[t].start < Program[k].end =>
         loc[t].start < loc[t].end /\ loc[t].end <= Program[k].end /\ loc[t].end <= idx
    /\ loc[t].start >= Program[k].end => loc[t].end <= loc[t].start

\* How far past its end the index of loop k can be.
Reach(t, k) ==
  Inside(t, k) /\ (\A u \in Threads : ip[u] = k) =>
    /\ Program[k].start <= idx
    /\ idx <= Program[k].end + (Cardinality(Past(k)) + 1) * Most(Program[k])
    /\ loc[t].pc = "leave" => Program[k].end <= idx

WordsAt(t, k) == Bounds(t, k) /\ Sizes(t, k) /\ Given(t, k) /\ Reach(t, k)

Words == \A t \in Threads, k \in Numbered : ip[t] = k => WordsAt(t, k)

-------------------------------------------------------------------------------
(* The iterations *)

Iterations(k) == Program[k].start .. Program[k].end - 1

\* t has been given iteration i and has not executed it yet.
Pending(t, i) == loc[t].pc \in {"update", "body"} /\ i \in loc[t].start .. loc[t].end - 1

\* The thread that executes iteration i of a static loop.
Owner(k, i) == (i - Program[k].start) \div BlockSz(Program[k])

\* Nobody is past loop k.
Open(k) == \A t \in Threads : ip[t] <= k

Exact(k) == \A i \in Int32 : ran[k][i] = IF i \in Iterations(k) THEN 1 ELSE 0

\* A static loop in progress: the blocks of the threads that have arrived at its end.
Blocks(k) ==
  \A i \in Int32 : ran[k][i] =
    IF i \in Iterations(k) /\ ip[Owner(k, i)] = k /\ loc[Owner(k, i)].pc = "leave" THEN 1 ELSE 0

\* A shared loop in progress: what lies before the index has been executed once, or one
\* thread has been given it.
Claimed(k) ==
  /\ \A i \in Int32 : ran[k][i] =
       IF i \in Iterations(k) /\ i < idx /\ ~\E t \in Threads : Pending(t, i) THEN 1 ELSE 0
  /\ \A t, u \in Threads : t # u => \A i \in Int32 : ~(Pending(t, i) /\ Pending(u, i))

Iterated(k) ==
  /\ ~Open(k) => Exact(k)
  /\ Open(k) /\ IsStatic(k) => Blocks(k)
  /\ Open(k) /\ ~IsStatic(k) /\ (\A t \in Threads : ~Inside(t, k)) => \A i \in Int32 : ran[k][i] = 0
  /\ Open(k) /\ (\E t \in Threads : Inside(t, k)) => Claimed(k)

LoopInv == LoopTyped /\ Lockstep /\ Words /\ \A k \in Numbered : Iterated(k)

-------------------------------------------------------------------------------
(* Arithmetic *)

\* The sizes are numbers, without the rest of what the constants are.
LEMMA SizesAre == HalfRange \in Nat \ {0} /\ NThreads \in Nat \ {0} /\ Len(Program) \in Nat
  BY LoopsAssumption

LEMMA ModSmall == ASSUME NEW h \in Nat \ {0}, NEW a \in 0 .. 2 * h - 1 PROVE a % (2 * h) = a
  OBVIOUS

LEMMA DivMonotone ==
  ASSUME NEW d \in Nat \ {0}, NEW a \in Int, NEW b \in Int, a <= b
  PROVE  (a \div d) \in Int /\ (b \div d) \in Int /\ a \div d <= b \div d
  OBVIOUS

LEMMA DivBounds ==
  ASSUME NEW d \in Nat \ {0}, NEW a \in Int
  PROVE  (a \div d) \in Int /\ d * (a \div d) <= a /\ a < d * ((a \div d) + 1)
  OBVIOUS

LEMMA DivIs ==
  ASSUME NEW d \in Nat \ {0}, NEW a \in Int, NEW q \in Int, d * q <= a, a < d * (q + 1)
  PROVE  a \div d = q
  OBVIOUS

\* Nothing wraps in the range of an int32_t.
LEMMA WrapSmall == ASSUME NEW n \in Int32 PROVE Wrap(n) = n
<1> DEFINE a == n + HalfRange
<1>1. a \in 0 .. 2 * HalfRange - 1
  BY SizesAre DEF Int32
<1>2. a % (2 * HalfRange) = a
  BY <1>1, ModSmall, SizesAre
<1> QED
  BY <1>2, SizesAre DEF Wrap, Int32

LEMMA ShareMonotone ==
  ASSUME NEW a \in Int, NEW b \in Int, a <= b
  PROVE  Share(a) \in Int /\ Share(b) \in Int /\ Share(a) <= Share(b)
<1>1. (a \div 2) \in Int /\ (b \div 2) \in Int /\ a \div 2 <= b \div 2
  BY DivMonotone
<1>2. NThreads \in Nat \ {0}
  BY SizesAre
<1> HIDE DEF Share
<1> DEFINE x == a \div 2
           y == b \div 2
<1>3. x \in Int /\ y \in Int /\ x <= y
  BY <1>1
<1> HIDE DEF x, y
<1>4. (x \div NThreads) \in Int /\ (y \div NThreads) \in Int /\ x \div NThreads <= y \div NThreads
  BY <1>2, <1>3, DivMonotone
<1> QED
  BY <1>4 DEF Share, x, y

LEMMA LargerIs ==
  ASSUME NEW a \in Int, NEW b \in Int
  PROVE  Larger(a, b) \in {a, b} /\ Larger(a, b) >= a /\ Larger(a, b) >= b
  BY DEF Larger

LEMMA ElementOfSeq == ASSUME NEW S, NEW q \in Seq(S), NEW k \in 1 .. Len(q) PROVE q[k] \in S
  OBVIOUS

\* What the program says of its loops.
LEMMA LoopTypes ==
  ASSUME NEW k \in Numbered
  PROVE  /\ Program[k] \in [start : Int32, end : Int32, sched : Sched, minChunk : Int32 \cap Nat]
         /\ Program[k].start \in Int /\ Program[k].end \in Int /\ Program[k].minChunk \in Nat
         /\ Program[k].start \in Int32 /\ Program[k].end \in Int32
         /\ Program[k].sched \in Sched
         /\ Least(k) \in Nat /\ Most(Program[k]) \in Int
<1> DEFINE Loops == [start : Int32, end : Int32, sched : Sched, minChunk : Int32 \cap Nat]
<1> HIDE DEF Loops
<1>0. Program \in Seq(Loops) /\ k \in 1 .. Len(Program)
  BY LoopsAssumption DEF Numbered, Loops
<1>1a. Program[k] \in Loops
  BY <1>0, ElementOfSeq
<1>1. Program[k] \in [start : Int32, end : Int32, sched : Sched, minChunk : Int32 \cap Nat]
  BY <1>1a DEF Loops
<1>2. /\ Program[k].start \in Int /\ Program[k].end \in Int /\ Program[k].minChunk \in Nat
      /\ Program[k].start \in Int32 /\ Program[k].end \in Int32
      /\ Program[k].sched \in Sched
  BY <1>1, SizesAre DEF Int32
<1>3. Least(k) \in Nat
  BY <1>2 DEF Least, LeastChunk
<1> DEFINE s == Share(Program[k].end - Program[k].start)
<1>4. s \in Int
  BY <1>2, ShareMonotone
<1> HIDE DEF s
<1>5. Larger(s, Program[k].minChunk) \in Int
  BY <1>2, <1>4, LargerIs
<1>6. Most(Program[k]) \in Int
  BY <1>5 DEF Most, s
<1> QED
  BY <1>1, <1>2, <1>3, <1>6

\* A chunk is never empty.
LEMMA LeastMost ==
  ASSUME Fits, NEW k \in Numbered, ~IsStatic(k)
  PROVE  /\ 1 <= Least(k) /\ Least(k) <= Most(Program[k])
         /\ Program[k].start <= Program[k].end
         /\ Program[k].end - Program[k].start < HalfRange
         /\ Program[k].end + (NThreads + 1) * Most(Program[k]) < HalfRange
         /\ (NThreads + 1) * Most(Program[k]) < HalfRange
<1> DEFINE s == Share(Program[k].end - Program[k].start)
<1>1. Program[k].start \in Int /\ Program[k].end \in Int /\ Program[k].minChunk \in Nat
  BY LoopTypes
<1>2. s \in Int
  BY <1>1, ShareMonotone
<1> HIDE DEF s
<1>3. Larger(s, Program[k].minChunk) >= Program[k].minChunk
  BY <1>1, <1>2, LargerIs
<1>4. Most(Program[k]) = IF Program[k].sched = "guided" THEN Larger(s, Program[k].minChunk) ELSE 1
  BY DEF Most, s
<1>5. Least(k) = IF Program[k].sched = "guided" THEN Program[k].minChunk ELSE 1
  BY DEF Least, LeastChunk
<1>6. Program[k].sched = "guided" => Program[k].minChunk >= 1
  BY DEF Fits, Numbered
<1>7. /\ Program[k].start <= Program[k].end
      /\ Program[k].end - Program[k].start < HalfRange
      /\ Program[k].end + (NThreads + 1) * Most(Program[k]) < HalfRange
      /\ (NThreads + 1) * Most(Program[k]) < HalfRange
  BY DEF Fits, Numbered, IsStatic
<1>8. 1 <= Least(k) /\ Least(k) <= Most(Program[k])
  BY <1>1, <1>3, <1>4, <1>5, <1>6
<1> QED
  BY <1>7, <1>8

\* A shared loop's range is shorter than half the integers.
LEMMA RangeFits ==
  ASSUME Fits, NEW k \in Numbered, ~IsStatic(k)
  PROVE  Program[k].end - Program[k].start < HalfRange
  BY DEF Fits, Numbered, IsStatic

\* The share that a guided loop begins with is at most Most, and so is any later one.
LEMMA ShareFits ==
  ASSUME Fits, NEW k \in Numbered, NEW n \in Int,
         n <= Program[k].end - Program[k].start, n > -HalfRange,
         Program[k].sched = "guided"
  PROVE  Share(Wrap(n)) \in Int /\ Share(Wrap(n)) <= Most(Program[k])
<1> DEFINE m == Program[k].end - Program[k].start
<1>1. Program[k].start \in Int /\ Program[k].end \in Int /\ Program[k].minChunk \in Nat
  BY LoopTypes
<1>2. ~IsStatic(k)
  BY DEF IsStatic
<1>3. m < HalfRange
  BY <1>2, RangeFits
<1>4. n \in Int32
  BY <1>1, <1>3, SizesAre DEF Int32
<1>5. Wrap(n) = n
  BY <1>4, WrapSmall
<1>6. Share(n) \in Int /\ Share(m) \in Int /\ Share(n) <= Share(m)
  BY <1>1, ShareMonotone
<1>7. Most(Program[k]) = Larger(Share(m), Program[k].minChunk)
  BY DEF Most
<1>8. Larger(Share(m), Program[k].minChunk) >= Share(m) /\ Larger(Share(m), Program[k].minChunk) \in Int
  BY <1>1, <1>6, LargerIs
<1> HIDE DEF m
<1> QED
  BY <1>5, <1>6, <1>7, <1>8

\* The block of thread t consists of the iterations t owns.
LEMMA StaticBlocks ==
  ASSUME Fits, NEW k \in Numbered, IsStatic(k), NEW i \in Int32
  PROVE  /\ i \in Iterations(k) => Owner(k, i) \in Threads
         /\ \A t \in Threads :
              i \in BlockSz(Program[k]) * t + Program[k].start ..
                    (StaticEnd(t, Program[k]) + Program[k].start) - 1
                <=> i \in Iterations(k) /\ Owner(k, i) = t
<1> DEFINE b == BlockSz(Program[k])
           n == Program[k].end - Program[k].start
           d == i - Program[k].start
           o == d \div b
<1>1. /\ Program[k].start \in Int /\ Program[k].end \in Int /\ i \in Int
      /\ NThreads \in Nat \ {0}
  BY LoopTypes, SizesAre DEF Int32
<1>2. Program[k].start <= Program[k].end /\ (Binding = "js" => Program[k].start = 0)
  BY DEF Fits, Numbered, IsStatic
<1>3. n \in Nat /\ d \in Int
  BY <1>1, <1>2
<1>4. Owner(k, i) = o
  BY DEF Owner
<1>5. i \in Iterations(k) <=> 0 <= d /\ d < n
  BY <1>1 DEF Iterations
<1>6. b = (n \div NThreads) + 1
  BY DEF BlockSz
<1> HIDE DEF n, d, b
<1>7. (n \div NThreads) \in Int /\ n < NThreads * ((n \div NThreads) + 1)
  BY <1>1, <1>3, DivBounds
<1>8. b \in Int /\ n < NThreads * b
  BY <1>6, <1>7
<1>9. b \in Nat \ {0}
  BY <1>1, <1>3, <1>8
<1>10. o \in Int /\ b * o <= d /\ d < b * (o + 1)
  BY <1>3, <1>9, DivBounds
<1> HIDE DEF o
<1>11. ASSUME i \in Iterations(k) PROVE o \in Threads
  <2>1. 0 <= d /\ d < n
    BY <1>5, <1>11
  <2>2. o >= 0
    BY <1>9, <1>10, <1>3, <2>1
  <2>3. b * o < b * NThreads
    BY <1>1, <1>3, <1>8, <1>9, <1>10, <2>1
  <2>4. o < NThreads
    BY <1>1, <1>9, <1>10, <2>3
  <2> QED
    BY <1>1, <1>10, <2>2, <2>4 DEF Threads
<1>12. ASSUME NEW t \in Threads
       PROVE  i \in b * t + Program[k].start .. (StaticEnd(t, Program[k]) + Program[k].start) - 1
                <=> i \in Iterations(k) /\ o = t
  <2> DEFINE e == b * (t + 1)
             f == b * t
  <2>1. t \in Nat /\ t \in Int
    BY <1>1 DEF Threads
  <2>2. e \in Int /\ f \in Int /\ f >= 0
    BY <1>9, <2>1
  <2>3. StaticEnd(t, Program[k]) = IF e > n THEN n ELSE e
    <3>1. b = BlockSz(Program[k]) /\ n = Program[k].end - Program[k].start
      BY DEF b, n
    <3>2. (IF Binding = "js" THEN Program[k].end ELSE Program[k].end - Program[k].start) = n
      BY <1>1, <1>2, <3>1
    <3> QED
      BY <3>1, <3>2 DEF StaticEnd
  <2>4. o = t <=> f <= d /\ d < e
    <3>1. o = t => f <= d /\ d < e
      BY <1>10
    <3>2. f <= d /\ d < e => d \div b = t
      BY <1>3, <1>9, <2>1, DivIs
    <3> QED
      BY <3>1, <3>2 DEF o
  <2> HIDE DEF e, f
  <2>5. d = i - Program[k].start
    BY DEF d
  <2>6. i \in f + Program[k].start .. (StaticEnd(t, Program[k]) + Program[k].start) - 1
          <=> f <= d /\ d < e /\ d < n
    BY <1>1, <1>3, <2>2, <2>3, <2>5
  <2>7. i \in f + Program[k].start .. (StaticEnd(t, Program[k]) + Program[k].start) - 1
          <=> i \in Iterations(k) /\ o = t
    BY <1>5, <2>2, <2>4, <2>6, <1>3
  <2> QED
    BY <2>7 DEF f
<1> QED
  BY <1>4, <1>11, <1>12 DEF b

-------------------------------------------------------------------------------
(* Types: what a step does to the locals *)

Local == [pc : PC, size : Int, start : Int, end : Int]

\* Thread t goes to p with the given locals, the others stay where they are.
Goes(t, p, size, start, stop) ==
  /\ loc' \in [Threads -> Local]
  /\ loc'[t] = [pc |-> p, size |-> size, start |-> start, end |-> stop]
  /\ \A u \in Threads \ {t} : loc'[u] = loc[u]

LEMMA LocalTypes ==
  ASSUME LoopTyped, NEW t \in Threads
  PROVE  /\ loc[t] \in Local /\ loc[t].pc \in PC
         /\ loc[t].size \in Int /\ loc[t].start \in Int /\ loc[t].end \in Int
         /\ loc[t] = [pc |-> loc[t].pc, size |-> loc[t].size, start |-> loc[t].start, end |-> loc[t].end]
         /\ arrived[t] \in Nat /\ ip[t] \in 1 .. Len(Program) + 1 /\ ip[t] \in Nat
<1>1. loc[t] \in Local /\ arrived[t] \in Nat /\ ip[t] \in 1 .. Len(Program) + 1
  BY DEF LoopTyped, Local
<1>2. /\ loc[t].pc \in PC /\ loc[t].size \in Int /\ loc[t].start \in Int /\ loc[t].end \in Int
      /\ loc[t] = [pc |-> loc[t].pc, size |-> loc[t].size, start |-> loc[t].start, end |-> loc[t].end]
  BY <1>1 DEF Local
<1>3. Len(Program) \in Nat
  BY SizesAre
<1> QED
  BY <1>1, <1>2, <1>3

LEMMA GoesWith ==
  ASSUME LoopTyped, NEW t \in Threads, NEW l \in Local, loc' = [loc EXCEPT ![t] = l]
  PROVE  Goes(t, l.pc, l.size, l.start, l.end)
<1>1. loc \in [Threads -> Local]
  BY DEF LoopTyped, Local
<1>2. l = [pc |-> l.pc, size |-> l.size, start |-> l.start, end |-> l.end]
  BY DEF Local
<1>3. loc' \in [Threads -> Local] /\ loc'[t] = l /\ \A u \in Threads \ {t} : loc'[u] = loc[u]
  BY <1>1
<1> QED
  BY <1>2, <1>3 DEF Goes

LEMMA GoGoes ==
  ASSUME LoopTyped, NEW t \in Threads, NEW p \in PC, Go(t, p)
  PROVE  Goes(t, p, loc[t].size, loc[t].start, loc[t].end)
<1> DEFINE l == [loc[t] EXCEPT !.pc = p]
<1>1. l \in Local /\ l.pc = p /\ l.size = loc[t].size /\ l.start = loc[t].start /\ l.end = loc[t].end
  BY LocalTypes DEF Local
<1>2. loc' = [loc EXCEPT ![t] = l]
  BY DEF Go
<1> HIDE DEF l
<1> QED
  BY <1>1, <1>2, GoesWith

LEMMA LoadGoes ==
  ASSUME LoopTyped, NEW t \in Threads, ChunkLoad(t)
  PROVE  Goes(t, "add", chunkSz, loc[t].start, loc[t].end)
<1> DEFINE l == [loc[t] EXCEPT !.pc = "add", !.size = chunkSz]
<1>1. chunkSz \in Int
  BY DEF LoopTyped
<1>2. /\ l \in Local /\ l.pc = "add" /\ l.size = chunkSz
      /\ l.start = loc[t].start /\ l.end = loc[t].end
  BY <1>1, LocalTypes DEF Local, PC
<1>3. loc' = [loc EXCEPT ![t] = l]
  BY DEF ChunkLoad, LoopTyped
<1> HIDE DEF l
<1> QED
  BY <1>2, <1>3, GoesWith

LEMMA WrapInt == ASSUME NEW n \in Int PROVE Wrap(n) \in Int
<1>1. \A h \in Nat \ {0}, a \in Int : (a % (2 * h)) \in Int
  OBVIOUS
<1> QED
  BY <1>1, SizesAre DEF Wrap

LEMMA AddGoes ==
  ASSUME LoopTyped, NEW t \in Threads, ChunkAdd(t)
  PROVE  /\ Goes(t, IF sched = "guided" THEN "update" ELSE "body",
                 loc[t].size, idx, ChunkEnd(idx, Wrap(idx + loc[t].size)))
         /\ ChunkEnd(idx, Wrap(idx + loc[t].size)) \in Int
<1> DEFINE p == IF sched = "guided" THEN "update" ELSE "body"
           s == idx
           e == ChunkEnd(idx, Wrap(idx + loc[t].size))
           l == [loc[t] EXCEPT !.pc = p, !.start = s, !.end = e]
<1>1. s \in Int /\ end \in Int /\ p \in PC
  BY DEF LoopTyped, PC
<1>2. e \in Int
  <2> DEFINE w == Wrap(idx + loc[t].size)
  <2>1. w \in Int
    <3>1. idx \in Int /\ loc[t].size \in Int
      BY LocalTypes DEF LoopTyped
    <3>2. idx + loc[t].size \in Int
      BY <3>1
    <3> QED
      BY <3>2, WrapInt
  <2> HIDE DEF w
  <2>2. ChunkEnd(idx, w) \in Int
    BY <1>1, <2>1 DEF ChunkEnd
  <2> QED
    BY <2>2 DEF w
<1>3. loc' = [loc EXCEPT ![t].pc = p, ![t].start = s, ![t].end = e]
  BY DEF ChunkAdd
<1> HIDE DEF p, e, s
<1>4. /\ l \in Local /\ l.pc = p /\ l.size = loc[t].size /\ l.start = s /\ l.end = e
  BY <1>1, <1>2, LocalTypes DEF Local
<1>5. loc' = [loc EXCEPT ![t] = l]
  BY <1>3 DEF LoopTyped
<1> HIDE DEF l
<1>6. Goes(t, p, loc[t].size, s, e)
  BY <1>4, <1>5, GoesWith
<1> QED
  BY <1>2, <1>6 DEF p, e, s

LEMMA LeaveGoes ==
  ASSUME LoopTyped, NEW t \in Threads, Leave(t)
  PROVE  Goes(t, "next", 0, 0, 0)
<1> DEFINE l == Idle
<1>1. l \in Local /\ l.pc = "next" /\ l.size = 0 /\ l.start = 0 /\ l.end = 0
  BY DEF Idle, Local, PC
<1>2. loc' = [loc EXCEPT ![t] = l]
  BY DEF Leave
<1> HIDE DEF l
<1> QED
  BY <1>1, <1>2, GoesWith

\* Thread t arrives at a barrier, or does not.
LEMMA ArriveGoes ==
  ASSUME LoopTyped, NEW t \in Threads, NEW p \in PC, Arrive(t, p)
  PROVE  /\ Goes(t, p, loc[t].size, loc[t].start, loc[t].end)
         /\ arrived' \in [Threads -> Nat] /\ arrived'[t] = arrived[t] + 1
         /\ \A u \in Threads \ {t} : arrived'[u] = arrived[u]
<1>1. Go(t, p) /\ arrived' = [arrived EXCEPT ![t] = arrived[t] + 1]
  BY DEF Arrive
<1>2. arrived \in [Threads -> Nat]
  BY DEF LoopTyped
<1> QED
  BY <1>1, <1>2, GoGoes

\* What Execute adds to the history.
LEMMA Executed ==
  ASSUME LoopTyped, NEW t \in Threads, ip[t] \in Numbered, NEW from, NEW to, Execute(t, from, to)
  PROVE  /\ ran' \in [Numbered -> [Int32 -> Nat]]
         /\ \A k \in Numbered \ {ip[t]} : ran'[k] = ran[k]
         /\ \A i \in Int32 : ran'[ip[t]][i] = ran[ip[t]][i] + (IF i \in from .. to - 1 THEN 1 ELSE 0)
<1> DEFINE k == ip[t]
           f == [i \in Int32 |-> ran[k][i] + (IF i \in from .. to - 1 THEN 1 ELSE 0)]
<1>1. ran \in [Numbered -> [Int32 -> Nat]]
  BY DEF LoopTyped
<1>2. f \in [Int32 -> Nat]
  BY <1>1
<1>3. \A i \in Int32 : f[i] = ran[k][i] + (IF i \in from .. to - 1 THEN 1 ELSE 0)
  OBVIOUS
<1>4. ran' = [ran EXCEPT ![k] = f]
  BY <1>1 DEF Execute
<1> HIDE DEF f
<1> QED
  BY <1>1, <1>2, <1>3, <1>4

LEMMA KeepsTypes ==
  ASSUME LoopTyped, NEW t \in Threads, NEW p, NEW size, NEW start, NEW stop,
         Goes(t, p, size, start, stop),
         idx' \in Int, end' \in Int, chunkSz' \in Int, minChunk' \in Int, sched' \in Sched,
         ip' \in [Threads -> 1 .. Len(Program) + 1], arrived' \in [Threads -> Nat],
         ran' \in [Numbered -> [Int32 -> Nat]],
         \A u \in Threads \ {t} : ip'[u] = ip[u],
         p # "next" => ip'[t] \in Numbered,
         p \notin {"next", "static", "leave"} => Program[ip'[t]].sched # "static",
         p = "static" => Program[ip'[t]].sched = "static"
  PROVE  LoopTyped'
<1>1. loc' \in [Threads -> [pc : PC, size : Int, start : Int, end : Int]]
  BY DEF Goes, Local
<1>2. ASSUME NEW u \in Threads
      PROVE  /\ loc'[u].pc # "next" => ip'[u] \in Numbered
             /\ loc'[u].pc \notin {"next", "static", "leave"} => Program[ip'[u]].sched # "static"
             /\ loc'[u].pc = "static" => Program[ip'[u]].sched = "static"
  <2>1. CASE u = t
    <3>1. loc'[t].pc = p
      BY DEF Goes
    <3> QED
      BY <2>1, <3>1
  <2>2. CASE u # t
    <3>1. loc'[u] = loc[u] /\ ip'[u] = ip[u]
      BY <2>2 DEF Goes
    <3> QED
      BY <3>1 DEF LoopTyped, Loop
  <2> QED
    BY <2>1, <2>2
<1> QED
  BY <1>1, <1>2 DEF LoopTyped, Loop

LEMMA TypesKept ==
  ASSUME LoopTyped, [Next]_vars
  PROVE  LoopTyped'
<1>1. CASE UNCHANGED vars
  BY <1>1 DEF LoopTyped, Loop, vars, control
<1>2. CASE Next
  <2>1. PICK t \in Threads : Step(t)
    BY <1>2 DEF Next
  <2> DEFINE k == ip[t]
  <2>2. /\ idx \in Int /\ end \in Int /\ chunkSz \in Int /\ minChunk \in Int /\ sched \in Sched
        /\ ip \in [Threads -> 1 .. Len(Program) + 1] /\ arrived \in [Threads -> Nat]
        /\ ran \in [Numbered -> [Int32 -> Nat]]
    BY DEF LoopTyped
  <2>3. /\ loc[t].pc # "next" => k \in Numbered
        /\ loc[t].pc \notin {"next", "static", "leave"} => Program[k].sched # "static"
        /\ loc[t].pc = "static" => Program[k].sched = "static"
    BY DEF LoopTyped, Loop
  <2>4. /\ loc[t].size \in Int /\ loc[t].start \in Int /\ loc[t].end \in Int
        /\ k \in 1 .. Len(Program) + 1
    BY LocalTypes
  <2>5. k \in Numbered => /\ Program[k].start \in Int /\ Program[k].end \in Int
                          /\ Program[k].minChunk \in Int /\ Program[k].sched \in Sched
                          /\ LeastChunk(Program[k]) \in Int
    BY LoopTypes DEF Least
  <2> HIDE DEF k
  <2>6. CASE Begin(t)
    <3> DEFINE p == IF Program[k].sched = "static" THEN "static" ELSE "initBounds"
    <3>1. Go(t, p) /\ UNCHANGED <<control, ip, arrived, ran>> /\ k <= Len(Program)
      BY <2>6 DEF Begin, Loop, k
    <3>2. p \in PC
      BY DEF PC
    <3>3. Goes(t, p, loc[t].size, loc[t].start, loc[t].end)
      BY <3>1, <3>2, GoGoes
    <3>4. k \in Numbered
      BY <2>4, <3>1, SizesAre DEF Numbered
    <3> QED
      BY <2>2, <3>1, <3>3, <3>4, KeepsTypes DEF control, k
  <2>7. CASE InitBounds(t)
    <3>1. /\ Go(t, "initChunk") /\ UNCHANGED <<chunkSz, minChunk, sched, ip, arrived, ran>>
          /\ idx' = Program[k].start /\ end' = Program[k].end /\ loc[t].pc = "initBounds"
      BY <2>7 DEF InitBounds, At, Loop, k
    <3>2. Goes(t, "initChunk", loc[t].size, loc[t].start, loc[t].end)
      BY <3>1, GoGoes DEF PC
    <3> QED
      BY <2>2, <2>3, <2>5, <3>1, <3>2, KeepsTypes DEF k
  <2>8. CASE InitChunk(t)
    <3> DEFINE n == Wrap(Program[k].end - Program[k].start)
    <3>1. /\ Go(t, "initFix") /\ UNCHANGED <<idx, end, minChunk, sched, ip, arrived, ran>>
          /\ chunkSz' = (IF Program[k].sched = "guided" THEN Share(n) ELSE 1)
          /\ loc[t].pc = "initChunk"
      BY <2>8 DEF InitChunk, At, Loop, k
    <3>2. Goes(t, "initFix", loc[t].size, loc[t].start, loc[t].end)
      BY <3>1, GoGoes DEF PC
    <3>3. k \in Numbered /\ n \in Int
      BY <2>3, <2>5, <3>1, WrapInt
    <3> HIDE DEF n
    <3>4. Share(n) \in Int
      BY <3>3, ShareMonotone
    <3>5. chunkSz' \in Int
      BY <3>1, <3>4
    <3> QED
      BY <2>2, <2>3, <3>1, <3>2, <3>5, KeepsTypes DEF k
  <2>9. CASE InitFix(t)
    <3>1. /\ Arrive(t, "enter") /\ UNCHANGED <<idx, end, ip, ran>>
          /\ chunkSz' = Larger(chunkSz, LeastChunk(Program[k]))
          /\ minChunk' = LeastChunk(Program[k]) /\ sched' = Program[k].sched
          /\ loc[t].pc = "initFix"
      BY <2>9 DEF InitFix, At, Loop, k
    <3>2. Goes(t, "enter", loc[t].size, loc[t].start, loc[t].end) /\ arrived' \in [Threads -> Nat]
      BY <3>1, ArriveGoes DEF PC
    <3>3. chunkSz' \in Int
      BY <2>2, <2>3, <2>5, <3>1, LargerIs
    <3> QED
      BY <2>2, <2>3, <2>5, <3>1, <3>2, <3>3, KeepsTypes DEF k
  <2>10. CASE Enter(t)
    <3>1. /\ Go(t, "load") /\ UNCHANGED <<control, ip, arrived, ran>> /\ loc[t].pc = "enter"
      BY <2>10 DEF Enter, At
    <3>2. Goes(t, "load", loc[t].size, loc[t].start, loc[t].end)
      BY <3>1, GoGoes DEF PC
    <3> QED
      BY <2>2, <2>3, <3>1, <3>2, KeepsTypes DEF k, control
  <2>11. CASE ChunkLoad(t)
    <3>1. UNCHANGED <<control, ip, arrived, ran>> /\ loc[t].pc = "load"
      BY <2>11 DEF ChunkLoad, At
    <3>2. Goes(t, "add", chunkSz, loc[t].start, loc[t].end)
      BY <2>11, LoadGoes
    <3> QED
      BY <2>2, <2>3, <3>1, <3>2, KeepsTypes DEF k, control
  <2>12. CASE ChunkAdd(t)
    <3> DEFINE p == IF sched = "guided" THEN "update" ELSE "body"
               e == ChunkEnd(idx, Wrap(idx + loc[t].size))
    <3>1. /\ UNCHANGED <<end, chunkSz, minChunk, sched, ip, arrived, ran>> /\ loc[t].pc = "add"
          /\ idx' = Wrap(idx + loc[t].size)
      BY <2>12 DEF ChunkAdd, At
    <3>2. Goes(t, p, loc[t].size, idx, e)
      BY <2>12, AddGoes
    <3>3. idx' \in Int
      <4>1. idx + loc[t].size \in Int
        BY <2>2, <2>4
      <4> QED
        BY <3>1, <4>1, WrapInt
    <3> HIDE DEF e
    <3> QED
      BY <2>2, <2>3, <3>1, <3>2, <3>3, KeepsTypes DEF k
  <2>13. CASE ChunkUpdate(t)
    <3> DEFINE s == Share(Wrap(end - loc[t].start))
    <3>1. /\ Go(t, "body") /\ UNCHANGED <<idx, end, minChunk, sched, ip, arrived, ran>>
          /\ chunkSz' = Larger(s, minChunk) /\ loc[t].pc = "update"
      BY <2>13 DEF ChunkUpdate, At
    <3>2. Goes(t, "body", loc[t].size, loc[t].start, loc[t].end)
      BY <3>1, GoGoes DEF PC
    <3>3. s \in Int
      <4> DEFINE n == Wrap(end - loc[t].start)
      <4>1. end - loc[t].start \in Int
        BY <2>2, <2>4
      <4>2. n \in Int
        BY <4>1, WrapInt
      <4> HIDE DEF n
      <4>3. Share(n) \in Int
        BY <4>2, ShareMonotone
      <4> QED
        BY <4>3 DEF n
    <3> HIDE DEF s
    <3>4. chunkSz' \in Int
      BY <2>2, <3>1, <3>3, LargerIs
    <3> QED
      BY <2>2, <2>3, <3>1, <3>2, <3>4, KeepsTypes DEF k
  <2>14. CASE Body(t)
    <3>1. /\ Execute(t, loc[t].start, loc[t].end) /\ UNCHANGED <<control, ip>>
          /\ loc[t].pc = "body"
          /\ (Go(t, "load") /\ UNCHANGED arrived) \/ Arrive(t, "leave")
      BY <2>14 DEF Body, At
    <3>2. ran' \in [Numbered -> [Int32 -> Nat]]
      BY <2>3, <3>1, Executed DEF k
    <3>3. CASE Go(t, "load") /\ UNCHANGED arrived
      <4>1. Goes(t, "load", loc[t].size, loc[t].start, loc[t].end)
        BY <3>3, GoGoes DEF PC
      <4> QED
        BY <2>2, <2>3, <3>1, <3>2, <3>3, <4>1, KeepsTypes DEF k, control
    <3>4. CASE Arrive(t, "leave")
      <4>1. Goes(t, "leave", loc[t].size, loc[t].start, loc[t].end) /\ arrived' \in [Threads -> Nat]
        BY <3>4, ArriveGoes DEF PC
      <4> QED
        BY <2>2, <2>3, <3>1, <3>2, <4>1, KeepsTypes DEF k, control
    <3> QED
      BY <3>1, <3>3, <3>4
  <2>15. CASE Static(t)
    <3> DEFINE from == BlockSz(Loop(t)) * t + Loop(t).start
               to == StaticEnd(t, Loop(t)) + Loop(t).start
    <3>1. Execute(t, from, to) /\ UNCHANGED <<control, ip>> /\ loc[t].pc = "static" /\ Arrive(t, "leave")
      BY <2>15 DEF Static, At
    <3> HIDE DEF from, to
    <3>2. ran' \in [Numbered -> [Int32 -> Nat]]
      BY <2>3, <3>1, Executed DEF k
    <3>3. Goes(t, "leave", loc[t].size, loc[t].start, loc[t].end) /\ arrived' \in [Threads -> Nat]
      BY <3>1, ArriveGoes DEF PC
    <3> QED
      BY <2>2, <2>3, <3>1, <3>2, <3>3, KeepsTypes DEF k, control
  <2>16. CASE Leave(t)
    <3>1. /\ UNCHANGED <<control, arrived, ran>> /\ loc[t].pc = "leave"
          /\ ip' = [ip EXCEPT ![t] = ip[t] + 1]
      BY <2>16 DEF Leave, At
    <3>2. Goes(t, "next", 0, 0, 0)
      BY <2>16, LeaveGoes
    <3>3. Len(Program) \in Nat /\ ip[t] \in 1 .. Len(Program)
      BY <2>3, <3>1, SizesAre DEF Numbered, k
    <3>4. ip[t] + 1 \in 1 .. Len(Program) + 1
      BY <3>3
    <3>5. ip' \in [Threads -> 1 .. Len(Program) + 1] /\ \A u \in Threads \ {t} : ip'[u] = ip[u]
      BY <2>2, <3>1, <3>4
    <3> QED
      BY <2>2, <3>1, <3>2, <3>5, KeepsTypes DEF control
  <2> QED
    BY <2>1, <2>6, <2>7, <2>8, <2>9, <2>10, <2>11, <2>12, <2>13, <2>14, <2>15, <2>16 DEF Step
<1> QED
  BY <1>1, <1>2

-------------------------------------------------------------------------------
(* Barriers *)

LEMMA PartIs ==
  ASSUME NEW t \in Threads
  PROVE  /\ Part(t) \in {0, 1, 2}
         /\ loc[t].pc \in {"enter", "load", "add", "update", "body"} => Part(t) = 1
         /\ loc[t].pc = "leave" => Part(t) = IF IsStatic(ip[t]) THEN 1 ELSE 2
         /\ loc[t].pc \in {"next", "initBounds", "initChunk", "initFix", "static"} => Part(t) = 0
         /\ Inside(t, ip[t]) => Part(t) >= 1
  BY DEF Part, Chunks, Inside

\* Threads between two barriers are at the same loop.
LEMMA SameLoop ==
  ASSUME LoopTyped, Lockstep, NEW t \in Threads, NEW u \in Threads,
         loc[t].pc # "leave", loc[u].pc # "leave"
  PROVE  ip[t] = ip[u]
<1>1. ip[t] \in Nat /\ ip[u] \in Nat
  BY LocalTypes
<1>2. ~(ip[t] > ip[u]) /\ ~(ip[u] > ip[t])
  BY DEF Lockstep
<1> QED
  BY <1>1, <1>2

\* A step inside a loop by which t passes no barrier, or one nobody is behind of.
LEMMA LockstepMove ==
  ASSUME LoopTyped, Lockstep, NEW t \in Threads, loc[t].pc # "leave",
         ip' = ip, \A u \in Threads \ {t} : loc'[u] = loc[u] /\ arrived'[u] = arrived[u],
         arrived'[t] \in Nat,
         Part(t)' >= Part(t), arrived'[t] - Part(t)' = arrived[t] - Part(t),
         Inside(t, ip[t])' =>
           Inside(t, ip[t]) \/ \A u \in Threads : ip[u] >= ip[t] /\ (ip[u] = ip[t] => Part(u) >= 1)
  PROVE  Lockstep'
<1> DEFINE base(u) == arrived[u] - Part(u)
<1>1. \A u \in Threads : arrived[u] \in Nat /\ ip[u] \in Nat /\ Part(u) \in {0, 1, 2}
  BY LocalTypes, PartIs
<1>2. Part(t)' \in {0, 1, 2} /\ (Inside(t, ip[t])' => Part(t)' >= 1)
  BY DEF Part, Chunks, Inside
<1>3. \A u \in Threads \ {t} : /\ Part(u)' = Part(u) /\ base(u)' = base(u)
                               /\ Inside(u, ip[u])' <=> Inside(u, ip[u])
  BY DEF Part, Inside
<1>4. base(t)' = base(t)
  OBVIOUS
<1>5. \A u \in Threads : ip[u] > ip[t] => FALSE
  BY DEF Lockstep
<1>6. ASSUME NEW u \in Threads, NEW v \in Threads, ip[u] = ip[v]
      PROVE  base(u) = base(v) /\ (Inside(u, ip[u]) => Part(v) >= 1)
  BY <1>6 DEF Lockstep
<1>7. ASSUME NEW u \in Threads, NEW v \in Threads, ip[u] > ip[v]
      PROVE  ip[u] = ip[v] + 1 /\ loc[v].pc = "leave" /\ ~Inside(u, ip[u]) /\ base(u) = arrived[v]
  BY <1>7 DEF Lockstep
<1> HIDE DEF base
<1>8. ASSUME NEW u \in Threads, NEW v \in Threads, ip[u]' = ip[v]'
      PROVE  base(u)' = base(v)' /\ (Inside(u, ip[u])' => Part(v)' >= 1)
  <2>1. ip[u] = ip[v]
    BY <1>8
  <2>2. base(u)' = base(v)'
    BY <1>3, <1>4, <1>6, <2>1
  <2>3. ASSUME Inside(u, ip[u])' PROVE Part(v)' >= 1
    <3>1. CASE u = t /\ v = t
      BY <1>2, <2>3, <3>1
    <3>2. CASE u = t /\ v # t
      <4>1. Part(v) >= 1
        BY <1>6, <2>1, <2>3, <3>2
      <4> QED
        BY <1>3, <3>2, <4>1
    <3>3. CASE u # t /\ v = t
      <4>1. Part(t) >= 1
        BY <1>3, <1>6, <2>1, <2>3, <3>3
      <4> QED
        BY <1>1, <1>2, <3>3, <4>1
    <3>4. CASE u # t /\ v # t
      BY <1>3, <1>6, <2>1, <2>3, <3>4
    <3> QED
      BY <3>1, <3>2, <3>3, <3>4
  <2> QED
    BY <2>2, <2>3
<1>9. ASSUME NEW u \in Threads, NEW v \in Threads, ip[u]' > ip[v]'
      PROVE  ip[u]' = ip[v]' + 1 /\ loc'[v].pc = "leave" /\ ~Inside(u, ip[u])' /\ base(u)' = arrived[v]'
  <2>1. ip[u] > ip[v] /\ v # t
    BY <1>5, <1>9
  <2>2. ip[u]' = ip[v]' + 1 /\ loc'[v].pc = "leave" /\ arrived[v]' = arrived[v] /\ base(u)' = arrived[v]
    BY <1>3, <1>4, <1>7, <2>1
  <2>3. ~Inside(u, ip[u])'
    <3>1. CASE u = t
      BY <1>1, <1>7, <2>1, <3>1
    <3>2. CASE u # t
      BY <1>3, <1>7, <2>1, <3>2
    <3> QED
      BY <3>1, <3>2
  <2> QED
    BY <2>2, <2>3
<1> QED
  BY <1>8, <1>9 DEF Lockstep, base

\* The last one to arrive at the end of loop k lets all others go on.
LEMMA LockstepLeave ==
  ASSUME LoopTyped, Lockstep, NEW t \in Threads, Leave(t)
  PROVE  /\ Lockstep'
         /\ \A u \in Threads : /\ ip[u] >= ip[t]
                               /\ ip[u] = ip[t] => loc[u].pc = "leave"
<1> DEFINE base(u) == arrived[u] - Part(u)
           k == ip[t]
<1>1. \A u \in Threads : arrived[u] \in Nat /\ ip[u] \in Nat /\ Part(u) \in {0, 1, 2}
  BY LocalTypes, PartIs
<1>2. ASSUME NEW u \in Threads, NEW v \in Threads, ip[u] = ip[v]
      PROVE  base(u) = base(v) /\ (Inside(u, ip[u]) => Part(v) >= 1)
  BY <1>2 DEF Lockstep
<1>3. ASSUME NEW u \in Threads, NEW v \in Threads, ip[u] > ip[v]
      PROVE  ip[u] = ip[v] + 1 /\ loc[v].pc = "leave" /\ ~Inside(u, ip[u]) /\ base(u) = arrived[v]
  BY <1>3 DEF Lockstep
<1>4. /\ loc[t].pc = "leave" /\ \A u \in Threads : arrived[u] >= arrived[t]
      /\ arrived' = arrived /\ ip' = [ip EXCEPT ![t] = ip[t] + 1]
  BY DEF Leave, At, Everybody
<1>5. loc'[t].pc = "next" /\ \A u \in Threads \ {t} : loc'[u] = loc[u]
  BY LeaveGoes DEF Goes
<1>6. ip'[t] = k + 1 /\ \A u \in Threads \ {t} : ip'[u] = ip[u]
  BY <1>4 DEF LoopTyped
<1>7. Part(t) = (IF IsStatic(k) THEN 1 ELSE 2)
  BY <1>4, PartIs
<1>8. base(t) = arrived[t] - Part(t)
  OBVIOUS
<1>9. Part(t)' = 0 /\ base(t)' = arrived[t] /\ ~Inside(t, ip[t])'
  <2>1. Part(t)' = 0 /\ ~Inside(t, ip[t])'
    BY <1>5 DEF Part, Inside, Chunks
  <2> QED
    BY <1>1, <1>4, <2>1
<1>10. \A u \in Threads \ {t} : /\ Part(u)' = Part(u) /\ base(u)' = base(u)
                                /\ Inside(u, ip[u])' <=> Inside(u, ip[u])
  BY <1>4, <1>5, <1>6 DEF Part, Inside
<1>11. \A u \in Threads : ip[u] = k => base(u) = arrived[u] - Part(u)
  OBVIOUS
<1> HIDE DEF base
<1>12. ASSUME NEW u \in Threads PROVE ip[u] >= k
  <2>1. CASE ip[u] < k
    <3>1. base(t) = arrived[u]
      BY <1>3, <2>1
    <3> QED
      BY <1>1, <1>4, <1>7, <1>8, <3>1
  <2> QED
    BY <1>1, <2>1
<1>13. ASSUME NEW u \in Threads, ip[u] = k PROVE loc[u].pc = "leave" /\ arrived[u] = arrived[t]
  <2>1. arrived[u] - Part(u) = arrived[t] - Part(t)
    BY <1>2, <1>8, <1>11, <1>13
  <2>2. Part(u) >= Part(t)
    BY <1>1, <1>4, <2>1
  <2>3. loc[u].pc \in {"enter", "load", "add", "update", "body"} => ~IsStatic(k)
    BY <1>13 DEF LoopTyped, Loop, IsStatic
  <2>4. loc[u].pc \in PC
    BY LocalTypes
  <2>5. loc[u].pc = "leave"
    BY <1>7, <2>2, <2>3, <2>4, PartIs DEF PC
  <2>6. Part(u) = Part(t)
    BY <1>13, <1>7, <2>5, PartIs
  <2> QED
    BY <1>1, <2>1, <2>5, <2>6
<1>14. ASSUME NEW u \in Threads, ip[u] > k
       PROVE  ip[u] = k + 1 /\ ~Inside(u, ip[u]) /\ base(u) = arrived[t]
  BY <1>3, <1>14
<1>15. ASSUME NEW u \in Threads, NEW v \in Threads, ip'[u] = ip'[v]
       PROVE  base(u)' = base(v)' /\ (Inside(u, ip[u])' => Part(v)' >= 1)
  <2>1. CASE u = t /\ v = t
    BY <1>9, <2>1
  <2>2. CASE u = t /\ v # t
    <3>1. ip[v] > k
      BY <1>1, <1>6, <1>15, <2>2
    <3> QED
      BY <1>9, <1>10, <1>14, <2>2, <3>1
  <2>3. CASE u # t /\ v = t
    <3>1. ip[u] > k
      BY <1>1, <1>6, <1>15, <2>3
    <3> QED
      BY <1>9, <1>10, <1>14, <2>3, <3>1
  <2>4. CASE u # t /\ v # t
    <3>1. ip[u] = ip[v]
      BY <1>6, <1>15, <2>4
    <3> QED
      BY <1>2, <1>10, <2>4, <3>1
  <2> QED
    BY <2>1, <2>2, <2>3, <2>4
<1>16. ASSUME NEW u \in Threads, NEW v \in Threads, ip'[u] > ip'[v]
       PROVE  ip'[u] = ip'[v] + 1 /\ loc'[v].pc = "leave" /\ ~Inside(u, ip[u])' /\ base(u)' = arrived'[v]
  <2>1. CASE v = t
    <3>1. u # t /\ ip[u] > k + 1
      BY <1>1, <1>6, <1>16, <2>1
    <3> QED
      BY <1>1, <1>14, <3>1
  <2>2. CASE u = t /\ v # t
    <3>1. ip[v] = k
      <4>1. ip[v] <= k
        BY <1>1, <1>6, <1>16, <2>2
      <4> QED
        BY <1>1, <1>12, <4>1
    <3> QED
      BY <1>4, <1>5, <1>6, <1>9, <1>13, <2>2, <3>1
  <2>3. CASE u # t /\ v # t
    <3>1. ip[u] > ip[v]
      BY <1>6, <1>16, <2>3
    <3> QED
      BY <1>3, <1>4, <1>5, <1>6, <1>10, <2>3, <3>1
  <2> QED
    BY <2>1, <2>2, <2>3
<1>17. Lockstep'
  BY <1>15, <1>16 DEF Lockstep, base
<1> QED
  BY <1>12, <1>13, <1>17

\* The first one to enter finds all others at its barrier.
LEMMA EnterTogether ==
  ASSUME LoopTyped, Lockstep, NEW t \in Threads, Enter(t)
  PROVE  \A u \in Threads : ip[u] = ip[t] /\ Part(u) >= 1
<1>1. \A u \in Threads : arrived[u] \in Nat /\ ip[u] \in Nat /\ Part(u) \in {0, 1, 2}
  BY LocalTypes, PartIs
<1>2. loc[t].pc = "enter" /\ \A u \in Threads : arrived[u] >= arrived[t]
  BY DEF Enter, At, Everybody
<1>3. Part(t) = 1
  BY <1>2, PartIs
<1>4. ASSUME NEW u \in Threads PROVE ip[u] = ip[t] /\ Part(u) >= 1
  <2>1. ip[u] > ip[t] => FALSE
    BY <1>2 DEF Lockstep
  <2>2. CASE ip[u] < ip[t]
    <3>1. arrived[t] - Part(t) = arrived[u]
      BY <2>2 DEF Lockstep
    <3> QED
      BY <1>1, <1>2, <1>3, <3>1
  <2>3. CASE ip[u] = ip[t]
    <3>1. arrived[t] - Part(t) = arrived[u] - Part(u)
      BY <2>3 DEF Lockstep
    <3>2. Part(u) >= 1
      BY <1>1, <1>2, <1>3, <3>1
    <3> QED
      BY <2>3, <3>2
  <2> QED
    BY <1>1, <2>1, <2>2, <2>3
<1> QED
  BY <1>4

\* How the program counter moves inside a loop.
Onwards(p, q) ==
  \/ p = "next" /\ q \in {"static", "initBounds"}
  \/ p = "initBounds" /\ q = "initChunk"
  \/ p = "initChunk" /\ q = "initFix"
  \/ p = "initFix" /\ q = "enter"
  \/ p = "enter" /\ q = "load"
  \/ p = "load" /\ q = "add"
  \/ p = "add" /\ q \in {"update", "body"}
  \/ p = "update" /\ q = "body"
  \/ p = "body" /\ q \in {"load", "leave"}
  \/ p = "static" /\ q = "leave"

Arrives(p, q) == p = "initFix" \/ q = "leave"

LEMMA InnerSteps ==
  ASSUME LoopTyped, NEW t \in Threads, Step(t), ~Leave(t)
  PROVE  /\ loc[t].pc # "leave" /\ Onwards(loc[t].pc, loc'[t].pc)
         /\ ip' = ip /\ ip[t] \in Numbered
         /\ \A u \in Threads \ {t} : loc'[u] = loc[u] /\ arrived'[u] = arrived[u]
         /\ arrived'[t] = arrived[t] + (IF Arrives(loc[t].pc, loc'[t].pc) THEN 1 ELSE 0)
<1>1. arrived[t] \in Nat /\ ip[t] \in 1 .. Len(Program) + 1
  BY LocalTypes
<1>2. loc[t].pc # "next" => ip[t] \in Numbered
  BY DEF LoopTyped
<1>3. ASSUME NEW p \in PC, Go(t, p), arrived' = arrived, ip' = ip, ip[t] \in Numbered,
             Onwards(loc[t].pc, p), loc[t].pc # "leave", loc[t].pc # "initFix", p # "leave"
      PROVE  /\ loc[t].pc # "leave" /\ Onwards(loc[t].pc, loc'[t].pc)
             /\ ip' = ip /\ ip[t] \in Numbered
             /\ \A u \in Threads \ {t} : loc'[u] = loc[u] /\ arrived'[u] = arrived[u]
             /\ arrived'[t] = arrived[t] + (IF Arrives(loc[t].pc, loc'[t].pc) THEN 1 ELSE 0)
  <2>1. loc'[t].pc = p /\ \A u \in Threads \ {t} : loc'[u] = loc[u]
    <3>1. Goes(t, p, loc[t].size, loc[t].start, loc[t].end)
      BY <1>3, GoGoes
    <3> QED
      BY <3>1 DEF Goes
  <2> QED
    BY <1>1, <1>3, <2>1 DEF Arrives
<1>4. ASSUME NEW p \in PC, Arrive(t, p), ip' = ip, ip[t] \in Numbered,
             Onwards(loc[t].pc, p), loc[t].pc # "leave", loc[t].pc = "initFix" \/ p = "leave"
      PROVE  /\ loc[t].pc # "leave" /\ Onwards(loc[t].pc, loc'[t].pc)
             /\ ip' = ip /\ ip[t] \in Numbered
             /\ \A u \in Threads \ {t} : loc'[u] = loc[u] /\ arrived'[u] = arrived[u]
             /\ arrived'[t] = arrived[t] + (IF Arrives(loc[t].pc, loc'[t].pc) THEN 1 ELSE 0)
  <2>1. /\ loc'[t].pc = p /\ \A u \in Threads \ {t} : loc'[u] = loc[u]
        /\ arrived'[t] = arrived[t] + 1 /\ \A u \in Threads \ {t} : arrived'[u] = arrived[u]
    <3>1. /\ Goes(t, p, loc[t].size, loc[t].start, loc[t].end)
          /\ arrived'[t] = arrived[t] + 1 /\ \A u \in Threads \ {t} : arrived'[u] = arrived[u]
      BY <1>4, ArriveGoes
    <3> QED
      BY <3>1 DEF Goes
  <2> QED
    BY <1>4, <2>1 DEF Arrives
<1>5. CASE Begin(t)
  <2> DEFINE p == IF Loop(t).sched = "static" THEN "static" ELSE "initBounds"
  <2>1. ip[t] \in Numbered
    BY <1>1, <1>5, SizesAre DEF Begin, Numbered
  <2>2. Go(t, p) /\ arrived' = arrived /\ ip' = ip /\ loc[t].pc = "next"
    BY <1>5 DEF Begin, At
  <2>3. p \in PC /\ Onwards("next", p) /\ p # "leave"
    BY DEF PC, Onwards
  <2> HIDE DEF p
  <2> QED
    BY <1>3, <2>1, <2>2, <2>3
<1>6. CASE InitBounds(t)
  BY <1>2, <1>3, <1>6 DEF InitBounds, At, PC, Onwards
<1>7. CASE InitChunk(t)
  BY <1>2, <1>3, <1>7 DEF InitChunk, At, PC, Onwards
<1>8. CASE InitFix(t)
  BY <1>2, <1>4, <1>8 DEF InitFix, At, PC, Onwards
<1>9. CASE Enter(t)
  BY <1>2, <1>3, <1>9 DEF Enter, At, PC, Onwards
<1>10. CASE ChunkLoad(t)
  <2>1. loc'[t].pc = "add" /\ \A u \in Threads \ {t} : loc'[u] = loc[u]
    <3>1. Goes(t, "add", chunkSz, loc[t].start, loc[t].end)
      BY <1>10, LoadGoes
    <3> QED
      BY <3>1 DEF Goes
  <2>2. loc[t].pc = "load" /\ ip' = ip /\ arrived' = arrived
    BY <1>10 DEF ChunkLoad, At
  <2> QED
    BY <1>1, <1>2, <2>1, <2>2 DEF Onwards, Arrives
<1>11. CASE ChunkAdd(t)
  <2>1. loc'[t].pc \in {"update", "body"} /\ \A u \in Threads \ {t} : loc'[u] = loc[u]
    <3> DEFINE e == ChunkEnd(idx, Wrap(idx + loc[t].size))
               p == IF sched = "guided" THEN "update" ELSE "body"
    <3>1. Goes(t, p, loc[t].size, idx, e)
      BY <1>11, AddGoes
    <3>2. p \in {"update", "body"}
      OBVIOUS
    <3> HIDE DEF e, p
    <3> QED
      BY <3>1, <3>2 DEF Goes
  <2>2. loc[t].pc = "add" /\ ip' = ip /\ arrived' = arrived
    BY <1>11 DEF ChunkAdd, At
  <2> QED
    BY <1>1, <1>2, <2>1, <2>2 DEF Onwards, Arrives
<1>12. CASE ChunkUpdate(t)
  BY <1>2, <1>3, <1>12 DEF ChunkUpdate, At, PC, Onwards
<1>13. CASE Body(t)
  <2>1. ip' = ip /\ loc[t].pc = "body" /\ ((Go(t, "load") /\ arrived' = arrived) \/ Arrive(t, "leave"))
    BY <1>13 DEF Body, At
  <2>2. "load" \in PC /\ "leave" \in PC /\ Onwards("body", "load") /\ Onwards("body", "leave")
    BY DEF PC, Onwards
  <2> QED
    BY <1>2, <1>3, <1>4, <2>1, <2>2
<1>14. CASE Static(t)
  <2>1. ip' = ip /\ loc[t].pc = "static" /\ Arrive(t, "leave")
    BY <1>14 DEF Static, At
  <2>2. "leave" \in PC /\ Onwards("static", "leave")
    BY DEF PC, Onwards
  <2> QED
    BY <1>2, <1>4, <2>1, <2>2
<1> QED
  BY <1>5, <1>6, <1>7, <1>8, <1>9, <1>10, <1>11, <1>12, <1>13, <1>14 DEF Step

LEMMA LockstepKept ==
  ASSUME LoopTyped, Lockstep, [Next]_vars
  PROVE  Lockstep'
<1>1. CASE UNCHANGED vars
  BY <1>1 DEF Lockstep, Part, Inside, vars, control
<1>2. CASE Next
  <2>1. PICK t \in Threads : Step(t)
    BY <1>2 DEF Next
  <2>2. CASE Leave(t)
    BY <2>2, LockstepLeave
  <2>3. CASE ~Leave(t)
    <3> DEFINE p == loc[t].pc
               q == loc'[t].pc
    <3>1. /\ p # "leave" /\ Onwards(p, q) /\ ip' = ip
          /\ \A u \in Threads \ {t} : loc'[u] = loc[u] /\ arrived'[u] = arrived[u]
          /\ arrived'[t] = arrived[t] + (IF Arrives(p, q) THEN 1 ELSE 0)
      BY <2>1, <2>3, InnerSteps
    <3>2. arrived[t] \in Nat /\ Part(t) \in {0, 1, 2}
      BY LocalTypes, PartIs
    <3>3. p # "static" /\ p # "next" => ~IsStatic(ip[t])
      BY <3>1 DEF LoopTyped, Loop, IsStatic
    <3>4. p = "static" => IsStatic(ip[t])
      BY DEF LoopTyped, Loop, IsStatic
    <3>5. /\ Part(t) = IF p \in {"enter", "load", "add", "update", "body"} THEN 1 ELSE 0
          /\ Part(t)' = IF q \in {"enter", "load", "add", "update", "body"} THEN 1
                        ELSE IF q = "leave" THEN (IF IsStatic(ip[t]) THEN 1 ELSE 2) ELSE 0
      BY <3>1 DEF Part, Chunks
    <3>6. Part(t)' >= Part(t) /\ arrived'[t] - Part(t)' = arrived[t] - Part(t) /\ arrived'[t] \in Nat
      BY <3>1, <3>2, <3>3, <3>4, <3>5 DEF Onwards, Arrives
    <3>7. ASSUME Inside(t, ip[t])'
          PROVE  Inside(t, ip[t]) \/ \A u \in Threads : ip[u] >= ip[t] /\ (ip[u] = ip[t] => Part(u) >= 1)
      <4>1. CASE p = "enter"
        <5>1. Enter(t)
          BY <2>1, <2>3, <4>1 DEF Step, At, Begin, InitBounds, InitChunk, InitFix, ChunkLoad, ChunkAdd,
                                  ChunkUpdate, Body, Static
        <5>2. \A u \in Threads : ip[u] = ip[t] /\ Part(u) >= 1
          BY <5>1, EnterTogether
        <5>3. \A u \in Threads : ip[u] \in Nat
          BY LocalTypes
        <5> QED
          BY <5>2, <5>3
      <4>2. CASE p # "enter"
        <5>1. p \in Chunks
          BY <3>1, <3>4, <3>7, <4>2 DEF Inside, Chunks, Onwards
        <5> QED
          BY <5>1 DEF Inside
      <4> QED
        BY <4>1, <4>2
    <3> HIDE DEF p, q
    <3>8. p = loc[t].pc
      BY DEF p
    <3> QED
      BY <3>1, <3>6, <3>7, <3>8, LockstepMove
  <2> QED
    BY <2>2, <2>3
<1> QED
  BY <1>1, <1>2

-------------------------------------------------------------------------------
(* The words of the control block *)

LEMMA ThreadsFinite == IsFiniteSet(Threads) /\ Cardinality(Threads) = NThreads
<1>1. NThreads \in Nat \ {0}
  BY SizesAre
<1>2. NThreads - 1 \in Int /\ 0 \in Int /\ 0 <= NThreads - 1 /\ (NThreads - 1) - 0 + 1 = NThreads
  BY <1>1
<1>3. IsFiniteSet(0 .. NThreads - 1) /\ Cardinality(0 .. NThreads - 1) = NThreads
  BY <1>1, <1>2, FS_Interval
<1> QED
  BY <1>3 DEF Threads

LEMMA ThreadCount ==
  ASSUME NEW P \in SUBSET Threads
  PROVE  /\ IsFiniteSet(P) /\ Cardinality(P) \in Nat /\ Cardinality(P) <= NThreads
         /\ \A t \in Threads : t \notin P => Cardinality(P) <= NThreads - 1
<1>1. IsFiniteSet(Threads) /\ Cardinality(Threads) = NThreads
  BY ThreadsFinite
<1>2. IsFiniteSet(P) /\ Cardinality(P) <= Cardinality(Threads)
  BY <1>1, FS_Subset
<1>3. Cardinality(P) \in Nat
  BY <1>2, FS_CardinalityType
<1>4. ASSUME NEW t \in Threads, t \notin P PROVE Cardinality(P) <= NThreads - 1
  <2>1. IsFiniteSet(Threads \ {t}) /\ Cardinality(Threads \ {t}) = Cardinality(Threads) - 1
    BY <1>1, FS_RemoveElement
  <2>2. P \subseteq Threads \ {t}
    BY <1>4
  <2>3. Cardinality(P) <= Cardinality(Threads \ {t})
    BY <2>1, <2>2, FS_Subset
  <2> QED
    BY <1>1, <2>1, <2>3
<1> QED
  BY <1>1, <1>2, <1>3, <1>4

LEMMA PastCount ==
  ASSUME NEW k
  PROVE  /\ Past(k) \in SUBSET Threads
         /\ Cardinality(Past(k)) \in Nat /\ Cardinality(Past(k)) <= NThreads
         /\ \A t \in Threads : t \notin Past(k) => Cardinality(Past(k)) <= NThreads - 1
<1>1. Past(k) \in SUBSET Threads
  BY DEF Past
<1> QED
  BY <1>1, ThreadCount

\* All others are at the loop that t is inside of, past its first barrier.
LEMMA InsideTogether ==
  ASSUME LoopTyped, Lockstep, NEW t \in Threads, NEW k, Inside(t, k), NEW u \in Threads
  PROVE  /\ ip[t] = k /\ ip[u] >= k
         /\ loc[t].pc # "leave" => ip[u] = k
         /\ ip[u] = k => loc[u].pc \in {"enter", "leave"} \cup Chunks
<1>1. ip[t] = k /\ ip[t] \in Nat /\ ip[u] \in Nat /\ loc[u].pc \in PC
  BY LocalTypes DEF Inside
<1>2. ~(ip[t] > ip[u])
  BY <1>1 DEF Lockstep
<1>3. loc[t].pc # "leave" => ~(ip[u] > ip[t])
  BY DEF Lockstep
<1>4. ip[u] = k => Part(u) >= 1
  BY <1>1 DEF Lockstep
<1>5. ip[u] = k => loc[u].pc \in {"enter", "leave"} \cup Chunks
  BY <1>1, <1>4, PartIs DEF PC, Chunks
<1> QED
  BY <1>1, <1>2, <1>3, <1>5

\* Nobody is inside the loop that t has not entered.
LEMMA OutsideTogether ==
  ASSUME LoopTyped, Lockstep, NEW t \in Threads, NEW u \in Threads,
         loc[t].pc \in {"next", "initBounds", "initChunk", "initFix", "static"}
  PROVE  /\ ~Inside(u, ip[t])
         /\ loc[u].pc # "leave" => ip[u] = ip[t]
         /\ loc[u].pc \notin Chunks
<1>1. ip[t] \in Nat /\ ip[u] \in Nat
  BY LocalTypes
<1>2. ~Inside(u, ip[t])
  BY InsideTogether DEF Chunks
<1>3. loc[u].pc # "leave" => ip[u] = ip[t]
  BY <1>1 DEF Lockstep
<1>4. loc[u].pc \notin Chunks
  BY <1>2, <1>3 DEF Inside, Chunks
<1> QED
  BY <1>2, <1>3, <1>4

\* Steps inside a loop: who is inside it afterwards.
LEMMA InsideKept ==
  ASSUME LoopTyped, NEW t \in Threads, Step(t), ~Leave(t), NEW u \in Threads, NEW k
  PROVE  /\ Inside(u, k) => Inside(u, k)'
         /\ Inside(u, k)' => Inside(u, k) \/ (u = t /\ Enter(t))
<1>1. /\ loc[t].pc # "leave" /\ Onwards(loc[t].pc, loc'[t].pc) /\ ip' = ip
      /\ \A v \in Threads \ {t} : loc'[v] = loc[v]
  BY InnerSteps
<1>2. CASE u # t
  BY <1>1, <1>2 DEF Inside
<1>3. CASE u = t
  <2>1. Inside(t, k) => Inside(t, k)'
    <3>1. Inside(t, k) => ip[t] = k /\ loc[t].pc \in Chunks /\ ~IsStatic(k)
      BY <1>1 DEF Inside, LoopTyped, Loop, IsStatic, Chunks
    <3> QED
      BY <1>1, <3>1 DEF Inside, Onwards, Chunks
  <2>2. ASSUME Inside(t, k)', ~Inside(t, k) PROVE Enter(t)
    <3>1. loc[t].pc = "static" => IsStatic(ip[t])
      BY DEF LoopTyped, Loop, IsStatic
    <3>2. loc[t].pc = "enter"
      BY <1>1, <2>2, <3>1 DEF Inside, Onwards, Chunks
    <3> QED
      BY <3>2 DEF Step, At, Begin, InitBounds, InitChunk, InitFix, ChunkLoad, ChunkAdd,
                  ChunkUpdate, Body, Static, Leave
  <2> QED
    BY <1>3, <2>1, <2>2
<1> QED
  BY <1>2, <1>3

\* Inside a loop that all threads are at, the index stays in the range of an int32_t.
LEMMA ReachFits ==
  ASSUME Fits, LoopTyped, Lockstep, Words, NEW t \in Threads, loc[t].pc \in Chunks
  PROVE  LET k == ip[t]
             m == Most(Program[k]) IN
         /\ k \in Numbered /\ ~IsStatic(k) /\ WordsAt(t, k) /\ Inside(t, k)
         /\ \A u \in Threads : ip[u] = k
         /\ Program[k].start <= idx
         /\ idx <= Program[k].end + (Cardinality(Past(k)) + 1) * m
         /\ idx <= Program[k].end + (NThreads + 1) * m
         /\ m \in Nat \ {0}
         /\ end = Program[k].end /\ minChunk = Least(k) /\ sched = Program[k].sched
         /\ chunkSz <= m /\ chunkSz >= Least(k)
<1> DEFINE k == ip[t]
           m == Most(Program[k])
           c == Cardinality(Past(k))
<1>1. k \in Numbered /\ ~IsStatic(k)
  BY DEF LoopTyped, Loop, IsStatic, Chunks
<1>2. Inside(t, k)
  BY DEF Inside
<1>3. \A u \in Threads : ip[u] = k /\ loc[u].pc # "initFix"
  BY <1>2, InsideTogether DEF Chunks
<1>4. WordsAt(t, k)
  BY <1>1 DEF Words
<1>5. /\ Program[k].start <= idx
      /\ idx <= Program[k].end + (c + 1) * m
  BY <1>2, <1>3, <1>4 DEF WordsAt, Reach
<1>6. c \in Nat /\ c <= NThreads /\ NThreads \in Nat
  BY PastCount, SizesAre
<1>7. m \in Nat \ {0}
  BY <1>1, LeastMost, LoopTypes
<1>8. Program[k].end \in Int /\ idx \in Int
  BY <1>1, LoopTypes DEF LoopTyped
<1>9. /\ end = Program[k].end /\ minChunk = Least(k) /\ sched = Program[k].sched
      /\ chunkSz <= m /\ chunkSz >= Least(k)
  BY <1>3, <1>4 DEF WordsAt, Sizes
<1> HIDE DEF k, c, m
<1>10. (c + 1) * m <= (NThreads + 1) * m
  BY <1>6, <1>7
<1>11. (c + 1) * m \in Int /\ (NThreads + 1) * m \in Int
  BY <1>6, <1>7
<1>12. idx <= Program[k].end + (NThreads + 1) * m
  BY <1>5, <1>8, <1>10, <1>11
<1> QED
  BY <1>1, <1>2, <1>3, <1>4, <1>5, <1>7, <1>9, <1>12 DEF k, c, m

\* A thread takes the iterations from idx to idx + size - 1, as far as there are any.
LEMMA AddFacts ==
  ASSUME Fits, LoopTyped, Lockstep, Words, NEW t \in Threads, ChunkAdd(t)
  PROVE  LET k == ip[t]
             m == Most(Program[k])
             last == Program[k].end IN
         /\ idx' = idx + loc[t].size /\ idx' > idx /\ idx' <= idx + m
         /\ loc'[t].pc \in {"update", "body"} /\ loc'[t].start = idx /\ loc'[t].end \in Int
         /\ loc'[t].pc = "update" => Program[k].sched = "guided"
         /\ idx < last => idx < loc'[t].end /\ loc'[t].end <= last /\ loc'[t].end <= idx'
         /\ idx < last /\ idx' <= last => loc'[t].end = idx'
         /\ idx < last /\ idx' > last => loc'[t].end = last
         /\ idx >= last => loc'[t].end <= idx
<1> DEFINE k == ip[t]
           m == Most(Program[k])
           s == loc[t].size
           stop == idx + s
           e == ChunkEnd(idx, stop)
           last == Program[k].end
<1>1. loc[t].pc = "add"
  BY DEF ChunkAdd, At
<1>2. /\ k \in Numbered /\ ~IsStatic(k) /\ WordsAt(t, k)
      /\ Program[k].start <= idx
      /\ idx <= last + (Cardinality(Past(k)) + 1) * m
      /\ m \in Nat \ {0} /\ end = last /\ sched = Program[k].sched
  BY <1>1, ReachFits DEF Chunks
<1>3. Least(k) <= s /\ s <= m
  BY <1>1, <1>2 DEF WordsAt, Sizes
<1>4. 1 <= Least(k) /\ Least(k) \in Nat /\ last + (NThreads + 1) * m < HalfRange
  BY <1>2, LeastMost, LoopTypes
<1>5. Program[k].start \in Int32 /\ Program[k].start \in Int /\ last \in Int /\ last \in Int32
  BY <1>2, LoopTypes
<1>6. s \in Int /\ idx \in Int
  BY LocalTypes DEF LoopTyped
<1>7. t \notin Past(k)
  BY <1>1 DEF Past
<1> DEFINE c == Cardinality(Past(k))
<1>8. c \in Nat /\ c <= NThreads - 1 /\ NThreads \in Nat
  BY <1>7, PastCount, SizesAre
<1> HIDE DEF k, m, s, c, last
<1>9. (c + 2) * m <= (NThreads + 1) * m /\ (c + 2) * m \in Int /\ (NThreads + 1) * m \in Int
  BY <1>2, <1>8
<1>10. (c + 1) * m + m = (c + 2) * m /\ (c + 1) * m \in Int
  BY <1>2, <1>8
<1>11. idx <= last + (c + 1) * m
  BY <1>2 DEF c
<1>12. stop <= last + (NThreads + 1) * m
  BY <1>2, <1>3, <1>5, <1>6, <1>9, <1>10, <1>11
<1>13. stop < HalfRange
  BY <1>4, <1>5, <1>6, <1>9, <1>12, SizesAre
<1>14. stop > -HalfRange
  <2>1. -HalfRange <= Program[k].start
    BY <1>5, SizesAre DEF Int32
  <2>2. Program[k].start <= idx
    BY <1>2
  <2>3. 1 <= s
    <3> DEFINE least == Least(k)
    <3>1. least <= s /\ 1 <= least /\ least \in Nat
      BY <1>3, <1>4
    <3> HIDE DEF least
    <3> QED
      BY <1>6, <3>1
  <2> QED
    BY <1>5, <1>6, <2>1, <2>2, <2>3, SizesAre
<1>15. stop \in Int32
  BY <1>6, <1>13, <1>14, SizesAre DEF Int32
<1>16. Wrap(stop) = stop
  BY <1>15, WrapSmall
<1>17. idx' = stop
  BY <1>16 DEF ChunkAdd, s
<1>18. idx' = idx + s /\ idx' > idx /\ idx' <= idx + m
  BY <1>2, <1>3, <1>4, <1>6, <1>17
<1> DEFINE p == IF sched = "guided" THEN "update" ELSE "body"
<1>19. Goes(t, p, s, idx, e) /\ e \in Int
  BY <1>16, AddGoes DEF s
<1>20. loc'[t].pc = p /\ loc'[t].start = idx /\ loc'[t].end = e
  BY <1>19 DEF Goes
<1>21. p \in {"update", "body"} /\ (p = "update" => Program[k].sched = "guided")
  BY <1>2
<1>22. e = (LET f == IF idx > last THEN 0 ELSE stop IN IF f > last THEN last ELSE f)
  BY <1>2 DEF ChunkEnd
<1> HIDE DEF e, p
<1>23. stop > idx
  BY <1>17, <1>18
<1>24. /\ idx < last => idx < e /\ e <= last /\ e <= stop
       /\ idx < last /\ stop <= last => e = stop
       /\ idx < last /\ stop > last => e = last
       /\ idx >= last => e <= idx
  BY <1>5, <1>6, <1>22, <1>23
<1> HIDE DEF stop
<1> QED
  BY <1>17, <1>18, <1>19, <1>20, <1>21, <1>24 DEF k, m, s, last

\* What a step stores as the size of a chunk.
LEMMA SizeStored ==
  ASSUME Fits, LoopTyped, Lockstep, Words, NEW t \in Threads, Step(t), chunkSz' # chunkSz
  PROVE  LET k == ip[t] IN
         /\ k \in Numbered /\ ~Leave(t) /\ loc[t].pc \in {"initChunk", "initFix", "update"}
         /\ chunkSz' <= Most(Program[k])
         /\ chunkSz' >= Least(k) \/ loc'[t].pc = "initFix"
<1> DEFINE k == ip[t]
           l == Program[k]
<1>1. InitChunk(t) \/ InitFix(t) \/ ChunkUpdate(t)
  BY DEF Step, Begin, InitBounds, Enter, ChunkLoad, ChunkAdd, Body, Static, Leave, control
<1>2. loc[t].pc \in {"initChunk", "initFix", "update"}
  BY <1>1 DEF InitChunk, InitFix, ChunkUpdate, At
<1>3. ~Leave(t)
  BY <1>2 DEF Leave, At
<1>4. k \in Numbered /\ ~IsStatic(k)
  BY <1>2 DEF LoopTyped, Loop, IsStatic
<1>5. /\ l.start \in Int /\ l.end \in Int /\ l.minChunk \in Nat /\ Least(k) \in Nat /\ Most(l) \in Int
      /\ l.sched \in Sched
  BY <1>4, LoopTypes
<1>6. /\ 1 <= Least(k) /\ Least(k) <= Most(l) /\ l.start <= l.end
      /\ l.end + (NThreads + 1) * Most(l) < HalfRange /\ (NThreads + 1) * Most(l) < HalfRange
  BY <1>4, LeastMost
<1>7. CASE InitChunk(t)
  <2> DEFINE n == l.end - l.start
  <2>1. chunkSz' = (IF l.sched = "guided" THEN Share(Wrap(n)) ELSE 1) /\ Go(t, "initFix")
    BY <1>7 DEF InitChunk, Loop
  <2>2. Goes(t, "initFix", loc[t].size, loc[t].start, loc[t].end)
    BY <2>1, GoGoes DEF PC
  <2>3. loc'[t].pc = "initFix"
    BY <2>2 DEF Goes
  <2>4. l.sched = "guided" => Share(Wrap(n)) <= Most(l)
    <3> HIDE DEF l
    <3>1. n \in Int /\ n <= l.end - l.start /\ n > -HalfRange
      <4>1. n \in Int /\ n >= 0
        BY <1>5, <1>6
      <4> QED
        BY <4>1, <1>5, SizesAre
    <3> QED
      BY <1>4, <3>1, ShareFits DEF l
  <2>5. chunkSz' <= Most(l)
    BY <1>5, <1>6, <2>1, <2>4
  <2> QED
    BY <1>2, <1>3, <1>4, <2>3, <2>5
<1>8. CASE InitFix(t)
  <2>1. chunkSz' = Larger(chunkSz, Least(k)) /\ loc[t].pc = "initFix"
    BY <1>8 DEF InitFix, Loop, Least, At
  <2>2. chunkSz <= Most(l)
    BY <1>4, <2>1 DEF Words, WordsAt, Sizes
  <2>3. chunkSz \in Int
    BY DEF LoopTyped
  <2>4. Larger(chunkSz, Least(k)) \in {chunkSz, Least(k)} /\ Larger(chunkSz, Least(k)) >= Least(k)
    BY <1>5, <2>3, LargerIs
  <2>5. chunkSz' <= Most(l) /\ chunkSz' >= Least(k)
    BY <1>6, <2>1, <2>2, <2>4
  <2> QED
    BY <1>2, <1>3, <1>4, <2>5
<1>9. CASE ChunkUpdate(t)
  <2> DEFINE n == end - loc[t].start
  <2>1. chunkSz' = Larger(Share(Wrap(n)), minChunk) /\ loc[t].pc = "update"
    BY <1>9 DEF ChunkUpdate, At
  <2>2. /\ WordsAt(t, k) /\ idx <= l.end + (NThreads + 1) * Most(l)
        /\ Most(l) \in Nat \ {0} /\ end = l.end /\ minChunk = Least(k) /\ sched = l.sched
    BY <2>1, ReachFits DEF Chunks
  <2>3. l.start <= loc[t].start /\ loc[t].start < idx
    BY <2>1, <2>2 DEF WordsAt, Given
  <2>4. loc[t].start \in Int /\ idx \in Int
    BY LocalTypes DEF LoopTyped
  <2> DEFINE m == (NThreads + 1) * Most(l)
  <2>5. m \in Int /\ idx <= l.end + m /\ m < HalfRange
    BY <1>6, <2>2, SizesAre
  <2> HIDE DEF m, l
  <2>6. n \in Int /\ n <= l.end - l.start /\ n > -HalfRange
    <3>1. n \in Int /\ n <= l.end - l.start
      BY <1>5, <2>2, <2>3, <2>4
    <3>2. loc[t].start < l.end + HalfRange
      BY <1>5, <2>3, <2>4, <2>5, SizesAre
    <3>3. end = l.end
      BY <2>2
    <3> QED
      BY <1>5, <2>4, <3>1, <3>2, <3>3, SizesAre
  <2>7. Share(Wrap(n)) \in Int
    <3> DEFINE w == Wrap(n)
    <3>1. w \in Int
      BY <2>6, WrapInt
    <3> HIDE DEF w
    <3>2. Share(w) \in Int
      BY <3>1, ShareMonotone
    <3> QED
      BY <3>2 DEF w
  <2>8. l.sched = "guided"
    BY <2>1, <2>2 DEF WordsAt, Given, l
  <2>9. Share(Wrap(n)) <= Most(l)
    BY <1>4, <2>6, <2>8, ShareFits DEF l
  <2> DEFINE s == Share(Wrap(n))
  <2> HIDE DEF n
  <2>10. s \in Int /\ s <= Most(l) /\ chunkSz' = Larger(s, Least(k))
    BY <2>1, <2>2, <2>7, <2>9 DEF n
  <2> HIDE DEF s
  <2>11. Larger(s, Least(k)) \in {s, Least(k)} /\ Larger(s, Least(k)) >= Least(k)
    BY <1>5, <2>10, LargerIs
  <2>12. chunkSz' <= Most(l) /\ chunkSz' >= Least(k)
    BY <1>6, <2>10, <2>11
  <2> QED
    BY <1>2, <1>3, <1>4, <2>12 DEF l
<1> QED
  BY <1>1, <1>7, <1>8, <1>9

\* What a step may do to the words of the control block.
LEMMA WordSteps ==
  ASSUME LoopTyped, NEW t \in Threads, Step(t)
  PROVE  /\ idx' # idx => InitBounds(t) \/ ChunkAdd(t)
         /\ end' # end => InitBounds(t)
         /\ minChunk' # minChunk => InitFix(t)
         /\ sched' # sched => InitFix(t)
         /\ loc[t].pc = "initBounds" => InitBounds(t)
         /\ loc[t].pc = "initFix" => InitFix(t)
         /\ loc[t].pc = "load" => ChunkLoad(t)
         /\ loc[t].pc = "add" => ChunkAdd(t)
         /\ loc[t].pc = "body" => Body(t)
         /\ loc[t].pc = "leave" => Leave(t)
         /\ InitBounds(t) => loc[t].pc = "initBounds"
         /\ InitFix(t) => loc[t].pc = "initFix"
         /\ ChunkAdd(t) => loc[t].pc = "add"
         /\ Leave(t) => loc[t].pc = "leave" /\ ~Enter(t) /\ idx' = idx
<1>1. /\ idx' # idx => InitBounds(t) \/ ChunkAdd(t)
      /\ end' # end => InitBounds(t)
      /\ minChunk' # minChunk => InitFix(t)
      /\ sched' # sched => InitFix(t)
  BY DEF Step, Begin, InitBounds, InitChunk, InitFix, Enter, ChunkLoad, ChunkAdd, ChunkUpdate, Body,
         Static, Leave, control
<1>2. /\ loc[t].pc = "initBounds" => InitBounds(t)
      /\ loc[t].pc = "initFix" => InitFix(t)
      /\ loc[t].pc = "load" => ChunkLoad(t)
      /\ loc[t].pc = "add" => ChunkAdd(t)
      /\ loc[t].pc = "body" => Body(t)
      /\ loc[t].pc = "leave" => Leave(t)
  BY DEF Step, Begin, InitBounds, InitChunk, InitFix, Enter, ChunkLoad, ChunkAdd, ChunkUpdate, Body,
         Static, Leave, At
<1>3. /\ InitBounds(t) => loc[t].pc = "initBounds"
      /\ InitFix(t) => loc[t].pc = "initFix"
      /\ ChunkAdd(t) => loc[t].pc = "add"
      /\ Leave(t) => loc[t].pc = "leave" /\ ~Enter(t) /\ idx' = idx
  BY DEF InitBounds, InitFix, ChunkAdd, Leave, Enter, At, control
<1> QED
  BY <1>1, <1>2, <1>3

\* A thread that leaves changes nothing of what the others rely on.
LEMMA WordsAfterLeave ==
  ASSUME LoopTyped, Lockstep, Words, NEW t \in Threads, Leave(t),
         NEW u \in Threads, NEW k \in Numbered, ip'[u] = k
  PROVE  WordsAt(u, k)'
<1>1. /\ loc'[t].pc = "next" /\ \A v \in Threads \ {t} : loc'[v] = loc[v]
  BY LeaveGoes DEF Goes
<1>2. /\ ip'[t] = ip[t] + 1 /\ \A v \in Threads \ {t} : ip'[v] = ip[v]
      /\ idx' = idx /\ end' = end /\ chunkSz' = chunkSz /\ minChunk' = minChunk /\ sched' = sched
      /\ loc[t].pc = "leave"
  BY DEF Leave, LoopTyped, At, control
<1>3. CASE u = t
  BY <1>1, <1>3 DEF WordsAt, Bounds, Sizes, Given, Reach, Inside, Chunks
<1>4. CASE u # t
  <2>1. ip[u] = k /\ loc'[u] = loc[u] /\ WordsAt(u, k)
    BY <1>1, <1>2, <1>4 DEF Words
  <2>2. \A v \in Threads : v # t => (Inside(v, k)' <=> Inside(v, k))
    BY <1>1, <1>2 DEF Inside
  <2>3. Bounds(u, k)'
    <3>1. SUFFICES ASSUME loc[u].pc # "leave", \A v \in Threads : ~Inside(v, k)',
                          loc[u].pc \in {"initChunk", "initFix", "enter"}
                   PROVE  idx = Program[k].start /\ end = Program[k].end
      BY <1>2, <2>1 DEF Bounds
    <3>2. ip[t] # k
      BY <2>1, <3>1, LockstepLeave
    <3>3. \A v \in Threads : ~Inside(v, k)
      BY <2>2, <3>1, <3>2 DEF Inside
    <3> QED
      BY <2>1, <3>1, <3>3 DEF WordsAt, Bounds
  <2>4. Sizes(u, k)'
    <3>1. \A v \in Threads : ip[v] = k /\ loc[v].pc = "initFix" => ip'[v] = k /\ loc'[v].pc = "initFix"
      BY <1>1, <1>2
    <3> QED
      BY <1>2, <2>1, <3>1 DEF WordsAt, Sizes
  <2>5. Given(u, k)'
    BY <1>2, <2>1 DEF WordsAt, Given
  <2>6. Reach(u, k)'
    <3>1. SUFFICES ASSUME Inside(u, k)', \A v \in Threads : ip'[v] = k PROVE FALSE
      BY DEF Reach
    <3>2. Inside(u, k) /\ ip[t] \in Nat /\ ip[t] + 1 = k
      BY <1>2, <1>4, <2>2, <3>1, LocalTypes
    <3> QED
      BY <2>1, <3>2, InsideTogether, LocalTypes
  <2> QED
    BY <2>3, <2>4, <2>5, <2>6 DEF WordsAt
<1> QED
  BY <1>3, <1>4

LEMMA BoundsKept ==
  ASSUME LoopTyped, Lockstep, Words, NEW t \in Threads, Step(t), ~Leave(t),
         NEW u \in Threads, NEW k \in Numbered, ip[u] = k
  PROVE  Bounds(u, k)'
<1>1. /\ loc[t].pc # "leave" /\ Onwards(loc[t].pc, loc'[t].pc) /\ ip' = ip
      /\ \A v \in Threads \ {t} : loc'[v] = loc[v]
  BY InnerSteps
<1>2. SUFFICES ASSUME loc'[u].pc \in {"initChunk", "initFix", "enter"}, \A v \in Threads : ~Inside(v, k)'
               PROVE  idx' = Program[k].start /\ end' = Program[k].end
  BY DEF Bounds
<1>3. \A v \in Threads : ~Inside(v, k)
  BY <1>2, InsideKept
<1>4. WordsAt(u, k)
  BY DEF Words
<1>5. loc[u].pc # "leave" /\ ip[t] = k
  <2>1. loc[u].pc # "leave"
    BY <1>1, <1>2
  <2>2. ip[t] = ip[u]
    BY <1>1, <2>1, SameLoop
  <2> QED
    BY <2>1, <2>2
<1>6. CASE InitBounds(t)
  BY <1>5, <1>6 DEF InitBounds, Loop
<1>7. CASE ~InitBounds(t)
  <2>1. loc[u].pc \in {"initChunk", "initFix", "enter"}
    BY <1>1, <1>2, <1>7, WordSteps DEF Onwards
  <2>2. ~ChunkAdd(t)
    <3>1. ChunkAdd(t) => Inside(t, k)
      BY <1>5, WordSteps DEF Inside, Chunks
    <3> QED
      BY <1>3, <3>1
  <2>3. idx' = idx /\ end' = end
    BY <1>7, <2>2, WordSteps
  <2> QED
    BY <1>3, <1>4, <2>1, <2>3 DEF WordsAt, Bounds
<1> QED
  BY <1>6, <1>7

LEMMA SizesKept ==
  ASSUME Fits, LoopTyped, Lockstep, Words, NEW t \in Threads, Step(t), ~Leave(t),
         NEW u \in Threads, NEW k \in Numbered, ip[u] = k
  PROVE  Sizes(u, k)'
<1>1. /\ loc[t].pc # "leave" /\ Onwards(loc[t].pc, loc'[t].pc) /\ ip' = ip
      /\ \A v \in Threads \ {t} : loc'[v] = loc[v]
  BY InnerSteps
<1>2. WordsAt(u, k)
  BY DEF Words
<1>3. loc'[u].pc \in {"initFix", "enter"} \cup Chunks => ip[t] = k /\ loc[u].pc # "leave"
  <2>1. SUFFICES ASSUME loc'[u].pc \in {"initFix", "enter"} \cup Chunks
                 PROVE  ip[t] = k /\ loc[u].pc # "leave"
    OBVIOUS
  <2>2. loc[u].pc # "leave"
    BY <1>1, <2>1 DEF Chunks
  <2> QED
    BY <1>1, <2>2, SameLoop
<1>4. ASSUME loc'[u].pc \in {"initFix", "enter"} \cup Chunks
      PROVE  chunkSz' <= Most(Program[k])
  <2>1. CASE chunkSz' # chunkSz
    BY <1>3, <1>4, <2>1, SizeStored
  <2>2. CASE chunkSz' = chunkSz
    <3>1. CASE loc[u].pc \in {"initFix", "enter"} \cup Chunks
      BY <1>2, <2>2, <3>1 DEF WordsAt, Sizes
    <3>2. CASE loc[u].pc \notin {"initFix", "enter"} \cup Chunks
      <4>1. u = t /\ loc[t].pc = "initChunk"
        BY <1>1, <1>4, <3>2 DEF Onwards, Chunks
      <4> DEFINE n == Program[k].end - Program[k].start
      <4>2. InitChunk(t)
        BY <4>1 DEF Step, Begin, InitBounds, InitFix, Enter, ChunkLoad, ChunkAdd, ChunkUpdate, Body,
                    Static, Leave, At
      <4>3. chunkSz' = IF Program[k].sched = "guided" THEN Share(Wrap(n)) ELSE 1
        BY <4>1, <4>2 DEF InitChunk, Loop
      <4>4. ~IsStatic(k)
        BY <4>1 DEF LoopTyped, Loop, IsStatic
      <4>5. n \in Int /\ n >= 0 /\ 1 <= Most(Program[k]) /\ Most(Program[k]) \in Int
        <5>1. Program[k].start \in Int /\ Program[k].end \in Int /\ Least(k) \in Nat /\ Most(Program[k]) \in Int
          BY LoopTypes
        <5>2. 1 <= Least(k) /\ Least(k) <= Most(Program[k]) /\ Program[k].start <= Program[k].end
          BY <4>4, LeastMost
        <5> QED
          BY <5>1, <5>2
      <4>6. n > -HalfRange
        BY <4>5, SizesAre
      <4>7. Program[k].sched = "guided" => Share(Wrap(n)) <= Most(Program[k])
        BY <4>5, <4>6, ShareFits
      <4> QED
        BY <4>3, <4>5, <4>7
    <3> QED
      BY <3>1, <3>2
  <2> QED
    BY <2>1, <2>2
<1>5. ASSUME loc'[u].pc \in {"enter"} \cup Chunks
      PROVE  /\ end' = Program[k].end /\ minChunk' = Least(k) /\ sched' = Program[k].sched
             /\ chunkSz' >= Least(k) \/ \E v \in Threads : ip'[v] = k /\ loc'[v].pc = "initFix"
  <2>1. ip[t] = k /\ loc[u].pc # "leave"
    BY <1>3, <1>5
  <2>2. CASE InitFix(t)
    <3>1. minChunk' = Least(k) /\ sched' = Program[k].sched /\ chunkSz' = Larger(chunkSz, Least(k))
      BY <2>1, <2>2 DEF InitFix, Loop, Least
    <3>2. chunkSz \in Int /\ Least(k) \in Int
      BY LoopTypes DEF LoopTyped
    <3>3. chunkSz' >= Least(k)
      BY <3>1, <3>2, LargerIs
    <3>4. loc[t].pc = "initFix" /\ end' = end
      BY <2>2 DEF InitFix, At
    <3>5. \A v \in Threads : ~Inside(v, k)
      BY <2>1, <3>4, OutsideTogether
    <3>6. WordsAt(t, k)
      BY <2>1 DEF Words
    <3>7. end = Program[k].end
      BY <3>4, <3>5, <3>6 DEF WordsAt, Bounds
    <3> QED
      BY <3>1, <3>3, <3>4, <3>7
  <2>3. CASE ~InitFix(t)
    <3>1. loc[t].pc # "initFix"
      BY <2>3, WordSteps
    <3>2. loc[u].pc \in {"enter"} \cup Chunks
      BY <1>1, <1>5, <3>1 DEF Onwards, Chunks
    <3>3. /\ end = Program[k].end /\ minChunk = Least(k) /\ sched = Program[k].sched
          /\ chunkSz >= Least(k) \/ \E v \in Threads : ip[v] = k /\ loc[v].pc = "initFix"
      BY <1>2, <3>2 DEF WordsAt, Sizes
    <3>4. end' = Program[k].end
      <4>1. InitBounds(t) => end' = Program[k].end
        BY <2>1 DEF InitBounds, Loop
      <4> QED
        BY <3>3, <4>1, WordSteps
    <3>5. minChunk' = Least(k) /\ sched' = Program[k].sched
      BY <2>3, <3>3, WordSteps
    <3>6. chunkSz' >= Least(k) \/ \E v \in Threads : ip'[v] = k /\ loc'[v].pc = "initFix"
      <4>1. CASE chunkSz' # chunkSz
        BY <1>1, <2>1, <4>1, SizeStored
      <4>2. CASE chunkSz' = chunkSz
        BY <1>1, <3>1, <3>3, <4>2
      <4> QED
        BY <4>1, <4>2
    <3> QED
      BY <3>4, <3>5, <3>6
  <2> QED
    BY <2>2, <2>3
<1>6. ASSUME loc'[u].pc = "add"
      PROVE  Least(k) <= loc'[u].size /\ loc'[u].size <= Most(Program[k])
  <2>1. CASE u = t
    <3>1. ChunkLoad(t)
      BY <1>1, <1>6, <2>1, WordSteps DEF Onwards
    <3>2. loc'[t].size = chunkSz
      <4>1. Goes(t, "add", chunkSz, loc[t].start, loc[t].end)
        BY <3>1, LoadGoes
      <4> QED
        BY <4>1 DEF Goes
    <3>3. loc[t].pc = "load"
      BY <3>1 DEF ChunkLoad, At
    <3>4. chunkSz <= Most(Program[k]) /\ chunkSz >= Least(k)
      BY <2>1, <3>3, ReachFits DEF Chunks
    <3>5. chunkSz \in Int /\ Least(k) \in Int
      BY LoopTypes DEF LoopTyped
    <3> QED
      BY <2>1, <3>2, <3>4, <3>5
  <2>2. CASE u # t
    BY <1>1, <1>2, <1>6, <2>2 DEF WordsAt, Sizes
  <2> QED
    BY <2>1, <2>2
<1> QED
  BY <1>4, <1>5, <1>6 DEF Sizes

\* A thread whose chunk is empty goes to the end of the loop, any other takes another chunk.
LEMMA BodyFacts ==
  ASSUME LoopTyped, NEW t \in Threads, Body(t), NEW k \in Numbered, ip[t] = k, Given(t, k)
  PROVE  /\ loc[t].start >= Program[k].end <=> loc'[t].pc = "leave"
         /\ loc'[t].pc \in {"load", "leave"}
         /\ Program[k].start <= loc[t].start /\ loc[t].start < idx
<1>1. loc[t].pc = "body"
  BY DEF Body, At
<1>2. loc[t].start \in Int /\ loc[t].end \in Int /\ Program[k].end \in Int
  BY LocalTypes, LoopTypes
<1>3. /\ Program[k].start <= loc[t].start /\ loc[t].start < idx
      /\ loc[t].start < Program[k].end => loc[t].start < loc[t].end
      /\ loc[t].start >= Program[k].end => loc[t].end <= loc[t].start
  BY <1>1 DEF Given
<1>4. CASE loc[t].end - loc[t].start > 0
  <2>1. Go(t, "load")
    BY <1>4 DEF Body
  <2>2. Goes(t, "load", loc[t].size, loc[t].start, loc[t].end)
    BY <2>1, GoGoes DEF PC
  <2>3. loc'[t].pc = "load"
    BY <2>2 DEF Goes
  <2> QED
    BY <1>2, <1>3, <1>4, <2>3
<1>5. CASE ~(loc[t].end - loc[t].start > 0)
  <2>1. Arrive(t, "leave")
    BY <1>5 DEF Body
  <2>2. Goes(t, "leave", loc[t].size, loc[t].start, loc[t].end)
    BY <2>1, ArriveGoes DEF PC
  <2>3. loc'[t].pc = "leave"
    BY <2>2 DEF Goes
  <2> QED
    BY <1>2, <1>3, <1>5, <2>3
<1> QED
  BY <1>4, <1>5

LEMMA UpdateFacts ==
  ASSUME LoopTyped, NEW t \in Threads, ChunkUpdate(t)
  PROVE  loc'[t].pc = "body" /\ loc'[t].start = loc[t].start /\ loc'[t].end = loc[t].end
<1>1. Go(t, "body")
  BY DEF ChunkUpdate
<1>2. Goes(t, "body", loc[t].size, loc[t].start, loc[t].end)
  BY <1>1, GoGoes DEF PC
<1> QED
  BY <1>2 DEF Goes

LEMMA IndexGrows ==
  ASSUME Fits, LoopTyped, Lockstep, Words, NEW t \in Threads, Step(t), ~InitBounds(t)
  PROVE  idx' >= idx /\ idx' \in Int
<1>1. idx \in Int
  BY DEF LoopTyped
<1>2. CASE ChunkAdd(t)
  <2>1. idx' = idx + loc[t].size /\ idx' > idx
    BY <1>2, AddFacts
  <2>2. loc[t].size \in Int
    BY LocalTypes
  <2> QED
    BY <1>1, <2>1, <2>2
<1>3. CASE ~ChunkAdd(t)
  BY <1>1, <1>3, WordSteps
<1> QED
  BY <1>2, <1>3

LEMMA GivenKept ==
  ASSUME Fits, LoopTyped, Lockstep, Words, NEW t \in Threads, Step(t), ~Leave(t),
         NEW u \in Threads, NEW k \in Numbered, ip[u] = k
  PROVE  Given(u, k)'
<1>1. /\ loc[t].pc # "leave" /\ Onwards(loc[t].pc, loc'[t].pc) /\ ip' = ip
      /\ \A v \in Threads \ {t} : loc'[v] = loc[v]
  BY InnerSteps
<1>2. Given(u, k)
  BY DEF Words, WordsAt
<1>3. Program[k].start \in Int /\ Program[k].end \in Int /\ idx \in Int
  BY LoopTypes DEF LoopTyped
<1>4. SUFFICES ASSUME loc'[u].pc \in {"update", "body"} PROVE Given(u, k)'
  BY DEF Given
<1>5. CASE u = t
  <2>1. loc[t].pc \in {"add", "update"}
    BY <1>1, <1>4, <1>5 DEF Onwards
  <2>2. CASE loc[t].pc = "add"
    <3>1. ChunkAdd(t)
      BY <2>2, WordSteps
    <3>2. Program[k].start <= idx
      BY <1>5, <2>2, ReachFits DEF Chunks
    <3>3. /\ idx' > idx /\ loc'[t].start = idx
          /\ loc'[t].pc = "update" => Program[k].sched = "guided"
          /\ idx < Program[k].end =>
               idx < loc'[t].end /\ loc'[t].end <= Program[k].end /\ loc'[t].end <= idx'
          /\ idx >= Program[k].end => loc'[t].end <= idx
      BY <1>5, <3>1, AddFacts
    <3> QED
      BY <1>3, <1>5, <3>2, <3>3 DEF Given
  <2>3. CASE loc[t].pc = "update"
    <3>1. ChunkUpdate(t)
      BY <2>3 DEF Step, Begin, InitBounds, InitChunk, InitFix, Enter, ChunkLoad, ChunkAdd, Body,
                  Static, Leave, At
    <3>2. idx' = idx
      BY <3>1 DEF ChunkUpdate
    <3>3. loc'[t].pc = "body" /\ loc'[t].start = loc[t].start /\ loc'[t].end = loc[t].end
      BY <3>1, UpdateFacts
    <3> QED
      BY <1>2, <1>5, <2>3, <3>2, <3>3 DEF Given
  <2> QED
    BY <2>1, <2>2, <2>3
<1>6. CASE u # t
  <2>1. loc'[u] = loc[u] /\ loc[u].pc \in {"update", "body"}
    BY <1>1, <1>4, <1>6
  <2>2. ~InitBounds(t)
    BY <2>1, WordSteps, OutsideTogether DEF Chunks
  <2>3. idx' >= idx /\ idx' \in Int
    BY <2>2, IndexGrows
  <2>4. loc[u].start \in Int /\ loc[u].end \in Int
    BY LocalTypes
  <2> QED
    BY <1>2, <1>3, <2>1, <2>3, <2>4 DEF Given
<1> QED
  BY <1>5, <1>6

LEMMA ReachKept ==
  ASSUME Fits, LoopTyped, Lockstep, Words, NEW t \in Threads, Step(t), ~Leave(t),
         NEW u \in Threads, NEW k \in Numbered, ip[u] = k
  PROVE  Reach(u, k)'
<1> DEFINE m == Most(Program[k])
           c == Cardinality(Past(k))
           d == Cardinality(Past(k)')
           last == Program[k].end
<1>1. /\ loc[t].pc # "leave" /\ Onwards(loc[t].pc, loc'[t].pc) /\ ip' = ip
      /\ \A v \in Threads \ {t} : loc'[v] = loc[v]
  BY InnerSteps
<1>2. SUFFICES ASSUME Inside(u, k)', \A v \in Threads : ip[v] = k
               PROVE  /\ Program[k].start <= idx'
                      /\ idx' <= last + (d + 1) * m
                      /\ loc'[u].pc = "leave" => last <= idx'
  BY <1>1 DEF Reach
<1>3. Program[k].start \in Int /\ last \in Int /\ idx \in Int /\ m \in Int
  BY LoopTypes DEF LoopTyped
<1>4. ~IsStatic(k)
  BY <1>1, <1>2 DEF Inside, LoopTyped, Loop, IsStatic, Chunks, Onwards
<1>5. m \in Nat \ {0} /\ Program[k].start <= last
  <2>1. Least(k) \in Nat /\ 1 <= Least(k) /\ Least(k) <= m /\ Program[k].start <= last
    BY <1>4, LeastMost, LoopTypes
  <2> QED
    BY <1>3, <2>1
<1>6. c \in Nat /\ Past(k) \in SUBSET Threads
  BY PastCount
<1>7. Past(k)' \in SUBSET Threads /\ d \in Nat /\ IsFiniteSet(Past(k)')
  <2>1. Past(k)' \in SUBSET Threads
    BY DEF Past
  <2> QED
    BY <2>1, ThreadCount
<1>8. \A v \in Threads : WordsAt(v, k)
  BY <1>2 DEF Words
<1> HIDE DEF m, c, d, last
<1>9. (d + 1) * m \in Int /\ (d + 1) * m >= m /\ (c + 1) * m \in Int
  BY <1>5, <1>6, <1>7
<1>10. CASE \A v \in Threads : ~Inside(v, k)
  <2>1. u = t /\ Enter(t)
    BY <1>2, <1>10, InsideKept
  <2>2. loc[t].pc = "enter" /\ idx' = idx /\ loc'[t].pc = "load"
    BY <1>1, <2>1 DEF Enter, At, control, Onwards
  <2>3. idx = Program[k].start
    BY <1>8, <1>10, <2>2 DEF WordsAt, Bounds
  <2> QED
    BY <1>3, <1>5, <1>9, <2>1, <2>2, <2>3
<1>11. CASE \E v \in Threads : Inside(v, k)
  <2>1. PICK v \in Threads : Inside(v, k)
    BY <1>11
  <2>2. Program[k].start <= idx /\ idx <= last + (c + 1) * m
    BY <1>2, <1>8, <2>1 DEF WordsAt, Reach, c, m, last
  <2>3. ~InitBounds(t)
    BY <1>2, <2>1, WordSteps, OutsideTogether
  <2>4. idx' >= idx /\ idx' \in Int
    BY <2>3, IndexGrows
  <2>5. Program[k].start <= idx'
    BY <1>3, <2>2, <2>4
  <2>6. loc'[u].pc = "leave" => last <= idx'
    <3>1. SUFFICES ASSUME loc'[u].pc = "leave" PROVE last <= idx
      BY <1>3, <2>4
    <3>2. CASE u # t
      <4>1. loc[u].pc = "leave" /\ Inside(u, k)
        BY <1>1, <1>2, <3>1, <3>2 DEF Inside
      <4> QED
        BY <1>2, <1>8, <4>1 DEF WordsAt, Reach, last
    <3>3. CASE u = t
      <4>1. loc[t].pc \in {"body", "static"}
        BY <1>1, <3>1, <3>3 DEF Onwards
      <4>2. loc[t].pc = "body"
        BY <1>2, <1>4, <4>1 DEF LoopTyped, Loop, IsStatic
      <4>3. Body(t)
        BY <4>2, WordSteps
      <4>4. Given(t, k)
        BY <1>8 DEF WordsAt
      <4>5. loc[t].start >= last /\ loc[t].start < idx
        BY <1>2, <3>1, <3>3, <4>3, <4>4, BodyFacts DEF last
      <4>6. loc[t].start \in Int
        BY LocalTypes
      <4> QED
        BY <1>3, <4>5, <4>6
    <3> QED
      BY <3>2, <3>3
  <2>7. idx' <= last + (d + 1) * m
    <3>1. \A w \in Threads \ {t} : w \in Past(k) <=> w \in Past(k)'
      BY <1>1 DEF Past
    <3>2. CASE ChunkAdd(t)
      <4>1. /\ idx' <= idx + m
            /\ loc'[t].pc \in {"update", "body"} /\ loc'[t].start = idx
        BY <1>2, <3>2, AddFacts DEF m
      <4>2. CASE idx < last
        BY <1>3, <1>9, <2>4, <4>1, <4>2
      <4>3. CASE idx >= last
        <5>1. t \in Past(k)'
          BY <1>1, <1>2, <4>1, <4>3 DEF Past, last
        <5>2. t \notin Past(k)
          BY <3>2, WordSteps DEF Past
        <5>3. Past(k)' = Past(k) \cup {t}
          BY <1>6, <1>7, <3>1, <5>1
        <5>4. IsFiniteSet(Past(k))
          BY <1>6, ThreadCount
        <5>5. d = c + 1
          BY <5>2, <5>3, <5>4, FS_AddElement DEF c, d
        <5>6. (d + 1) * m = (c + 1) * m + m
          BY <1>5, <1>6, <5>5
        <5> QED
          BY <1>3, <1>9, <2>2, <2>4, <4>1, <5>6
      <4> QED
        BY <1>3, <4>2, <4>3
    <3>3. CASE ~ChunkAdd(t)
      <4>1. idx' = idx
        BY <2>3, <3>3, WordSteps
      <4>2. t \in Past(k) => t \in Past(k)'
        <5>1. SUFFICES ASSUME t \in Past(k) PROVE t \in Past(k)'
          OBVIOUS
        <5>2. loc[t].pc \in {"update", "body"} /\ loc[t].start >= last
          BY <1>1, <5>1 DEF Past, last
        <5>3. CASE loc[t].pc = "update"
          <6>1. ChunkUpdate(t)
            BY <5>3 DEF Step, Begin, InitBounds, InitChunk, InitFix, Enter, ChunkLoad, ChunkAdd, Body,
                        Static, Leave, At
          <6>2. loc'[t].pc = "body" /\ loc'[t].start = loc[t].start
            BY <6>1, UpdateFacts
          <6> QED
            BY <1>1, <1>2, <5>2, <6>2 DEF Past, last
        <5>4. CASE loc[t].pc = "body"
          <6>1. Body(t) /\ Given(t, k)
            BY <1>8, <5>4, WordSteps DEF WordsAt
          <6>2. loc'[t].pc = "leave"
            BY <1>2, <5>2, <6>1, BodyFacts DEF last
          <6> QED
            BY <1>1, <1>2, <6>2 DEF Past
        <5> QED
          BY <5>2, <5>3, <5>4
      <4>3. Past(k) \subseteq Past(k)'
        BY <1>6, <3>1, <4>2
      <4>4. c <= d
        BY <1>7, <4>3, FS_Subset DEF c, d
      <4>5. (c + 1) * m <= (d + 1) * m
        BY <1>5, <1>6, <1>7, <4>4
      <4> QED
        BY <1>3, <1>9, <2>2, <4>1, <4>5
    <3> QED
      BY <3>2, <3>3
  <2> QED
    BY <2>5, <2>6, <2>7
<1> QED
  BY <1>10, <1>11

LEMMA WordsKept ==
  ASSUME Fits, LoopTyped, Lockstep, Words, [Next]_vars
  PROVE  Words'
<1>1. CASE UNCHANGED vars
  <2>1. \A k : Past(k)' = Past(k)
    BY <1>1 DEF Past, vars
  <2> QED
    BY <1>1, <2>1 DEF Words, WordsAt, Bounds, Sizes, Given, Reach, Inside, vars, control
<1>2. CASE Next
  <2>1. PICK t \in Threads : Step(t)
    BY <1>2 DEF Next
  <2>2. ASSUME NEW u \in Threads, NEW k \in Numbered, ip'[u] = k
        PROVE  WordsAt(u, k)'
    <3>1. CASE Leave(t)
      BY <2>2, <3>1, WordsAfterLeave
    <3>2. CASE ~Leave(t)
      <4>1. ip[u] = k
        BY <2>1, <2>2, <3>2, InnerSteps
      <4>2. Bounds(u, k)'
        BY <2>1, <3>2, <4>1, BoundsKept
      <4>3. Sizes(u, k)'
        BY <2>1, <3>2, <4>1, SizesKept
      <4>4. Given(u, k)'
        BY <2>1, <3>2, <4>1, GivenKept
      <4>5. Reach(u, k)'
        BY <2>1, <3>2, <4>1, ReachKept
      <4> QED
        BY <4>2, <4>3, <4>4, <4>5 DEF WordsAt
    <3> QED
      BY <3>1, <3>2
  <2> QED
    BY <2>2 DEF Words
<1> QED
  BY <1>1, <1>2

-------------------------------------------------------------------------------
(* The iterations *)

LEMMA RanElsewhere ==
  ASSUME LoopTyped, NEW t \in Threads, Step(t), NEW k \in Numbered, ip[t] # k
  PROVE  ran'[k] = ran[k]
<1>1. CASE Body(t) \/ Static(t)
  <2>1. PICK from, to : Execute(t, from, to)
    BY <1>1 DEF Body, Static
  <2>2. ip[t] \in Numbered
    BY <1>1 DEF Body, Static, At, LoopTyped
  <2> QED
    BY <2>1, <2>2, Executed
<1>2. CASE ~(Body(t) \/ Static(t))
  BY <1>2 DEF Step, Begin, InitBounds, InitChunk, InitFix, Enter, ChunkLoad, ChunkAdd, ChunkUpdate, Leave
<1> QED
  BY <1>1, <1>2

LEMMA LeaveFacts ==
  ASSUME LoopTyped, NEW t \in Threads, Leave(t)
  PROVE  /\ loc[t].pc = "leave" /\ loc'[t].pc = "next" /\ ip'[t] = ip[t] + 1 /\ ip[t] \in Numbered
         /\ \A u \in Threads \ {t} : loc'[u] = loc[u] /\ ip'[u] = ip[u]
         /\ idx' = idx /\ ran' = ran
<1>1. /\ loc'[t].pc = "next" /\ \A v \in Threads \ {t} : loc'[v] = loc[v]
  BY LeaveGoes DEF Goes
<1>2. /\ ip'[t] = ip[t] + 1 /\ \A v \in Threads \ {t} : ip'[v] = ip[v]
      /\ loc[t].pc = "leave" /\ idx' = idx /\ ran' = ran
  BY DEF Leave, LoopTyped, At, control
<1> QED
  BY <1>1, <1>2 DEF LoopTyped

\* A step of t is of no consequence for the loops t is not at.
LEMMA IteratedElsewhere ==
  ASSUME LoopTyped, Lockstep, NEW t \in Threads, Step(t), NEW k \in Numbered, ip[t] # k,
         Fits, Iterated(k)
  PROVE  Iterated(k)'
<1>1. ran'[k] = ran[k]
  BY RanElsewhere
<1>2. \A u \in Threads : ip[u] \in Nat
  BY LocalTypes
<1>3. /\ \A u \in Threads \ {t} : ip'[u] = ip[u] /\ loc'[u] = loc[u]
      /\ (ip'[t] = ip[t] \/ (ip'[t] = ip[t] + 1 /\ loc'[t].pc = "next"))
  <2>1. CASE Leave(t)
    BY <2>1, LeaveFacts
  <2>2. CASE ~Leave(t)
    BY <2>2, InnerSteps
  <2> QED
    BY <2>1, <2>2
<1>4. Open(k)' <=> Open(k)
  <2>1. k \in Nat
    BY SizesAre DEF Numbered
  <2>2. ip'[t] <= k <=> ip[t] <= k
    BY <1>2, <1>3, <2>1
  <2>3. \A u \in Threads : ip'[u] <= k <=> ip[u] <= k
    BY <1>3, <2>2
  <2> QED
    BY <2>3 DEF Open
<1>5. \A u \in Threads : Inside(u, k)' <=> Inside(u, k)
  BY <1>3 DEF Inside, Chunks
<1>6. \A u \in Threads : ip'[u] = k /\ loc'[u].pc = "leave" <=> ip[u] = k /\ loc[u].pc = "leave"
  BY <1>3
<1>7. ~Open(k)' => Exact(k)'
  BY <1>1, <1>4 DEF Iterated, Exact
<1>8. Open(k)' /\ IsStatic(k) => Blocks(k)'
  <2>1. SUFFICES ASSUME Blocks(k), IsStatic(k) PROVE Blocks(k)'
    BY <1>4 DEF Iterated
  <2>2. ASSUME NEW i \in Int32
        PROVE  ran'[k][i] = IF i \in Iterations(k) /\ ip'[Owner(k, i)] = k /\ loc'[Owner(k, i)].pc = "leave"
                            THEN 1 ELSE 0
    <3>1. i \in Iterations(k) => Owner(k, i) \in Threads
      BY <2>1, StaticBlocks
    <3> QED
      BY <1>1, <1>6, <2>1, <3>1 DEF Blocks
  <2> QED
    BY <2>2 DEF Blocks
<1>9. Open(k)' /\ ~IsStatic(k) /\ (\A u \in Threads : ~Inside(u, k)') => \A i \in Int32 : ran'[k][i] = 0
  BY <1>1, <1>4, <1>5 DEF Iterated
<1>10. ASSUME Open(k)', NEW u \in Threads, Inside(u, k)' PROVE FALSE
  <2>1. ip[t] >= k /\ ip[t] <= k
    BY <1>4, <1>5, <1>10, InsideTogether DEF Open
  <2> QED
    BY <1>2, <2>1, SizesAre DEF Numbered
<1> QED
  BY <1>7, <1>8, <1>9, <1>10 DEF Iterated

\* The first to leave a loop leaves it complete.
LEMMA IteratedLeave ==
  ASSUME Fits, LoopTyped, Lockstep, Words, NEW t \in Threads, Leave(t), NEW k \in Numbered, ip[t] = k,
         Iterated(k)
  PROVE  Iterated(k)'
<1>1. /\ loc[t].pc = "leave" /\ ip'[t] = k + 1 /\ ran' = ran
  BY LeaveFacts
<1>2. ~Open(k)'
  BY <1>1, SizesAre DEF Open, Numbered
<1>3. Exact(k)
  <2>1. CASE ~Open(k)
    BY <2>1 DEF Iterated
  <2>2. CASE Open(k)
    <3>1. \A u \in Threads : ip[u] = k /\ loc[u].pc = "leave"
      <4>1. \A u \in Threads : ip[u] >= k /\ ip[u] <= k /\ ip[u] \in Nat /\ k \in Nat
        BY <2>2, LockstepLeave, LocalTypes DEF Open
      <4>2. \A u \in Threads : ip[u] = k
        BY <4>1
      <4> QED
        BY <4>2, LockstepLeave
    <3>2. CASE IsStatic(k)
      <4>1. Blocks(k)
        BY <2>2, <3>2 DEF Iterated
      <4>2. \A i \in Int32 : i \in Iterations(k) => Owner(k, i) \in Threads
        BY <3>2, StaticBlocks
      <4> QED
        BY <3>1, <4>1, <4>2 DEF Blocks, Exact
    <3>3. CASE ~IsStatic(k)
      <4>1. Inside(t, k)
        BY <1>1, <3>3 DEF Inside
      <4>2. Claimed(k)
        BY <2>2, <4>1 DEF Iterated
      <4>3. \A u \in Threads, i \in Int32 : ~Pending(u, i)
        BY <3>1 DEF Pending
      <4>4. Reach(t, k)
        BY DEF Words, WordsAt
      <4>5. Program[k].end <= idx
        BY <1>1, <3>1, <4>1, <4>4 DEF Reach
      <4>6. Program[k].start \in Int /\ Program[k].end \in Int /\ idx \in Int
        BY LoopTypes DEF LoopTyped
      <4>7. \A i \in Iterations(k) : i < idx
        BY <4>5, <4>6 DEF Iterations
      <4> QED
        BY <4>2, <4>3, <4>7 DEF Claimed, Exact
    <3> QED
      BY <3>2, <3>3
  <2> QED
    BY <2>1, <2>2
<1> QED
  BY <1>1, <1>2, <1>3 DEF Iterated, Exact

\* Nobody is past the loop of a thread that is not at its end.
LEMMA OpenHere ==
  ASSUME LoopTyped, Lockstep, NEW t \in Threads, Step(t), ~Leave(t), NEW k \in Numbered, ip[t] = k
  PROVE  Open(k) /\ Open(k)'
<1>1. loc[t].pc # "leave" /\ ip' = ip
  BY InnerSteps
<1>2. ASSUME NEW u \in Threads PROVE ip[u] <= k
  <2>1. ip[u] \in Nat /\ ip[t] \in Nat
    BY LocalTypes
  <2>2. ~(ip[u] > ip[t])
    BY <1>1 DEF Lockstep
  <2> QED
    BY <2>1, <2>2
<1> QED
  BY <1>1, <1>2 DEF Open

\* Until somebody has entered a loop nothing of it has been executed.
LEMMA IteratedBefore ==
  ASSUME Fits, LoopTyped, Lockstep, NEW t \in Threads, Step(t), ~Leave(t),
         NEW k \in Numbered, ip[t] = k, Iterated(k),
         Begin(t) \/ InitBounds(t) \/ InitChunk(t) \/ InitFix(t)
  PROVE  Iterated(k)'
<1>1. /\ loc[t].pc \in {"next", "initBounds", "initChunk", "initFix"} /\ ran' = ran /\ ~Enter(t)
  BY DEF Begin, InitBounds, InitChunk, InitFix, Enter, At
<1>2. Open(k) /\ Open(k)'
  BY OpenHere
<1>3. \A u \in Threads : ~Inside(u, k) /\ ~Inside(u, k)'
  <2>1. \A u \in Threads : ~Inside(u, k)
    BY <1>1, OutsideTogether
  <2> QED
    BY <1>1, <2>1, InsideKept
<1>4. /\ ip' = ip /\ loc'[t].pc # "leave" /\ \A u \in Threads \ {t} : loc'[u] = loc[u]
  BY <1>1, InnerSteps DEF Onwards
<1>5. CASE IsStatic(k)
  <2>1. Blocks(k)
    BY <1>2, <1>5 DEF Iterated
  <2>2. \A u \in Threads : loc'[u].pc = "leave" <=> loc[u].pc = "leave"
    BY <1>1, <1>4
  <2>3. \A i \in Int32 : i \in Iterations(k) => Owner(k, i) \in Threads
    BY <1>5, StaticBlocks
  <2>4. Blocks(k)'
    BY <1>1, <1>4, <2>1, <2>2, <2>3 DEF Blocks
  <2> QED
    BY <1>2, <1>3, <1>5, <2>4 DEF Iterated
<1>6. CASE ~IsStatic(k)
  <2>1. \A i \in Int32 : ran'[k][i] = 0
    BY <1>1, <1>2, <1>3, <1>6 DEF Iterated
  <2> QED
    BY <1>2, <1>3, <1>6, <2>1 DEF Iterated
<1> QED
  BY <1>5, <1>6

\* A thread of a static loop executes its block, which no other thread does.
LEMMA IteratedStatic ==
  ASSUME Fits, LoopTyped, Lockstep, NEW t \in Threads, Static(t), Step(t), ~Leave(t),
         NEW k \in Numbered, ip[t] = k, Iterated(k)
  PROVE  Iterated(k)'
<1> DEFINE from == BlockSz(Program[k]) * t + Program[k].start
           to == StaticEnd(t, Program[k]) + Program[k].start
<1>1. loc[t].pc = "static" /\ Execute(t, from, to) /\ ~Enter(t)
  BY DEF Static, Enter, At, Loop
<1>2. Open(k) /\ Open(k)' /\ IsStatic(k)
  BY <1>1, OpenHere DEF LoopTyped, Loop, IsStatic
<1>3. \A u \in Threads : ~Inside(u, k) /\ ~Inside(u, k)'
  <2>1. \A u \in Threads : ~Inside(u, k)
    BY <1>1, OutsideTogether
  <2> QED
    BY <1>1, <2>1, InsideKept
<1>4. /\ ip' = ip /\ loc'[t].pc = "leave" /\ \A u \in Threads \ {t} : loc'[u] = loc[u]
  BY <1>1, InnerSteps DEF Onwards
<1>5. Blocks(k)
  BY <1>2 DEF Iterated
<1>6. ASSUME NEW i \in Int32
      PROVE  ran'[k][i] = IF i \in Iterations(k) /\ ip'[Owner(k, i)] = k /\ loc'[Owner(k, i)].pc = "leave"
                          THEN 1 ELSE 0
  <2>1. i \in Iterations(k) => Owner(k, i) \in Threads
    BY <1>2, StaticBlocks
  <2>2. i \in from .. to - 1 <=> i \in Iterations(k) /\ Owner(k, i) = t
    BY <1>2, StaticBlocks
  <2> HIDE DEF from, to
  <2>3. ran'[k][i] = ran[k][i] + (IF i \in from .. to - 1 THEN 1 ELSE 0)
    BY <1>1, Executed
  <2>4. ran[k][i] = IF i \in Iterations(k) /\ ip[Owner(k, i)] = k /\ loc[Owner(k, i)].pc = "leave"
                    THEN 1 ELSE 0
    BY <1>5 DEF Blocks
  <2>5. CASE i \in Iterations(k) /\ Owner(k, i) = t
    BY <1>1, <1>4, <2>2, <2>3, <2>4, <2>5
  <2>6. CASE ~(i \in Iterations(k) /\ Owner(k, i) = t)
    <3>1. ran'[k][i] = ran[k][i]
      BY <2>2, <2>3, <2>4, <2>6
    <3> QED
      BY <1>4, <2>1, <2>4, <2>6, <3>1
  <2> QED
    BY <2>5, <2>6
<1> QED
  BY <1>2, <1>3, <1>6 DEF Iterated, Blocks

\* Inside a shared loop only the claims matter.
LEMMA IteratedInside ==
  ASSUME LoopTyped, Lockstep, NEW t \in Threads, Step(t), ~Leave(t),
         NEW k \in Numbered, ip[t] = k, Inside(t, k)', Claimed(k)'
  PROVE  Iterated(k)'
<1>1. Open(k)'
  BY OpenHere
<1>2. ~IsStatic(k)
  BY TypesKept, InnerSteps DEF Inside, LoopTyped, Loop, IsStatic, Chunks, Onwards
<1> QED
  BY <1>1, <1>2 DEF Iterated

LEMMA PendingIs ==
  ASSUME Fits, LoopTyped, Lockstep, Words, NEW t \in Threads, NEW k \in Numbered, ip[t] = k,
         NEW i \in Int32, Pending(t, i)
  PROVE  i \in Iterations(k) /\ i < idx /\ loc[t].start <= i /\ i < loc[t].end
<1>1. Given(t, k)
  BY DEF Words, WordsAt
<1>2. loc[t].start \in Int /\ loc[t].end \in Int /\ Program[k].start \in Int /\ Program[k].end \in Int
      /\ idx \in Int /\ i \in Int
  <2>1. loc[t].start \in Int /\ loc[t].end \in Int
    BY LocalTypes
  <2>2. Program[k].start \in Int /\ Program[k].end \in Int
    BY LoopTypes
  <2>3. idx \in Int
    BY DEF LoopTyped
  <2>4. i \in Int
    BY SizesAre DEF Int32
  <2> QED
    BY <2>1, <2>2, <2>3, <2>4
<1>3. loc[t].pc \in {"update", "body"} /\ loc[t].start <= i /\ i < loc[t].end
  <2> DEFINE first == loc[t].start
             last == loc[t].end
  <2>1. loc[t].pc \in {"update", "body"} /\ i \in first .. last - 1
    BY DEF Pending
  <2>2. first \in Int /\ last \in Int
    BY <1>2
  <2> HIDE DEF first, last
  <2>3. first <= i /\ i < last
    BY <2>1, <2>2
  <2> QED
    BY <2>1, <2>3 DEF first, last
<1> QED
  BY <1>1, <1>2, <1>3 DEF Given, Iterations

LEMMA IteratedEnter ==
  ASSUME Fits, LoopTyped, Lockstep, Words, NEW t \in Threads, Enter(t), Step(t), ~Leave(t),
         NEW k \in Numbered, ip[t] = k, Iterated(k)
  PROVE  Iterated(k)'
<1>1. loc[t].pc = "enter" /\ ran' = ran /\ idx' = idx
  BY DEF Enter, At, control
<1>2. /\ ip' = ip /\ loc'[t].pc = "load" /\ \A u \in Threads \ {t} : loc'[u] = loc[u]
  BY <1>1, InnerSteps DEF Onwards
<1>3. Inside(t, k)'
  BY <1>2 DEF Inside, Chunks
<1>4. \A u \in Threads, i \in Int32 : Pending(u, i)' <=> Pending(u, i)
  BY <1>1, <1>2 DEF Pending
<1>5. Open(k) /\ ~IsStatic(k)
  BY <1>1, OpenHere DEF LoopTyped, Loop, IsStatic
<1>6. Claimed(k)
  <2>1. CASE \E u \in Threads : Inside(u, k)
    BY <1>5, <2>1 DEF Iterated
  <2>2. CASE \A u \in Threads : ~Inside(u, k)
    <3>1. \A i \in Int32 : ran[k][i] = 0
      BY <1>5, <2>2 DEF Iterated
    <3>2. \A u \in Threads : ip[u] = k
      BY EnterTogether
    <3>3. \A u \in Threads, i \in Int32 : ~Pending(u, i)
      BY <2>2, <3>2 DEF Pending, Inside, Chunks
    <3>4. Bounds(t, k)
      BY DEF Words, WordsAt
    <3>5. idx = Program[k].start
      BY <1>1, <2>2, <3>4 DEF Bounds
    <3>6. Program[k].start \in Int /\ Program[k].end \in Int
      BY LoopTypes
    <3>7. \A i \in Iterations(k) : ~(i < idx)
      BY <3>5, <3>6 DEF Iterations
    <3> QED
      BY <3>1, <3>3, <3>7 DEF Claimed
  <2> QED
    BY <2>1, <2>2
<1>7. Claimed(k)'
  BY <1>1, <1>4, <1>6 DEF Claimed
<1> QED
  BY <1>3, <1>7, IteratedInside

\* A thread inside a loop: its iterations are claimed.
LEMMA ClaimedInside ==
  ASSUME LoopTyped, Lockstep, NEW t \in Threads, Step(t), ~Leave(t), loc[t].pc \in Chunks,
         NEW k \in Numbered, ip[t] = k, Iterated(k)
  PROVE  Claimed(k) /\ Inside(t, k)'
<1>1. Inside(t, k)
  BY DEF Inside
<1>2. Open(k)
  BY OpenHere
<1>3. Inside(t, k)'
  BY <1>1, InsideKept
<1> QED
  BY <1>1, <1>2, <1>3 DEF Iterated

\* Neither the load of the chunk size nor its update claims anything.
LEMMA IteratedSize ==
  ASSUME LoopTyped, Lockstep, NEW t \in Threads, ChunkLoad(t) \/ ChunkUpdate(t), Step(t), ~Leave(t),
         NEW k \in Numbered, ip[t] = k, Iterated(k)
  PROVE  Iterated(k)'
<1>1. loc[t].pc \in Chunks
  BY DEF ChunkLoad, ChunkUpdate, At, Chunks
<1>2. Claimed(k) /\ Inside(t, k)'
  BY <1>1, ClaimedInside
<1>3. idx' = idx /\ ran' = ran
  BY DEF ChunkLoad, ChunkUpdate, control
<1>4. \A u \in Threads \ {t} : loc'[u] = loc[u]
  BY InnerSteps
<1>5. \A i \in Int32 : Pending(t, i)' <=> Pending(t, i)
  <2>1. CASE ChunkLoad(t)
    <3>1. loc[t].pc = "load" /\ loc'[t].pc = "add"
      BY <2>1, InnerSteps DEF ChunkLoad, At, Onwards
    <3> QED
      BY <3>1 DEF Pending
  <2>2. CASE ChunkUpdate(t)
    <3>1. loc[t].pc = "update"
      BY <2>2 DEF ChunkUpdate, At
    <3>2. loc'[t].pc = "body" /\ loc'[t].start = loc[t].start /\ loc'[t].end = loc[t].end
      BY <2>2, UpdateFacts
    <3> QED
      BY <3>1, <3>2 DEF Pending
  <2> QED
    BY <2>1, <2>2
<1>6. \A u \in Threads, i \in Int32 : Pending(u, i)' <=> Pending(u, i)
  BY <1>4, <1>5 DEF Pending
<1>7. Claimed(k)'
  BY <1>2, <1>3, <1>6 DEF Claimed
<1> QED
  BY <1>2, <1>7, IteratedInside

\* The iterations a thread claims were nobody's before.
LEMMA IteratedAdd ==
  ASSUME Fits, LoopTyped, Lockstep, Words, NEW t \in Threads, ChunkAdd(t), Step(t), ~Leave(t),
         NEW k \in Numbered, ip[t] = k, Iterated(k)
  PROVE  Iterated(k)'
<1> DEFINE last == Program[k].end
<1>1. loc[t].pc = "add" /\ ran' = ran
  BY DEF ChunkAdd, At
<1>2. Claimed(k) /\ Inside(t, k)'
  BY <1>1, ClaimedInside DEF Chunks
<1>3. \A u \in Threads \ {t} : loc'[u] = loc[u]
  BY InnerSteps
<1>4. /\ idx' > idx /\ idx' = idx + loc[t].size
      /\ loc'[t].pc \in {"update", "body"} /\ loc'[t].start = idx /\ loc'[t].end \in Int
      /\ idx < last /\ idx' <= last => loc'[t].end = idx'
      /\ idx < last /\ idx' > last => loc'[t].end = last
      /\ idx >= last => loc'[t].end <= idx
  BY <1>1, AddFacts
<1>5. Program[k].start \in Int /\ last \in Int /\ idx \in Int /\ loc[t].size \in Int
  BY LocalTypes, LoopTypes DEF LoopTyped
<1>6. idx' \in Int
  BY <1>4, <1>5
<1>7. Program[k].start <= idx /\ \A u \in Threads : ip[u] = k
  BY <1>1, ReachFits DEF Chunks
<1>8. \A i \in Int32 : i \in Int
  BY SizesAre DEF Int32
<1>9. \A i \in Int32 : ~Pending(t, i)
  BY <1>1 DEF Pending
<1>10. \A i \in Int32 : Pending(t, i)' <=> idx <= i /\ i < idx' /\ i < last
  <2>1. \A i \in Int32 : Pending(t, i)' <=> i \in idx .. loc'[t].end - 1
    BY <1>4 DEF Pending
  <2> HIDE DEF last
  <2> QED
    BY <1>4, <1>5, <1>6, <1>8, <2>1
<1>11. \A u \in Threads \ {t}, i \in Int32 : Pending(u, i)' <=> Pending(u, i)
  BY <1>3 DEF Pending
<1>12. \A u \in Threads, i \in Int32 : Pending(u, i) => i < idx
  BY <1>7, PendingIs
<1>13. ASSUME NEW i \in Int32
       PROVE  ran'[k][i] = IF i \in Iterations(k) /\ i < idx' /\ ~\E u \in Threads : Pending(u, i)'
                           THEN 1 ELSE 0
  <2>1. ran[k][i] = IF i \in Iterations(k) /\ i < idx /\ ~\E u \in Threads : Pending(u, i) THEN 1 ELSE 0
    BY <1>2 DEF Claimed
  <2>2. i \in Iterations(k) => i < last
    BY <1>5, <1>8 DEF Iterations
  <2>3. i < idx => ((\E u \in Threads : Pending(u, i)') <=> (\E u \in Threads : Pending(u, i)))
    <3>1. i < idx => ~(idx <= i)
      BY <1>5, <1>8
    <3> QED
      BY <1>9, <1>10, <1>11, <3>1
  <2>4. CASE i < idx
    <3>1. i < idx'
      BY <1>4, <1>5, <1>6, <1>8, <2>4
    <3> QED
      BY <1>1, <2>1, <2>3, <2>4, <3>1
  <2>5. CASE ~(i < idx)
    <3>1. i \in Iterations(k) /\ i < idx' => Pending(t, i)'
      <4>1. idx <= i
        BY <1>5, <1>8, <2>5
      <4> QED
        BY <1>10, <2>2, <4>1
    <3> QED
      BY <1>1, <2>1, <2>5, <3>1
  <2> QED
    BY <2>4, <2>5
<1>14. ASSUME NEW u \in Threads, NEW v \in Threads, u # v, NEW i \in Int32
       PROVE  ~(Pending(u, i)' /\ Pending(v, i)')
  <2>1. \A w \in Threads \ {t} : ~(Pending(w, i)' /\ Pending(t, i)')
    <3>1. i < idx => ~(idx <= i)
      BY <1>5, <1>8
    <3> QED
      BY <1>10, <1>11, <1>12, <3>1
  <2>2. u # t /\ v # t => ~(Pending(u, i)' /\ Pending(v, i)')
    BY <1>2, <1>11, <1>14 DEF Claimed
  <2> QED
    BY <1>14, <2>1, <2>2
<1>15. Claimed(k)'
  BY <1>13, <1>14 DEF Claimed
<1> QED
  BY <1>2, <1>15, IteratedInside

\* A thread executes the iterations it was given, which nobody has executed yet.
LEMMA IteratedBody ==
  ASSUME Fits, LoopTyped, Lockstep, Words, NEW t \in Threads, Body(t), Step(t), ~Leave(t),
         NEW k \in Numbered, ip[t] = k, Iterated(k)
  PROVE  Iterated(k)'
<1>1. loc[t].pc = "body" /\ Execute(t, loc[t].start, loc[t].end) /\ idx' = idx
  BY DEF Body, At, control
<1>2. Claimed(k) /\ Inside(t, k)'
  BY <1>1, ClaimedInside DEF Chunks
<1>3. \A u \in Threads \ {t} : loc'[u] = loc[u]
  BY InnerSteps
<1>4. loc'[t].pc \in {"load", "leave"}
  BY <1>1, InnerSteps DEF Onwards
<1>5. \A i \in Int32 : ~Pending(t, i)'
  BY <1>4 DEF Pending
<1>6. \A i \in Int32 : Pending(t, i) <=> i \in loc[t].start .. loc[t].end - 1
  BY <1>1 DEF Pending
<1>7. \A u \in Threads \ {t}, i \in Int32 : Pending(u, i)' <=> Pending(u, i)
  BY <1>3 DEF Pending
<1>8. ASSUME NEW i \in Int32
      PROVE  ran'[k][i] = IF i \in Iterations(k) /\ i < idx /\ ~\E u \in Threads : Pending(u, i)'
                          THEN 1 ELSE 0
  <2>1. ran'[k][i] = ran[k][i] + (IF i \in loc[t].start .. loc[t].end - 1 THEN 1 ELSE 0)
    BY <1>1, Executed
  <2>2. ran[k][i] = IF i \in Iterations(k) /\ i < idx /\ ~\E u \in Threads : Pending(u, i) THEN 1 ELSE 0
    BY <1>2 DEF Claimed
  <2>3. CASE Pending(t, i)
    <3>1. i \in Iterations(k) /\ i < idx
      BY <2>3, PendingIs
    <3>2. \A u \in Threads : u # t => ~Pending(u, i)
      BY <1>2, <2>3 DEF Claimed
    <3>3. ~\E u \in Threads : Pending(u, i)'
      BY <1>5, <1>7, <3>2
    <3>4. ran[k][i] = 0
      BY <2>2, <2>3
    <3>5. ran'[k][i] = 1
      BY <1>6, <2>1, <2>3, <3>4
    <3> QED
      BY <3>1, <3>3, <3>5
  <2>4. CASE ~Pending(t, i)
    <3>1. (\E u \in Threads : Pending(u, i)') <=> (\E u \in Threads : Pending(u, i))
      BY <1>5, <1>7, <2>4
    <3>2. ran'[k][i] = ran[k][i]
      BY <1>6, <2>1, <2>2, <2>4
    <3> QED
      BY <2>2, <3>1, <3>2
  <2> QED
    BY <2>3, <2>4
<1>9. ASSUME NEW u \in Threads, NEW v \in Threads, u # v, NEW i \in Int32
      PROVE  ~(Pending(u, i)' /\ Pending(v, i)')
  <2>1. u # t /\ v # t => ~(Pending(u, i)' /\ Pending(v, i)')
    BY <1>2, <1>7, <1>9 DEF Claimed
  <2> QED
    BY <1>5, <1>9, <2>1
<1>10. Claimed(k)'
  BY <1>1, <1>8, <1>9 DEF Claimed
<1> QED
  BY <1>2, <1>10, IteratedInside

LEMMA IteratedKept ==
  ASSUME Fits, LoopTyped, Lockstep, Words, [Next]_vars, NEW k \in Numbered, Iterated(k)
  PROVE  Iterated(k)'
<1>1. CASE UNCHANGED vars
  BY <1>1 DEF Iterated, Open, Exact, Blocks, Claimed, Inside, Pending, vars, control
<1>2. CASE Next
  <2>1. PICK t \in Threads : Step(t)
    BY <1>2 DEF Next
  <2>2. CASE ip[t] # k
    BY <2>1, <2>2, IteratedElsewhere
  <2>3. CASE ip[t] = k /\ Leave(t)
    BY <2>3, IteratedLeave
  <2>4. CASE ip[t] = k /\ ~Leave(t)
    <3>1. CASE Begin(t) \/ InitBounds(t) \/ InitChunk(t) \/ InitFix(t)
      BY <2>1, <2>4, <3>1, IteratedBefore
    <3>2. CASE Static(t)
      BY <2>1, <2>4, <3>2, IteratedStatic
    <3>3. CASE Enter(t)
      BY <2>1, <2>4, <3>3, IteratedEnter
    <3>4. CASE ChunkLoad(t) \/ ChunkUpdate(t)
      BY <2>1, <2>4, <3>4, IteratedSize
    <3>5. CASE ChunkAdd(t)
      BY <2>1, <2>4, <3>5, IteratedAdd
    <3>6. CASE Body(t)
      BY <2>1, <2>4, <3>6, IteratedBody
    <3> QED
      BY <2>1, <2>4, <3>1, <3>2, <3>3, <3>4, <3>5, <3>6 DEF Step
  <2> QED
    BY <2>2, <2>3, <2>4
<1> QED
  BY <1>1, <1>2

-------------------------------------------------------------------------------
(* The theorem *)

LEMMA LoopInvInit == ASSUME Init, Fits PROVE LoopInv
<1>1. Len(Program) \in Nat
  BY SizesAre
<1>2. loc = [t \in Threads |-> Idle] /\ Idle \in Local /\ Idle.pc = "next"
  BY DEF Init, Idle, Local, PC
<1>3. \A t \in Threads : loc[t].pc = "next" /\ ip[t] = 1 /\ arrived[t] = 0
  BY <1>2 DEF Init
<1>4. LoopTyped
  <2>1. /\ idx \in Int /\ end \in Int /\ chunkSz \in Int /\ minChunk \in Int /\ sched \in Sched
        /\ arrived \in [Threads -> Nat]
    BY DEF Init, Sched
  <2>2. ip \in [Threads -> 1 .. Len(Program) + 1]
    BY <1>1 DEF Init
  <2>3. loc \in [Threads -> [pc : PC, size : Int, start : Int, end : Int]]
    BY <1>2 DEF Local
  <2>4. ran \in [Numbered -> [Int32 -> Nat]]
    BY DEF Init, Numbered
  <2> QED
    BY <1>3, <2>1, <2>2, <2>3, <2>4 DEF LoopTyped
<1>5. \A t \in Threads : Part(t) = 0 /\ \A k : ~Inside(t, k)
  BY <1>3 DEF Part, Inside, Chunks
<1>6. Lockstep
  BY <1>3, <1>5 DEF Lockstep
<1>7. Words
  BY <1>3, <1>5 DEF Words, WordsAt, Bounds, Sizes, Given, Reach, Chunks
<1>8. ASSUME NEW k \in Numbered PROVE Iterated(k)
  <2>1. \A i \in Int32 : ran[k][i] = 0
    BY <1>8 DEF Init, Numbered
  <2>2. Open(k)
    BY <1>1, <1>3 DEF Open, Numbered
  <2>3. IsStatic(k) => Blocks(k)
    <3>1. IsStatic(k) => \A i \in Int32 : i \in Iterations(k) => Owner(k, i) \in Threads
      BY StaticBlocks
    <3> QED
      BY <1>3, <2>1, <3>1 DEF Blocks
  <2> QED
    BY <1>5, <2>1, <2>2, <2>3 DEF Iterated
<1> QED
  BY <1>4, <1>6, <1>7, <1>8 DEF LoopInv

LEMMA LoopInvKept == ASSUME Fits, LoopInv, [Next]_vars PROVE LoopInv'
<1>1. LoopTyped /\ Lockstep /\ Words /\ \A k \in Numbered : Iterated(k)
  BY DEF LoopInv
<1>2. LoopTyped' /\ Lockstep' /\ Words'
  BY <1>1, TypesKept, LockstepKept, WordsKept
<1>3. \A k \in Numbered : Iterated(k)'
  BY <1>1, IteratedKept
<1> QED
  BY <1>2, <1>3 DEF LoopInv

\* What a thread finds when it is past a loop (EMSloopChunk of loops.cc, the three
\* schedules of parForEach in ems.js and ems.py): every iteration was executed once.
LEMMA LoopInvImplies == ASSUME LoopInv PROVE EachOnce
<1>1. ASSUME NEW k \in 1 .. Len(Program), NEW t \in Threads, ip[t] > k, NEW i \in Int32
      PROVE  ran[k][i] = IF i \in Program[k].start .. Program[k].end - 1 THEN 1 ELSE 0
  <2>1. k \in Numbered /\ k \in Nat
    BY SizesAre DEF Numbered
  <2>2. ~Open(k)
    <3>1. ip[t] \in Nat
      BY LocalTypes DEF LoopInv
    <3> QED
      BY <1>1, <2>1, <3>1 DEF Open
  <2>3. Exact(k)
    BY <2>1, <2>2 DEF LoopInv, Iterated
  <2> QED
    BY <2>3 DEF Exact, Iterations
<1> QED
  BY <1>1 DEF EachOnce

\* Every iteration of every loop is executed exactly once before any thread is past it:
\* by fetching and adding of EMS_LOOP_IDX in loops.cc or by the blocks of a static schedule.
THEOREM IterationsOnce == ASSUME Fits PROVE Spec => []EachOnce
<1>1. Init => LoopInv
  BY LoopInvInit
<1>2. LoopInv /\ [Next]_vars => LoopInv'
  BY LoopInvKept
<1>3. LoopInv => EachOnce
  BY LoopInvImplies
<1> QED
  BY <1>1, <1>2, <1>3, PTL DEF Spec
===============================================================================
