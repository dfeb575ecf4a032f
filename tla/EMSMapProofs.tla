----------------------------- MODULE EMSMapProofs -----------------------------
(* Theorems on EMSMap, for every table, set of keys and number of threads.   *)
EXTENDS EMSMapRefinement, TLAPS

Acting == {"prepare", "try", "again", "unmap"}

\* An operation that has gone on to the element has a used map entry.
Rooted == \A t \in Threads : loc[t].pc \in Acting => mapKey[Idx(t)] # NoKey

\* An unused entry is examined under its tag.
UnusedHeld ==
  \A t \in Threads : Examines(t) /\ mapKey[Idx(t)] = NoKey => mapFE[Idx(t)] = "BUSY"

MapInv == TypeOK /\ Rooted /\ UnusedHeld /\ UnusedExclusive /\ MapTagHeld

\* The initial state satisfies the invariant.
LEMMA InitMap == ASSUME Key # {} PROVE Init => MapInv
<1> SUFFICES ASSUME Init PROVE MapInv
  OBVIOUS
<1>1. AnyKey \in Key
  BY DEF AnyKey
<1>2. Idle \in Locals /\ Idle.pc = "idle"
  BY <1>1, MapAssumption DEF Idle, Locals, PC, Ops, Slots
<1>3. TypeOK
  BY <1>2, MapAssumption DEF Init, TypeOK, Element
<1>4. Rooted /\ UnusedHeld /\ UnusedExclusive
  BY <1>2 DEF Init, Rooted, UnusedHeld, UnusedExclusive, Examines, Acting
<1>5. MapTagHeld
  BY DEF Init, MapTagHeld
<1> QED
  BY <1>3, <1>4, <1>5 DEF MapInv

\* A step of t that is at entry j, with l its new locals: its types, and the
\* entries it leaves alone.
Frame(t, l, j) ==
  /\ j = Idx(t) /\ loc' = [loc EXCEPT ![t] = l] /\ use' = use
  /\ mapFE' \in [Slots -> {"FULL", "BUSY"}]
  /\ mapKey' \in [Slots -> Key \cup {NoKey, Torn}]
  /\ data' \in [Slots -> Element]
  /\ \A i \in Slots : i # j => mapFE'[i] = mapFE[i] /\ mapKey'[i] = mapKey[i]

\* It keeps a key that is there, and examines an unused entry under its tag and alone.
KeysKept(t, l, j) ==
  /\ mapKey[j] # NoKey => mapKey'[j] = mapKey[j]
  /\ l.pc \in Acting => mapKey'[l.idx] # NoKey
  /\ l.pc \in {"compare", "place"} /\ mapKey'[l.idx] = NoKey =>
       mapFE'[l.idx] = "BUSY" /\ \A u \in Threads \ {t} : Examines(u) => Idx(u) # l.idx
  /\ \A u \in Threads \ {t} :
       Examines(u) /\ Idx(u) = j /\ mapKey'[j] = NoKey => mapFE'[j] = "BUSY"

\* It leaves the tag of j to nobody who does not hold it.
TagKept(t, l, j) ==
  mapFE'[j] = "BUSY" =>
    \/ mapKey'[j] = Torn
    \/ l.pc \in Releasing /\ l.idx = j
    \/ \E u \in Threads \ {t} : Idx(u) = j /\ loc[u].pc \in Releasing

\* What a step of t may do for the invariant to be kept.
LEMMA StepKeeps ==
  ASSUME MapInv, NEW t \in Threads, NEW l \in Locals, NEW j \in Slots,
         Frame(t, l, j), KeysKept(t, l, j), TagKept(t, l, j)
  PROVE  MapInv'
<1>1. /\ loc \in [Threads -> Locals] /\ use \in Uses /\ loc'[t] = l
      /\ \A u \in Threads \ {t} : loc'[u] = loc[u]
  BY DEF MapInv, TypeOK, Frame
<1>2. \A u \in Threads : Idx(u) \in Slots
  BY <1>1 DEF Idx, Locals
<1>3. TypeOK'
  BY <1>1 DEF TypeOK, Frame
<1>f. /\ j = Idx(t)
      /\ \A i \in Slots : i # j => mapFE'[i] = mapFE[i] /\ mapKey'[i] = mapKey[i]
  BY DEF Frame
<1>4. Rooted'
  BY <1>1, <1>2, <1>f DEF MapInv, Rooted, Idx, KeysKept
<1>5. UnusedHeld'
  BY <1>1, <1>2, <1>f DEF MapInv, UnusedHeld, Examines, Idx, KeysKept
<1>6. UnusedExclusive'
  BY <1>1, <1>2, <1>f DEF MapInv, UnusedExclusive, Examines, Idx, KeysKept
<1>7. MapTagHeld'
  <2> SUFFICES ASSUME NEW i \in Slots, mapFE'[i] = "BUSY", mapKey'[i] # Torn
               PROVE  \E u \in Threads : Idx(u)' = i /\ loc'[u].pc \in Releasing
    BY DEF MapTagHeld
  <2>1. CASE i = j
    BY <2>1, <1>1 DEF Idx, TagKept
  <2>2. CASE i # j
    <3>1. PICK u \in Threads : Idx(u) = i /\ loc[u].pc \in Releasing
      BY <2>2, <1>f DEF MapInv, MapTagHeld
    <3>2. u # t
      BY <3>1, <2>2, <1>f
    <3> QED
      BY <3>1, <3>2, <1>1 DEF Idx
  <2> QED
    BY <2>1, <2>2
<1> QED
  BY <1>3, <1>4, <1>5, <1>6, <1>7 DEF MapInv

-------------------------------------------------------------------------------
(* The new locals of the ways in which a thread moves *)

\* Go changes the program counter.
LEMMA GoMoves ==
  ASSUME loc \in [Threads -> Locals], NEW t \in Threads, NEW p \in PC, Go(t, p)
  PROVE  \E l \in Locals : loc' = [loc EXCEPT ![t] = l] /\ l.pc = p /\ l.idx = Idx(t)
<1> DEFINE l == [loc[t] EXCEPT !.pc = p]
<1>1. l \in Locals /\ l.pc = p /\ l.idx = Idx(t)
  BY DEF Locals, Idx
<1>2. loc' = [loc EXCEPT ![t] = l]
  BY DEF Go
<1> QED
  BY <1>1, <1>2

\* Return leaves the operation.
LEMMA ReturnMoves ==
  ASSUME loc \in [Threads -> Locals], NEW t \in Threads, NEW ok \in BOOLEAN, NEW v \in Value,
         Return(t, ok, v)
  PROVE  \E l \in Locals : loc' = [loc EXCEPT ![t] = l] /\ l.pc = "done"
<1> DEFINE l == [loc[t] EXCEPT !.pc = "done", !.insert = FALSE, !.idx = 0, !.tries = 0,
                               !.ok = ok, !.ret = v]
<1> DEFINE a == [loc[t] EXCEPT !.pc = "done", !.insert = FALSE]
           b == [a EXCEPT !.idx = 0, !.tries = 0]
           c == [b EXCEPT !.ok = ok, !.ret = v]
<1>1. 0 \in Slots /\ 0 \in 0 .. MaxSteps - 1 /\ "done" \in PC
  BY MapAssumption DEF Slots, PC
<1>2. l = c
  OBVIOUS
<1> HIDE DEF c
<1>3. a \in Locals /\ a.pc = "done"
  BY <1>1, Zenon DEF Locals
<1> HIDE DEF a
<1>4. b \in Locals /\ b.pc = "done"
  BY <1>1, <1>3, Zenon DEF Locals
<1> HIDE DEF b
<1>5. c \in Locals /\ c.pc = "done"
  BY <1>4, Zenon DEF c, Locals
<1>6. loc' = [loc EXCEPT ![t] = l]
  BY DEF Return
<1> HIDE DEF l
<1> QED
  BY <1>2, <1>5, <1>6

\* From begins a search at the entry of the key.
LEMMA FromMoves ==
  ASSUME loc \in [Threads -> Locals], NEW t \in Threads, NEW p \in PC, From(t, p)
  PROVE  \E l \in Locals : loc' = [loc EXCEPT ![t] = l] /\ l.pc = p
<1> DEFINE l == [loc[t] EXCEPT !.pc = p, !.insert = TRUE, !.idx = Home(loc[t].key), !.tries = 0]
<1>1. loc[t].key \in Key
  BY DEF Locals
<1>2. Home(loc[t].key) \in Slots /\ 0 \in 0 .. MaxSteps - 1
  BY <1>1, MapAssumption DEF Home
<1>3. l \in Locals /\ l.pc = p
  BY <1>2 DEF Locals
<1>4. loc' = [loc EXCEPT ![t] = l]
  BY DEF From
<1> QED
  BY <1>3, <1>4

\* NextSlot goes on to an entry of the table.
LEMMA NextSlotMoves ==
  ASSUME loc \in [Threads -> Locals], NEW t \in Threads, NEW p \in PC, ~LastTry(t),
         NextSlot(t, p)
  PROVE  \E l \in Locals : loc' = [loc EXCEPT ![t] = l] /\ l.pc = p
<1> DEFINE l == [loc[t] EXCEPT !.pc = p, !.idx = (loc[t].idx + 1) % N, !.tries = loc[t].tries + 1]
<1>1. loc[t].idx \in Nat /\ loc[t].tries \in 0 .. MaxSteps - 1
  BY DEF Locals, Slots
<1>0. N \in Nat \ {0} /\ MaxSteps \in Nat \ {0}
  BY MapAssumption
<1>2. (loc[t].idx + 1) % N \in Slots
  BY <1>0, <1>1 DEF Slots
<1>3. loc[t].tries + 1 \in 0 .. MaxSteps - 1
  BY <1>0, <1>1 DEF LastTry
<1>4. l \in Locals /\ l.pc = p
  BY <1>2, <1>3 DEF Locals
<1>5. loc' = [loc EXCEPT ![t] = l]
  BY DEF NextSlot
<1> QED
  BY <1>4, <1>5

\* IndexFound goes on to the element with the same entry.
LEMMA FoundMoves ==
  ASSUME loc \in [Threads -> Locals], NEW t \in Threads, IndexFound(t)
  PROVE  \E l \in Locals : loc' = [loc EXCEPT ![t] = l] /\ l.pc \in {"prepare", "try"} /\ l.idx = Idx(t)
<1>1. PICK p \in {"prepare", "try"} : Go(t, p)
  BY DEF IndexFound
<1> QED
  BY <1>1, GoMoves DEF PC

-------------------------------------------------------------------------------
(* The actions *)

\* What the invariant says of thread t.
LEMMA ThreadFacts ==
  ASSUME MapInv, NEW t \in Threads
  PROVE  /\ loc \in [Threads -> Locals] /\ loc[t] \in Locals /\ Idx(t) \in Slots
         /\ mapFE \in [Slots -> {"FULL", "BUSY"}]
         /\ mapKey \in [Slots -> Key \cup {NoKey, Torn}]
         /\ data \in [Slots -> Element]
  BY DEF MapInv, TypeOK, Idx, Locals

\* An acquired entry was FULL: nobody examines it if it is unused.
LEMMA AcquireKeeps ==
  ASSUME MapInv, NEW t \in Threads, NEW p \in {"compare", "place", "try"},
         Acquire(t), Go(t, p), p = "try" => At(t, "again"), UNCHANGED <<use, mapKey, data>>
  PROVE  MapInv'
<1> DEFINE j == Idx(t)
<1>1. PICK l \in Locals : loc' = [loc EXCEPT ![t] = l] /\ l.pc = p /\ l.idx = j
  BY GoMoves, ThreadFacts DEF PC
<1>2. /\ j \in Slots /\ mapFE[j] = "FULL" /\ mapFE' = [mapFE EXCEPT ![j] = "BUSY"]
      /\ mapFE' \in [Slots -> {"FULL", "BUSY"}]
      /\ mapFE'[j] = "BUSY" /\ \A i \in Slots : i # j => mapFE'[i] = mapFE[i]
  BY ThreadFacts DEF Acquire, SetMapFE
<1>3. p = "try" => mapKey[j] # NoKey
  BY DEF MapInv, Rooted, Acting, At
<1>4. mapKey[j] = NoKey => \A u \in Threads : Examines(u) => Idx(u) # j
  BY <1>2 DEF MapInv, UnusedHeld
<1>5. l.pc \in Releasing /\ (l.pc \in Acting => p = "try")
  BY <1>1 DEF Releasing, Acting
<1>6. /\ use' = use /\ mapKey' = mapKey
      /\ mapKey' \in [Slots -> Key \cup {NoKey, Torn}]
      /\ data' \in [Slots -> Element]
  BY ThreadFacts
<1> HIDE DEF j
<1>7. j = Idx(t)
  BY DEF j
<1>8. /\ l.pc \in Acting => mapKey'[l.idx] # NoKey
      /\ mapKey'[l.idx] = NoKey =>
           mapFE'[l.idx] = "BUSY" /\ \A u \in Threads \ {t} : Examines(u) => Idx(u) # l.idx
      /\ l.pc \in Releasing /\ l.idx = j
  BY <1>1, <1>2, <1>3, <1>4, <1>5, <1>6
<1>9. Frame(t, l, j)
  BY <1>1, <1>2, <1>6, <1>7 DEF Frame
<1>10. KeysKept(t, l, j)
  BY <1>2, <1>6, <1>8 DEF KeysKept
<1>11. TagKept(t, l, j)
  BY <1>8 DEF TagKept
<1> QED
  BY <1>2, <1>9, <1>10, <1>11, StepKeeps

\* A step that frees the entry t is at, where nobody else examines it unused.
LEMMA FreeKeeps ==
  ASSUME MapInv, NEW t \in Threads, NEW l \in Locals, loc' = [loc EXCEPT ![t] = l],
         loc[t].pc \in Acting \cup {"compare", "place"},
         \/ l.pc \in {"probe", "search", "touch", "done"}
         \/ l.pc \in Acting /\ l.idx = Idx(t) /\ mapKey[Idx(t)] # NoKey,
         SetMapFE(t, "FULL"), UNCHANGED <<use, mapKey>>,
         data' \in [Slots -> Element]
  PROVE  MapInv'
<1> DEFINE j == Idx(t)
<1>1. /\ j \in Slots /\ mapFE' \in [Slots -> {"FULL", "BUSY"}]
      /\ mapFE'[j] = "FULL" /\ \A i \in Slots : i # j => mapFE'[i] = mapFE[i]
  BY ThreadFacts DEF SetMapFE
<1>2. \A u \in Threads \ {t} : Examines(u) /\ Idx(u) = j => mapKey[j] # NoKey
  <2> SUFFICES ASSUME NEW u \in Threads \ {t}, Examines(u), Idx(u) = j, mapKey[j] = NoKey
               PROVE  FALSE
    OBVIOUS
  <2>1. CASE loc[t].pc \in Acting
    BY <2>1 DEF MapInv, Rooted
  <2>2. CASE Examines(t)
    BY <2>2 DEF MapInv, UnusedExclusive
  <2> QED
    BY <2>1, <2>2 DEF Examines
<1>3. l.pc \notin {"compare", "place"}
  BY DEF Acting
<1>4. l.pc \in Acting => mapKey[l.idx] # NoKey
  BY DEF Acting
<1>5. /\ use' = use /\ mapKey' = mapKey
      /\ mapKey' \in [Slots -> Key \cup {NoKey, Torn}]
  BY ThreadFacts
<1> HIDE DEF j
<1>6. j = Idx(t)
  BY DEF j
<1>7. Frame(t, l, j)
  BY <1>1, <1>5, <1>6 DEF Frame
<1>8. KeysKept(t, l, j)
  BY <1>1, <1>2, <1>3, <1>4, <1>5 DEF KeysKept
<1>9. TagKept(t, l, j)
  BY <1>1 DEF TagKept
<1> QED
  BY <1>1, <1>7, <1>8, <1>9, StepKeeps

\* EMSkey2index.
LEMMA LookupKeeps ==
  ASSUME MapInv, NEW t \in Threads, Probe(t) \/ Compare(t)
  PROVE  MapInv'
<1>1. CASE Probe(t)
  BY <1>1, AcquireKeeps DEF Probe
<1>2. CASE Compare(t)
  <2>1. /\ At(t, "compare") /\ SetMapFE(t, "FULL") /\ UNCHANGED <<use, mapKey>>
        /\ loc[t].pc \in Acting \cup {"compare", "place"}
    BY <1>2 DEF Compare, At
  <2>2. data' \in [Slots -> Element]
    BY <1>2, ThreadFacts DEF Compare, Element
  <2>3. CASE Matches(t) /\ Matched(t)
    <3>1. mapKey[Idx(t)] # NoKey
      BY <2>3, ThreadFacts, MapAssumption DEF Matches, Locals
    <3>2. CASE From(t, "search")
      <4>1. PICK l \in Locals : loc' = [loc EXCEPT ![t] = l] /\ l.pc = "search"
        BY <3>2, FromMoves, ThreadFacts DEF PC
      <4> QED
        BY <4>1, <2>1, <2>2, FreeKeeps
    <3>3. CASE IndexFound(t)
      BY <3>3, <3>1, <2>1, <2>2, FoundMoves, ThreadFacts, FreeKeeps DEF Acting
    <3>4. CASE Go(t, "touch")
      <4>1. PICK l \in Locals : loc' = [loc EXCEPT ![t] = l] /\ l.pc = "touch"
        BY <3>4, GoMoves, ThreadFacts DEF PC
      <4> QED
        BY <4>1, <2>1, <2>2, FreeKeeps
    <3> QED
      BY <2>3, <3>2, <3>3, <3>4 DEF Matched
  <2>4. CASE Missing(t)
    <3>1. CASE From(t, "search") \/ From(t, "probe")
      <4>1. PICK l \in Locals : loc' = [loc EXCEPT ![t] = l] /\ l.pc \in {"search", "probe"}
        BY <3>1, FromMoves, ThreadFacts DEF PC
      <4> QED
        BY <4>1, <2>1, <2>2, FreeKeeps
    <3>2. CASE Return(t, TRUE, Undef) \/ Return(t, FALSE, Undef)
      <4>1. PICK l \in Locals : loc' = [loc EXCEPT ![t] = l] /\ l.pc = "done"
        BY <3>2, ReturnMoves, ThreadFacts, MapAssumption
      <4> QED
        BY <4>1, <2>1, <2>2, FreeKeeps
    <3> QED
      BY <2>4, <3>1, <3>2 DEF Missing
  <2>5. CASE ~LastTry(t) /\ NextSlot(t, "probe")
    <3>1. PICK l \in Locals : loc' = [loc EXCEPT ![t] = l] /\ l.pc = "probe"
      BY <2>5, NextSlotMoves, ThreadFacts DEF PC
    <3> QED
      BY <3>1, <2>1, <2>2, FreeKeeps
  <2> QED
    BY <1>2, <2>3, <2>4, <2>5 DEF Compare
<1> QED
  BY <1>1, <1>2

\* EMSwriteIndexMap: an insertion keeps the tag of its entry.
LEMMA InsertKeeps ==
  ASSUME MapInv, NEW t \in Threads, Search(t) \/ Place(t)
  PROVE  MapInv'
<1>1. CASE Search(t)
  BY <1>1, AcquireKeeps DEF Search
<1>2. CASE Place(t)
  <2> DEFINE j == Idx(t)
  <2>1. /\ At(t, "place") /\ use' = use /\ data' = data /\ j \in Slots
        /\ data' \in [Slots -> Element]
        /\ loc[t].pc \in Acting \cup {"compare", "place"} /\ Examines(t)
        /\ loc[t].key \in Key
    BY <1>2, ThreadFacts DEF Place, At, Examines, Locals
  <2>2. CASE Matches(t) /\ SetMapFE(t, "FULL") /\ IndexFound(t) /\ UNCHANGED mapKey
    <3>1. mapKey[j] # NoKey
      BY <2>1, <2>2, MapAssumption DEF Matches
    <3>2. PICK l \in Locals : loc' = [loc EXCEPT ![t] = l] /\ l.pc \in {"prepare", "try"} /\ l.idx = j
      BY <2>2, FoundMoves, ThreadFacts
    <3> QED
      BY <3>1, <3>2, <2>1, <2>2, FreeKeeps DEF Acting
  <2>3. ASSUME Unused(t), UNCHANGED mapFE, NEW k \in Key \cup {Torn},
               mapKey' = [mapKey EXCEPT ![j] = k], NEW l \in Locals,
               loc' = [loc EXCEPT ![t] = l],
               \/ k = Torn /\ l.pc = "done"
               \/ l.pc \in {"prepare", "try"} /\ l.idx = j
        PROVE  MapInv'
    <3>1. /\ mapKey' \in [Slots -> Key \cup {NoKey, Torn}]
          /\ mapKey[j] = NoKey /\ mapKey'[j] = k /\ k # NoKey
          /\ \A i \in Slots : i # j => mapKey'[i] = mapKey[i]
      BY <2>3, <2>1, ThreadFacts, MapAssumption DEF Unused
    <3>2. mapFE' = mapFE /\ mapFE' \in [Slots -> {"FULL", "BUSY"}]
      BY <2>3, ThreadFacts
    <3>3. /\ l.pc \in Acting => mapKey'[l.idx] # NoKey
          /\ l.pc \notin {"compare", "place"}
          /\ mapKey'[j] = Torn \/ (l.pc \in Releasing /\ l.idx = j)
      BY <2>3, <3>1 DEF Acting, Releasing
    <3> HIDE DEF j
    <3>4. j = Idx(t)
      BY DEF j
    <3>5. Frame(t, l, j)
      BY <2>1, <2>3, <3>1, <3>2, <3>4 DEF Frame
    <3>6. KeysKept(t, l, j)
      BY <3>1, <3>2, <3>3 DEF KeysKept
    <3>7. TagKept(t, l, j)
      BY <3>3 DEF TagKept
    <3> QED
      BY <2>1, <3>5, <3>6, <3>7, StepKeeps
  <2>4. CASE /\ Unused(t) /\ IndexFound(t) /\ UNCHANGED mapFE
             /\ mapKey' = [mapKey EXCEPT ![j] = loc[t].key]
    <3>1. PICK l \in Locals : loc' = [loc EXCEPT ![t] = l] /\ l.pc \in {"prepare", "try"} /\ l.idx = j
      BY <2>4, FoundMoves, ThreadFacts
    <3> QED
      BY <3>1, <2>1, <2>3, <2>4
  <2>5. CASE /\ Unused(t) /\ Return(t, FALSE, Undef) /\ UNCHANGED mapFE
             /\ mapKey' = [mapKey EXCEPT ![j] = Torn]
    <3>1. PICK l \in Locals : loc' = [loc EXCEPT ![t] = l] /\ l.pc = "done"
      BY <2>5, ReturnMoves, ThreadFacts, MapAssumption
    <3> QED
      BY <3>1, <2>1, <2>3, <2>5
  <2>6. CASE /\ SetMapFE(t, "FULL") /\ UNCHANGED mapKey
             /\ IF LastTry(t) THEN Return(t, FALSE, Undef) ELSE NextSlot(t, "search")
    <3>1. PICK l \in Locals : loc' = [loc EXCEPT ![t] = l] /\ l.pc \in {"done", "search"}
      <4>1. CASE LastTry(t)
        BY <4>1, <2>6, ReturnMoves, ThreadFacts, MapAssumption
      <4>2. CASE ~LastTry(t)
        BY <4>2, <2>6, NextSlotMoves, ThreadFacts DEF PC
      <4> QED
        BY <4>1, <4>2
    <3> QED
      BY <3>1, <2>1, <2>6, FreeKeeps
  <2> QED
    BY <1>2, <2>2, <2>4, <2>5, <2>6 DEF Place
<1> QED
  BY <1>1, <1>2

\* A step that leaves the map alone: within the operation, or outside of one.
LEMMA StayKeeps ==
  ASSUME MapInv, NEW t \in Threads, NEW l \in Locals, loc' = [loc EXCEPT ![t] = l],
         \/ loc[t].pc \in Acting /\ l.pc \in {"try", "unmap"} /\ l.idx = Idx(t)
         \/ loc[t].pc \in {"idle", "touch", "done"} /\ l.pc \in {"idle", "probe", "done"},
         UNCHANGED <<use, mapFE, mapKey>>,
         data' \in [Slots -> Element]
  PROVE  MapInv'
<1> DEFINE j == Idx(t)
<1>1. /\ j \in Slots /\ use' = use /\ mapFE' = mapFE /\ mapKey' = mapKey
      /\ mapFE' \in [Slots -> {"FULL", "BUSY"}]
      /\ mapKey' \in [Slots -> Key \cup {NoKey, Torn}]
  BY ThreadFacts
<1>2. l.pc \notin {"compare", "place"}
  OBVIOUS
<1>3. l.pc \in Acting => mapKey[l.idx] # NoKey
  BY DEF MapInv, Rooted, Acting
<1>4. \A u \in Threads \ {t} : Examines(u) /\ Idx(u) = j /\ mapKey[j] = NoKey => mapFE[j] = "BUSY"
  BY DEF MapInv, UnusedHeld
<1>5. mapFE[j] = "BUSY" =>
        \/ mapKey[j] = Torn
        \/ l.pc \in Releasing /\ l.idx = j
        \/ \E u \in Threads \ {t} : Idx(u) = j /\ loc[u].pc \in Releasing
  BY <1>1 DEF MapInv, MapTagHeld, Releasing, Acting
<1> HIDE DEF j
<1>6. j = Idx(t)
  BY DEF j
<1>7. Frame(t, l, j)
  BY <1>1, <1>6 DEF Frame
<1>8. KeysKept(t, l, j)
  BY <1>1, <1>2, <1>3, <1>4 DEF KeysKept
<1>9. TagKept(t, l, j)
  BY <1>1, <1>5 DEF TagKept
<1> QED
  BY <1>1, <1>7, <1>8, <1>9, StepKeeps

\* An operation that finds its element in the state it waits for leaves a well-formed element: the
\* reader count stays within its limit.
LEMMA AfterType ==
  ASSUME NEW l \in Locals, NEW c \in Element, Ready(l, c)
  PROVE  After(l, c) \in Element
<1>1. l.arg \in Value /\ l.old \in Value /\ c.v \in Value /\ c.rw \in 0 .. RWMax /\ RWMax \in Nat
  BY MapAssumption DEF Locals, Element
<1>2. Sum[c.v][l.arg] \in Value
  BY <1>1, MapAssumption
<1>3. CASE l.op = "readRW"
  <2>1. c.rw < RWMax
    BY <1>3 DEF Ready
  <2>2. c.rw + 1 \in 0 .. RWMax
    BY <1>1, <2>1
  <2> QED
    BY <1>3, <2>2 DEF After, Element
<1>4. CASE l.op \in {"readFE", "write", "faa"}
  <2>1. CASE l.op = "readFE"
    BY <2>1 DEF After, Element
  <2>2. CASE l.op = "write"
    BY <1>1, <2>2 DEF After, Element
  <2>3. CASE l.op = "faa"
    BY <1>2, <2>3 DEF After, Element
  <2> QED
    BY <1>4, <2>1, <2>2, <2>3
<1>5. CASE l.op \in {"writeXF", "writeEF", "writeXE", "cas"}
  <2> DEFINE v == IF l.op = "cas" /\ c.v # l.old THEN c.v ELSE l.arg
             f == IF l.op = "writeXE" THEN "EMPTY" ELSE "FULL"
  <2>1. After(l, c) = [fe |-> f, rw |-> 0, v |-> v]
    BY <1>5 DEF After
  <2>2. v \in Value /\ f \in {"FULL", "EMPTY"} /\ 0 \in 0 .. RWMax
    BY <1>1
  <2> HIDE DEF v, f
  <2> QED
    BY <2>1, <2>2 DEF Element
<1>6. CASE l.op \notin {"readRW", "readFE", "write", "writeXF", "writeEF", "writeXE", "faa", "cas"}
  BY <1>6 DEF After
<1> QED
  BY <1>3, <1>4, <1>5, <1>6

\* EMSreleaseRW takes one from a count that is not 0.
LEMMA ReleaseType ==
  ASSUME MapInv, NEW t \in Threads, Release(t)
  PROVE  data' \in [Slots -> Element] /\ \E ok \in BOOLEAN : Return(t, ok, Undef)
<1> DEFINE c == data[Idx(t)]
           held == c.fe = "RW_LOCK" /\ c.rw > 0
           d == [c EXCEPT !.rw = @ - 1, !.fe = IF c.rw = 1 THEN "FULL" ELSE @]
<1>1. /\ data' = IF held THEN [data EXCEPT ![Idx(t)] = d] ELSE data
      /\ Return(t, held, Undef)
  BY DEF Release
<1>2. c \in Element /\ data \in [Slots -> Element] /\ Idx(t) \in Slots
  BY ThreadFacts
<1>3. ASSUME held PROVE d \in Element
  <2>1. c.rw - 1 \in 0 .. RWMax
    BY <1>2, <1>3, MapAssumption DEF Element
  <2>2. CASE c.rw = 1
    BY <1>2, <2>1, <2>2 DEF Element
  <2>3. CASE c.rw # 1
    BY <1>2, <2>1, <2>3 DEF Element
  <2> QED
    BY <2>2, <2>3
<1>4. held \in BOOLEAN
  OBVIOUS
<1> HIDE DEF held, d
<1>5. data' \in [Slots -> Element]
  BY <1>1, <1>2, <1>3
<1> QED
  BY <1>1, <1>4, <1>5

\* The operation on the element.
LEMMA OperationKeeps ==
  ASSUME MapInv, NEW t \in Threads, Prepare(t) \/ Try(t) \/ Again(t) \/ Unmap(t) \/ Touch(t)
  PROVE  MapInv'
<1> USE DEF Acting
<1>1. CASE Prepare(t)
  <2>1. /\ At(t, "prepare") /\ Go(t, "try") /\ UNCHANGED <<use, mapFE, mapKey>>
        /\ data' \in [Slots -> Element]
    BY <1>1, ThreadFacts, MapAssumption DEF Prepare, Element
  <2>2. PICK l \in Locals : loc' = [loc EXCEPT ![t] = l] /\ l.pc = "try" /\ l.idx = Idx(t)
    BY <2>1, GoMoves, ThreadFacts DEF PC
  <2> QED
    BY <2>1, <2>2, StayKeeps DEF At
<1>2. CASE Try(t)
  <2> DEFINE c == data[Idx(t)]
             d == After(loc[t], c)
  <2>1. /\ At(t, "try") /\ UNCHANGED <<use, mapKey>>
        /\ c \in Element /\ loc[t] \in Locals
    BY <1>2, ThreadFacts DEF Try, Locals
  <2>2. CASE /\ Ready(loc[t], c)
             /\ data' = [data EXCEPT ![Idx(t)] = d] /\ UNCHANGED mapFE
             /\ loc' = [loc EXCEPT ![t].pc = "unmap",
                                   ![t].ret = IF Op(t) \in Writers \ {"faa"} THEN Undef ELSE c.v]
    <3>1. d \in Element
      BY <2>1, <2>2, AfterType
    <3>2. data' \in [Slots -> Element]
      BY <2>2, <3>1, ThreadFacts
    <3> DEFINE r == IF Op(t) \in Writers \ {"faa"} THEN Undef ELSE c.v
               l == [loc[t] EXCEPT !.pc = "unmap", !.ret = r]
    <3>3. r \in Value
      BY <2>1, MapAssumption DEF Element
    <3>4. l \in Locals /\ l.pc = "unmap" /\ l.idx = Idx(t)
      BY <3>3, ThreadFacts DEF Locals, PC, Idx
    <3>5. loc' = [loc EXCEPT ![t] = l]
      BY <2>2, ThreadFacts
    <3> HIDE DEF l
    <3> QED
      BY <2>1, <2>2, <3>2, <3>4, <3>5, StayKeeps DEF At
  <2>3. CASE SetMapFE(t, "FULL") /\ Go(t, "again") /\ UNCHANGED data
    <3>1. PICK l \in Locals : loc' = [loc EXCEPT ![t] = l] /\ l.pc = "again" /\ l.idx = Idx(t)
      BY <2>3, GoMoves, ThreadFacts DEF PC
    <3>2. mapKey[Idx(t)] # NoKey
      BY <2>1 DEF MapInv, Rooted, At
    <3> QED
      BY <2>1, <2>3, <3>1, <3>2, ThreadFacts, FreeKeeps DEF At
  <2> QED
    BY <1>2, <2>2, <2>3 DEF Try
<1>3. CASE Again(t)
  BY <1>3, AcquireKeeps DEF Again
<1>4. CASE Unmap(t)
  <2>1. /\ At(t, "unmap") /\ SetMapFE(t, "FULL") /\ UNCHANGED <<use, mapKey, data>>
        /\ Return(t, TRUE, loc[t].ret) /\ loc[t].ret \in Value
    BY <1>4, ThreadFacts DEF Unmap, Locals
  <2>2. PICK l \in Locals : loc' = [loc EXCEPT ![t] = l] /\ l.pc = "done"
    BY <2>1, ReturnMoves, ThreadFacts
  <2> QED
    BY <2>1, <2>2, ThreadFacts, FreeKeeps DEF At
<1>5. CASE Touch(t)
  <2>1. At(t, "touch") /\ UNCHANGED <<use, mapFE, mapKey>>
    BY <1>5 DEF Touch
  <2>2. data' \in [Slots -> Element] /\ \E ok \in BOOLEAN : Return(t, ok, Undef)
    <3>1. CASE Release(t)
      BY <3>1, ReleaseType
    <3>2. CASE SetTag(t)
      BY <3>2, ThreadFacts DEF SetTag, Element
    <3> QED
      BY <1>5, <3>1, <3>2 DEF Touch
  <2>3. PICK l \in Locals : loc' = [loc EXCEPT ![t] = l] /\ l.pc = "done"
    BY <2>2, ReturnMoves, ThreadFacts, MapAssumption
  <2> QED
    BY <2>1, <2>2, <2>3, StayKeeps DEF At
<1> QED
  BY <1>1, <1>2, <1>3, <1>4, <1>5

\* The caller: only an operation in progress holds a map tag.
LEMMA CallerKeeps ==
  ASSUME Key # {}, MapInv, NEW t \in Threads, NEW o \in Ops, Call(t, o) \/ Finish(t)
  PROVE  MapInv'
<1>1. AnyKey \in Key /\ Undef \in Value /\ 0 \in Slots /\ 0 \in 0 .. MaxSteps - 1
  BY MapAssumption DEF AnyKey, Slots
<1>2. Idle \in Locals /\ Idle.pc = "idle"
  BY <1>1 DEF Idle, Locals, PC, Ops
<1>3. CASE Call(t, o)
  <2>1. PICK k \in use.keys, a \in Args(o), b \in Olds(o), f \in Garbage(o) :
          loc' = [loc EXCEPT ![t] = [Idle EXCEPT !.pc = "probe", !.op = o, !.key = k,
                    !.arg = a, !.old = b, !.full = f, !.insert = o \in Writers, !.idx = Home(k)]]
    BY <1>3 DEF Call
  <2>2. /\ At(t, "idle") /\ UNCHANGED <<use, mapFE, mapKey, data>>
        /\ use \in Uses
    BY <1>3 DEF Call, MapInv, TypeOK
  <2>3. k \in Key /\ a \in Value /\ b \in Value /\ Home(k) \in Slots /\ f \in BOOLEAN
    BY <1>1, <2>1, <2>2, MapAssumption DEF Args, Olds, Garbage, Home
  <2> DEFINE m(g, w) == [Idle EXCEPT !.pc = "probe", !.op = o, !.key = k,
                           !.arg = a, !.old = b, !.full = g, !.insert = w, !.idx = Home(k)]
             l == m(f, o \in Writers)
  <2>4. l \in Locals /\ l.pc = "probe"
    <3>1. m(TRUE, TRUE) \in Locals /\ m(TRUE, TRUE).pc = "probe"
      BY <1>1, <2>3 DEF Idle, Locals, PC
    <3>2. m(TRUE, FALSE) \in Locals /\ m(TRUE, FALSE).pc = "probe"
      BY <1>1, <2>3 DEF Idle, Locals, PC
    <3>3. m(FALSE, TRUE) \in Locals /\ m(FALSE, TRUE).pc = "probe"
      BY <1>1, <2>3 DEF Idle, Locals, PC
    <3>4. m(FALSE, FALSE) \in Locals /\ m(FALSE, FALSE).pc = "probe"
      BY <1>1, <2>3 DEF Idle, Locals, PC
    <3>5. (o \in Writers) = TRUE \/ (o \in Writers) = FALSE
      OBVIOUS
    <3>6. f = TRUE \/ f = FALSE
      BY <2>3
    <3> HIDE DEF m
    <3> QED
      BY <3>1, <3>2, <3>3, <3>4, <3>5, <3>6
  <2> HIDE DEF l
  <2>5. loc' = [loc EXCEPT ![t] = l]
    BY <2>1 DEF l, m
  <2> QED
    BY <2>2, <2>4, <2>5, ThreadFacts, StayKeeps DEF At
<1>4. CASE Finish(t)
  BY <1>2, <1>4, ThreadFacts, StayKeeps DEF Finish, At
<1> QED
  BY <1>3, <1>4

\* Every step keeps the invariant.
LEMMA MapInductive ==
  ASSUME Key # {} PROVE MapInv /\ [Next]_vars => MapInv'
<1> SUFFICES ASSUME MapInv, [Next]_vars PROVE MapInv'
  OBVIOUS
<1>1. CASE Next
  <2>1. PICK t \in Threads : Step(t) \/ \E o \in Ops : Call(t, o)
    BY <1>1 DEF Next
  <2>2. CASE Probe(t) \/ Compare(t)
    BY <2>2, LookupKeeps
  <2>3. CASE Search(t) \/ Place(t)
    BY <2>3, InsertKeeps
  <2>4. CASE Prepare(t) \/ Try(t) \/ Again(t) \/ Unmap(t) \/ Touch(t)
    BY <2>4, OperationKeeps
  <2>5. CASE Finish(t)
    <3>1. "read" \in Ops
      BY DEF Ops
    <3> QED
      BY <2>5, <3>1, CallerKeeps
  <2>6. CASE \E o \in Ops : Call(t, o)
    BY <2>6, CallerKeeps
  <2> QED
    BY <2>1, <2>2, <2>3, <2>4, <2>5, <2>6 DEF Step
<1>2. CASE UNCHANGED vars
  BY <1>2 DEF vars, MapInv, TypeOK, Rooted, UnusedHeld, UnusedExclusive, MapTagHeld,
              Examines, Idx
<1> QED
  BY <1>1, <1>2

\* The invariant holds in every reachable state.
LEMMA MapInvariant == ASSUME Key # {} PROVE Spec => []MapInv
<1>1. Init => MapInv
  BY InitMap
<1>2. MapInv /\ [Next]_vars => MapInv'
  BY MapInductive
<1> QED
  BY <1>1, <1>2, PTL DEF Spec

\* Lookups stay within the table and the bound on their steps, and every entry
\* has a key, the mark of an unused entry or that of a failed allocation.
THEOREM MapTypeCorrect == ASSUME Key # {} PROVE Spec => []TypeOK
<1>1. MapInv => TypeOK
  BY DEF MapInv
<1> QED
  BY <1>1, MapInvariant, PTL

\* An unused map entry is examined by one thread at a time, although
\* EMSreadUsingTags, EMSwriteUsingTags and EMScas set map tags FULL that they do
\* not hold: two insertions never take the same entry.
THEOREM UnusedEntriesExclusive == ASSUME Key # {} PROVE Spec => []UnusedExclusive
<1>1. MapInv => UnusedExclusive
  BY DEF MapInv
<1> QED
  BY <1>1, MapInvariant, PTL

\* A BUSY map tag is on its way to FULL, unless the allocation of the key failed
\* in EMSwriteIndexMap.
THEOREM MapTagsHeld == ASSUME Key # {} PROVE Spec => []MapTagHeld
<1>1. MapInv => MapTagHeld
  BY DEF MapInv
<1> QED
  BY <1>1, MapInvariant, PTL

-------------------------------------------------------------------------------
(* The search for a key                                                      *)

\* How many entries after h a search that starts at h comes to i.
Distance(h, i) == IF h <= i THEN i - h ELSE i - h + N

\* A search for k goes past entry i, now and ever after.
Passes(i, k) == mapKey[i] # NoKey /\ mapKey[i] # k

\* An entry has a key only if a search for it comes to the entry.
Reached ==
  \A i, j \in Slots :
    mapKey[i] \in Key /\ Distance(Home(mapKey[i]), j) < Distance(Home(mapKey[i]), i)
      => Passes(j, mapKey[i])

\* No entry is further away than a search goes.
Near == \A i \in Slots : mapKey[i] \in Key => Distance(Home(mapKey[i]), i) < MaxSteps

Seeking == {"probe", "compare", "search", "place"}

\* A thread has gone past the entries before the one it is at.
Searched(l) ==
  l.pc \in Seeking =>
    /\ \A i \in Slots : Distance(Home(l.key), i) < l.tries => Passes(i, l.key)
    /\ l.tries < N => Distance(Home(l.key), l.idx) = l.tries

SearchInv == Reached /\ Near /\ \A t \in Threads : Searched(loc[t])

\* Distances from h are different, smaller than N, and grow by one from an entry to
\* the next.
LEMMA Distances ==
  ASSUME NEW h \in Slots, NEW i \in Slots
  PROVE  /\ Distance(h, i) \in Slots /\ Distance(h, h) = 0
         /\ \A j \in Slots : Distance(h, i) = Distance(h, j) => i = j
         /\ Distance(h, i) + 1 < N => Distance(h, (i + 1) % N) = Distance(h, i) + 1
<1>1. N \in Nat \ {0} /\ h \in 0 .. N - 1 /\ i \in 0 .. N - 1
  BY MapAssumption DEF Slots
<1>2. (i + 1) % N = IF i + 1 = N THEN 0 ELSE i + 1
  BY <1>1
<1> QED
  BY <1>1, <1>2 DEF Distance, Slots

\* A step that inserts no key.
LEMMA SearchStays ==
  ASSUME MapInv, SearchInv, NEW t \in Threads, \A u \in Threads \ {t} : loc'[u] = loc[u],
         Searched(loc[t])', UNCHANGED mapKey
  PROVE  SearchInv'
<1>1. \A u \in Threads \ {t} : Searched(loc[u])'
  BY DEF SearchInv, Searched, Passes
<1> QED
  BY <1>1 DEF SearchInv, Reached, Near, Passes

\* A step that begins a search has gone past nothing.
LEMMA StartSearches ==
  ASSUME MapInv, SearchInv, NEW t \in Threads, loc'[t].key \in Key,
         loc'[t].idx = Home(loc'[t].key), loc'[t].tries = 0,
         \A u \in Threads \ {t} : loc'[u] = loc[u], UNCHANGED mapKey
  PROVE  SearchInv'
<1>1. Home(loc'[t].key) \in Slots
  BY MapAssumption DEF Home
<1>2. \A i \in Slots : Distance(Home(loc'[t].key), i) \in 0 .. N - 1
  BY <1>1, Distances DEF Slots
<1>3. Searched(loc[t])'
  BY <1>1, <1>2, Distances DEF Searched, Home
<1> QED
  BY <1>3, SearchStays

\* So does EMSwriteIndexMap.
LEMMA FromSearches ==
  ASSUME MapInv, SearchInv, NEW t \in Threads, NEW p \in PC, From(t, p), UNCHANGED mapKey
  PROVE  SearchInv'
<1>1. /\ loc'[t].key = loc[t].key /\ loc'[t].idx = Home(loc[t].key) /\ loc'[t].tries = 0
      /\ loc[t].key \in Key
      /\ \A u \in Threads \ {t} : loc'[u] = loc[u]
  BY ThreadFacts DEF From, Locals
<1> QED
  BY <1>1, StartSearches

\* A step at the entry it is at goes past nothing.
LEMMA GoSearches ==
  ASSUME MapInv, SearchInv, NEW t \in Threads, NEW p \in PC, Go(t, p), loc[t].pc \in Seeking,
         UNCHANGED mapKey
  PROVE  SearchInv'
<1>1. /\ loc'[t].key = loc[t].key /\ loc'[t].idx = loc[t].idx /\ loc'[t].tries = loc[t].tries
      /\ \A u \in Threads \ {t} : loc'[u] = loc[u]
  BY ThreadFacts DEF Go, Locals
<1>2. Searched(loc[t])'
  BY <1>1 DEF SearchInv, Searched, Passes, Home
<1> QED
  BY <1>1, <1>2, SearchStays

\* A search goes on past the entry it is at.
LEMMA NextSlotSearches ==
  ASSUME MapInv, SearchInv, NEW t \in Threads, loc[t].pc \in Seeking,
         Passes(Idx(t), loc[t].key), NEW p \in Seeking, NextSlot(t, p), UNCHANGED mapKey
  PROVE  SearchInv'
<1> DEFINE h == Home(loc[t].key)
           n == loc[t].tries
<1>1. /\ loc'[t].key = loc[t].key /\ loc'[t].idx = (Idx(t) + 1) % N /\ loc'[t].tries = n + 1
      /\ h \in Slots /\ Idx(t) \in Slots /\ n \in Nat /\ N \in Nat
      /\ \A u \in Threads \ {t} : loc'[u] = loc[u]
  BY ThreadFacts, MapAssumption DEF NextSlot, Locals, Home, Idx
<1>2. /\ \A i \in Slots : Distance(h, i) < n => Passes(i, loc[t].key)
      /\ n < N => Distance(h, Idx(t)) = n
  BY DEF SearchInv, Searched, Idx
<1> HIDE DEF h, n
<1>3. ASSUME NEW i \in Slots, Distance(h, i) < n + 1 PROVE Passes(i, loc[t].key)
  <2>1. Distance(h, i) \in 0 .. N - 1
    BY <1>1, Distances DEF Slots
  <2>2. CASE Distance(h, i) < n
    BY <1>2, <2>2
  <2>3. CASE Distance(h, i) = n
    BY <1>1, <1>2, <2>1, <2>3, Distances
  <2> QED
    BY <1>1, <1>3, <2>1, <2>2, <2>3
<1>4. n + 1 < N => Distance(h, (Idx(t) + 1) % N) = n + 1
  BY <1>1, <1>2, Distances
<1>5. Searched(loc[t])'
  BY <1>1, <1>3, <1>4 DEF Searched, Passes, h, Home
<1> QED
  BY <1>1, <1>5, SearchStays

\* An unused entry is given the key whose search has come to it, or spoilt.
LEMMA PlaceReaches ==
  ASSUME MapInv, SearchInv, NEW t \in Threads, At(t, "place"), Unused(t),
         NEW k \in {loc[t].key, Torn}, mapKey' = [mapKey EXCEPT ![Idx(t)] = k],
         loc'[t].pc \notin Seeking, \A u \in Threads \ {t} : loc'[u] = loc[u]
  PROVE  SearchInv'
<1> DEFINE j == Idx(t)
<1>1. /\ j \in Slots /\ loc[t].key \in Key /\ Home(loc[t].key) \in Slots
      /\ mapKey[j] = NoKey /\ mapKey'[j] = k /\ \A i \in Slots : i # j => mapKey'[i] = mapKey[i]
      /\ loc[t].tries \in Nat /\ k # NoKey
  BY ThreadFacts, MapAssumption DEF Unused, Locals, Home
<1>2. \A i \in Slots, c \in Key : Passes(i, c) => i # j /\ Passes(i, c)'
  BY <1>1 DEF Passes
<1>3. \A i \in Slots : Distance(Home(loc[t].key), i) \in 0 .. N - 1
  BY <1>1, Distances DEF Slots
<1>4. /\ \A i \in Slots : Distance(Home(loc[t].key), i) < loc[t].tries => Passes(i, loc[t].key)
      /\ loc[t].tries < N => Distance(Home(loc[t].key), j) = loc[t].tries
  BY DEF SearchInv, Searched, Seeking, At, Idx
<1>5. Distance(Home(loc[t].key), j) = loc[t].tries
  BY <1>1, <1>2, <1>3, <1>4, MapAssumption
<1> HIDE DEF j
<1>6. Reached'
  <2> SUFFICES ASSUME NEW i \in Slots, NEW h \in Slots, mapKey'[i] \in Key,
                      Distance(Home(mapKey'[i]), h) < Distance(Home(mapKey'[i]), i)
               PROVE  mapKey'[h] # NoKey /\ mapKey'[h] # mapKey'[i]
    BY DEF Reached, Passes, Home
  <2>1. CASE i = j
    <3>1. mapKey'[i] = loc[t].key
      BY <1>1, <2>1, MapAssumption
    <3> QED
      BY <1>1, <1>2, <1>4, <1>5, <2>1, <3>1 DEF Passes
  <2>2. CASE i # j
    <3>1. mapKey'[i] = mapKey[i] /\ Passes(h, mapKey[i])
      BY <1>1, <2>2 DEF SearchInv, Reached
    <3> QED
      BY <1>2, <3>1 DEF Passes
  <2> QED
    BY <2>1, <2>2
<1>9. Near'
  <2>1. loc[t].tries < MaxSteps
    BY ThreadFacts, MapAssumption DEF Locals
  <2> SUFFICES ASSUME NEW i \in Slots, mapKey'[i] \in Key
               PROVE  Distance(Home(mapKey'[i]), i) < MaxSteps
    BY DEF Near, Home
  <2>2. CASE i = j
    BY <1>1, <1>5, <2>1, <2>2, MapAssumption
  <2>3. CASE i # j
    BY <1>1, <2>3 DEF SearchInv, Near
  <2> QED
    BY <2>2, <2>3
<1>7. \A u \in Threads \ {t} : Searched(loc[u])'
  <2> SUFFICES ASSUME NEW u \in Threads \ {t} PROVE Searched(loc[u])'
    OBVIOUS
  <2>1. loc'[u] = loc[u] /\ loc[u].key \in Key /\ Searched(loc[u])
    BY ThreadFacts DEF SearchInv, Locals
  <2> QED
    BY <1>2, <2>1 DEF Searched, Passes, Home
<1>8. Searched(loc[t])'
  BY DEF Searched
<1> QED
  BY <1>6, <1>7, <1>8, <1>9 DEF SearchInv

\* A thread that returns searches no more.
LEMMA ReturnLeaves ==
  ASSUME MapInv, NEW t \in Threads, NEW ok \in BOOLEAN, NEW v \in Value, Return(t, ok, v)
  PROVE  loc'[t].pc = "done" /\ \A u \in Threads \ {t} : loc'[u] = loc[u]
<1>1. PICK l \in Locals : loc' = [loc EXCEPT ![t] = l] /\ l.pc = "done"
  BY ReturnMoves, ThreadFacts
<1> QED
  BY <1>1, ThreadFacts

\* EMSwriteIndexMap keeps to the way a search goes.
LEMMA InsertSearches ==
  ASSUME MapInv, SearchInv, NEW t \in Threads, Search(t) \/ Place(t)
  PROVE  SearchInv'
<1> USE ThreadFacts
<1>0. \A u \in Threads \ {t} : loc'[u] = loc[u]
  BY DEF Search, Place, Go, IndexFound, Return, NextSlot
<1>1. CASE Search(t)
  BY <1>1, GoSearches DEF Search, At, Seeking, PC
<1>2. CASE Place(t)
  <2>1. CASE Unused(t) /\ (IndexFound(t) \/ Return(t, FALSE, Undef))
    <3>1. loc'[t].pc \in {"prepare", "try", "done"}
      <4>1. IndexFound(t) => loc'[t].pc \in {"prepare", "try"}
        BY DEF IndexFound, Go, Locals
      <4>2. Return(t, FALSE, Undef) => loc'[t].pc = "done"
        BY ReturnLeaves, MapAssumption
      <4> QED
        BY <2>1, <4>1, <4>2
    <3>2. PICK k \in {loc[t].key, Torn} : mapKey' = [mapKey EXCEPT ![Idx(t)] = k]
      BY <1>2, <2>1, MapAssumption DEF Place, Matches, Unused, Locals
    <3> QED
      BY <1>0, <1>2, <2>1, <3>1, <3>2, PlaceReaches DEF Place, Seeking
  <2>2. CASE Matches(t) /\ IndexFound(t) /\ UNCHANGED mapKey
    <3>1. loc'[t].pc \in {"prepare", "try"}
      BY <2>2 DEF IndexFound, Go, Locals
    <3> QED
      BY <1>0, <2>2, <3>1, SearchStays DEF Searched, Seeking
  <2>3. CASE ~Matches(t) /\ ~Unused(t) /\ UNCHANGED mapKey /\ LastTry(t)
    <3>1. loc'[t].pc = "done"
      BY <1>2, <2>3, ReturnLeaves, MapAssumption DEF Place
    <3> QED
      BY <1>0, <2>3, <3>1, SearchStays DEF Searched, Seeking
  <2>4. CASE ~Matches(t) /\ ~Unused(t) /\ UNCHANGED mapKey /\ ~LastTry(t)
    <3>1. NextSlot(t, "search") /\ Passes(Idx(t), loc[t].key)
      BY <1>2, <2>4 DEF Place, Passes, Matches, Unused
    <3> QED
      BY <1>2, <2>4, <3>1, NextSlotSearches DEF Place, At, Seeking
  <2> QED
    BY <1>2, <2>1, <2>2, <2>3, <2>4 DEF Place
<1> QED
  BY <1>1, <1>2

\* Every step keeps to the way a search goes.
LEMMA SearchInductive ==
  ASSUME MapInv, SearchInv, [Next]_vars PROVE SearchInv'
<1>1. CASE UNCHANGED vars
  BY <1>1 DEF vars, SearchInv, Reached, Near, Searched, Passes
<1>2. ASSUME NEW t \in Threads, NEW o \in Ops, Call(t, o) PROVE SearchInv'
  <2>1. PICK k \in use.keys, a \in Args(o), b \in Olds(o), f \in Garbage(o) :
          loc' = [loc EXCEPT ![t] = [Idle EXCEPT !.pc = "probe", !.op = o, !.key = k,
                    !.arg = a, !.old = b, !.full = f, !.insert = o \in Writers, !.idx = Home(k)]]
    BY <1>2 DEF Call
  <2>2. k \in Key
    BY MapAssumption DEF MapInv, TypeOK
  <2>3. /\ loc'[t].key = k /\ loc'[t].idx = Home(k) /\ loc'[t].tries = 0
        /\ \A u \in Threads \ {t} : loc'[u] = loc[u]
    BY <2>1, ThreadFacts DEF Idle
  <2> QED
    BY <1>2, <2>2, <2>3, StartSearches DEF Call
<1>3. ASSUME NEW t \in Threads, Step(t) PROVE SearchInv'
  <2> USE ThreadFacts
  <2>1. CASE Search(t) \/ Place(t)
    BY <2>1, InsertSearches
  <2>2. CASE Probe(t)
    BY <2>2, GoSearches DEF Probe, At, Seeking, PC
  <2>3. CASE \E p \in PC : From(t, p) /\ Compare(t)
    BY <2>3, FromSearches DEF Compare
  <2>4. CASE Compare(t) /\ ~Matches(t) /\ ~Unused(t) /\ ~LastTry(t)
    BY <2>4, NextSlotSearches DEF Compare, Passes, Matches, Unused, At, Seeking
  <2>5. CASE \/ Compare(t) /\ (\A p \in PC : ~From(t, p)) /\ (Matches(t) \/ Unused(t) \/ LastTry(t))
             \/ Prepare(t) \/ Try(t) \/ Again(t) \/ Unmap(t) \/ Touch(t) \/ Finish(t)
    <3>1. /\ loc'[t].pc \in {"idle", "prepare", "try", "again", "unmap", "touch", "done"}
          /\ \A u \in Threads \ {t} : loc'[u] = loc[u]
      <4>1. CASE Compare(t) /\ (\A p \in PC : ~From(t, p)) /\ (Matches(t) \/ Unused(t) \/ LastTry(t))
        <5>1. \/ Return(t, TRUE, Undef) \/ Return(t, FALSE, Undef)
              \/ \E p \in {"touch", "prepare", "try"} : Go(t, p)
          BY <4>1 DEF Compare, Matched, Missing, IndexFound, PC
        <5>2. CASE \E p \in {"touch", "prepare", "try"} : Go(t, p)
          BY <5>2 DEF Go, Locals
        <5> QED
          BY <5>1, <5>2, ReturnLeaves, MapAssumption
      <4>2. CASE Try(t)
        BY <4>2 DEF Try, Go, Locals
      <4>3. CASE Prepare(t) \/ Again(t) \/ Finish(t)
        BY <4>3 DEF Prepare, Again, Finish, Go, Locals, Idle
      <4>4. CASE Unmap(t)
        BY <4>4, ReturnLeaves DEF Unmap, Locals
      <4>5. CASE Touch(t)
        <5>1. \E ok \in BOOLEAN : Return(t, ok, Undef)
          BY <4>5, ReleaseType DEF Touch, SetTag
        <5> QED
          BY <5>1, ReturnLeaves, MapAssumption
      <4> QED
        BY <2>5, <4>1, <4>2, <4>3, <4>4, <4>5
    <3>2. mapKey' = mapKey
      BY <2>5 DEF Compare, Prepare, Try, Again, Unmap, Touch, Finish
    <3> QED
      BY <3>1, <3>2, SearchStays DEF Searched, Seeking
  <2> QED
    BY <1>3, <2>1, <2>2, <2>3, <2>4, <2>5 DEF Step
<1> QED
  BY <1>1, <1>2, <1>3 DEF Next

LEMMA InitSearch == Init => SearchInv
  BY MapAssumption DEF Init, SearchInv, Reached, Near, Searched, Seeking, Idle

\* A key that is in two entries would have been found in the nearer one by the search
\* that inserted it in the other.
LEMMA SearchOneIndex == MapInv /\ SearchInv => OneIndex
<1> SUFFICES ASSUME MapInv, SearchInv, NEW i \in Slots, NEW j \in Slots, mapKey[i] \in Key,
                    mapKey[i] = mapKey[j], i # j
             PROVE  FALSE
  BY DEF OneIndex
<1> DEFINE h == Home(mapKey[i])
<1>1. /\ h \in Slots /\ Distance(h, i) # Distance(h, j)
      /\ Distance(h, i) \in Slots /\ Distance(h, j) \in Slots
  BY Distances, MapAssumption DEF Home
<1>2. Distance(h, i) < Distance(h, j) \/ Distance(h, j) < Distance(h, i)
  <2>1. \A x, y \in Slots : x # y => x < y \/ y < x
    BY MapAssumption DEF Slots
  <2> HIDE DEF h
  <2> QED
    BY <1>1, <2>1
<1> QED
  BY <1>2 DEF SearchInv, Reached, Passes

\* However many threads insert a key at once, it is given one element (EMSwriteIndexMap).
THEOREM KeyHasOneIndex == ASSUME Key # {} PROVE Spec => []OneIndex
<1>1. MapInv /\ SearchInv /\ [Next]_vars => SearchInv'
  BY SearchInductive
<1> QED
  BY <1>1, InitSearch, SearchOneIndex, MapInvariant, PTL DEF Spec

-------------------------------------------------------------------------------
(* A mapped array implements KeyedCells *)

\* The programs that EMScas is for: it is kept to serial sections, and to elements that
\* no operation leaves EMPTY or locked (reference.html:984 promises more, which the run
\* cas refutes).
CasDisciplined ==
  \A u \in Uses : "cas" \in u.ops =>
    /\ "cas" \in u.alone /\ u.initFE = "FULL"
    /\ u.ops \cap {"readFE", "readRW", "writeXE", "setEmpty"} = {}

\* Nobody has acted on the element of an entry without a key.
Untouched == [fe |-> use.initFE, rw |-> 0, v |-> Undef]

Unplaced == \A i \in Slots : mapKey[i] \notin Key => data[i] = Untouched

\* While EMScas runs nobody else does, and it finds the elements FULL.
CasAlone ==
  \A t, u \in Threads : Op(t) = "cas" /\ ~At(t, "idle") /\ u # t => At(u, "idle")

CasFull == "cas" \in use.ops => \A i \in Slots : data[i].fe = "FULL"

\* What thread t knows of its key.
OnKey(t) ==
  /\ ~At(t, "idle") => Op(t) \in use.ops
  /\ loc[t].pc \in {"prepare", "try", "again", "touch"} => mapKey[Idx(t)] = loc[t].key
  /\ loc[t].pc # "done" => loc[t].ok = TRUE
  /\ loc[t].insert => Op(t) \notin Lookups \cup {"read"}
  /\ loc[t].insert /\ Op(t) = "cas" =>
       loc[t].old = Undef /\ (loc[t].pc \in Seeking => Placed(loc[t].key) = {})
  /\ loc[t].pc \in {"search", "place"} => loc[t].insert
  /\ At(t, "prepare") => Op(t) = "cas" /\ data[Idx(t)] = [fe |-> "FULL", rw |-> 0, v |-> Undef]
  /\ At(t, "touch") => Op(t) \in Lookups
  /\ loc[t].pc \in {"try", "again", "unmap"} => Op(t) \notin Lookups

KeyedInv == Unplaced /\ CasAlone /\ CasFull /\ \A t \in Threads : OnKey(t)

\* The other threads stay where they are, and a thread keeps the operation it is in.
Others(t) == \A u \in Threads \ {t} : loc'[u] = loc[u]

Same(t) ==
  /\ loc'[t].op = loc[t].op /\ loc'[t].key = loc[t].key
  /\ loc'[t].arg = loc[t].arg /\ loc'[t].old = loc[t].old

\* What the ways in which a thread moves do with its locals.
LEMMA GoFields ==
  ASSUME MapInv, NEW t \in Threads, NEW p \in PC, Go(t, p)
  PROVE  /\ Others(t) /\ Same(t) /\ loc'[t].pc = p /\ loc'[t].insert = loc[t].insert
         /\ loc'[t].idx = loc[t].idx /\ loc'[t].ok = loc[t].ok /\ loc'[t].ret = loc[t].ret
  BY ThreadFacts DEF Go, Others, Same, Locals

LEMMA ReturnFields ==
  ASSUME MapInv, NEW t \in Threads, NEW ok, NEW v, Return(t, ok, v)
  PROVE  /\ Others(t) /\ Same(t) /\ loc'[t].pc = "done" /\ loc'[t].insert = FALSE
         /\ loc'[t].ok = ok /\ loc'[t].ret = v
<1> DEFINE l == [loc[t] EXCEPT !.pc = "done", !.insert = FALSE, !.idx = 0, !.tries = 0,
                               !.ok = ok, !.ret = v]
<1>1. /\ l.op = loc[t].op /\ l.key = loc[t].key /\ l.arg = loc[t].arg /\ l.old = loc[t].old
      /\ l.pc = "done" /\ l.insert = FALSE /\ l.ret = v /\ l.ok = ok
  BY ThreadFacts, Zenon DEF Locals
<1>2. loc' = [loc EXCEPT ![t] = l]
  BY DEF Return
<1> HIDE DEF l
<1>3. loc'[t] = l /\ Others(t)
  BY <1>2, ThreadFacts DEF Others
<1> QED
  BY <1>1, <1>3 DEF Same

LEMMA FromFields ==
  ASSUME MapInv, NEW t \in Threads, NEW p \in PC, From(t, p)
  PROVE  /\ Others(t) /\ Same(t) /\ loc'[t].pc = p /\ loc'[t].insert = TRUE
         /\ loc'[t].ok = loc[t].ok /\ loc'[t].ret = loc[t].ret
  BY ThreadFacts DEF From, Others, Same, Locals

LEMMA NextSlotFields ==
  ASSUME MapInv, NEW t \in Threads, NEW p \in PC, NextSlot(t, p)
  PROVE  /\ Others(t) /\ Same(t) /\ loc'[t].pc = p /\ loc'[t].insert = loc[t].insert
         /\ loc'[t].ok = loc[t].ok /\ loc'[t].ret = loc[t].ret
  BY ThreadFacts DEF NextSlot, Others, Same, Locals

\* A step within an operation leaves what the others know alone.
LEMMA KeyedStep ==
  ASSUME MapInv, KeyedInv, NEW t \in Threads, ~At(t, "idle"), Others(t),
         loc'[t].pc = "idle" \/ Same(t), use' = use,
         \A i \in Slots : mapKey[i] \in Key => mapKey'[i] = mapKey[i],
         Unplaced', CasFull', OnKey(t)'
  PROVE  KeyedInv'
<1>1. \A u \in Threads \ {t} : Op(u) = "cas" => At(u, "idle")
  BY DEF KeyedInv, CasAlone
<1>2. CasAlone'
  BY <1>1 DEF KeyedInv, CasAlone, Others, Same, At, Op
<1>3. ASSUME NEW u \in Threads \ {t} PROVE OnKey(u)'
  <2>1. loc'[u] = loc[u] /\ OnKey(u) /\ loc[u].key \in Key /\ Idx(u) \in Slots
    BY ThreadFacts DEF Others, KeyedInv, Locals
  <2>2. Op(u) = "cas" => At(u, "idle")
    BY <1>1
  <2> QED
    BY <2>1, <2>2 DEF OnKey, Op, At, Idx, Seeking
<1> QED
  BY <1>2, <1>3 DEF KeyedInv

\* A search that ends at an entry without the key has shown that there is none.
LEMMA NotFound ==
  ASSUME MapInv, SearchInv, NEW t \in Threads, Examines(t), ~Matches(t), Unused(t) \/ LastTry(t)
  PROVE  Placed(loc[t].key) = {}
<1> DEFINE k == loc[t].key
           h == Home(k)
           n == loc[t].tries
<1>1. /\ k \in Key /\ h \in Slots /\ Idx(t) \in Slots /\ n \in Nat /\ N \in Nat /\ MaxSteps \in Nat
  BY ThreadFacts, MapAssumption DEF Locals, Home
<1>2. /\ \A i \in Slots : Distance(h, i) < n => Passes(i, k)
      /\ n < N => Distance(h, Idx(t)) = n
  BY DEF SearchInv, Searched, Idx, Examines, Seeking
<1> SUFFICES ASSUME NEW i \in Slots, mapKey[i] = k PROVE FALSE
  BY DEF Placed
<1>3. Distance(h, i) \in 0 .. N - 1 /\ (Distance(h, i) = Distance(h, Idx(t)) => i = Idx(t))
  BY <1>1, Distances DEF Slots
<1>4. ~(Distance(h, i) < n)
  BY <1>2 DEF Passes
<1>5. Distance(h, i) < MaxSteps
  BY <1>1 DEF SearchInv, Near
<1>6. i # Idx(t)
  BY DEF Matches
<1>7. Distance(h, Idx(t)) < Distance(h, i) => mapKey[Idx(t)] # NoKey
  BY <1>1 DEF SearchInv, Reached, Passes
<1> DEFINE d == Distance(h, i)
<1>8. n < d
  <2>1. d \in Nat /\ d < N /\ ~(d < n)
    BY <1>1, <1>3, <1>4
  <2>2. CASE d = n
    BY <1>2, <1>3, <1>6, <2>1, <2>2
  <2> HIDE DEF d, n
  <2> QED
    BY <1>1, <2>1, <2>2
<1>9. Distance(h, Idx(t)) = n
  <2>1. n < N
    BY <1>1, <1>3, <1>8
  <2> QED
    BY <1>2, <2>1
<1>10. CASE Unused(t)
  BY <1>7, <1>8, <1>9, <1>10 DEF Unused
<1>11. CASE LastTry(t)
  <2>1. n + 1 = MaxSteps
    BY <1>11 DEF LastTry
  <2>2. d \in Nat /\ d < MaxSteps
    BY <1>1, <1>3, <1>5
  <2> HIDE DEF d, n
  <2> QED
    BY <1>1, <1>8, <2>1, <2>2
<1> QED
  BY <1>10, <1>11

\* A step that changes neither entries nor elements.
LEMMA QuietKeeps ==
  ASSUME MapInv, KeyedInv, NEW t \in Threads, ~At(t, "idle"), Others(t),
         loc'[t].pc = "idle" \/ Same(t), UNCHANGED <<use, mapKey, data>>, OnKey(t)'
  PROVE  KeyedInv'
<1>1. Unplaced' /\ CasFull'
  BY DEF KeyedInv, Unplaced, CasFull, Untouched
<1> QED
  BY <1>1, KeyedStep

\* What EMScas needs of the program.
LEMMA CasElements ==
  ASSUME CasDisciplined, MapInv, KeyedInv, NEW t \in Threads, ~At(t, "idle")
  PROVE  /\ Op(t) \in use.ops
         /\ "cas" \in use.ops =>
              /\ use.initFE = "FULL" /\ \A i \in Slots : data[i].fe = "FULL"
              /\ Op(t) \notin {"readFE", "readRW", "writeXE", "setEmpty"}
  BY DEF CasDisciplined, MapInv, TypeOK, KeyedInv, OnKey, CasFull

\* A lookup ends at the element of its key, or where there is no entry for it.
LEMMA CompareQuiet ==
  ASSUME CasDisciplined, MapInv, SearchInv, KeyedInv, NEW t \in Threads, Compare(t)
  PROVE  UNCHANGED <<use, mapKey, data>>
<1>1. CASE MarksLast(t)
  <2>1. N - 1 \in Slots /\ data \in [Slots -> Element] /\ data[N - 1].fe = "FULL"
    <3>1. Op(t) = "cas" /\ ~At(t, "idle")
      BY <1>1 DEF MarksLast, Compare, At
    <3>2. \A i \in Slots : data[i].fe = "FULL"
      BY <3>1, CasElements
    <3>3. N - 1 \in Slots
      BY MapAssumption DEF Slots
    <3> QED
      BY <3>2, <3>3, ThreadFacts
  <2>2. [data EXCEPT ![N - 1].fe = "FULL"] = data
    BY <2>1 DEF Element
  <2> QED
    BY <2>2 DEF Compare
<1> QED
  BY <1>1 DEF Compare

\* A search that begins again, now for an insertion, knows what it knew of its key.
LEMMA FromKeepsKey ==
  ASSUME MapInv, KeyedInv, NEW t \in Threads, At(t, "compare"),
         NEW p \in {"search", "probe"}, From(t, p), UNCHANGED <<use, mapKey>>,
         Op(t) \notin Lookups \cup {"read"},
         Op(t) = "cas" => loc[t].old = Undef /\ Placed(loc[t].key) = {}
  PROVE  OnKey(t)'
<1>1. /\ Same(t) /\ loc'[t].pc = p /\ loc'[t].insert = TRUE /\ loc'[t].ok = loc[t].ok
  BY FromFields DEF PC
<1>2. Op(t) \in use.ops /\ loc[t].ok = TRUE
  BY DEF KeyedInv, OnKey, At
<1>3. Placed(loc[t].key)' = Placed(loc[t].key)
  BY <1>1 DEF Placed, Same
<1>4. (Op(t) \notin Lookups \cup {"read"})' /\ (Op(t) \in use.ops)'
  BY <1>1, <1>2 DEF Same, Op
<1>5. Op(t)' = "cas" => loc'[t].old = Undef /\ Placed(loc[t].key)' = {}
  BY <1>1, <1>3 DEF Same, Op
<1> QED
  BY <1>1, <1>2, <1>4, <1>5 DEF OnKey, At

LEMMA CompareKeyed ==
  ASSUME CasDisciplined, MapInv, SearchInv, KeyedInv, NEW t \in Threads, Compare(t)
  PROVE  KeyedInv'
<1>1. UNCHANGED <<use, mapKey, data>>
  BY CompareQuiet
<1>2. /\ At(t, "compare") /\ ~At(t, "idle") /\ OnKey(t) /\ Idx(t) \in Slots
      /\ Placed(loc[t].key)' = {i \in Slots : mapKey[i] = loc'[t].key}
  BY <1>1, ThreadFacts DEF Compare, At, KeyedInv, Placed
<1>3. CASE Matches(t) /\ Matched(t)
  <2>1. CASE loc[t].insert /\ From(t, "search")
    <3>1. OnKey(t)'
      <4>1. /\ Op(t) \notin Lookups \cup {"read"}
            /\ Op(t) = "cas" => loc[t].old = Undef /\ Placed(loc[t].key) = {}
        BY <1>2, <2>1 DEF OnKey, At, Seeking
      <4> QED
        BY <1>1, <1>2, <2>1, <4>1, FromKeepsKey
    <3> QED
      BY <1>1, <1>2, <2>1, <3>1, FromFields, QuietKeeps DEF PC
  <2>2. CASE Op(t) \in Lookups /\ Go(t, "touch")
    <3>1. OnKey(t)'
      BY <1>1, <1>2, <1>3, <2>2, GoFields DEF OnKey, Same, Op, At, Idx, Placed, PC, Seeking, Matches
    <3> QED
      BY <1>1, <1>2, <2>2, <3>1, GoFields, QuietKeeps DEF PC
  <2>3. CASE Op(t) \notin Lookups /\ IndexFound(t)
    <3>1. ~(Op(t) = "cas" /\ loc[t].insert)
      BY <1>2, <1>3 DEF OnKey, Placed, Matches, At, Seeking
    <3>2. Go(t, "try")
      BY <2>3, <3>1 DEF IndexFound
    <3>3. OnKey(t)'
      BY <1>1, <1>2, <1>3, <2>3, <3>2, GoFields DEF OnKey, Same, Op, At, Idx, Placed, PC, Seeking, Matches
    <3> QED
      BY <1>1, <1>2, <3>2, <3>3, GoFields, QuietKeeps DEF PC
  <2> QED
    BY <1>3, <2>1, <2>2, <2>3 DEF Matched
<1>4. CASE ~Matches(t) /\ (Unused(t) \/ LastTry(t)) /\ Missing(t)
  <2>1. Placed(loc[t].key) = {}
    BY <1>2, <1>4, NotFound DEF Examines, At
  <2>2. CASE loc[t].insert /\ From(t, "search")
    <3>1. OnKey(t)'
      <4>1. /\ Op(t) \notin Lookups \cup {"read"}
            /\ Op(t) = "cas" => loc[t].old = Undef
        BY <1>2, <2>2 DEF OnKey
      <4> QED
        BY <1>1, <1>2, <2>1, <2>2, <4>1, FromKeepsKey
    <3> QED
      BY <1>1, <1>2, <2>2, <3>1, FromFields, QuietKeeps DEF PC
  <2>3. CASE /\ Op(t) \in {"readFE", "readFF", "readRW"} \/ (Op(t) = "cas" /\ loc[t].old = Undef)
             /\ From(t, "probe")
    <3>1. OnKey(t)'
      <4>1. Op(t) \notin Lookups \cup {"read"} /\ (Op(t) = "cas" => loc[t].old = Undef)
        BY <2>3 DEF Lookups
      <4> QED
        BY <1>1, <1>2, <2>1, <2>3, <4>1, FromKeepsKey
    <3> QED
      BY <1>1, <1>2, <2>3, <3>1, FromFields, QuietKeeps DEF PC
  <2>4. CASE \E ok \in BOOLEAN : Return(t, ok, Undef)
    <3>1. OnKey(t)'
      BY <1>1, <1>2, <2>4, ReturnFields DEF OnKey, Same, Op, At, Seeking
    <3> QED
      BY <1>1, <1>2, <2>4, <3>1, ReturnFields, QuietKeeps
  <2> QED
    BY <1>4, <2>2, <2>3, <2>4 DEF Missing
<1>5. CASE NextSlot(t, "probe")
  <2>1. OnKey(t)'
    BY <1>1, <1>2, <1>5, NextSlotFields DEF OnKey, Same, Op, At, Placed, PC, Seeking
  <2> QED
    BY <1>1, <1>2, <1>5, <2>1, NextSlotFields, QuietKeeps DEF PC
<1> QED
  BY <1>3, <1>4, <1>5 DEF Compare

\* An insertion gives the key an entry whose element nobody has touched.
LEMMA PlaceKeyed ==
  ASSUME CasDisciplined, MapInv, SearchInv, KeyedInv, NEW t \in Threads, Place(t)
  PROVE  KeyedInv'
<1>1. /\ UNCHANGED <<use, data>> /\ At(t, "place") /\ ~At(t, "idle") /\ OnKey(t)
      /\ Idx(t) \in Slots /\ loc[t].insert /\ loc[t].key \in Key
      /\ Op(t) \notin Lookups \cup {"read"}
  BY ThreadFacts DEF Place, At, KeyedInv, OnKey, Locals
<1>2. CASE Matches(t) /\ IndexFound(t) /\ UNCHANGED mapKey
  <2>1. Op(t) # "cas"
    BY <1>1, <1>2 DEF OnKey, Placed, Matches, At, Seeking
  <2>2. Go(t, "try")
    BY <1>2, <2>1 DEF IndexFound
  <2>3. OnKey(t)'
    BY <1>1, <1>2, <2>1, <2>2, GoFields DEF OnKey, Same, Op, At, Idx, PC, Seeking, Matches
  <2> QED
    BY <1>1, <1>2, <2>2, <2>3, GoFields, QuietKeeps DEF PC
<1>3. ASSUME Unused(t), NEW k \in {loc[t].key, Torn}, mapKey' = [mapKey EXCEPT ![Idx(t)] = k],
             Others(t), Same(t), OnKey(t)'
      PROVE  KeyedInv'
  <2>1. /\ \A i \in Slots : i # Idx(t) => mapKey'[i] = mapKey[i]
        /\ mapKey[Idx(t)] \notin Key
    BY <1>1, <1>3, ThreadFacts, MapAssumption DEF Unused
  <2>2. \A i \in Slots : mapKey'[i] \notin Key => mapKey[i] \notin Key
    BY <2>1
  <2>3. Unplaced' /\ CasFull'
    BY <1>1, <2>2 DEF KeyedInv, Unplaced, CasFull, Untouched
  <2> QED
    BY <1>1, <1>3, <2>1, <2>3, KeyedStep
<1>4. CASE Unused(t) /\ IndexFound(t) /\ mapKey' = [mapKey EXCEPT ![Idx(t)] = loc[t].key]
  <2>1. PICK p \in {"prepare", "try"} : Go(t, p) /\ (p = "prepare" <=> Op(t) = "cas")
    BY <1>1, <1>4 DEF IndexFound
  <2>2. mapKey'[Idx(t)] = loc[t].key /\ mapKey[Idx(t)] \notin Key
    BY <1>1, <1>4, ThreadFacts, MapAssumption DEF Unused
  <2>3. Op(t) = "cas" => data[Idx(t)] = [fe |-> "FULL", rw |-> 0, v |-> Undef]
    BY <1>1, <2>2, CasElements DEF KeyedInv, Unplaced, Untouched
  <2>4. OnKey(t)'
    BY <1>1, <2>1, <2>2, <2>3, GoFields DEF OnKey, Same, Op, At, Idx, PC, Seeking
  <2> QED
    BY <1>3, <1>4, <2>1, <2>4, GoFields DEF PC
<1>5. CASE Unused(t) /\ Return(t, FALSE, Undef) /\ mapKey' = [mapKey EXCEPT ![Idx(t)] = Torn]
  <2>1. OnKey(t)'
    BY <1>1, <1>5, ReturnFields DEF OnKey, Same, Op, At, Seeking
  <2> QED
    BY <1>3, <1>5, <2>1, ReturnFields
<1>6. CASE UNCHANGED mapKey /\ Return(t, FALSE, Undef)
  <2>1. OnKey(t)'
    BY <1>1, <1>6, ReturnFields DEF OnKey, Same, Op, At, Seeking
  <2> QED
    BY <1>1, <1>6, <2>1, ReturnFields, QuietKeeps
<1>7. CASE UNCHANGED mapKey /\ NextSlot(t, "search")
  <2>1. OnKey(t)'
    BY <1>1, <1>7, NextSlotFields DEF OnKey, Same, Op, At, Placed, PC, Seeking
  <2> QED
    BY <1>1, <1>7, <2>1, NextSlotFields, QuietKeeps DEF PC
<1> QED
  BY <1>2, <1>4, <1>5, <1>6, <1>7 DEF Place

\* An operation changes the element of its key.
LEMMA ElementKeyed ==
  ASSUME CasDisciplined, MapInv, KeyedInv, NEW t \in Threads, ~At(t, "idle"), Others(t), Same(t),
         UNCHANGED <<use, mapKey>>, mapKey[Idx(t)] \in Key, OnKey(t)',
         NEW c, data' = [data EXCEPT ![Idx(t)] = c], "cas" \in use.ops => c.fe = "FULL"
  PROVE  KeyedInv'
<1>1. \A i \in Slots : i # Idx(t) => data'[i] = data[i]
  BY ThreadFacts
<1>2. Unplaced'
  BY <1>1 DEF KeyedInv, Unplaced, Untouched
<1>3. CasFull'
  <2>1. data'[Idx(t)] = c
    BY ThreadFacts
  <2> QED
    BY <1>1, <2>1 DEF KeyedInv, CasFull
<1> QED
  BY <1>2, <1>3, KeyedStep

LEMMA OperationKeyed ==
  ASSUME CasDisciplined, MapInv, KeyedInv, NEW t \in Threads, Prepare(t) \/ Try(t) \/ Touch(t)
  PROVE  KeyedInv'
<1>1. /\ UNCHANGED <<use, mapKey>> /\ ~At(t, "idle") /\ OnKey(t) /\ Idx(t) \in Slots
      /\ loc[t].key \in Key /\ mapKey[Idx(t)] = loc[t].key
      /\ data \in [Slots -> Element] /\ data[Idx(t)] \in Element
  BY ThreadFacts DEF Prepare, Try, Touch, At, KeyedInv, OnKey, Locals
<1>2. CASE Prepare(t)
  <2>1. data' = data
    <3>1. data[Idx(t)] = [fe |-> "FULL", rw |-> 0, v |-> Undef]
      BY <1>1, <1>2 DEF OnKey, Prepare
    <3> QED
      BY <1>1, <1>2, <3>1 DEF Prepare
  <2>2. At(t, "prepare") /\ Go(t, "try")
    BY <1>2 DEF Prepare
  <2>3. OnKey(t)'
    BY <1>1, <2>2, GoFields DEF OnKey, Same, Op, At, Idx, PC, Seeking, Lookups
  <2> QED
    BY <1>1, <2>1, <2>2, <2>3, GoFields, QuietKeeps DEF PC
<1>3. CASE Try(t)
  <2> DEFINE c == data[Idx(t)]
             v == IF Op(t) \in Writers \ {"faa"} THEN Undef ELSE c.v
  <2>1. CASE /\ data' = [data EXCEPT ![Idx(t)] = After(loc[t], c)] /\ Ready(loc[t], c)
             /\ loc' = [loc EXCEPT ![t].pc = "unmap", ![t].ret = v]
    <3>1. /\ loc'[t].pc = "unmap" /\ loc'[t].insert = loc[t].insert /\ loc'[t].ok = loc[t].ok
          /\ Same(t) /\ Others(t)
      <4> HIDE DEF v
      <4> QED
        BY <2>1, ThreadFacts DEF Same, Others, Locals
    <3>2. OnKey(t)'
      BY <1>1, <1>3, <3>1 DEF OnKey, Same, Op, At, Seeking, Try
    <3>3. "cas" \in use.ops => After(loc[t], c).fe = "FULL"
      BY <1>1, CasElements DEF After, Op, Element
    <3> QED
      BY <1>1, <2>1, <3>1, <3>2, <3>3, ElementKeyed
  <2>2. CASE data' = data /\ Go(t, "again")
    <3>1. OnKey(t)'
      BY <1>1, <1>3, <2>2, GoFields DEF OnKey, Same, Op, At, Idx, PC, Seeking, Try
    <3> QED
      BY <1>1, <2>2, <3>1, GoFields, QuietKeeps DEF PC
  <2> QED
    BY <1>3, <2>1, <2>2 DEF Try
<1>4. CASE Touch(t)
  <2>1. PICK ok \in BOOLEAN : Return(t, ok, Undef)
    BY <1>4 DEF Touch, Release, SetTag
  <2>2. OnKey(t)'
    BY <1>1, <2>1, ReturnFields DEF OnKey, Same, Op, At, Seeking
  <2>3. CASE data' = data
    BY <1>1, <2>1, <2>2, <2>3, ReturnFields, QuietKeeps
  <2>4. CASE Release(t) /\ data' # data
    <3>1. /\ data[Idx(t)].fe = "RW_LOCK"
          /\ data' = [data EXCEPT ![Idx(t)] =
               [data[Idx(t)] EXCEPT !.rw = @ - 1, !.fe = IF data[Idx(t)].rw = 1 THEN "FULL" ELSE @]]
      BY <2>4 DEF Release
    <3>2. "cas" \notin use.ops
      BY <1>1, <3>1, CasElements
    <3> QED
      BY <1>1, <2>1, <2>2, <3>1, <3>2, ReturnFields, ElementKeyed
  <2>5. CASE SetTag(t)
    <3>1. data' = [data EXCEPT ![Idx(t)] =
            [data[Idx(t)] EXCEPT !.fe = IF Op(t) = "setFull" THEN "FULL" ELSE "EMPTY"]]
      BY <1>1, <2>5 DEF SetTag
    <3>2. Op(t) \in {"setFull", "setEmpty"}
      BY <1>1, <1>4, <2>5 DEF OnKey, Touch, Lookups, SetTag
    <3>3. "cas" \in use.ops =>
            [data[Idx(t)] EXCEPT !.fe = IF Op(t) = "setFull" THEN "FULL" ELSE "EMPTY"].fe = "FULL"
      BY <1>1, <3>2, CasElements DEF Element
    <3> QED
      BY <1>1, <2>1, <2>2, <3>1, <3>3, ReturnFields, ElementKeyed
  <2> QED
    BY <1>4, <2>3, <2>4, <2>5 DEF Touch
<1> QED
  BY <1>2, <1>3, <1>4

\* The call of EMScas waits for the others, and theirs for it.
LEMMA CallKeyed ==
  ASSUME CasDisciplined, MapInv, KeyedInv, NEW t \in Threads, NEW o \in Ops, Call(t, o)
  PROVE  KeyedInv'
<1>1. PICK k \in use.keys, a \in Args(o), b \in Olds(o), f \in Garbage(o) :
        loc' = [loc EXCEPT ![t] = [Idle EXCEPT !.pc = "probe", !.op = o, !.key = k,
                  !.arg = a, !.old = b, !.full = f, !.insert = o \in Writers, !.idx = Home(k)]]
  BY DEF Call
<1>2. /\ loc'[t].pc = "probe" /\ loc'[t].op = o /\ loc'[t].ok = TRUE
      /\ (loc'[t].insert <=> o \in Writers) /\ Others(t)
  BY <1>1, ThreadFacts DEF Idle, Others
<1>3. UNCHANGED <<use, mapKey, data>> /\ At(t, "idle") /\ o \in use.ops /\ Undisturbed(o)
  BY DEF Call
<1>4. \A u \in Threads : Op(u) = "cas" => At(u, "idle")
  <2> SUFFICES ASSUME NEW u \in Threads, Op(u) = "cas", ~At(u, "idle") PROVE FALSE
    OBVIOUS
  <2>1. "cas" \in use.alone
    BY CasElements DEF CasDisciplined, MapInv, TypeOK
  <2> QED
    BY <1>3, <2>1 DEF Undisturbed
<1>5. o = "cas" => \A u \in Threads : At(u, "idle")
  BY <1>3 DEF Undisturbed, CasDisciplined, MapInv, TypeOK
<1>6. CasAlone'
  BY <1>2, <1>4, <1>5 DEF CasAlone, Others, At, Op
<1>7. OnKey(t)'
  BY <1>2, <1>3 DEF OnKey, At, Op, Seeking, Writers, Lookups
<1>8. ASSUME NEW u \in Threads \ {t} PROVE OnKey(u)'
  <2>1. loc'[u] = loc[u] /\ OnKey(u)
    BY <1>2 DEF Others, KeyedInv
  <2> QED
    BY <1>3, <2>1 DEF OnKey, Op, At, Idx, Placed
<1>9. Unplaced' /\ CasFull'
  BY <1>3 DEF KeyedInv, Unplaced, CasFull, Untouched
<1> QED
  BY <1>6, <1>7, <1>8, <1>9 DEF KeyedInv

LEMMA KeyedInductive ==
  ASSUME CasDisciplined, MapInv, SearchInv, KeyedInv, [Next]_vars
  PROVE  KeyedInv'
<1>1. CASE UNCHANGED vars
  BY <1>1 DEF vars, KeyedInv, Unplaced, CasAlone, CasFull, Untouched, OnKey, Op, At, Idx, Placed
<1>2. ASSUME NEW t \in Threads, Step(t) PROVE KeyedInv'
  <2>1. CASE \E p \in {"compare", "place", "try"} :
               /\ Go(t, p) /\ (p = "compare" => At(t, "probe")) /\ (p = "place" => At(t, "search"))
               /\ (p = "try" => At(t, "again")) /\ UNCHANGED <<use, mapKey, data>>
    <3>1. PICK p \in {"compare", "place", "try"} :
               /\ Go(t, p) /\ (p = "compare" => At(t, "probe")) /\ (p = "place" => At(t, "search"))
               /\ (p = "try" => At(t, "again"))
      BY <2>1
    <3>2. OnKey(t) /\ ~At(t, "idle")
      BY <3>1 DEF KeyedInv, At
    <3>3. OnKey(t)'
      BY <2>1, <3>1, <3>2, GoFields DEF OnKey, Same, Op, At, Idx, PC, Seeking, Placed
    <3> QED
      BY <2>1, <3>1, <3>2, <3>3, GoFields, QuietKeeps DEF PC
  <2>2. CASE Unmap(t)
    <3>1. Return(t, TRUE, loc[t].ret) /\ OnKey(t) /\ ~At(t, "idle") /\ UNCHANGED <<use, mapKey, data>>
      BY <2>2 DEF KeyedInv, Unmap, At
    <3>2. OnKey(t)'
      BY <3>1, ReturnFields DEF OnKey, Same, Op, At, Seeking
    <3> QED
      BY <3>1, <3>2, ReturnFields, QuietKeeps
  <2>3. CASE Finish(t)
    <3>1. /\ loc'[t].pc = "idle" /\ loc'[t].insert = FALSE /\ loc'[t].ok = TRUE /\ Others(t)
          /\ ~At(t, "idle") /\ UNCHANGED <<use, mapKey, data>>
      BY <2>3, ThreadFacts DEF Finish, Idle, Others, At
    <3>2. OnKey(t)'
      BY <3>1 DEF OnKey, Op, At, Seeking
    <3> QED
      BY <3>1, <3>2, QuietKeeps
  <2> QED
    BY <1>2, <2>1, <2>2, <2>3, CompareKeyed, PlaceKeyed, OperationKeyed
       DEF Step, Probe, Search, Again
<1> QED
  BY <1>1, <1>2, CallKeyed DEF Next

LEMMA InitKeyed == ASSUME CasDisciplined, Key # {} PROVE Init => KeyedInv
<1> SUFFICES ASSUME Init PROVE KeyedInv
  OBVIOUS
<1>1. \A t \in Threads : loc[t].pc = "idle" /\ loc[t].insert = FALSE /\ loc[t].ok = TRUE
  BY DEF Init, Idle
<1>2. \A t \in Threads : OnKey(t) /\ At(t, "idle")
  BY <1>1 DEF OnKey, At, Seeking
<1> QED
  BY <1>2 DEF Init, KeyedInv, Unplaced, CasAlone, CasFull, Untouched, CasDisciplined

-------------------------------------------------------------------------------
(* The refinement mapping *)

Mapped == [Cell!Next]_(Cell!vars)

\* What the abstract client sees of locals l.
Shown(l) ==
  CASE l.pc = "idle" -> [st |-> "idle"]
    [] l.pc \in {"unmap", "done"} -> [st |-> "done", ok |-> l.ok, ret |-> l.ret]
    [] OTHER -> [st |-> "pending", op |-> l.op, key |-> l.key, arg |-> l.arg, old |-> l.old]

\* A step of t changes what the abstract client t sees.
LEMMA ClientMoves ==
  ASSUME NEW t \in Threads, Others(t)
  PROVE  Client' = [Client EXCEPT ![t] = Shown(loc'[t])] /\ Client[t] = Shown(loc[t])
<1>1. Client = [u \in Threads |-> Shown(loc[u])]
  BY DEF Client, Shown, At, Op
<1>2. Client' = [u \in Threads |-> Shown(loc'[u])]
  BY DEF Client, Shown, At, Op
<1> QED
  BY <1>1, <1>2, Zenon DEF Others

\* A thread that is in an operation has called it, and returns with its result.
LEMMA PendingClient ==
  ASSUME NEW t \in Threads, loc[t].pc \notin {"idle", "unmap", "done"}
  PROVE  /\ Client[t].st = "pending" /\ Client[t].op = loc[t].op /\ Client[t].key = loc[t].key
         /\ Client[t].arg = loc[t].arg /\ Client[t].old = loc[t].old
  BY DEF Client, At, Op

LEMMA ResultClient ==
  ASSUME NEW t \in Threads, Others(t), loc'[t].pc \in {"unmap", "done"},
         NEW ok, NEW v, loc'[t].ok = ok, loc'[t].ret = v
  PROVE  Cell!Done(t, ok, v)
<1>1. Shown(loc'[t]) = [st |-> "done", ok |-> ok, ret |-> v]
  BY DEF Shown
<1> QED
  BY <1>1, ClientMoves DEF Cell!Done

\* A step on the way to the element is a stuttering step.
LEMMA SameClient ==
  ASSUME NEW t \in Threads, Others(t), Same(t), loc[t].pc \notin {"idle", "unmap", "done"},
         loc'[t].pc \notin {"idle", "unmap", "done"}
  PROVE  Client' = Client
<1>1. Shown(loc'[t]) = Shown(loc[t])
  BY DEF Shown, Same
<1>2. Client = [u \in Threads |-> Shown(loc[u])]
  BY DEF Client, Shown, At, Op
<1> QED
  BY <1>1, <1>2, ClientMoves, Zenon

LEMMA SameCells ==
  ASSUME UNCHANGED <<use, mapKey, data>> PROVE Cells' = Cells /\ Known' = Known
  BY DEF Cells, Known, Placed

\* The cell of a key is the element of its entry.
LEMMA CellAt ==
  ASSUME MapInv, OneIndex, NEW i \in Slots, mapKey[i] \in Key
  PROVE  mapKey[i] \in Known /\ Cells[mapKey[i]] = data[i]
<1>1. Placed(mapKey[i]) = {i}
  BY DEF Placed, OneIndex
<1> QED
  BY <1>1 DEF Cells, Known

LEMMA CellChanges ==
  ASSUME MapInv, OneIndex, NEW i \in Slots, mapKey[i] \in Key, UNCHANGED <<use, mapKey>>,
         NEW c, data' = [data EXCEPT ![i] = c]
  PROVE  Known' = Known /\ Cells' = [Cells EXCEPT ![mapKey[i]] = c]
<1>1. Known' = Known /\ \A k \in Key : Placed(k)' = Placed(k)
  BY DEF Known, Placed
<1>2. Placed(mapKey[i]) = {i} /\ \A k \in Key : k # mapKey[i] => i \notin Placed(k)
  BY DEF Placed, OneIndex
<1>3. data'[i] = c /\ \A j \in Slots : j # i => data'[j] = data[j]
  BY DEF MapInv, TypeOK
<1>4. Cells'[mapKey[i]] = c
  BY <1>1, <1>2, <1>3 DEF Cells
<1>5. ASSUME NEW k \in Key, k # mapKey[i] PROVE Cells'[k] = Cells[k]
  <2>1. CASE Placed(k) = {}
    BY <1>1, <2>1 DEF Cells
  <2>2. CASE Placed(k) # {}
    <3> DEFINE j == CHOOSE j \in Placed(k) : TRUE
    <3>1. j \in Slots /\ j # i
      BY <1>2, <1>5, <2>2 DEF Placed
    <3>2. Cells[k] = data[j] /\ Cells'[k] = data'[j]
      BY <1>1, <2>2 DEF Cells
    <3> QED
      BY <1>3, <3>1, <3>2
  <2> QED
    BY <2>1, <2>2
<1>6. Cells = [k \in Key |-> Cells[k]] /\ Cells' = [k \in Key |-> Cells'[k]]
  BY DEF Cells
<1> QED
  BY <1>1, <1>4, <1>5, <1>6, Zenon

\* An insertion makes a key known, and leaves its cell as it was.
LEMMA CellPlaced ==
  ASSUME MapInv, KeyedInv, NEW i \in Slots, mapKey[i] = NoKey, UNCHANGED <<use, data>>,
         NEW k \in Key \cup {Torn}, k \in Key => Placed(k) = {}, mapKey' = [mapKey EXCEPT ![i] = k]
  PROVE  Cells' = Cells /\ Known' = Known \cup ({k} \cap Key)
<1>1. /\ mapKey'[i] = k /\ \A j \in Slots : j # i => mapKey'[j] = mapKey[j]
      /\ NoKey \notin Key /\ Torn \notin Key
  BY MapAssumption DEF MapInv, TypeOK
<1>2. \A c \in Key : c # k => Placed(c)' = Placed(c)
  BY <1>1 DEF Placed
<1>3. k \in Key => Placed(k)' = {i}
  BY <1>1 DEF Placed
<1>4. Known' = Known \cup ({k} \cap Key)
  BY <1>1, <1>2, <1>3 DEF Known
<1>5. ASSUME NEW c \in Key PROVE Cells'[c] = Cells[c]
  <2>1. CASE c = k
    <3>1. data[i] = Untouched
      BY <1>1 DEF KeyedInv, Unplaced
    <3> QED
      BY <1>3, <2>1, <3>1 DEF Cells, Untouched
  <2>2. CASE c # k
    <3>1. Placed(c)' = Placed(c) /\ use' = use /\ data' = data
      BY <1>2, <2>2
    <3>2. CASE Placed(c) = {}
      BY <3>1, <3>2 DEF Cells
    <3>3. CASE Placed(c) # {}
      <4> DEFINE j == CHOOSE j \in Placed(c) : TRUE
      <4>1. Cells[c] = data[j] /\ Cells'[c] = data'[j]
        BY <3>1, <3>3 DEF Cells
      <4> QED
        BY <3>1, <4>1
    <3> QED
      BY <3>2, <3>3
  <2> QED
    BY <2>1, <2>2
<1>6. Cells = [c \in Key |-> Cells[c]] /\ Cells' = [c \in Key |-> Cells'[c]]
  BY DEF Cells
<1> QED
  BY <1>4, <1>5, <1>6, Zenon

\* What every mapping of a step within an operation starts from.
LEMMA StepFacts ==
  ASSUME MapInv, KeyedInv, OneIndex, NEW t \in Threads, loc[t].pc \in {"prepare", "try", "again", "touch"}
  PROVE  /\ Idx(t) \in Slots /\ loc[t].key \in Key /\ mapKey[Idx(t)] = loc[t].key
         /\ loc[t].key \in Known /\ Cells[loc[t].key] = data[Idx(t)] /\ data[Idx(t)] \in Element
         /\ loc[t].arg \in Value /\ Op(t) \in Ops /\ OnKey(t)
  BY CellAt, ThreadFacts DEF KeyedInv, OnKey, Locals, Op

LEMMA MappedQuiet ==
  ASSUME NEW t \in Threads, Others(t), Same(t), loc[t].pc \notin {"idle", "unmap", "done"},
         loc'[t].pc \notin {"idle", "unmap", "done"}, UNCHANGED <<use, mapKey, data>>
  PROVE  Mapped
  BY SameClient, SameCells DEF Mapped, Cell!vars

\* A lookup that fails is an operation on a missing key.
LEMMA MapsCompare ==
  ASSUME CasDisciplined, MapInv, SearchInv, KeyedInv, OneIndex, NEW t \in Threads, Compare(t)
  PROVE  Mapped
<1>1. UNCHANGED <<use, mapKey, data>> /\ At(t, "compare") /\ OnKey(t) /\ Op(t) \in Ops
  BY CompareQuiet, ThreadFacts DEF Compare, KeyedInv, Op, Locals
<1>2. CASE \E p \in {"search", "probe"} : From(t, p)
  BY <1>1, <1>2, FromFields, MappedQuiet DEF PC, At
<1>3. CASE \E p \in {"touch", "prepare", "try"} : Go(t, p)
  BY <1>1, <1>3, GoFields, MappedQuiet DEF PC, At
<1>4. CASE NextSlot(t, "probe")
  BY <1>1, <1>4, NextSlotFields, MappedQuiet DEF PC, At
<1>5. CASE ~Matches(t) /\ (Unused(t) \/ LastTry(t)) /\ Missing(t) /\ \E ok \in BOOLEAN : Return(t, ok, Undef)
  <2>1. Placed(loc[t].key) = {}
    BY <1>1, <1>5, NotFound DEF Examines, At
  <2>2. /\ Client[t].st = "pending" /\ Client[t].op = Op(t) /\ Client[t].key \notin Known
        /\ Client[t].old = loc[t].old /\ Cells' = Cells /\ Known' = Known
    BY <1>1, <2>1, PendingClient, SameCells DEF At, Op, Known
  <2>3. CASE Return(t, TRUE, Undef) /\ (Op(t) = "read" \/ (Op(t) = "cas" /\ loc[t].old # Undef))
    <3>1. Cell!Done(t, TRUE, Undef)
      BY <2>3, ReturnFields, ResultClient
    <3>2. Cell!Absent(t)
      BY <2>2, <2>3, <3>1 DEF Cell!Absent, Cell!Pending
    <3> QED
      BY <3>2 DEF Mapped, Cell!Next
  <2>4. CASE Return(t, FALSE, Undef) /\ Op(t) \in Lookups
    <3>1. Cell!Done(t, FALSE, Undef)
      BY <2>4, ReturnFields, ResultClient
    <3>2. Cell!Fail(t)
      BY <1>1, <2>2, <2>4, <3>1 DEF Cell!Fail, Cell!Pending, Lookups
    <3> QED
      BY <3>2 DEF Mapped, Cell!Next
  <2>5. CASE \E p \in {"search", "probe"} : From(t, p)
    BY <1>2, <2>5
  <2> QED
    BY <1>5, <2>3, <2>4, <2>5 DEF Missing
<1> QED
  BY <1>2, <1>3, <1>4, <1>5, MapAssumption DEF Compare, Matched, Missing, IndexFound

\* An insertion makes its key known, unless it fails.
LEMMA MapsPlace ==
  ASSUME CasDisciplined, MapInv, SearchInv, KeyedInv, OneIndex, NEW t \in Threads, Place(t)
  PROVE  Mapped
<1>1. /\ UNCHANGED <<use, data>> /\ At(t, "place") /\ OnKey(t) /\ Op(t) \in Ops
      /\ Idx(t) \in Slots /\ loc[t].key \in Key /\ Op(t) \notin Lookups \cup {"read"}
  BY ThreadFacts DEF Place, At, KeyedInv, OnKey, Locals, Op
<1>2. /\ Client[t].st = "pending" /\ Client[t].op = Op(t) /\ Client[t].key = loc[t].key
  BY <1>1, PendingClient DEF At, Op
<1>3. CASE UNCHANGED mapKey /\ (IndexFound(t) \/ NextSlot(t, "search"))
  <2>1. CASE \E p \in {"prepare", "try"} : Go(t, p)
    BY <1>1, <1>3, <2>1, GoFields, MappedQuiet DEF PC, At
  <2>2. CASE NextSlot(t, "search")
    BY <1>1, <1>3, <2>2, NextSlotFields, MappedQuiet DEF PC, At
  <2> QED
    BY <1>3, <2>1, <2>2 DEF IndexFound
<1>4. CASE Unused(t) /\ IndexFound(t) /\ mapKey' = [mapKey EXCEPT ![Idx(t)] = loc[t].key]
  <2>1. Placed(loc[t].key) = {}
    <3>1. Examines(t) /\ Unused(t)
      BY <1>1, <1>4 DEF Examines, At
    <3>2. NoKey \notin Key
      BY MapAssumption
    <3>3. ~Matches(t)
      BY <1>1, <3>1, <3>2 DEF Unused, Matches
    <3> QED
      BY <3>1, <3>3, NotFound
  <2>2. Cells' = Cells /\ Known' = Known \cup {loc[t].key}
    <3> DEFINE i == Idx(t)
               k == loc[t].key
    <3>1. /\ i \in Slots /\ mapKey[i] = NoKey /\ k \in Key
          /\ mapKey' = [mapKey EXCEPT ![i] = k] /\ UNCHANGED <<use, data>> /\ Placed(k) = {}
      BY <1>1, <1>4, <2>1 DEF Unused
    <3> HIDE DEF i, k
    <3>2. Cells' = Cells /\ Known' = Known \cup ({k} \cap Key)
      BY <3>1, CellPlaced
    <3>3. {k} \cap Key = {k}
      BY <3>1
    <3> QED
      BY <3>2, <3>3 DEF k
  <2>3. PICK p \in {"prepare", "try"} : Go(t, p)
    BY <1>4 DEF IndexFound
  <2>4. Client' = Client
    BY <1>1, <2>3, GoFields, SameClient DEF PC, At
  <2>5. Cell!Allocate(t)
    BY <1>1, <1>2, <2>2, <2>4 DEF Cell!Allocate, Cell!Pending, Cell!Passive, Lookups
  <2> QED
    BY <2>5 DEF Mapped, Cell!Next
<1>5. CASE Return(t, FALSE, Undef) /\ Cells' = Cells /\ Known' = Known /\ Placed(loc[t].key) = {}
  <2>1. Cell!Done(t, FALSE, Undef)
    BY <1>5, ReturnFields, ResultClient
  <2>2. Cell!Fail(t)
    BY <1>1, <1>2, <1>5, <2>1 DEF Cell!Fail, Cell!Pending, Known
  <2> QED
    BY <2>2 DEF Mapped, Cell!Next
<1>6. CASE Unused(t) /\ Return(t, FALSE, Undef) /\ mapKey' = [mapKey EXCEPT ![Idx(t)] = Torn]
  <2>1. Placed(loc[t].key) = {}
    BY <1>1, <1>6, NotFound, MapAssumption DEF Examines, At, Unused, Matches
  <2>2. Cells' = Cells /\ Known' = Known
    <3>1. Torn \notin Key
      BY MapAssumption
    <3>2. Cells' = Cells /\ Known' = Known \cup ({Torn} \cap Key)
      BY <1>1, <1>6, <3>1, CellPlaced DEF Unused
    <3> QED
      BY <3>1, <3>2
  <2> QED
    BY <1>5, <1>6, <2>1, <2>2
<1>7. CASE ~Matches(t) /\ LastTry(t) /\ Return(t, FALSE, Undef) /\ UNCHANGED mapKey
  BY <1>1, <1>5, <1>7, NotFound, SameCells DEF Examines, At
<1> QED
  BY <1>3, <1>4, <1>6, <1>7 DEF Place

\* An operation takes effect when it acts on the element of its key.
LEMMA MapsTry ==
  ASSUME MapInv, KeyedInv, OneIndex, NEW t \in Threads, Try(t)
  PROVE  Mapped
<1> DEFINE i == Idx(t)
           c == data[i]
           a == After(loc[t], c)
           v == IF Op(t) \in Writers \ {"faa"} THEN Undef ELSE c.v
<1>1. /\ i \in Slots /\ loc[t].key \in Key /\ mapKey[i] = loc[t].key /\ loc[t].key \in Known
      /\ Cells[loc[t].key] = c /\ c \in Element /\ Op(t) \in Ops \ Lookups /\ loc[t].ok = TRUE
      /\ UNCHANGED <<use, mapKey>> /\ At(t, "try")
  BY StepFacts DEF Try, At, OnKey
<1>2. CASE data' = data /\ Go(t, "again")
  BY <1>1, <1>2, GoFields, MappedQuiet DEF PC, At
<1>3. CASE /\ Ready(loc[t], c) /\ data' = [data EXCEPT ![i] = a]
           /\ loc' = [loc EXCEPT ![t].pc = "unmap", ![t].ret = v]
  <2>1. Cells' = [Cells EXCEPT ![loc[t].key] = a] /\ Known' = Known
    BY <1>1, <1>3, CellChanges
  <2>2. Cell!Done(t, TRUE, v)
    <3> HIDE DEF v
    <3>1. loc'[t].pc = "unmap" /\ loc'[t].ok = TRUE /\ loc'[t].ret = v /\ Others(t)
      BY <1>1, <1>3, ThreadFacts DEF Others, Locals
    <3> QED
      BY <3>1, ResultClient
  <2>3. /\ Client[t].st = "pending" /\ Client[t].op = Op(t) /\ Client[t].key = loc[t].key
        /\ Client[t].arg = loc[t].arg /\ Client[t].old = loc[t].old /\ Cell!Here(t) = c
    BY <1>1, PendingClient DEF At, Op, Cell!Here
  <2>4. Cell!Become(t, a)
    BY <2>1, <2>3 DEF Cell!Become
  <2>5. \A ops : Op(t) \in ops => Cell!Acts(t, ops)
    BY <1>1, <2>3 DEF Cell!Acts, Cell!Pending
  <2> HIDE DEF i, c
  <2>6. CASE Op(t) \in {"read", "readFF"}
    <3>1. a = c /\ v = c.v /\ (Op(t) = "readFF" => c.fe = "FULL")
      BY <1>3, <2>6 DEF After, Ready, Op, Writers
    <3>2. Cells' = Cells
      BY <1>1, <2>1, <3>1 DEF Cells
    <3>3. Cell!Read(t)
      BY <2>1, <2>2, <2>3, <2>5, <2>6, <3>1, <3>2 DEF Cell!Read
    <3> QED
      BY <3>3 DEF Mapped, Cell!Next
  <2>7. CASE Op(t) = "readFE"
    <3>1. a = [c EXCEPT !.fe = "EMPTY"] /\ v = c.v /\ c.fe = "FULL"
      BY <1>3, <2>7 DEF After, Ready, Op, Writers
    <3>2. Cell!Take(t)
      BY <2>1, <2>2, <2>3, <2>4, <2>5, <2>7, <3>1 DEF Cell!Take
    <3> QED
      BY <3>2 DEF Mapped, Cell!Next
  <2>8. CASE Op(t) = "readRW"
    <3>1. /\ a = [c EXCEPT !.fe = "RW_LOCK", !.rw = @ + 1] /\ v = c.v
          /\ c.fe \in {"FULL", "RW_LOCK"} /\ c.rw < RWMax
      BY <1>3, <2>8 DEF After, Ready, Op, Writers
    <3>2. Cell!Share(t)
      BY <2>1, <2>2, <2>3, <2>4, <2>5, <2>8, <3>1 DEF Cell!Share
    <3> QED
      BY <3>2 DEF Mapped, Cell!Next
  <2>9. CASE Op(t) \in {"write", "writeXF", "writeXE", "writeEF"}
    <3>1. /\ a = CASE Op(t) = "write" -> [c EXCEPT !.v = loc[t].arg]
                   [] Op(t) = "writeXE" -> [fe |-> "EMPTY", rw |-> 0, v |-> loc[t].arg]
                   [] OTHER -> [fe |-> "FULL", rw |-> 0, v |-> loc[t].arg]
          /\ v = Undef /\ (Op(t) = "writeEF" => c.fe = "EMPTY")
      BY <1>3, <2>9 DEF After, Ready, Op, Writers
    <3>2. Cell!Write(t)
      BY <2>1, <2>2, <2>3, <2>4, <2>5, <2>9, <3>1 DEF Cell!Write
    <3> QED
      BY <3>2 DEF Mapped, Cell!Next
  <2>10. CASE Op(t) = "faa"
    <3>1. a = [c EXCEPT !.v = Sum[c.v][loc[t].arg]] /\ v = c.v /\ c.fe = "FULL"
      BY <1>3, <2>10 DEF After, Ready, Op, Writers
    <3>2. Cell!Add(t)
      BY <2>1, <2>2, <2>3, <2>4, <2>5, <2>10, <3>1 DEF Cell!Add
    <3> QED
      BY <3>2 DEF Mapped, Cell!Next
  <2>11. CASE Op(t) = "cas"
    <3>1. /\ a = [fe |-> "FULL", rw |-> 0, v |-> IF c.v = loc[t].old THEN loc[t].arg ELSE c.v]
          /\ v = c.v /\ c.fe = "FULL"
      BY <1>3, <2>11 DEF After, Ready, Op, Writers
    <3>2. Cell!Swap(t)
      BY <2>1, <2>2, <2>3, <2>4, <2>5, <2>11, <3>1 DEF Cell!Swap
    <3> QED
      BY <3>2 DEF Mapped, Cell!Next
  <2> QED
    BY <1>1, <2>6, <2>7, <2>8, <2>9, <2>10, <2>11 DEF Ops, Lookups
<1> QED
  BY <1>2, <1>3 DEF Try

\* So do releaseRW and setTag.
LEMMA MapsTouch ==
  ASSUME MapInv, KeyedInv, OneIndex, NEW t \in Threads, Touch(t)
  PROVE  Mapped
<1> DEFINE i == Idx(t)
           c == data[i]
<1>1. /\ i \in Slots /\ loc[t].key \in Key /\ mapKey[i] = loc[t].key /\ loc[t].key \in Known
      /\ Cells[loc[t].key] = c /\ c \in Element /\ Op(t) \in Lookups /\ loc[t].ok = TRUE
      /\ UNCHANGED <<use, mapKey>> /\ At(t, "touch")
  BY StepFacts DEF Touch, At, OnKey
<1>2. /\ Client[t].st = "pending" /\ Client[t].op = Op(t) /\ Client[t].key = loc[t].key
      /\ Cell!Here(t) = c
  BY <1>1, PendingClient DEF At, Op, Cell!Here
<1>3. \A ops : Op(t) \in ops => Cell!Acts(t, ops)
  BY <1>1, <1>2 DEF Cell!Acts, Cell!Pending
<1>4. CASE Release(t) /\ c.fe = "RW_LOCK" /\ c.rw > 0
  <2> DEFINE d == [c EXCEPT !.rw = @ - 1, !.fe = IF c.rw = 1 THEN "FULL" ELSE @]
  <2>1. Op(t) = "releaseRW" /\ data' = [data EXCEPT ![i] = d] /\ Return(t, TRUE, Undef)
    BY <1>4 DEF Release
  <2>2. Known' = Known /\ Cells' = [Cells EXCEPT ![loc[t].key] = d]
    <3> HIDE DEF d, i
    <3> QED
      BY <1>1, <2>1, CellChanges
  <2>3. Cell!Done(t, TRUE, Undef) /\ Cell!Become(t, d)
    BY <1>2, <2>1, <2>2, ReturnFields, ResultClient DEF Cell!Become
  <2>4. Cell!Release(t)
    BY <1>2, <1>3, <1>4, <2>1, <2>2, <2>3 DEF Cell!Release
  <2> QED
    BY <2>4 DEF Mapped, Cell!Next
<1>5. CASE Release(t) /\ ~(c.fe = "RW_LOCK" /\ c.rw > 0)
  <2>1. Op(t) = "releaseRW" /\ data' = data /\ Return(t, FALSE, Undef)
    BY <1>5 DEF Release
  <2>2. Known' = Known /\ Cells' = Cells
    BY <1>1, <2>1, SameCells
  <2>3. Cell!Done(t, FALSE, Undef)
    BY <2>1, ReturnFields, ResultClient
  <2>4. c.fe # "RW_LOCK" \/ c.rw = 0
    BY <1>1, <1>5, MapAssumption DEF Element
  <2>5. Cell!Release(t)
    BY <1>2, <1>3, <2>1, <2>2, <2>3, <2>4 DEF Cell!Release
  <2> QED
    BY <2>5 DEF Mapped, Cell!Next
<1>6. CASE SetTag(t)
  <2> DEFINE d == [c EXCEPT !.fe = IF Op(t) = "setFull" THEN "FULL" ELSE "EMPTY"]
  <2>1. Op(t) \in {"setFull", "setEmpty"} /\ Return(t, TRUE, Undef) /\ data' = [data EXCEPT ![i] = d]
    BY <1>1, <1>6 DEF SetTag, Lookups
  <2>2. Known' = Known /\ Cells' = [Cells EXCEPT ![loc[t].key] = d]
    <3> HIDE DEF d, i
    <3> QED
      BY <1>1, <2>1, CellChanges
  <2>3. Cell!Done(t, TRUE, Undef) /\ Cell!Become(t, d)
    BY <1>2, <2>1, <2>2, ReturnFields, ResultClient DEF Cell!Become
  <2>4. Cell!SetTag(t)
    BY <1>2, <1>3, <2>1, <2>2, <2>3 DEF Cell!SetTag
  <2> QED
    BY <2>4 DEF Mapped, Cell!Next
<1> QED
  BY <1>4, <1>5, <1>6 DEF Touch

\* The caller.
LEMMA MapsCaller ==
  ASSUME MapInv, KeyedInv, NEW t \in Threads, Unmap(t) \/ Finish(t) \/ \E o \in Ops : Call(t, o)
  PROVE  Mapped
<1>1. UNCHANGED <<use, mapKey, data>> /\ Cells' = Cells /\ Known' = Known
  BY SameCells DEF Unmap, Finish, Call
<1>2. CASE Unmap(t)
  <2>1. /\ loc'[t].pc = "done" /\ loc'[t].ok = TRUE /\ loc'[t].ret = loc[t].ret /\ Others(t)
        /\ loc[t].pc = "unmap" /\ loc[t].ok = TRUE
    BY <1>2, ReturnFields DEF Unmap, At, KeyedInv, OnKey
  <2>2. Shown(loc'[t]) = Shown(loc[t])
    BY <2>1 DEF Shown
  <2>3. Client = [u \in Threads |-> Shown(loc[u])]
    BY DEF Client, Shown, At, Op
  <2>4. Client' = Client
    BY <2>1, <2>2, <2>3, ClientMoves, Zenon
  <2> QED
    BY <1>1, <2>4 DEF Mapped, Cell!vars
<1>3. CASE Finish(t)
  <2>1. loc'[t].pc = "idle" /\ Others(t) /\ loc[t].pc = "done"
    BY <1>3, ThreadFacts DEF Finish, Idle, Others, At
  <2>2. Shown(loc'[t]) = Cell!Quiet /\ Shown(loc[t]).st = "done"
    BY <2>1 DEF Shown, Cell!Quiet
  <2>3. Cell!Return(t)
    BY <1>1, <2>1, <2>2, ClientMoves DEF Cell!Return
  <2> QED
    BY <2>3 DEF Mapped, Cell!Next
<1>4. ASSUME NEW o \in Ops, Call(t, o) PROVE Mapped
  <2>1. PICK k \in use.keys, a \in Args(o), b \in Olds(o), f \in Garbage(o) :
          loc' = [loc EXCEPT ![t] = [Idle EXCEPT !.pc = "probe", !.op = o, !.key = k,
                    !.arg = a, !.old = b, !.full = f, !.insert = o \in Writers, !.idx = Home(k)]]
    BY <1>4 DEF Call
  <2>2. /\ loc'[t].pc = "probe" /\ loc'[t].op = o /\ loc'[t].key = k /\ loc'[t].arg = a
        /\ loc'[t].old = b /\ Others(t) /\ loc[t].pc = "idle"
    BY <1>4, <2>1, ThreadFacts DEF Idle, Others, Call, At
  <2>3. k \in Key /\ a \in Value /\ b \in Value
    BY MapAssumption DEF Args, Olds, MapInv, TypeOK
  <2>4. /\ Shown(loc'[t]) = [st |-> "pending", op |-> o, key |-> k, arg |-> a, old |-> b]
        /\ Shown(loc[t]).st = "idle"
    BY <2>2 DEF Shown
  <2>5. Cell!Call(t)
    BY <1>1, <2>2, <2>3, <2>4, ClientMoves DEF Cell!Call
  <2> QED
    BY <2>5 DEF Mapped, Cell!Next
<1> QED
  BY <1>2, <1>3, <1>4

LEMMA MapsNext ==
  CasDisciplined /\ MapInv /\ SearchInv /\ KeyedInv /\ OneIndex /\ [Next]_vars => Mapped
<1> SUFFICES ASSUME CasDisciplined, MapInv, SearchInv, KeyedInv, OneIndex, [Next]_vars
             PROVE  Mapped
  OBVIOUS
<1>1. CASE UNCHANGED vars
  <2>1. Client' = Client
    BY <1>1 DEF vars, Client, At, Op
  <2> QED
    BY <1>1, <2>1, SameCells DEF vars, Mapped, Cell!vars
<1>2. ASSUME NEW t \in Threads, \/ Probe(t) \/ Search(t) \/ Again(t) \/ Prepare(t) PROVE Mapped
  <2>1. /\ loc[t].pc \in {"probe", "search", "again", "prepare"} /\ OnKey(t)
        /\ UNCHANGED <<use, mapKey>>
    BY <1>2 DEF Probe, Search, Again, Prepare, At, KeyedInv
  <2>2. data' = data
    <3>1. CASE Prepare(t)
      <4>1. data[Idx(t)] = [fe |-> "FULL", rw |-> 0, v |-> Undef] /\ Idx(t) \in Slots
        BY <2>1, <3>1, ThreadFacts DEF OnKey, Prepare
      <4> QED
        BY <3>1, <4>1, ThreadFacts DEF Prepare
    <3> QED
      BY <1>2, <3>1 DEF Probe, Search, Again
  <2>3. PICK p \in {"compare", "place", "try"} : Go(t, p)
    BY <1>2 DEF Probe, Search, Again, Prepare
  <2> QED
    BY <2>1, <2>2, <2>3, GoFields, MappedQuiet DEF PC
<1> QED
  BY <1>1, <1>2, MapsCompare, MapsPlace, MapsTry, MapsTouch, MapsCaller DEF Next, Step

LEMMA MapsInit == ASSUME CasDisciplined, Key # {} PROVE Init => Cell!Init
<1> SUFFICES ASSUME Init PROVE Cell!Init
  OBVIOUS
<1>1. \A k \in Key : Placed(k) = {}
  BY MapAssumption DEF Init, Placed
<1>2. Known = {} /\ Cells = [k \in Key |-> [fe |-> use.initFE, rw |-> 0, v |-> Undef]]
  BY <1>1 DEF Known, Cells
<1>3. use.initFE \in {"FULL", "EMPTY"}
  BY MapAssumption DEF Init
<1>4. Client = [t \in Threads |-> Cell!Quiet]
  BY DEF Init, Client, At, Idle, Cell!Quiet
<1> QED
  BY <1>2, <1>3, <1>4 DEF Cell!Init

\* However many threads insert, whatever keys collide and whether the table fills up, every
\* operation of a mapped array takes effect in one step on the cell of its key, or fails where
\* the key has none; EMScas does so for the programs it is for.
THEOREM MappedArrayKeyed == ASSUME CasDisciplined, Key # {} PROVE Spec => Keyed
<1>1. Init => MapInv /\ SearchInv /\ KeyedInv
  BY InitMap, InitKeyed, InitSearch
<1>2. MapInv /\ SearchInv /\ KeyedInv /\ [Next]_vars => MapInv' /\ SearchInv' /\ KeyedInv'
  BY MapInductive, SearchInductive, KeyedInductive
<1>3. MapInv /\ SearchInv /\ KeyedInv /\ [Next]_vars => [Cell!Next]_(Cell!vars)
  BY MapsNext, SearchOneIndex DEF Mapped
<1>4. Init => Cell!Init
  BY MapsInit
<1> QED
  BY <1>1, <1>2, <1>3, <1>4, PTL DEF Spec, Keyed, Cell!Spec
===============================================================================
