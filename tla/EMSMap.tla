-------------------------------- MODULE EMSMap --------------------------------
(***************************************************************************)
(* A mapped EMS array: the open-addressed map from keys to elements of     *)
(* EMSkey2index and EMSwriteIndexMap (src/src/ems.cc) under the operations *)
(* on elements (src/src/ems.cc, src/src/rmw.cc).                           *)
(*                                                                         *)
(* Every access to a map tag is a step.  The key of a map entry is its     *)
(* type and its value, UNDEFINED when the entry is unused.  An operation   *)
(* on the element itself is one step, as EMSElementRefinement shows it to  *)
(* be; so are write and setTag, kept to serial sections, and the store     *)
(* with which EMScas prepares an element for a key it has found missing.   *)
(***************************************************************************)
EXTENDS Naturals

CONSTANTS
  Threads, Key, Value,
  Undef,      \* undefined, one of the values
  NoKey,      \* the map entry is unused
  Torn,       \* the map entry has a type and no key
  N,          \* EMS_ARR_NELEM
  Hash,       \* Hash[k]: EMSkey2index of k in an array that is not mapped
  MaxSteps,   \* MAX_OPEN_HASH_STEPS
  HeapKey,    \* the keys that are strings
  RWMax,      \* EMS_RW_NREADERS_MAX
  Sum,        \* Sum[v][a]: what EMSfaa leaves when it adds a to v
  Uses        \* the ways in which the program may use the array

Slots == 0 .. N - 1

\* setFull and setEmpty are the two calls of EMSsetTag.
Ops == {"read", "readFF", "readFE", "readRW", "releaseRW", "write", "writeXF", "writeXE", "writeEF",
        "faa", "cas", "setFull", "setEmpty"}

\* The operations that call EMSwriteIndexMap first.
Writers == {"write", "writeXF", "writeXE", "writeEF", "faa"}

\* Those that only look the key up, and leave the map alone afterwards.
Lookups == {"releaseRW", "setFull", "setEmpty"}

\* The data word of an element and its tag.
Element == [fe : {"FULL", "EMPTY", "RW_LOCK"}, rw : 0 .. RWMax, v : Value]

\* A use is a record: ops, the operations called; alone, those called only while
\* no other call is in progress; keys and values, those it
\* passes; initFE, the initial tags of the elements; heapFills, whether EMS_ALLOC may fail.
ASSUME MapAssumption ==
  /\ N \in Nat \ {0} /\ MaxSteps \in Nat \ {0}
  /\ Hash \in [Key -> Slots]
  /\ Undef \in Value /\ NoKey \notin Key /\ Torn \notin Key \cup {NoKey}
  /\ HeapKey \subseteq Key /\ RWMax \in Nat \ {0} /\ Sum \in [Value -> [Value -> Value]]
  /\ \A u \in Uses : /\ u.ops \subseteq Ops /\ u.alone \subseteq u.ops
                     /\ u.keys \subseteq Key /\ u.values \subseteq Value
                     /\ u.initFE \in {"FULL", "EMPTY"} /\ u.heapFills \in BOOLEAN

VARIABLES
  use,     \* how the program uses the array, one of Uses
  mapFE,   \* mapFE[i]: the full/empty bits of the tag at EMSmapTag(i)
  mapKey,  \* mapKey[i]: the key stored at EMSmapData(i)
  data,    \* data[i]: full/empty bits, reader count and value of element i
  loc      \* loc[t]: program counter and locals of thread t

vars == <<use, mapFE, mapKey, data, loc>>

PC == {"idle", "probe", "compare", "search", "place", "prepare", "try", "again",
       "unmap", "touch", "done"}

\* insert: the lookup was made by EMSwriteIndexMap; full: EMSreadRW finds the limit of
\* readers in its uninitialised tag.
\* ok, ret: what the operation returns.
Locals == [pc : PC, op : Ops, key : Key, arg : Value, old : Value,
           full : BOOLEAN, insert : BOOLEAN, idx : Slots, tries : 0 .. MaxSteps - 1, ok : BOOLEAN, ret : Value]

AnyKey == CHOOSE k \in Key : TRUE
Idle == [pc |-> "idle", op |-> "read", key |-> AnyKey, arg |-> Undef, old |-> Undef,
         full |-> FALSE, insert |-> FALSE, idx |-> 0, tries |-> 0, ok |-> TRUE, ret |-> Undef]

Init ==
  /\ use \in Uses
  /\ mapFE = [i \in Slots |-> "FULL"]
  /\ mapKey = [i \in Slots |-> NoKey]
  /\ data = [i \in Slots |-> [fe |-> use.initFE, rw |-> 0, v |-> Undef]]
  /\ loc = [t \in Threads |-> Idle]

At(t, p) == loc[t].pc = p
Op(t)    == loc[t].op
Idx(t)   == loc[t].idx
Go(t, p) == loc' = [loc EXCEPT ![t].pc = p]
Return(t, ok, v) == loc' = [loc EXCEPT ![t] =
  [@ EXCEPT !.pc = "done", !.insert = FALSE, !.idx = 0, !.tries = 0, !.ok = ok, !.ret = v]]
SetMapFE(t, f) == mapFE' = [mapFE EXCEPT ![Idx(t)] = f]

-------------------------------------------------------------------------------
(* The caller *)

\* The first entry to look for key k in, wherever EMShashString sends it.
Home(k) == Hash[k]

Undisturbed(o) ==
  /\ o \in use.alone => \A u \in Threads : At(u, "idle")
  /\ \A u \in Threads : At(u, "idle") \/ Op(u) \notin use.alone

Args(o) == IF o \in Writers \cup {"cas"} THEN use.values ELSE {Undef}
Olds(o) == IF o = "cas" THEN Value ELSE {Undef}
Garbage(o) == IF o = "readRW" THEN BOOLEAN ELSE {FALSE}

Call(t, o) ==
  /\ At(t, "idle") /\ o \in use.ops /\ Undisturbed(o)
  /\ \E k \in use.keys, a \in Args(o), b \in Olds(o), f \in Garbage(o) :
       loc' = [loc EXCEPT ![t] = [Idle EXCEPT !.pc = "probe", !.op = o, !.key = k,
                 !.arg = a, !.old = b, !.full = f, !.insert = o \in Writers, !.idx = Home(k)]]
  /\ UNCHANGED <<use, mapFE, mapKey, data>>

Finish(t) ==
  /\ At(t, "done")
  /\ loc' = [loc EXCEPT ![t] = Idle]
  /\ UNCHANGED <<use, mapFE, mapKey, data>>

-------------------------------------------------------------------------------
(* EMSkey2index *)

\* Mutant of Acquire: the map tag is taken without waiting for FULL.
AcquireBlind(t) == SetMapFE(t, "BUSY")

\* EMStransitionFEtag(EMSmapTag(idx), NULL, EMS_TAG_FULL, EMS_TAG_BUSY, ...).
Acquire(t) == mapFE[Idx(t)] = "FULL" /\ SetMapFE(t, "BUSY")

Probe(t) ==
  /\ At(t, "probe")
  /\ Acquire(t)
  /\ Go(t, "compare")
  /\ UNCHANGED <<use, mapKey, data>>

\* EMSwriteIndexMap begins a search at p from the first entry of the key.
From(t, p) ==
  loc' = [loc EXCEPT ![t].pc = p, ![t].insert = TRUE, ![t].idx = Home(loc[t].key), ![t].tries = 0]

\* Mutant of NextSlot: the index is not taken modulo the size of the array.
NextSlotNoWrap(t, p) ==
  loc' = [loc EXCEPT ![t].pc = p, ![t].idx = @ + 1, ![t].tries = @ + 1]

\* Go on at p with the next entry.
NextSlot(t, p) ==
  loc' = [loc EXCEPT ![t].pc = p, ![t].idx = (@ + 1) % N, ![t].tries = @ + 1]

\* Mutants of Matches: strings are compared by address; types are compared.
MatchesAddress(t) == mapKey[Idx(t)] = loc[t].key /\ loc[t].key \notin HeapKey
MatchesType(t) == mapKey[Idx(t)] # NoKey /\ (mapKey[Idx(t)] \in HeapKey <=> loc[t].key \in HeapKey)

\* The entry has the type and the value of the key.
Matches(t) == mapKey[Idx(t)] = loc[t].key

Unused(t) == mapKey[Idx(t)] = NoKey

LastTry(t) == loc[t].tries + 1 = MaxSteps

\* The operation goes on with the element; EMScas first overwrites one that it
\* had found missing.
IndexFound(t) == Go(t, IF Op(t) = "cas" /\ loc[t].insert THEN "prepare" ELSE "try")

\* EMSwriteIndexMap takes index 0 for a failed lookup and searches again.
Matched(t) ==
  IF loc[t].insert /\ Idx(t) = 0 THEN From(t, "search")
  ELSE IF Op(t) \in Lookups THEN Go(t, "touch") ELSE IndexFound(t)

\* The key is missing.  readFE, readFF, readRW and a cas of undefined allocate it with
\* EMSwriteIndexMap, which begins with a lookup of its own; releaseRW and setTag fail.
Missing(t) ==
  \/ loc[t].insert /\ From(t, "search")
  \/ /\ ~loc[t].insert
     /\ Op(t) \in {"readFE", "readFF", "readRW"} \/ (Op(t) = "cas" /\ loc[t].old = Undef)
     /\ From(t, "probe")
  \/ /\ ~loc[t].insert
     /\ Op(t) = "read" \/ (Op(t) = "cas" /\ loc[t].old # Undef)
     /\ Return(t, TRUE, Undef)
  \/ /\ ~loc[t].insert /\ Op(t) \in Lookups
     /\ Return(t, FALSE, Undef)

\* EMScas returns through its last lines with idx = -1, where EMSmapTag(-1) is
\* the tag of the last element (the data tag at -1 is unused).  It is stored after the
\* map tag has been released: one step here, exact where cas is kept to serial sections.
MarksLast(t) == Op(t) = "cas" /\ ~loc[t].insert /\ loc[t].old # Undef

Compare(t) ==
  /\ At(t, "compare")
  /\ SetMapFE(t, "FULL")
  /\ \/ /\ Matches(t)
        /\ Matched(t)
        /\ UNCHANGED data
     \/ /\ ~Matches(t)
        /\ Unused(t) \/ LastTry(t)
        /\ Missing(t)
        /\ data' = IF MarksLast(t) THEN [data EXCEPT ![N - 1].fe = "FULL"] ELSE data
     \/ /\ ~Matches(t) /\ ~Unused(t) /\ ~LastTry(t)
        /\ NextSlot(t, "probe")
        /\ UNCHANGED data
  /\ UNCHANGED <<use, mapKey>>

-------------------------------------------------------------------------------
(* EMSwriteIndexMap *)

Search(t) ==
  /\ At(t, "search")
  /\ Acquire(t)
  /\ Go(t, "place")
  /\ UNCHANGED <<use, mapKey, data>>

\* An unused entry gets the key and stays BUSY until the operation ends; an
\* error return leaves it BUSY with the type of the key and without its text.
Place(t) ==
  /\ At(t, "place")
  /\ \/ /\ Matches(t)
        /\ SetMapFE(t, "FULL")
        /\ IndexFound(t)
        /\ UNCHANGED mapKey
     \/ /\ Unused(t)
        /\ mapKey' = [mapKey EXCEPT ![Idx(t)] = loc[t].key]
        /\ IndexFound(t)
        /\ UNCHANGED mapFE
     \/ /\ Unused(t)
        /\ use.heapFills /\ loc[t].key \in HeapKey
        /\ mapKey' = [mapKey EXCEPT ![Idx(t)] = Torn]
        /\ Return(t, FALSE, Undef)
        /\ UNCHANGED mapFE
     \/ /\ ~Matches(t) /\ ~Unused(t)
        /\ SetMapFE(t, "FULL")
        /\ IF LastTry(t) THEN Return(t, FALSE, Undef) ELSE NextSlot(t, "search")
        /\ UNCHANGED mapKey
  /\ UNCHANGED <<use, data>>

\* EMScas has allocated the key: it stores undefined and starts over again.
Prepare(t) ==
  /\ At(t, "prepare")
  /\ data' = [data EXCEPT ![Idx(t)] = [fe |-> "FULL", rw |-> 0, v |-> Undef]]
  /\ Go(t, "try")
  /\ UNCHANGED <<use, mapFE, mapKey>>

-------------------------------------------------------------------------------
(* The operation on the element *)

\* Element c is in the state that the operation with locals l waits for.
Ready(l, c) ==
  CASE l.op \in {"readFF", "readFE", "faa", "cas"} -> c.fe = "FULL"
    [] l.op = "readRW" -> (c.fe = "FULL" \/ (c.fe = "RW_LOCK" /\ ~l.full)) /\ c.rw < RWMax
    [] l.op = "writeEF" -> c.fe = "EMPTY"
    [] OTHER -> TRUE

\* The element after the operation.
After(l, c) ==
  CASE l.op = "readFE" -> [c EXCEPT !.fe = "EMPTY"]
    [] l.op = "readRW" -> [c EXCEPT !.fe = "RW_LOCK", !.rw = @ + 1]
    [] l.op = "write" -> [c EXCEPT !.v = l.arg]
    [] l.op \in {"writeXF", "writeEF"} -> [fe |-> "FULL", rw |-> 0, v |-> l.arg]
    [] l.op = "writeXE" -> [fe |-> "EMPTY", rw |-> 0, v |-> l.arg]
    [] l.op = "faa" -> [c EXCEPT !.v = Sum[c.v][l.arg]]
    [] l.op = "cas" -> [fe |-> "FULL", rw |-> 0, v |-> IF c.v = l.old THEN l.arg ELSE c.v]
    [] OTHER -> c

\* A thread that has to wait lets go of the map tag, whether it holds it or not.
Try(t) ==
  /\ At(t, "try")
  /\ LET c == data[Idx(t)]
     IN  \/ /\ Ready(loc[t], c)
            /\ data' = [data EXCEPT ![Idx(t)] = After(loc[t], c)]
            /\ loc' = [loc EXCEPT ![t].pc = "unmap",
                                  ![t].ret = IF Op(t) \in Writers \ {"faa"} THEN Undef ELSE c.v]
            /\ UNCHANGED mapFE
         \/ /\ ~Ready(loc[t], c)
            /\ SetMapFE(t, "FULL")
            /\ Go(t, "again")
            /\ UNCHANGED data
  /\ UNCHANGED <<use, mapKey>>

Again(t) ==
  /\ At(t, "again")
  /\ Acquire(t)
  /\ Go(t, "try")
  /\ UNCHANGED <<use, mapKey, data>>

\* Mutant of Unmap: the map tag is not set back.
UnmapSkipped(t) ==
  /\ At(t, "unmap")
  /\ Return(t, TRUE, loc[t].ret)
  /\ UNCHANGED <<use, mapFE, mapKey, data>>

Unmap(t) ==
  /\ At(t, "unmap")
  /\ SetMapFE(t, "FULL")
  /\ Return(t, TRUE, loc[t].ret)
  /\ UNCHANGED <<use, mapKey, data>>

\* EMSreleaseRW fails unless there are readers; the last one leaves the element FULL.
Release(t) ==
  LET c == data[Idx(t)]
      held == c.fe = "RW_LOCK" /\ c.rw > 0
  IN  /\ Op(t) = "releaseRW"
      /\ data' = IF held THEN [data EXCEPT ![Idx(t)] =
                                [c EXCEPT !.rw = @ - 1, !.fe = IF c.rw = 1 THEN "FULL" ELSE @]]
                         ELSE data
      /\ Return(t, held, Undef)

\* EMSsetTag.
SetTag(t) ==
  /\ Op(t) # "releaseRW"
  /\ data' = [data EXCEPT ![Idx(t)].fe = IF Op(t) = "setFull" THEN "FULL" ELSE "EMPTY"]
  /\ Return(t, TRUE, Undef)

\* The operations that leave the map alone.
Touch(t) ==
  /\ At(t, "touch")
  /\ Release(t) \/ SetTag(t)
  /\ UNCHANGED <<use, mapFE, mapKey>>

-------------------------------------------------------------------------------

Step(t) ==
  \/ Probe(t) \/ Compare(t) \/ Search(t) \/ Place(t) \/ Prepare(t)
  \/ Try(t) \/ Again(t) \/ Unmap(t) \/ Touch(t) \/ Finish(t)

Next == \E t \in Threads : Step(t) \/ (\E o \in Ops : Call(t, o))

Spec == Init /\ [][Next]_vars

-------------------------------------------------------------------------------
(* Properties *)

TypeOK ==
  /\ use \in Uses
  /\ mapFE \in [Slots -> {"FULL", "BUSY"}]
  /\ mapKey \in [Slots -> Key \cup {NoKey, Torn}]
  /\ data \in [Slots -> Element]
  /\ loc \in [Threads -> Locals]

Examines(t) == loc[t].pc \in {"compare", "place"}

\* Waiting operations and finished ones set map tags FULL that they do not hold,
\* and so free entries under a lookup of another thread; yet an unused entry,
\* the only kind that is changed, is examined by one thread at a time.
UnusedExclusive ==
  \A t, u \in Threads :
    Examines(t) /\ Examines(u) /\ Idx(t) = Idx(u) /\ mapKey[Idx(t)] = NoKey => t = u

\* However many threads insert a key at once, it is given one element.
OneIndex ==
  \A i, j \in Slots : mapKey[i] \in Key /\ mapKey[i] = mapKey[j] => i = j

Releasing == {"compare", "place", "prepare", "try", "unmap"}

\* A map entry is BUSY only on behalf of a thread that will set it FULL without
\* waiting for anybody, unless the allocation of its key has failed: a lookup
\* never waits for a thread that is itself waiting.
MapTagHeld ==
  \A i \in Slots : mapFE[i] = "BUSY" =>
    \/ mapKey[i] = Torn
    \/ \E t \in Threads : Idx(t) = i /\ loc[t].pc \in Releasing

\* reference.html:984: "CAS is the equivalent of atomically performing: if(
\* arr[idx] == oldValue ) then arr[idx] = newValue": of two calls that would replace
\* undefined by a value, where nothing restores undefined, one succeeds.
CasWinsOnce ==
  LET Won(t) == At(t, "done") /\ Op(t) = "cas" /\ loc[t].old = Undef /\ loc[t].arg # Undef
                  /\ loc[t].ok /\ loc[t].ret = Undef
  IN  \A t, u \in Threads : Won(t) /\ Won(u) /\ loc[t].key = loc[u].key => t = u
===============================================================================
