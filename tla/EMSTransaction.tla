---------------------------- MODULE EMSTransaction ----------------------------
(***************************************************************************)
(* Transactions: tmStart and tmEnd of src/nodejs/ems.js and                *)
(* src/Python/ems.py over several elements.                                *)
(*                                                                         *)
(* A transaction takes its elements one after the other with readFE or     *)
(* readRW, its body stores into the ones it has emptied with write, and    *)
(* tmEnd gives all of them back with releaseRW, setTag or writeEF.  readFE,*)
(* readRW, releaseRW, writeEF and readFF are one step, as                  *)
(* EMSElementRefinement shows them to be.  write and setTag load the tag   *)
(* byte and store it back later without acquiring it: those are steps of   *)
(* their own.                                                              *)
(***************************************************************************)
EXTENDS Naturals, Sequences, FiniteSets

CONSTANTS
  Threads, Elements, Value,
  Zero,      \* the initial value of every element
  RWMax,     \* EMS_RW_NREADERS_MAX
  MaxElem,   \* MAX_ELEM_PER_REGION
  MaxTx,     \* bound: transactions per thread
  Uses       \* the programs

\* An element is a record: arr, the array it belongs to; key, its index or key;
\* isText, whether the key is a string; rank, where the text of the key comes in the
\* order of strings.
\* A use is a record: lang, the binding, "js" or "py"; number, where number[t][a] is the
\* number by which process t knows array a (regionN in ems.js, mmapID in ems.py);
\* requests, the arguments of the calls of tmStart by each thread.  An item of a request has an
\* element, e, and a third entry, flag, that may be absent.  A request of no item is left
\* out: it takes nothing and gives nothing back.
ASSUME TransactionAssumption ==
  /\ RWMax \in Nat \ {0} /\ MaxElem \in Nat /\ MaxTx \in Nat /\ Zero \in Value
  /\ \A e \in Elements : e.key \in Nat /\ e.rank \in Nat /\ e.isText \in BOOLEAN
  /\ \A u \in Uses :
       /\ u.lang \in {"js", "py"}
       /\ \A t \in Threads, e \in Elements : u.number[t][e.arr] \in Nat
       /\ \A t \in Threads :
            u.requests[t] \subseteq Seq([e : Elements, flag : {"absent", "true", "false"}]) \ {<<>>}

VARIABLES
  use,    \* the program, one of Uses
  tag,    \* tag[e]: full/empty bits and reader count of element e
  data,   \* data[e]: its value
  loc     \* loc[t]: program counter and locals of thread t

vars == <<use, tag, data, loc>>

Tag == [fe : {"FULL", "EMPTY", "RW_LOCK"}, rw : 0 .. RWMax]
FullTag == [fe |-> "FULL", rw |-> 0]

PC == {"idle", "take", "body", "writeData", "writeStore", "end", "setStore", "observed"}

Item == [e : Elements, readOnly : BOOLEAN]

\* todo: the sorted elements; orig: the values read so far, the handle of the transaction;
\* at: how many items the body or tmEnd is done with; mem: the tag byte loaded by write or
\* setTag; arg: the value to write; full: what EMSreadRW finds in its uninitialised tag;
\* failed: releaseRW has reported an error.
Idle == [pc |-> "idle", todo |-> <<>>, orig |-> <<>>, at |-> 0, commit |-> FALSE,
         mem |-> FullTag, arg |-> Zero, full |-> FALSE, failed |-> FALSE, count |-> 0]

Init ==
  /\ use \in Uses
  /\ tag = [e \in Elements |-> FullTag]
  /\ data = [e \in Elements |-> Zero]
  /\ loc = [t \in Threads |-> Idle]

At(t, p) == loc[t].pc = p

-------------------------------------------------------------------------------
(* tmStart *)

\* The third entry of an item: ems.js compares it with true, ems.py only looks whether it
\* is there.
ReadOnly(i) ==
  IF use.lang = "js" THEN i.flag = "true" ELSE i.flag # "absent"

\* The number ems.js sorts by.
Position(t, e) == use.number[t][e.arr] * MaxElem + e.key

\* The comparator of the sort.  In ems.js the difference of two strings is not a
\* number, which a sort takes for equality; ems.py compares texts, the number of the array
\* (of one digit) before the key.
Before(t, a, b) ==
  CASE use.lang = "js" -> ~a.isText /\ ~b.isText /\ Position(t, a) < Position(t, b)
    [] use.lang = "py" -> \/ use.number[t][a.arr] < use.number[t][b.arr]
                          \/ use.number[t][a.arr] = use.number[t][b.arr] /\ a.rank < b.rank

\* Mutant of Sorted: the elements are taken in the order they are given in.
Unsorted(t, r) == [i \in DOMAIN r |-> [e |-> r[i].e, readOnly |-> ReadOnly(r[i])]]

\* A stable sort by Before.
Sorted(t, r) ==
  LET Place(i) == Cardinality({j \in DOMAIN r :
                    Before(t, r[j].e, r[i].e) \/ (~Before(t, r[i].e, r[j].e) /\ j <= i)})
      Source(n) == r[CHOOSE i \in DOMAIN r : Place(i) = n]
  IN  [n \in DOMAIN r |-> [e |-> Source(n).e, readOnly |-> ReadOnly(Source(n))]]

\* The limit of readers may be found in the uninitialised tag by a readRW of item i.
Garbage(s, i) == {f \in BOOLEAN : f => i <= Len(s) /\ s[i].readOnly}

\* tmStart is called: the indices are sorted, the first element is tried.
Start(t) ==
  /\ At(t, "idle") /\ loc[t].count < MaxTx
  /\ \E r \in use.requests[t] : LET s == Sorted(t, r) IN \E f \in Garbage(s, 1) :
       loc' = [loc EXCEPT ![t].pc = "take", ![t].todo = s, ![t].full = f]
  /\ UNCHANGED <<use, tag, data>>

\* The item that is taken next.
Wanted(t) == loc[t].todo[Len(loc[t].orig) + 1]

\* Mutant of Available: the reader count is not compared with its limit.
AvailableAlways(t) ==
  LET g == tag[Wanted(t).e]
  IN  g.fe = "FULL" \/ (Wanted(t).readOnly /\ g.fe = "RW_LOCK")

\* EMSreadRW looks at the reader count of its uninitialised tag under a lock that is
\* taken, and waits for FULL when it finds the limit there.
Available(t) ==
  LET g == tag[Wanted(t).e]
  IN  \/ g.fe = "FULL"
      \/ Wanted(t).readOnly /\ g.fe = "RW_LOCK" /\ g.rw < RWMax /\ ~loc[t].full

\* Mutant of Taken: the read-write elements are read with readFF.
TakenFF(t) ==
  LET g == tag[Wanted(t).e]
  IN  IF Wanted(t).readOnly THEN [fe |-> "RW_LOCK", rw |-> g.rw + 1] ELSE g

\* The tag after readRW or readFE.
Taken(t) ==
  LET g == tag[Wanted(t).e]
  IN  IF Wanted(t).readOnly THEN [fe |-> "RW_LOCK", rw |-> g.rw + 1]
                            ELSE [g EXCEPT !.fe = "EMPTY"]

\* An element is taken and its value saved in the handle.
Take(t) ==
  /\ At(t, "take") /\ Available(t)
  /\ tag' = [tag EXCEPT ![Wanted(t).e] = Taken(t)]
  /\ \E f \in Garbage(loc[t].todo, Len(loc[t].orig) + 2) :
       loc' = [loc EXCEPT ![t].orig = Append(@, data[Wanted(t).e]), ![t].full = f,
                 ![t].pc = IF Len(loc[t].orig) + 1 = Len(loc[t].todo) THEN "body" ELSE "take"]
  /\ UNCHANGED <<use, data>>

-------------------------------------------------------------------------------
(* The body *)

Current(t) == loc[t].todo[loc[t].at]

\* write is called for a read-write element; the body writes each at most once.
\* EMSwriteUsingTags loads the tag.
WriteLoad(t) ==
  /\ At(t, "body")
  /\ \E i \in loc[t].at + 1 .. Len(loc[t].todo), v \in Value :
       /\ ~loc[t].todo[i].readOnly
       /\ loc' = [loc EXCEPT ![t].pc = "writeData", ![t].at = i, ![t].arg = v,
                             ![t].mem = tag[loc[t].todo[i].e]]
  /\ UNCHANGED <<use, tag, data>>

WriteData(t) ==
  /\ At(t, "writeData")
  /\ data' = [data EXCEPT ![Current(t).e] = loc[t].arg]
  /\ loc' = [loc EXCEPT ![t].pc = "writeStore"]
  /\ UNCHANGED <<use, tag>>

WriteStore(t) ==
  /\ At(t, "writeStore")
  /\ tag' = [tag EXCEPT ![Current(t).e] = loc[t].mem]
  /\ loc' = [loc EXCEPT ![t].pc = "body"]
  /\ UNCHANGED <<use, data>>

-------------------------------------------------------------------------------
(* tmEnd *)

\* tmEnd is called to commit or to abort.
End(t) ==
  /\ At(t, "body")
  /\ \E c \in BOOLEAN : loc' = [loc EXCEPT ![t].pc = "end", ![t].at = 1, ![t].commit = c]
  /\ UNCHANGED <<use, tag, data>>

\* On to the next element of the handle, or out of tmEnd; f: releaseRW failed.
Advance(t, f) ==
  LET failed == loc[t].failed \/ f
  IN  IF loc[t].at < Len(loc[t].todo)
      THEN loc' = [loc EXCEPT ![t].pc = "end", ![t].at = @ + 1, ![t].failed = failed]
      ELSE loc' = [loc EXCEPT ![t] = [Idle EXCEPT !.count = loc[t].count + 1, !.failed = failed]]

\* Mutant of Released: the last reader leaves the lock.
ReleasedLocked(g) == [g EXCEPT !.rw = @ - 1]

\* The tag after releaseRW.
Released(g) == IF g.rw = 1 THEN FullTag ELSE [g EXCEPT !.rw = @ - 1]

\* releaseRW of a read-only element; it reports a tag that is not a lock with readers.
EndRelease(t) ==
  /\ At(t, "end") /\ Current(t).readOnly
  /\ LET g == tag[Current(t).e]
     IN  IF g.fe = "RW_LOCK" /\ g.rw > 0
         THEN tag' = [tag EXCEPT ![Current(t).e] = Released(g)] /\ Advance(t, FALSE)
         ELSE UNCHANGED tag /\ Advance(t, TRUE)
  /\ UNCHANGED <<use, data>>

\* setTag(true) of a read-write element: load and store.
EndSetLoad(t) ==
  /\ At(t, "end") /\ ~Current(t).readOnly /\ loc[t].commit
  /\ loc' = [loc EXCEPT ![t].pc = "setStore", ![t].mem = tag[Current(t).e]]
  /\ UNCHANGED <<use, tag, data>>

EndSetStore(t) ==
  /\ At(t, "setStore")
  /\ tag' = [tag EXCEPT ![Current(t).e] = [loc[t].mem EXCEPT !.fe = "FULL"]]
  /\ Advance(t, FALSE)
  /\ UNCHANGED <<use, data>>

\* Mutant of Restored: an abort writes back the first value saved.
RestoredFirst(t) == loc[t].orig[1]

\* The value that an abort writes back.
Restored(t) == loc[t].orig[loc[t].at]

\* writeEF of the original value.
EndWriteEF(t) ==
  /\ At(t, "end") /\ ~Current(t).readOnly /\ ~loc[t].commit
  /\ tag[Current(t).e].fe = "EMPTY"
  /\ tag' = [tag EXCEPT ![Current(t).e] = FullTag]
  /\ data' = [data EXCEPT ![Current(t).e] = Restored(t)]
  /\ Advance(t, FALSE)
  /\ UNCHANGED use

-------------------------------------------------------------------------------
(* A thread outside of any transaction reads an element that is FULL. *)

Observe(t) ==
  /\ At(t, "idle") /\ loc[t].count < MaxTx
  /\ \E e \in Elements :
       /\ tag[e].fe = "FULL"
       /\ loc' = [loc EXCEPT ![t].pc = "observed", ![t].todo = <<[e |-> e, readOnly |-> TRUE]>>,
                             ![t].orig = <<data[e]>>]
  /\ UNCHANGED <<use, tag, data>>

Observed(t) ==
  /\ At(t, "observed")
  /\ loc' = [loc EXCEPT ![t] = [Idle EXCEPT !.count = loc[t].count + 1, !.failed = loc[t].failed]]
  /\ UNCHANGED <<use, tag, data>>

-------------------------------------------------------------------------------

Step(t) ==
  \/ Take(t) \/ WriteLoad(t) \/ WriteData(t) \/ WriteStore(t) \/ End(t)
  \/ EndRelease(t) \/ EndSetLoad(t) \/ EndSetStore(t) \/ EndWriteEF(t) \/ Observed(t)

Next == \E t \in Threads : Start(t) \/ Observe(t) \/ Step(t)

Spec == Init /\ [][Next]_vars

\* A thread that can take a step of its operation eventually does; nothing makes it
\* call another one.
FairSpec == Spec /\ \A t \in Threads : WF_vars(Step(t))

-------------------------------------------------------------------------------
(* Properties *)

TypeOK ==
  /\ use \in Uses
  /\ tag \in [Elements -> Tag]
  /\ data \in [Elements -> Value]
  /\ \A t \in Threads :
       /\ loc[t].pc \in PC /\ loc[t].count \in 0 .. MaxTx /\ loc[t].mem \in Tag
       /\ loc[t].todo \in Seq(Item) /\ loc[t].orig \in Seq(Value)
       /\ Len(loc[t].orig) <= Len(loc[t].todo) /\ loc[t].at \in 0 .. Len(loc[t].todo)

Ending(t) == loc[t].pc \in {"end", "setStore"}

\* The positions of the elements a transaction has taken and not given back.
Held(t) ==
  IF At(t, "observed") THEN {}
  ELSE {i \in DOMAIN loc[t].orig : Ending(t) => i >= loc[t].at}

Holders(e, readOnly) ==
  {t \in Threads : \E i \in Held(t) : loc[t].todo[i] = [e |-> e, readOnly |-> readOnly]}

\* setTag and write store tag bytes they have loaded earlier, and commit and abort give
\* elements back one at a time: throughout, an element is EMPTY as long as some transaction
\* holds it read-write, that transaction alone, and its reader count is the number of
\* transactions that hold it read-only; so no releaseRW ever fails.
Isolated ==
  /\ \A t \in Threads : ~loc[t].failed
  /\ \A e \in Elements :
       /\ Cardinality(Holders(e, FALSE)) = IF tag[e].fe = "EMPTY" THEN 1 ELSE 0
       /\ Cardinality(Holders(e, TRUE)) = tag[e].rw

Waits(t) == At(t, "take") /\ ~Available(t)

\* ems.js:155: "the elements sorted for deadlock free acquisition", "Sort the elements
\* to lock according to a global ordering" (ems.js:159): the transactions in progress are never all
\* waiting for one another.
NoDeadlock ==
  (\E t \in Threads : ~At(t, "idle")) => \E t \in Threads : ~At(t, "idle") /\ ~Waits(t)

\* Every transaction ends, readers that are refused under a lock with room included.
TransactionsEnd == \A t \in Threads : ~At(t, "idle") ~> At(t, "idle")
===============================================================================
