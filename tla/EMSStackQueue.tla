----------------------------- MODULE EMSStackQueue ----------------------------
(***************************************************************************)
(* An EMS array used as a stack or as a queue (src/src/primitives.cc).     *)
(*                                                                         *)
(* EMSpush, EMSpop and EMSenqueue run with the tag of EMS_ARR_STACKTOP     *)
(* BUSY, EMSdequeue with the tag of EMS_ARR_Q_BOTTOM BUSY.  Acquiring a    *)
(* tag (EMStransitionFEtag) is one step here; EMSElement models its loads  *)
(* and compare-and-swaps.  Every other access to memory shared by the      *)
(* operations is a step.                                                   *)
(*                                                                         *)
(* primitives.cc reaches shared memory through plain pointers, so where an *)
(* index and the tag that guards it are stored one after the other without *)
(* a call between them the compiler may order them as it likes, and it may *)
(* load an index twice.  use.build names the gcc x86-64 build: "O1" does   *)
(* neither, "O0" loads STACKTOP a second time in an empty EMSdequeue, "O2" *)
(* stores the reset of an index after the tag.                             *)
(***************************************************************************)
EXTENDS Integers, Sequences, FiniteSets

CONSTANTS
  Threads, Value,
  HeapValue,   \* the values that are strings or objects
  Undef,       \* the undefined returned by an empty stack or queue
  Uses,        \* the ways in which the array may be used
  MaxCalls,    \* bound: calls each thread makes
  MaxLive      \* bound: values added whose removal has not returned

Kinds == {{"push", "pop"}, {"enqueue", "dequeue"}}

\* A use is a record: ops, one of Kinds; values, the values added; n, the
\* EMS_ARR_NELEM of the array; build, the gcc optimisation level; heapFills,
\* whether EMS_ALLOC and malloc may fail.
ASSUME StackQueueAssumption ==
  /\ HeapValue \subseteq Value /\ Undef \notin Value
  /\ \A u \in Uses : /\ u.ops \in Kinds /\ u.values \subseteq Value
                     /\ u.n \in Nat \ {0} /\ u.build \in {"O0", "O1", "O2"}
                     /\ u.heapFills \in BOOLEAN
  /\ MaxCalls \in Nat /\ MaxLive \in Nat

VARIABLES
  use,      \* how the program uses the array, one of Uses
  top,      \* bufInt64[EMScbData(EMS_ARR_STACKTOP)]
  bottom,   \* bufInt64[EMScbData(EMS_ARR_Q_BOTTOM)]
  topTag, bottomTag,  \* the fe bits of their tags, "FULL" or "BUSY"
  cell,     \* cell[i]: the fe bits and the value of element i
  loc,      \* loc[t]: program counter and locals of thread t
  left,     \* left[t]: calls t may still make
  live      \* values added whose removal has not returned

shared == <<top, bottom, topTag, bottomTag, cell>>
vars == <<use, shared, loc, left, live>>

N     == use.n
Slots == 0 .. N - 1
Build == use.build

Adds == {"push", "enqueue"}

\* idx: the local idx; -1 is what EMSpush and EMSenqueue return on an error.
\* v: the argument of an add, the value copied by a removal.
Idle == [pc |-> "idle", op |-> "none", v |-> Undef, idx |-> 0, ok |-> TRUE]

Init ==
  /\ use \in Uses
  /\ top = 0 /\ bottom = 0
  /\ topTag = "FULL" /\ bottomTag = "FULL"
  /\ cell = [i \in Slots |-> [fe |-> "EMPTY", v |-> Undef]]
  /\ loc = [t \in Threads |-> Idle]
  /\ left = [t \in Threads |-> MaxCalls]
  /\ live = 0

At(t, p)    == loc[t].pc = p
Idx(t)      == loc[t].idx
Go(t, p)    == loc' = [loc EXCEPT ![t].pc = p]
GoIdx(t, p, i) == loc' = [loc EXCEPT ![t].pc = p, ![t].idx = i]
GoVal(t, p, v) == loc' = [loc EXCEPT ![t].pc = p, ![t].v = v]
Fail(t)     == loc' = [loc EXCEPT ![t].pc = "done", ![t].ok = FALSE]

Local == UNCHANGED <<use, left, live>>

SetFE(i, f) == cell' = [cell EXCEPT ![i].fe = f]

AllocFails(v) == use.heapFills /\ v \in HeapValue

-------------------------------------------------------------------------------

\* The program calls o; it never has more than MaxLive values outstanding.
Call(t, o) ==
  /\ At(t, "idle") /\ left[t] > 0 /\ o \in use.ops
  /\ o \in Adds => live < MaxLive
  /\ \E v \in IF o \in Adds THEN use.values ELSE {Undef} :
        loc' = [loc EXCEPT ![t] = [Idle EXCEPT !.pc = "lock", !.op = o, !.v = v]]
  /\ left' = [left EXCEPT ![t] = @ - 1]
  /\ live' = IF o \in Adds THEN live + 1 ELSE live
  /\ UNCHANGED <<use, shared>>

Finish(t) ==
  /\ At(t, "done")
  /\ loc' = [loc EXCEPT ![t] = Idle]
  /\ live' = IF loc[t].op \notin Adds /\ loc[t].v # Undef THEN live - 1 ELSE live
  /\ UNCHANGED <<use, shared, left>>

Start(o) == CASE o = "push" -> "pushReserve" [] o = "pop" -> "popReserve"
              [] o = "enqueue" -> "enqReserve" [] OTHER -> "deqReserve"

\* Mutant of LockTop: STACKTOP is taken without waiting for FULL.
LockTopUnguarded(t) ==
  /\ At(t, "lock") /\ loc[t].op # "dequeue"
  /\ topTag' = "BUSY"
  /\ Go(t, Start(loc[t].op))
  /\ UNCHANGED <<top, bottom, bottomTag, cell>> /\ Local

\* EMStransitionFEtag(..., EMS_TAG_FULL, EMS_TAG_BUSY) on the index tag.
LockTop(t) ==
  /\ At(t, "lock") /\ loc[t].op # "dequeue" /\ topTag = "FULL"
  /\ topTag' = "BUSY"
  /\ Go(t, Start(loc[t].op))
  /\ UNCHANGED <<top, bottom, bottomTag, cell>> /\ Local

LockBottom(t) ==
  /\ At(t, "lock") /\ loc[t].op = "dequeue" /\ bottomTag = "FULL"
  /\ bottomTag' = "BUSY"
  /\ Go(t, Start(loc[t].op))
  /\ UNCHANGED <<top, bottom, topTag, cell>> /\ Local

\* A removal that found nothing, when the compiler stores the index last.
SinksReset(t) == Build = "O2" /\ loc[t].op \notin Adds /\ Idx(t) < 0

UnlockTop(t) ==
  /\ At(t, "unlock") /\ loc[t].op # "dequeue"
  /\ topTag' = "FULL"
  /\ Go(t, IF SinksReset(t) THEN "reset" ELSE "done")
  /\ UNCHANGED <<top, bottom, bottomTag, cell>> /\ Local

\* A string is copied only after its element and the queue are released.
UnlockBottom(t) ==
  /\ At(t, "unlock") /\ loc[t].op = "dequeue"
  /\ bottomTag' = "FULL"
  /\ Go(t, IF SinksReset(t) THEN "reset"
           ELSE IF Idx(t) >= 0 /\ loc[t].v = Undef THEN "deqLateCopy" ELSE "done")
  /\ UNCHANGED <<top, bottom, topTag, cell>> /\ Local

\* The stale index store of an "O2" build.  An empty pop stores 0; an empty
\* dequeue the STACKTOP it compared with, kept as -1 - STACKTOP in idx.
Reset(t) ==
  /\ At(t, "reset")
  /\ IF loc[t].op = "pop" THEN top' = 0 /\ UNCHANGED bottom
                          ELSE bottom' = -1 - Idx(t) /\ UNCHANGED top
  /\ Go(t, "done")
  /\ UNCHANGED <<topTag, bottomTag, cell>> /\ Local

-------------------------------------------------------------------------------
(* EMSpush *)

StackFull(i) == i = N - 1

PushReserve(t) ==
  /\ At(t, "pushReserve")
  /\ top' = top + 1
  /\ IF StackFull(top) THEN Fail(t) ELSE GoIdx(t, "pushClaim", top)
  /\ UNCHANGED <<bottom, topTag, bottomTag, cell>> /\ Local

\* Element -1 is the control block, whose tag is never EMPTY.
PushClaim(t) ==
  /\ At(t, "pushClaim") /\ Idx(t) \in Slots /\ cell[Idx(t)].fe = "EMPTY"
  /\ SetFE(Idx(t), "BUSY")
  /\ Go(t, "pushWrite")
  /\ UNCHANGED <<top, bottom, topTag, bottomTag>> /\ Local

PushWrite(t) ==
  /\ At(t, "pushWrite")
  /\ \/ /\ cell' = [cell EXCEPT ![Idx(t)].v = loc[t].v]
        /\ Go(t, "pushMark")
     \/ /\ AllocFails(loc[t].v)
        /\ Fail(t)
        /\ UNCHANGED cell
  /\ UNCHANGED <<top, bottom, topTag, bottomTag>> /\ Local

PushMark(t) ==
  /\ At(t, "pushMark")
  /\ SetFE(Idx(t), "FULL")
  /\ Go(t, "unlock")
  /\ UNCHANGED <<top, bottom, topTag, bottomTag>> /\ Local

-------------------------------------------------------------------------------
(* EMSpop *)

PopReserve(t) ==
  /\ At(t, "popReserve")
  /\ IF top > 0
     THEN top' = top - 1 /\ GoIdx(t, "popClaim", top - 1)
     ELSE /\ top' = IF Build = "O2" THEN top - 1 ELSE 0
          /\ GoIdx(t, "unlock", -1)
  /\ UNCHANGED <<bottom, topTag, bottomTag, cell>> /\ Local

PopClaim(t) ==
  /\ At(t, "popClaim") /\ cell[Idx(t)].fe = "FULL"
  /\ SetFE(Idx(t), "BUSY")
  /\ Go(t, "popCopy")
  /\ UNCHANGED <<top, bottom, topTag, bottomTag>> /\ Local

\* When malloc of the copy fails EMSpop returns with both tags BUSY.
PopCopy(t) ==
  /\ At(t, "popCopy")
  /\ \/ GoVal(t, "popMark", cell[Idx(t)].v)
     \/ AllocFails(cell[Idx(t)].v) /\ Fail(t)
  /\ UNCHANGED shared /\ Local

PopMark(t) ==
  /\ At(t, "popMark")
  /\ SetFE(Idx(t), "EMPTY")
  /\ Go(t, "unlock")
  /\ UNCHANGED <<top, bottom, topTag, bottomTag>> /\ Local

-------------------------------------------------------------------------------
(* EMSenqueue *)

EnqReserve(t) ==
  /\ At(t, "enqReserve")
  /\ top' = top + 1
  /\ GoIdx(t, "enqCheck", top % N)
  /\ UNCHANGED <<bottom, topTag, bottomTag, cell>> /\ Local

QueueFull == top - bottom > N

EnqCheck(t) ==
  /\ At(t, "enqCheck")
  /\ IF QueueFull THEN Fail(t) ELSE Go(t, "enqWrite")
  /\ UNCHANGED shared /\ Local

\* The element is not acquired: its tag may be in any state.
EnqWrite(t) ==
  /\ At(t, "enqWrite")
  /\ \/ /\ cell' = [cell EXCEPT ![Idx(t)].v = loc[t].v]
        /\ Go(t, "enqMark")
     \/ /\ AllocFails(loc[t].v)
        /\ Fail(t)
        /\ UNCHANGED cell
  /\ UNCHANGED <<top, bottom, topTag, bottomTag>> /\ Local

EnqMark(t) ==
  /\ At(t, "enqMark")
  /\ SetFE(Idx(t), "FULL")
  /\ Go(t, "unlock")
  /\ UNCHANGED <<top, bottom, topTag, bottomTag>> /\ Local

-------------------------------------------------------------------------------
(* EMSdequeue *)

\* Mutant of QueueEmpty: off by one.
QueueEmptyOffByOne == bottom > top

\* Only EMSdequeue stores Q_BOTTOM, under its tag, so reading both indices and
\* moving Q_BOTTOM is one step.
QueueEmpty == bottom >= top

\* Mutant of DeqReserve: an empty queue returns with Q_BOTTOM still BUSY.
DeqReserveKeepsBusy(t) ==
  /\ At(t, "deqReserve")
  /\ IF ~QueueEmpty
     THEN bottom' = bottom + 1 /\ GoIdx(t, "deqClaim", bottom % N)
     ELSE bottom' = top /\ GoIdx(t, "done", -1 - top)
  /\ UNCHANGED <<top, topTag, bottomTag, cell>> /\ Local

DeqReserve(t) ==
  /\ At(t, "deqReserve")
  /\ IF ~QueueEmpty
     THEN bottom' = bottom + 1 /\ GoIdx(t, "deqClaim", bottom % N)
     ELSE /\ bottom' = IF Build = "O1" THEN top ELSE bottom
          /\ GoIdx(t, IF Build = "O0" THEN "deqReload" ELSE "unlock", -1 - top)
  /\ UNCHANGED <<top, topTag, bottomTag, cell>> /\ Local

DeqReload(t) ==
  /\ At(t, "deqReload")
  /\ bottom' = top
  /\ Go(t, "unlock")
  /\ UNCHANGED <<top, topTag, bottomTag, cell>> /\ Local

\* Mutant of DeqClaim: the element is taken without waiting for FULL.
DeqClaimUnguarded(t) ==
  /\ At(t, "deqClaim")
  /\ SetFE(Idx(t), "BUSY")
  /\ Go(t, IF cell[Idx(t)].v \in HeapValue THEN "deqMark" ELSE "deqCopy")
  /\ UNCHANGED <<top, bottom, topTag, bottomTag>> /\ Local

DeqClaim(t) ==
  /\ At(t, "deqClaim") /\ cell[Idx(t)].fe = "FULL"
  /\ SetFE(Idx(t), "BUSY")
  /\ Go(t, IF cell[Idx(t)].v \in HeapValue THEN "deqMark" ELSE "deqCopy")
  /\ UNCHANGED <<top, bottom, topTag, bottomTag>> /\ Local

DeqCopy(t) ==
  /\ At(t, "deqCopy")
  /\ GoVal(t, "deqMark", cell[Idx(t)].v)
  /\ UNCHANGED shared /\ Local

DeqMark(t) ==
  /\ At(t, "deqMark")
  /\ SetFE(Idx(t), "EMPTY")
  /\ Go(t, "unlock")
  /\ UNCHANGED <<top, bottom, topTag, bottomTag>> /\ Local

DeqLateCopy(t) ==
  /\ At(t, "deqLateCopy")
  /\ \/ GoVal(t, "done", cell[Idx(t)].v)
     \/ AllocFails(cell[Idx(t)].v) /\ Fail(t)
  /\ UNCHANGED shared /\ Local

-------------------------------------------------------------------------------

Step(t) ==
  \/ LockTop(t) \/ LockBottom(t) \/ UnlockTop(t) \/ UnlockBottom(t) \/ Reset(t)
  \/ PushReserve(t) \/ PushClaim(t) \/ PushWrite(t) \/ PushMark(t)
  \/ PopReserve(t) \/ PopClaim(t) \/ PopCopy(t) \/ PopMark(t)
  \/ EnqReserve(t) \/ EnqCheck(t) \/ EnqWrite(t) \/ EnqMark(t)
  \/ DeqReserve(t) \/ DeqReload(t) \/ DeqClaim(t) \/ DeqCopy(t) \/ DeqMark(t)
  \/ DeqLateCopy(t)
  \/ Finish(t)

Next == \E t \in Threads : Step(t) \/ (\E o \in UNION Kinds : Call(t, o))

Spec == Init /\ [][Next]_vars

\* Every thread inside an operation is scheduled; none is obliged to call one.
FairSpec == Spec /\ \A t \in Threads : WF_vars(Step(t))
-------------------------------------------------------------------------------
(* Properties *)

\* t holds the lock of its index: STACKTOP, or Q_BOTTOM in EMSdequeue.
InCritical(t) == loc[t].pc \notin {"idle", "lock", "reset", "done", "deqLateCopy"}
SameIndex(t, u) == (loc[t].op = "dequeue") <=> (loc[u].op = "dequeue")

\* BUSY in an index tag is a lock whatever the build and whatever fails: two
\* threads are never both between its acquisition and its release.
IndexExclusive ==
  /\ \A t \in Threads : InCritical(t) =>
       (IF loc[t].op = "dequeue" THEN bottomTag ELSE topTag) = "BUSY"
  /\ \A t, u \in Threads : InCritical(t) /\ InCritical(u) /\ SameIndex(t, u) => t = u

\* t is accessing, or has yet to copy, the data word of element Idx(t).
Touches(t) ==
  \/ loc[t].pc \in {"pushWrite", "pushMark", "popCopy", "popMark", "enqWrite", "enqMark",
                    "deqCopy", "deqMark", "deqLateCopy"}
  \/ loc[t].pc = "unlock" /\ loc[t].op = "dequeue" /\ Idx(t) >= 0

\* The uses on which the operations promise something: stores in the order of the source,
\* a heap that suffices, an element for every value outstanding, and numbers only in a
\* queue.  EMSpush refuses the last element, so a stack needs one more.
Disciplined ==
  /\ Build = "O1" /\ ~use.heapFills
  /\ IF "dequeue" \in use.ops THEN MaxLive <= N /\ use.values \cap HeapValue = {}
                              ELSE MaxLive < N

\* EMSenqueue does not acquire the element it fills; no two threads use one data word at
\* once in a disciplined use.
SlotExclusive ==
  Disciplined => \A t, u \in Threads : Touches(t) /\ Touches(u) /\ t # u => Idx(t) # Idx(u)

\* In a disciplined use every call returns: no thread waits for an index tag or an element
\* for ever.
AllReturn == \A t \in Threads : Disciplined /\ loc[t].pc # "idle" ~> loc[t].pc = "idle"

\* reference.html:1183: removing yields undefined only "If the queue or stack is
\* empty": with no call in progress the indices span every value added and not
\* yet removed.
NothingLost == (\A t \in Threads : At(t, "idle")) => top - bottom = live
===============================================================================
