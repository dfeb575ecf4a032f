------------------------------- MODULE EMSArray -------------------------------
(***************************************************************************)
(* The life of an EMS array: new and destroy of src/nodejs/ems.js and      *)
(* src/Python/ems.py, EMSinitialize and EMSdestroy of src/src/ems.cc, and, *)
(* in between, operations on its elements that allocate and free strings.  *)
(*                                                                         *)
(* All processes of a program create the array, use it and destroy it,     *)
(* several times under one name.  A barrier is taken for what              *)
(* EMSCollectives shows of it, the acquisition of an element for what      *)
(* EMSElement shows of it; the allocator is EMSAlloc, step by step.        *)
(***************************************************************************)
EXTENDS EMSAlloc

CONSTANTS
  N,           \* nElements
  Texts,       \* the strings
  Bytes,       \* Bytes[x]: the bytes that string x takes
  Number,      \* a value that is not a string
  RWMax,       \* EMS_RW_NREADERS_MAX
  Uses         \* the programs

Elements == 0 .. N - 1
Values == Texts \cup {Number}

\* A use is a record: lang, the binding, "js" or "py"; persist, whether the array has a file
\* name of its own (an array without one is shared memory); fill, the value of dataFill; ops,
\* the operations of the program; values, what it writes; unlink, the argument of destroy;
\* attach, whether new is called with useExisting from the second time on, to keep values and
\* tags; slots, EMS_MAX_N_BUFS; and the bounds lives, how many times new is called, and calls, the operations
\* of each process on the array.  A program that fills the array sets the tags FULL.
ASSUME ArrayAssumption ==
  /\ N \in Nat \ {0} /\ RWMax \in Nat \ {0}
  /\ IsFiniteSet(Processes) /\ Processes = 0 .. Cardinality(Processes) - 1
  /\ Bytes \in [Texts -> Nat \ {0}] /\ \A x \in Texts : (Bytes[x] - 1) \div BlockSize < MaxBlocks
  /\ Number \notin Texts
  /\ \A u \in Uses :
       /\ u.lang \in {"js", "py"} /\ u.persist \in BOOLEAN /\ u.unlink \in BOOLEAN /\ u.attach \in BOOLEAN
       /\ u.fill \in Values /\ u.values \subseteq Values /\ u.slots \in Nat
       /\ u.lives \in Nat /\ u.calls \in [Processes -> Nat]
       /\ u.ops \subseteq {"update", "inspect"}

VARIABLES
  use,      \* the program, one of Uses
  file,     \* the file the name of the array stands for, 0 if there is none
  files,    \* number of files created (history)
  ready,    \* the control block is filled
  elem,     \* elem[e]: tag and data word of element e
  text,     \* text[b]: the string at block b of the heap
  bufs,     \* bufs[p]: the slots of emsBufs of process p that are taken
  arrived,  \* arrived[p]: barriers process p has come to
  loc       \* loc[p]: program counter and locals of process p

arrayVars == <<use, file, files, ready, elem, text, bufs, arrived, loc>>
vars == <<allocVars, arrayVars>>

\* lives: arrays created so far; id, region: the slot and the file of the array; todo: the elements
\* still to fill; short: an allocation has failed when the process filled the file (history);
\* e: the element in work; op, arg: the operation and the value it writes; ptr, saw: the pointer a read has
\* returned and the string that was there; got: what the binding has copied.
Fresh == [pc |-> "idle", lives |-> 0, done |-> 0, id |-> 0, region |-> 0, todo |-> {}, short |-> FALSE, e |-> 0,
          op |-> "update", arg |-> Number, ptr |-> -1, saw |-> Number, got |-> Number]

\* What a file of zeros means for an element: FULL, a type that is invalid.
ZeroElem == [fe |-> "FULL", rw |-> 0, type |-> "invalid", data |-> -1]

\* Slot 0 of every process holds the control block of the program.  A file of the
\* name may be left from an earlier program.
Init ==
  /\ use \in Uses
  /\ file \in {0, 1} /\ files = 1 /\ ready = FALSE
  /\ elem = [e \in Elements |-> ZeroElem]
  /\ text = [b \in 0 .. Length(0) - 1 |-> Number]
  /\ bufs = [p \in Processes |-> {0}]
  /\ arrived = [p \in Processes |-> 0]
  /\ loc = [p \in Processes |-> Fresh]
  /\ Reset /\ call = [p \in Processes |-> NoCall]

At(p, pc) == loc[p].pc = pc
To(p, pc) == loc' = [loc EXCEPT ![p].pc = pc]

\* EMSbarrier: a process arrives, and leaves when everybody has arrived.
Arrive(p, pc) == arrived' = [arrived EXCEPT ![p] = @ + 1] /\ To(p, pc)
Everybody(p) == \A q \in Processes : arrived[q] >= arrived[p]

\* The elements that process p initialises.
Share(p) ==
  LET each == N \div Cardinality(Processes) + 1
      end == IF each * (p + 1) > N THEN N ELSE each * (p + 1)
  IN  each * p .. end - 1

-------------------------------------------------------------------------------
(* new *)

\* new is called with useExisting.
Attaches(p) == use.attach /\ loc[p].lives > 0

Creates(p) == At(p, "idle") /\ loc[p].lives < use.lives /\ ~Attaches(p)

\* Mutant of New: the others do not wait for process 0.
NewAtOnce(p) ==
  /\ Creates(p)
  /\ To(p, IF p = 0 THEN "unlink" ELSE "open")
  /\ UNCHANGED <<allocVars, use, file, files, ready, elem, text, bufs, arrived>>

\* Processes other than 0 begin with a barrier.
New(p) ==
  /\ Creates(p)
  /\ IF p = 0 THEN To(p, "unlink") /\ UNCHANGED arrived ELSE Arrive(p, "meet")
  /\ UNCHANGED <<allocVars, use, file, files, ready, elem, text, bufs>>

\* Nobody waits to attach.  A file that does not exist makes new return nothing, and no
\* file has the name of an array in shared memory.
Attach(p) ==
  /\ At(p, "idle") /\ loc[p].lives < use.lives /\ Attaches(p)
  /\ To(p, IF use.persist /\ file # 0 THEN "open" ELSE "stopped")
  /\ UNCHANGED <<allocVars, use, file, files, ready, elem, text, bufs, arrived>>

Meet(p) ==
  /\ At(p, "meet") /\ Everybody(p)
  /\ To(p, "open")
  /\ UNCHANGED <<allocVars, use, file, files, ready, elem, text, bufs, arrived>>

Unlink(p) ==
  /\ At(p, "unlink")
  /\ file' = 0
  /\ To(p, "open")
  /\ UNCHANGED <<allocVars, use, files, ready, elem, text, bufs, arrived>>

\* open, ftruncate and mmap; useExisting waits until there is a file.  A file that is created
\* is all zeros, its mutex is taken.
Open(p) ==
  /\ At(p, "open") /\ (Attaches(p) => file # 0)
  /\ IF file = 0
     THEN /\ file' = files + 1 /\ files' = files + 1 /\ ready' = FALSE
          /\ elem' = [e \in Elements |-> ZeroElem]
          /\ text' = [b \in DOMAIN text |-> Number]
          /\ tree' = [n \in Nodes |-> "UNUSED"] /\ mutex' = "FULL" /\ live' = {}
     ELSE UNCHANGED <<file, files, ready, elem, text, tree, mutex, live>>
  /\ loc' = [loc EXCEPT ![p].region = file', ![p].pc = IF p = 0 /\ ~Attaches(p) THEN "control" ELSE "fill",
                        ![p].todo = IF Attaches(p) THEN {} ELSE Share(p), ![p].short = Attaches(p) /\ @]
  /\ UNCHANGED <<use, bufs, arrived, call>>

\* Process 0 fills the control block, which frees the mutex of the allocator.
Control(p) ==
  /\ At(p, "control")
  /\ ready' = TRUE /\ mutex' = "EMPTY"
  /\ To(p, "fill")
  /\ UNCHANGED <<tree, call, live, use, file, files, elem, text, bufs, arrived>>

Least(S) == CHOOSE x \in S : \A y \in S : x <= y

\* A round of the loop that fills the elements; a string is allocated first.
Fill(p) ==
  /\ At(p, "fill") /\ loc[p].todo # {}
  /\ LET e == Least(loc[p].todo)
     IN  IF use.fill \in Texts
         THEN /\ CallAlloc(p, Bytes[use.fill])
              /\ loc' = [loc EXCEPT ![p].pc = "fillText", ![p].e = e]
              /\ UNCHANGED elem
         ELSE /\ elem' = [elem EXCEPT ![e] = [fe |-> "FULL", rw |-> 0, type |-> "number", data |-> -1]]
              /\ loc' = [loc EXCEPT ![p].todo = @ \ {e}]
              /\ UNCHANGED call
  /\ UNCHANGED <<tree, mutex, live, use, file, files, ready, text, bufs, arrived>>

\* The blocks from offset b that string x takes.
Covers(x, b) == b .. b + (Bytes[x] - 1) \div BlockSize

\* strcpy of string x to offset b.
Strcpy(x, b) == text' = [c \in DOMAIN text |-> IF c \in Covers(x, b) THEN x ELSE text[c]]

FillText(p) ==
  /\ At(p, "fillText") /\ In(p, "returned")
  /\ LET b == call[p].offset
     IN  /\ elem' = [elem EXCEPT ![loc[p].e] = [fe |-> "FULL", rw |-> 0, type |-> "string", data |-> b]]
         /\ Strcpy(use.fill, b)
  /\ loc' = [loc EXCEPT ![p].pc = "fill", ![p].todo = @ \ {loc[p].e}]
  /\ call' = [call EXCEPT ![p] = NoCall]
  /\ UNCHANGED <<tree, mutex, live, use, file, files, ready, bufs, arrived>>

\* EMS_ALLOC returns false from EMSinitialize: the array is known as slot 0.
FillFails(p) ==
  /\ At(p, "fillText") /\ In(p, "failed")
  /\ loc' = [loc EXCEPT ![p].pc = IF p = 0 THEN "meetZero" ELSE "meetLast", ![p].short = TRUE]
  /\ arrived' = [arrived EXCEPT ![p] = @ + 1]
  /\ call' = [call EXCEPT ![p] = NoCall]
  /\ UNCHANGED <<tree, mutex, live, use, file, files, ready, elem, text, bufs>>

\* The first free slot.  If there is none ems.js throws; ems.py goes on with slot -1, which
\* is none, and what it does then is undefined.
Slot(p) ==
  /\ At(p, "fill") /\ loc[p].todo = {}
  /\ LET free == 0 .. use.slots - 1 \ bufs[p]
     IN  IF free = {}
         THEN To(p, "stopped") /\ UNCHANGED <<bufs, arrived>>
         ELSE /\ bufs' = [bufs EXCEPT ![p] = @ \cup {Least(free)}]
              /\ arrived' = [arrived EXCEPT ![p] = @ + 1]
              /\ loc' = [loc EXCEPT ![p].id = Least(free),
                                    ![p].pc = IF p = 0 /\ ~Attaches(p) THEN "meetZero" ELSE "meetLast"]
  /\ UNCHANGED <<allocVars, use, file, files, ready, elem, text>>

\* Process 0 comes to the barrier that the others began with.
MeetZero(p) ==
  /\ At(p, "meetZero") /\ Everybody(p)
  /\ Arrive(p, "meetLast")
  /\ UNCHANGED <<allocVars, use, file, files, ready, elem, text, bufs>>

\* The barrier at the end of new.
MeetLast(p) ==
  /\ At(p, "meetLast") /\ Everybody(p)
  /\ loc' = [loc EXCEPT ![p].pc = "ready", ![p].lives = @ + 1, ![p].done = 0]
  /\ UNCHANGED <<allocVars, use, file, files, ready, elem, text, bufs, arrived>>

-------------------------------------------------------------------------------
(* Operations on the elements.  "inspect" is readRW, copy, releaseRW and "update" is readFE,     *)
(* copy, writeEF; the binding copies a string after the element was read.                        *)

String(e) == elem[e].type = "string"

\* What a data word stands for: the string at that offset, or a number.
Pointed(b) == IF b < 0 THEN Number ELSE text[b]

Opens(p) == At(p, "ready") /\ loc[p].id # 0 /\ loc[p].done < use.calls[p]

Reads(p, o, e, v) ==
  loc' = [loc EXCEPT ![p].pc = "copy", ![p].op = o, ![p].e = e, ![p].arg = v, ![p].done = @ + 1,
                     ![p].ptr = elem[e].data, ![p].saw = Pointed(elem[e].data)]

ReadRW(p) ==
  /\ Opens(p) /\ "inspect" \in use.ops
  /\ \E e \in Elements :
       /\ elem[e].fe = "FULL" \/ (elem[e].fe = "RW_LOCK" /\ elem[e].rw < RWMax)
       /\ elem' = [elem EXCEPT ![e].fe = "RW_LOCK", ![e].rw = @ + 1]
       /\ Reads(p, "inspect", e, Number)
  /\ UNCHANGED <<allocVars, use, file, files, ready, text, bufs, arrived>>

\* Mutant of ReadFE: it does not wait for readers.
ReadFEUnderLock(p) ==
  /\ Opens(p) /\ "update" \in use.ops
  /\ \E e \in Elements, v \in use.values :
       /\ elem[e].fe \in {"FULL", "RW_LOCK"}
       /\ elem' = [elem EXCEPT ![e].fe = "EMPTY"]
       /\ Reads(p, "update", e, v)
  /\ UNCHANGED <<allocVars, use, file, files, ready, text, bufs, arrived>>

ReadFE(p) ==
  /\ Opens(p) /\ "update" \in use.ops
  /\ \E e \in Elements, v \in use.values :
       /\ elem[e].fe = "FULL"
       /\ elem' = [elem EXCEPT ![e].fe = "EMPTY"]
       /\ Reads(p, "update", e, v)
  /\ UNCHANGED <<allocVars, use, file, files, ready, text, bufs, arrived>>

Copy(p) ==
  /\ At(p, "copy")
  /\ loc' = [loc EXCEPT ![p].pc = "copied", ![p].got = Pointed(loc[p].ptr)]
  /\ UNCHANGED <<allocVars, use, file, files, ready, elem, text, bufs, arrived>>

\* The operation is over.
Over(p) == [loc[p] EXCEPT !.pc = "ready", !.ptr = -1, !.saw = Number, !.got = Number]

\* What follows the copy: writeEF or releaseRW.
Copied(p) ==
  /\ At(p, "copied")
  /\ LET g == elem[loc[p].e]
     IN  \/ loc[p].op = "update" /\ To(p, "acquire") /\ UNCHANGED elem
         \/ /\ loc[p].op = "inspect"
            /\ loc' = [loc EXCEPT ![p] = Over(p)]
            /\ elem' = [elem EXCEPT ![loc[p].e] =
                          [g EXCEPT !.rw = @ - 1, !.fe = IF g.rw = 1 THEN "FULL" ELSE @]]
  /\ UNCHANGED <<allocVars, use, file, files, ready, text, bufs, arrived>>

\* Mutant of Acquire: a string that is overwritten is not freed.
AcquireLeak(p) ==
  /\ At(p, "acquire") /\ elem[loc[p].e].fe = "EMPTY"
  /\ elem' = [elem EXCEPT ![loc[p].e].fe = "BUSY"]
  /\ To(p, "replace")
  /\ UNCHANGED <<allocVars, use, file, files, ready, text, bufs, arrived>>

\* EMSwriteUsingTags: the element is acquired, and a string in it is freed.
Acquire(p) ==
  /\ At(p, "acquire") /\ elem[loc[p].e].fe = "EMPTY"
  /\ elem' = [elem EXCEPT ![loc[p].e].fe = "BUSY"]
  /\ To(p, "replace")
  /\ IF String(loc[p].e) THEN CallFree(p, elem[loc[p].e].data) ELSE UNCHANGED call
  /\ UNCHANGED <<tree, mutex, live, use, file, files, ready, text, bufs, arrived>>

\* The new value is stored; a string is allocated first.
Replace(p) ==
  /\ At(p, "replace") /\ call[p].pc \in {"none", "returned"}
  /\ IF loc[p].arg \in Texts
     THEN CallAlloc(p, Bytes[loc[p].arg]) /\ To(p, "allocated") /\ UNCHANGED elem
     ELSE /\ elem' = [elem EXCEPT ![loc[p].e].data = -1]
          /\ call' = [call EXCEPT ![p] = NoCall] /\ To(p, "publish")
  /\ UNCHANGED <<tree, mutex, live, use, file, files, ready, text, bufs, arrived>>

\* The allocation has returned.  If it failed the write returns, and the element stays BUSY.
Allocated(p) ==
  /\ At(p, "allocated")
  /\ \/ /\ In(p, "returned")
        /\ elem' = [elem EXCEPT ![loc[p].e].data = call[p].offset]
        /\ Strcpy(loc[p].arg, call[p].offset)
        /\ To(p, "publish")
     \/ /\ In(p, "failed")
        /\ loc' = [loc EXCEPT ![p] = Over(p)]
        /\ UNCHANGED <<elem, text>>
  /\ call' = [call EXCEPT ![p] = NoCall]
  /\ UNCHANGED <<tree, mutex, live, use, file, files, ready, bufs, arrived>>

Publish(p) ==
  /\ At(p, "publish")
  /\ elem' = [elem EXCEPT ![loc[p].e].fe = "FULL",
                          ![loc[p].e].type = IF loc[p].arg \in Texts THEN "string" ELSE "number"]
  /\ loc' = [loc EXCEPT ![p] = Over(p)]
  /\ UNCHANGED <<allocVars, use, file, files, ready, text, bufs, arrived>>

-------------------------------------------------------------------------------
(* destroy *)

Destroy(p) ==
  /\ At(p, "ready")
  /\ Arrive(p, "meetDestroy")
  /\ UNCHANGED <<allocVars, use, file, files, ready, elem, text, bufs>>

\* Only process 0 unmaps the array.
MeetDestroy(p) ==
  /\ At(p, "meetDestroy") /\ Everybody(p)
  /\ IF p = 0 THEN To(p, "unmap") /\ UNCHANGED arrived ELSE Arrive(p, "meetEnd")
  /\ UNCHANGED <<allocVars, use, file, files, ready, elem, text, bufs>>

\* EMSdestroy unlinks the name of the array as that of a file.  The name of an array in
\* shared memory is none: EMSdestroy fails before it frees the slot, and ems.js throws.
\* An array known as slot 0 takes the control block of the program with it, and the next barrier
\* fails.
Unmap(p) ==
  /\ At(p, "unmap")
  /\ LET fails == use.unlink /\ ~use.persist
     IN  /\ file' = IF use.unlink /\ ~fails THEN 0 ELSE file
         /\ bufs' = IF fails THEN bufs ELSE [bufs EXCEPT ![p] = @ \ {loc[p].id}]
         /\ IF loc[p].id = 0 \/ (fails /\ use.lang = "js")
            THEN To(p, "stopped") /\ UNCHANGED arrived
            ELSE Arrive(p, "meetEnd")
  /\ UNCHANGED <<allocVars, use, files, ready, elem, text>>

MeetEnd(p) ==
  /\ At(p, "meetEnd") /\ Everybody(p)
  /\ loc' = [loc EXCEPT ![p] = [Fresh EXCEPT !.lives = loc[p].lives, !.short = loc[p].short]]
  /\ UNCHANGED <<allocVars, use, file, files, ready, elem, text, bufs, arrived>>

-------------------------------------------------------------------------------

HeapStep(p) == AllocStep(p) /\ UNCHANGED arrayVars

Step(p) ==
  \/ New(p) \/ Attach(p) \/ Meet(p) \/ Unlink(p) \/ Open(p) \/ Control(p) \/ Fill(p) \/ FillText(p) \/ FillFails(p)
  \/ Slot(p) \/ MeetZero(p) \/ MeetLast(p)
  \/ Copy(p) \/ Copied(p) \/ Acquire(p) \/ Replace(p) \/ Allocated(p) \/ Publish(p)
  \/ Destroy(p) \/ MeetDestroy(p) \/ Unmap(p) \/ MeetEnd(p) \/ HeapStep(p)

Next == \E p \in Processes : Step(p) \/ ReadRW(p) \/ ReadFE(p)

Spec == Init /\ [][Next]_vars

\* A process that can go on with what it has begun does; it may stop to begin operations on
\* the array at any time, and then destroys it.
FairSpec == Spec /\ \A p \in Processes : WF_vars(Step(p))

-------------------------------------------------------------------------------
(* Properties *)

Using == {p \in Processes : loc[p].pc \in {"ready", "copy", "copied", "acquire", "replace", "allocated",
                                            "publish"} /\ loc[p].id # 0}

\* A name is unlinked, created, opened, unlinked by destroy and created or attached to again by
\* processes that meet at barriers only: those that use an array have all mapped one file, the
\* last one created, whose control block is filled and, unless an allocation has failed meanwhile,
\* every element of which is initialised.
OneRegion ==
  \A p \in Using :
    /\ loc[p].region = files /\ ready
    /\ (\A q \in Processes : ~loc[q].short) => \A e \in Elements : elem[e].type # "invalid"

\* A block whose allocation has returned and that no element has yet.
Pending == {p \in Processes : loc[p].pc \in {"fillText", "allocated"} /\ In(p, "returned")}

\* Elements whose data word is the offset of a block that is theirs.
Owning ==
  {e \in Elements :
     \/ String(e) /\ elem[e].fe # "BUSY"
     \/ elem[e].data >= 0 /\ \E p \in Processes : loc[p].e = e /\ At(p, "publish")
     \/ \E p \in Processes : loc[p].e = e /\ At(p, "replace") /\ In(p, "lockFree")}

\* Through creation, attachment, replacement of strings by strings and by numbers, and failed
\* allocations, every block that is in use belongs to exactly one element or to the process about to store
\* it: none is shared, none is lost, and none is used after it was freed.
OneOwner ==
  mutex = "EMPTY" =>
    /\ {b.offset : b \in live} = {elem[e].data : e \in Owning} \cup {call[p].offset : p \in Pending}
    /\ Cardinality(live) = Cardinality(Owning) + Cardinality(Pending)

\* A read returns a pointer into the heap that the binding copies after the tag was stored: for
\* programs that copy while they hold the element, under a lock or EMPTY, the copy is the string
\* that was read, although other processes free, split, combine and refill blocks meanwhile.
CopyIntact == \A p \in Processes : At(p, "copied") => loc[p].got = loc[p].saw

Abandoned ==
  \E e \in Elements : /\ elem[e].fe = "BUSY"
                      /\ \A p \in Processes : loc[p].e = e => loc[p].pc \notin {"replace", "allocated", "publish"}

\* Every process creates or attaches to, and destroys the array as often as it wants to, whatever
\* the others do with the heap meanwhile, unless an allocation has failed, the slots are used up, the file is
\* gone or destroy has failed.
LivesEnd ==
  <>(\/ \A p \in Processes : At(p, "idle") /\ loc[p].lives = use.lives
     \/ Abandoned
     \/ \E p \in Processes : At(p, "stopped") \/ (At(p, "meetLast") /\ loc[p].id = 0))
===============================================================================
