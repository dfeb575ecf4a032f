------------------------------ MODULE EMSElement ------------------------------
(***************************************************************************)
(* One element of an unmapped EMS array: its tag byte, its data word and   *)
(* the threads that call the C API on it (src/src/ems.cc, src/src/rmw.cc). *)
(*                                                                         *)
(* Every action is one access to the shared tag byte or data word, so all  *)
(* interleavings of loads, compare-and-swaps and stores are behaviours.    *)
(* Elements share nothing but the heap, hence one element is enough.  A    *)
(* value stands for the data word and, for a string or JSON value, for the *)
(* heap block it points to; `freed` says that this block is no longer the  *)
(* element's, because a write freed it and then found no space.            *)
(***************************************************************************)
EXTENDS Naturals, FiniteSets

CONSTANTS
  Threads,    \* threads or processes sharing the array
  Value,      \* values an element may hold
  TypeOf,     \* TypeOf[v]: the EMS type of v
  Sum,        \* Sum[a][b]: what EMSfaa leaves in memory for a + b
  RWMax,      \* EMS_RW_NREADERS_MAX
  Ops,        \* the operations the program calls on this element
  Alone,      \* those it calls only while no other call is in progress
  HeapFills,  \* whether emsMutexMem_alloc may find no space
  InitFE      \* the tags the array may be initialised with

Type == {"BOOLEAN", "INTEGER", "FLOAT", "STRING", "JSON", "UNDEFINED"}
FE   == {"FULL", "EMPTY", "BUSY", "RW_LOCK"}
Tag  == [fe : FE, type : Type, rw : 0 .. RWMax]

Readers  == {"readRW", "readFE", "readFF", "read"}
Writers  == {"writeXF", "writeXE", "writeEF", "write"}
Waiters  == {"writeEF", "faa", "cas"}         \* callers of EMStransitionFEtag
Setters  == {"setFull", "setEmpty"}
AllOps   == Readers \cup Writers \cup {"faa", "cas", "releaseRW"} \cup Setters

ASSUME ElementAssumption ==
  /\ Value # {}
  /\ RWMax \in Nat \ {0}
  /\ TypeOf \in [Value -> Type]
  /\ Sum \in [Value -> [Value -> Value]]
  /\ Ops \subseteq AllOps
  /\ Alone \subseteq Ops
  /\ HeapFills \in BOOLEAN
  /\ InitFE \subseteq {"FULL", "EMPTY"}

\* The (initialFE, finalFE) arguments of EMSreadUsingTags, EMSwriteUsingTags
\* and the states EMSfaa and EMScas pass to EMStransitionFEtag.
InitialFE(o) ==
  CASE o \in {"readFE", "readFF", "faa", "cas"} -> "FULL"
    [] o = "writeEF" -> "EMPTY"
    [] o = "readRW"  -> "RW_LOCK"
    [] OTHER         -> "ANY"

FinalFE(o) ==
  CASE o \in {"readFE", "writeXE"} -> "EMPTY"
    [] o \in {"readFF", "writeXF", "writeEF", "faa", "cas"} -> "FULL"
    [] o = "readRW" -> "RW_LOCK"
    [] OTHER        -> "ANY"

HeapTypes == {"STRING", "JSON"}

\* EMS_ALLOC (or malloc) of a value of type ty may fail.
AllocFails(ty) == HeapFills /\ ty \in HeapTypes

\* The types EMSfaa can add: its switches have no case for JSON.
Addable(ty) == ty # "JSON"

\* The type EMSfaa leaves in the tag for memory of type ty and value a, plus b.
FaaType(ty, a, b) ==
  IF ty = "UNDEFINED" /\ TypeOf[b] = "STRING" THEN "UNDEFINED" ELSE TypeOf[Sum[a][b]]

VARIABLES
  tag,      \* bufTags[EMSdataTag(idx)]
  data,     \* bufInt64[EMSdataData(idx)]
  freed,    \* the data word is the offset of a heap block that has been freed
  loc,      \* loc[t]: program counter and locals of thread t
  holders,  \* history: threads whose readRW was granted and not yet released
  leaked    \* history: a call ended with an error and left the tag BUSY

vars == <<tag, data, freed, loc, holders, leaked>>

AnyValue == CHOOSE v \in Value : TRUE
NoTag    == [fe |-> "FULL", type |-> "UNDEFINED", rw |-> 0]
NoRet    == [ok |-> FALSE, type |-> "UNDEFINED", v |-> AnyValue]
Ret      == [ok : BOOLEAN, type : Type, v : Value]
Ok(ty, v) == [ok |-> TRUE, type |-> ty, v |-> v]

PC == {"idle", "rLoad", "rCAS", "rData", "rStore", "tLoad", "tCAS",
       "wLoad", "wCAS", "wData", "wCheck", "wStore", "uLoad", "uCAS",
       "sLoad", "sStore", "fRead", "fWrite", "fStore",
       "cType", "cRead", "cWrite", "cStore", "done", "aborted"}

Idle == [pc |-> "idle", op |-> "read", arg |-> AnyValue, old |-> AnyValue,
         mem |-> NoTag, full |-> FALSE, ret |-> NoRet]

\* mem: the tag byte last loaded (memTag, oldTag in the code).
\* full: newTag.tags.rw of EMSreadUsingTags equals EMS_RW_NREADERS_MAX.
Locals == [pc : PC, op : AllOps, arg : Value, old : Value,
           mem : Tag, full : BOOLEAN, ret : Ret]

Init ==
  /\ data \in Value
  /\ freed = FALSE
  /\ tag \in [fe : InitFE, type : {TypeOf[data]}, rw : {0}]
  /\ loc = [t \in Threads |-> Idle]
  /\ holders = {}
  /\ leaked = FALSE

At(t, p)       == loc[t].pc = p
Op(t)          == loc[t].op
Mem(t)         == loc[t].mem
Go(t, p)       == loc' = [loc EXCEPT ![t].pc = p]
GoWith(t, p, m) == loc' = [loc EXCEPT ![t].pc = p, ![t].mem = m]
GoRet(t, p, r) == loc' = [loc EXCEPT ![t].pc = p, ![t].ret = r]
Return(t, r)   == GoRet(t, "done", r)

\* What a thread that loaded the tag Mem(t) may find in the data word: a freed
\* block still holds the old string, or what its next owner has stored there.
Contents(t) == {v \in Value : v = data \/ (freed /\ TypeOf[v] = Mem(t).type)}

\* emsMem_free has aborted no process: one that dies there keeps the mutex of the
\* heap, and emsMutexMem_alloc and emsMutexMem_free spin on it from then on.
HeapOpen == \A t \in Threads : ~At(t, "aborted")

\* Replacing a value of type old by one of type new frees or allocates a block.
CanReplace(old, new) == {old, new} \cap HeapTypes = {} \/ HeapOpen

\* Return an error with the tag still BUSY.
ReturnHolding(t) == Return(t, NoRet) /\ leaked' = TRUE

\* Mutant of Busy: the new tag keeps its full/empty bits.
BusyUnmarked(m) == m

Busy(m) == [m EXCEPT !.fe = "BUSY"]

-------------------------------------------------------------------------------
(* The caller.  It releases only a lock it holds, does not lock twice and   *)
(* keeps the operations in Alone to the serial sections of the program.    *)
(* One that has aborted comes to no barrier, so no section ends after it.  *)

Entry(o) ==
  CASE o \in Readers -> "rLoad"
    [] o \in Waiters -> "tLoad"
    [] o \in {"writeXF", "writeXE", "write"} -> "wLoad"
    [] o = "releaseRW" -> "uLoad"
    [] OTHER -> "sLoad"

\* Only operations that take an argument vary in it.
Args(o) == IF o \in Writers \cup {"faa", "cas"} THEN Value ELSE {AnyValue}
Olds(o) == IF o = "cas" THEN Value ELSE {AnyValue}

Undisturbed(o) ==
  /\ o \in Alone => \A u \in Threads : At(u, "idle")
  /\ \A u \in Threads : At(u, "idle") \/ Op(u) \notin Alone

\* newTag of EMSreadUsingTags is uninitialised: its rw bits may be anything.
Call(t, o) ==
  /\ At(t, "idle") /\ Undisturbed(o)
  /\ o = "readRW" => t \notin holders
  /\ o = "releaseRW" => t \in holders
  /\ \E a \in Args(o), b \in Olds(o),
        full \in (IF o = "readRW" THEN BOOLEAN ELSE {FALSE}) :
        loc' = [loc EXCEPT ![t] = [Idle EXCEPT !.pc = Entry(o), !.op = o,
                                     !.arg = a, !.old = b, !.full = full]]
  /\ UNCHANGED <<tag, data, freed, holders, leaked>>

\* The language binding converts the result and hands it to the program.
Finish(t) ==
  /\ At(t, "done")
  /\ loc' = [loc EXCEPT ![t] = Idle]
  /\ UNCHANGED <<tag, data, freed, holders, leaked>>

-------------------------------------------------------------------------------
(* EMSreadUsingTags *)

\* Mutant of ReadReady: readers are admitted past EMS_RW_NREADERS_MAX.
ReadReadyUncapped(m, o, full) ==
  \/ InitialFE(o) = "ANY"
  \/ (InitialFE(o) # "RW_LOCK" /\ m.fe = InitialFE(o))
  \/ InitialFE(o) = "RW_LOCK" /\ m.fe \in {"RW_LOCK", "FULL"}

ReadReady(m, o, full) ==
  \/ InitialFE(o) = "ANY"
  \/ (InitialFE(o) # "RW_LOCK" /\ m.fe = InitialFE(o))
  \/ /\ InitialFE(o) = "RW_LOCK"
     /\ (m.fe = "RW_LOCK" /\ ~full) \/ m.fe = "FULL"
     /\ m.rw < RWMax

ReadLoad(t) ==
  /\ At(t, "rLoad")
  /\ GoWith(t, IF ~ReadReady(tag, Op(t), loc[t].full) THEN "rLoad"
               ELSE IF InitialFE(Op(t)) = "ANY" THEN "rData" ELSE "rCAS", tag)
  /\ UNCHANGED <<tag, data, freed, holders, leaked>>

\* Mutant of ReadTag: the new reader is not counted.
ReadTagUncounted(t) == Mem(t)

\* newTag: the tag under BUSY, counting the new reader.
ReadTag(t) ==
  IF Op(t) = "readRW" THEN [Mem(t) EXCEPT !.rw = Mem(t).rw + 1] ELSE Mem(t)

ReadCAS(t) ==
  /\ At(t, "rCAS")
  /\ \/ /\ tag = Mem(t)
        /\ tag' = Busy(ReadTag(t))
        /\ holders' = IF Op(t) = "readRW" THEN holders \cup {t} ELSE holders
        /\ GoWith(t, "rData", ReadTag(t))
     \/ /\ tag # Mem(t)
        /\ loc' = [loc EXCEPT ![t].pc = "rLoad",
                     ![t].full = Op(t) = "readRW" /\ Mem(t).rw + 1 = RWMax]
        /\ UNCHANGED <<tag, holders>>
  /\ UNCHANGED <<data, freed, leaked>>

ReadData(t) ==
  /\ At(t, "rData")
  /\ \E v \in Contents(t) :
        GoRet(t, IF FinalFE(Op(t)) = "ANY" THEN "done" ELSE "rStore", Ok(Mem(t).type, v))
  /\ UNCHANGED <<tag, data, freed, holders, leaked>>

\* Mutant of ReadStore: an early return that leaves the element BUSY.
ReadStoreSkipped(t) ==
  /\ At(t, "rStore")
  /\ Go(t, "done")
  /\ UNCHANGED <<tag, data, freed, holders, leaked>>

ReadStore(t) ==
  /\ At(t, "rStore")
  /\ tag' = [Mem(t) EXCEPT !.fe = FinalFE(Op(t))]
  /\ Go(t, "done")
  /\ UNCHANGED <<data, freed, holders, leaked>>

-------------------------------------------------------------------------------
(* EMStransitionFEtag with oldType = EMS_TAG_ANY and no map tag *)

TransitionLoad(t) ==
  /\ At(t, "tLoad")
  /\ GoWith(t, "tCAS", tag)
  /\ UNCHANGED <<tag, data, freed, holders, leaked>>

\* Where the caller continues once it holds the element BUSY.
Resume(o) == CASE o = "writeEF" -> "wLoad" [] o = "faa" -> "fRead" [] OTHER -> "cType"

\* Mutant of TransitionCAS: a failed swap retries with the tag of the first load.
TransitionCASNoReload(t) ==
  /\ At(t, "tCAS")
  /\ LET old == [Mem(t) EXCEPT !.fe = InitialFE(Op(t))]
     IN  \/ /\ tag = old
            /\ tag' = Busy(old)
            /\ GoWith(t, Resume(Op(t)), Busy(old))
         \/ /\ tag # old
            /\ UNCHANGED <<tag, loc>>
  /\ UNCHANGED <<data, freed, holders, leaked>>

TransitionCAS(t) ==
  /\ At(t, "tCAS")
  /\ LET old == [Mem(t) EXCEPT !.fe = InitialFE(Op(t))]
     IN  \/ /\ tag = old
            /\ tag' = Busy(old)
            /\ GoWith(t, Resume(Op(t)), Busy(old))
         \/ /\ tag # old
            /\ Go(t, "tLoad")
            /\ UNCHANGED tag
  /\ UNCHANGED <<data, freed, holders, leaked>>

-------------------------------------------------------------------------------
(* EMSwriteUsingTags *)

WriteLoad(t) ==
  /\ At(t, "wLoad")
  /\ GoWith(t, IF InitialFE(Op(t)) # "ANY" \/ FinalFE(Op(t)) = "ANY" THEN "wData"
               ELSE IF tag.fe # "BUSY" THEN "wCAS" ELSE "wLoad", tag)
  /\ UNCHANGED <<tag, data, freed, holders, leaked>>

\* Mutant of WriteCAS: BUSY is stored without comparing.
WriteCASBlind(t) ==
  /\ At(t, "wCAS")
  /\ tag' = Busy(Mem(t)) /\ Go(t, "wData")
  /\ UNCHANGED <<data, freed, holders, leaked>>

WriteCAS(t) ==
  /\ At(t, "wCAS")
  /\ IF tag = Mem(t) THEN tag' = Busy(tag) /\ Go(t, "wData")
                     ELSE Go(t, "wLoad") /\ UNCHANGED tag
  /\ UNCHANGED <<data, freed, holders, leaked>>

\* The old string is freed before room for the new one is found.
WriteData(t) ==
  /\ At(t, "wData")
  /\ CanReplace(Mem(t).type, TypeOf[loc[t].arg])
  /\ \/ /\ data' = loc[t].arg
        /\ freed' = FALSE
        /\ Go(t, IF FinalFE(Op(t)) = "ANY" THEN "wStore" ELSE "wCheck")
        /\ UNCHANGED leaked
     \/ /\ AllocFails(TypeOf[loc[t].arg])
        /\ freed' = (freed \/ Mem(t).type \in HeapTypes)
        /\ IF FinalFE(Op(t)) = "ANY" THEN Return(t, NoRet) /\ UNCHANGED leaked
                                     ELSE ReturnHolding(t)
        /\ UNCHANGED data
  /\ UNCHANGED <<tag, holders>>

\* "Lost tag lock while BUSY"
HasLock(t) == tag = Busy(Mem(t))

WriteCheck(t) ==
  /\ At(t, "wCheck")
  /\ IF HasLock(t) THEN Go(t, "wStore") ELSE Return(t, NoRet)
  /\ UNCHANGED <<tag, data, freed, holders, leaked>>

\* Mutants of WriteTag: the type of the old value stays; every write marks FULL.
WriteTagOldType(t) == IF FinalFE(Op(t)) = "ANY" THEN Mem(t)
                      ELSE [fe |-> FinalFE(Op(t)), type |-> Mem(t).type, rw |-> 0]
WriteTagFull(t) == [fe |-> "FULL", type |-> TypeOf[loc[t].arg], rw |-> 0]

\* The tag the write leaves behind.
WriteTag(t) == IF FinalFE(Op(t)) = "ANY"
               THEN [Mem(t) EXCEPT !.type = TypeOf[loc[t].arg]]
               ELSE [fe |-> FinalFE(Op(t)), type |-> TypeOf[loc[t].arg], rw |-> 0]

WriteStore(t) ==
  /\ At(t, "wStore")
  /\ tag' = WriteTag(t)
  /\ Return(t, Ok(TypeOf[loc[t].arg], loc[t].arg))
  /\ UNCHANGED <<data, freed, holders, leaked>>

-------------------------------------------------------------------------------
(* EMSreleaseRW *)

ReleaseLoad(t) ==
  /\ At(t, "uLoad")
  /\ \/ /\ tag.fe = "RW_LOCK" /\ tag.rw > 0
        /\ GoWith(t, "uCAS", tag)
        /\ UNCHANGED holders
     \/ /\ tag.fe = "BUSY"
        /\ GoWith(t, "uLoad", tag)
        /\ UNCHANGED holders
     \/ /\ tag.fe \in {"FULL", "EMPTY"} \/ (tag.fe = "RW_LOCK" /\ tag.rw = 0)
        /\ Return(t, NoRet)
        /\ holders' = holders \ {t}
  /\ UNCHANGED <<tag, data, freed, leaked>>

\* Mutants of ReleasedTag: FULL one reader early; never FULL again.
ReleasedTagEarly(m) ==
  [fe |-> IF m.rw <= 2 THEN "FULL" ELSE m.fe, type |-> m.type, rw |-> m.rw - 1]
ReleasedTagNever(m) == [m EXCEPT !.rw = m.rw - 1]

ReleasedTag(m) == [fe |-> IF m.rw = 1 THEN "FULL" ELSE m.fe, type |-> m.type, rw |-> m.rw - 1]

ReleaseCAS(t) ==
  /\ At(t, "uCAS")
  /\ \/ /\ tag = Mem(t)
        /\ tag' = ReleasedTag(tag)
        /\ holders' = holders \ {t}
        /\ Return(t, Ok("INTEGER", AnyValue))
     \/ /\ tag # Mem(t)
        /\ Go(t, "uLoad")
        /\ UNCHANGED <<tag, holders>>
  /\ UNCHANGED <<data, freed, leaked>>

-------------------------------------------------------------------------------
(* EMSsetTag *)

SetLoad(t) ==
  /\ At(t, "sLoad")
  /\ GoWith(t, "sStore", tag)
  /\ UNCHANGED <<tag, data, freed, holders, leaked>>

SetStore(t) ==
  /\ At(t, "sStore")
  /\ tag' = [Mem(t) EXCEPT !.fe = IF Op(t) = "setFull" THEN "FULL" ELSE "EMPTY"]
  /\ leaked' = FALSE
  /\ Return(t, Ok("BOOLEAN", AnyValue))
  /\ UNCHANGED <<data, freed, holders>>

-------------------------------------------------------------------------------
(* EMSfaa *)

FaaRead(t) ==
  /\ At(t, "fRead")
  /\ \/ /\ Addable(Mem(t).type) /\ Addable(TypeOf[loc[t].arg])
        /\ \E v \in Contents(t) : GoRet(t, "fWrite", Ok(Mem(t).type, v))
        /\ UNCHANGED leaked
     \/ /\ \/ ~Addable(Mem(t).type) \/ ~Addable(TypeOf[loc[t].arg])
           \/ AllocFails(Mem(t).type)
        /\ ReturnHolding(t)
  /\ UNCHANGED <<tag, data, freed, holders>>

\* The new block is found before the old one is freed: a freed one may be found,
\* and freed again.
FaaWrite(t) ==
  /\ At(t, "fWrite")
  /\ \E a \in Contents(t) :
        /\ CanReplace(Mem(t).type, TypeOf[Sum[a][loc[t].arg]])
        /\ \/ /\ data' = Sum[a][loc[t].arg]
              /\ freed' \in {freed, FALSE}
              /\ GoWith(t, "fStore", [Mem(t) EXCEPT !.type = FaaType(Mem(t).type, a, loc[t].arg)])
              /\ UNCHANGED leaked
           \/ /\ AllocFails(TypeOf[Sum[a][loc[t].arg]])
              /\ ReturnHolding(t)
              /\ UNCHANGED <<data, freed>>
  /\ UNCHANGED <<tag, holders>>

FaaStore(t) ==
  /\ At(t, "fStore")
  /\ tag' = [Mem(t) EXCEPT !.fe = "FULL"]
  /\ Go(t, "done")
  /\ UNCHANGED <<data, freed, holders, leaked>>

-------------------------------------------------------------------------------
(* EMScas *)

CasType(t) ==
  /\ At(t, "cType")
  /\ GoWith(t, "cRead", tag)
  /\ UNCHANGED <<tag, data, freed, holders, leaked>>

CasMatches(t, v) ==
  /\ TypeOf[loc[t].old] = Mem(t).type
  /\ Mem(t).type = "UNDEFINED" \/ v = loc[t].old

CasRead(t) ==
  /\ At(t, "cRead")
  /\ \/ /\ \E v \in Contents(t) :
              GoRet(t, IF CasMatches(t, v) THEN "cWrite" ELSE "cStore", Ok(Mem(t).type, v))
        /\ UNCHANGED leaked
     \/ /\ AllocFails(Mem(t).type)
        /\ ReturnHolding(t)
  /\ UNCHANGED <<tag, data, freed, holders>>

\* As in WriteData, the old string is freed first.
CasWrite(t) ==
  /\ At(t, "cWrite")
  /\ CanReplace(Mem(t).type, TypeOf[loc[t].arg])
  /\ \/ /\ data' = loc[t].arg
        /\ freed' = FALSE
        /\ GoWith(t, "cStore", [Mem(t) EXCEPT !.type = TypeOf[loc[t].arg]])
        /\ UNCHANGED leaked
     \/ /\ AllocFails(TypeOf[loc[t].arg])
        /\ freed' = (freed \/ Mem(t).type \in HeapTypes)
        /\ ReturnHolding(t)
        /\ UNCHANGED data
  /\ UNCHANGED <<tag, holders>>

CasStore(t) ==
  /\ At(t, "cStore")
  /\ tag' = [fe |-> "FULL", type |-> Mem(t).type, rw |-> 0]
  /\ Go(t, "done")
  /\ UNCHANGED <<data, freed, holders, leaked>>

-------------------------------------------------------------------------------

\* EMS_FREE of a freed block: an assertion of emsMem_free aborts the process.
\* Without it, or once the block is another's, the operation goes on.
Abort(t) ==
  /\ loc[t].pc \in {"wData", "fWrite", "cWrite"}
  /\ freed /\ Mem(t).type \in HeapTypes
  /\ HeapOpen
  /\ Go(t, "aborted")
  /\ leaked' = (leaked \/ FinalFE(Op(t)) # "ANY")
  /\ UNCHANGED <<tag, data, freed, holders>>

\* One step of an operation in progress; the caller's own steps are apart.
Step(t) ==
  \/ ReadLoad(t) \/ ReadCAS(t) \/ ReadData(t) \/ ReadStore(t)
  \/ TransitionLoad(t) \/ TransitionCAS(t)
  \/ WriteLoad(t) \/ WriteCAS(t) \/ WriteData(t) \/ WriteCheck(t) \/ WriteStore(t)
  \/ ReleaseLoad(t) \/ ReleaseCAS(t)
  \/ SetLoad(t) \/ SetStore(t)
  \/ FaaRead(t) \/ FaaWrite(t) \/ FaaStore(t)
  \/ CasType(t) \/ CasRead(t) \/ CasWrite(t) \/ CasStore(t)
  \/ Abort(t)
  \/ Finish(t)

Next == \E t \in Threads : Step(t) \/ (\E o \in Ops : Call(t, o))

Spec == Init /\ [][Next]_vars

\* The operating system runs every thread that is inside an operation; nothing
\* obliges a program to call another one.
FairSpec == Spec /\ \A t \in Threads : WF_vars(Step(t))

-------------------------------------------------------------------------------
(* Properties *)

TypeOK ==
  /\ tag \in Tag
  /\ data \in Value
  /\ freed \in BOOLEAN
  /\ loc \in [Threads -> Locals]
  /\ holders \subseteq Threads
  /\ leaked \in BOOLEAN

\* t has made the element BUSY and has not yet stored the final tag.
OwnerAt(p, o) ==
  \/ p \in {"rStore", "wCheck", "fRead", "fWrite", "fStore",
             "cType", "cRead", "cWrite", "cStore"}
  \/ p \in {"rData", "wData", "wStore"} /\ FinalFE(o) # "ANY"
  \/ p = "wLoad" /\ o = "writeEF"
Owns(t) == OwnerAt(loc[t].pc, Op(t))

\* BUSY is a lock: the tag is BUSY exactly while one thread is between its
\* acquiring compare-and-swap and its final store, or after an error return
\* that abandoned it.  This is what every handler of ems.cc and rmw.cc assumes
\* ("Under BUSY lock") when it touches the data word without another check.
ExclusiveBusy ==
  /\ tag.fe = "BUSY" <=> leaked \/ \E t \in Threads : Owns(t)
  /\ leaked => \A t \in Threads : ~Owns(t)
  /\ \A t, u \in Threads : Owns(t) /\ Owns(u) => t = u

\* The diagnostic "Lost tag lock while BUSY" of EMSwriteUsingTags cannot fire.
LockNeverLost == \A t \in Threads : At(t, "wCheck") => HasLock(t)

\* The rw bits count exactly the threads between a granted readRW and its
\* releaseRW, so the last release, and only it, makes the element FULL again.
ReaderCount == tag.rw = Cardinality(holders)

\* EMSreleaseRW by a holder never reports "locked but Count already 0" or a
\* lock "in some other state".
ReleaseSucceeds ==
  \A t \in Threads : At(t, "done") /\ Op(t) = "releaseRW" => loc[t].ret.ok

\* No writer, faa or cas changes the data, or frees the string, while a
\* readers-writer lock is held: two successive reads under one lock agree.
StableUnderReaders ==
  [][holders \cap holders' # {} => UNCHANGED <<data, freed>>]_vars

\* Outside BUSY, and outside the two stores of a plain write, the type bits
\* describe the data word, and no read or read-modify-write pairs the type of
\* one value with the data of another.
TypedResults ==
  /\ tag.fe # "BUSY" /\ ~(\E t \in Threads : At(t, "wStore") /\ Op(t) = "write")
       => tag.type = TypeOf[data]
  /\ \A t \in Threads :
       At(t, "done") /\ Op(t) \notin Setters \cup {"releaseRW"} /\ loc[t].ret.ok
         => loc[t].ret.type = TypeOf[loc[t].ret.v]

\* Every thread that makes the element BUSY eventually lets it go, unless its
\* call fails or a process has died with the mutex of the heap.
BusyReleased == tag.fe = "BUSY" /\ ~leaked ~> tag.fe # "BUSY" \/ leaked \/ ~HeapOpen

Waiting(t) == loc[t].pc \in {"rLoad", "rCAS", "tLoad", "tCAS"}

\* A thread blocked in readFE, readFF, writeEF, faa or cas does not sleep
\* through the state it waits for: that state is taken, by it or by another.
NoMissedTransition ==
  \A t \in Threads :
    (Waiting(t) /\ tag.fe = InitialFE(Op(t)) /\ Op(t) # "readRW")
      ~> (~Waiting(t) \/ tag.fe # InitialFE(Op(t)))

\* reference.html:742: readRW "Blocks until the data element is full or already
\* under a Readers-Writer lock": with room for a reader it does not stay blocked.
ReaderAdmitted ==
  \A t \in Threads :
    (Waiting(t) /\ Op(t) = "readRW" /\ tag.fe = "RW_LOCK" /\ tag.rw < RWMax)
      ~> (~Waiting(t) \/ tag.fe # "RW_LOCK" \/ tag.rw = RWMax)
===============================================================================
