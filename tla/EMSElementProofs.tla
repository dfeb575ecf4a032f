--------------------------- MODULE EMSElementProofs ---------------------------
(* BUSY is a lock, for any number of threads, values and readers, as long as *)
(* the program keeps the operations documented to ignore the tag to its      *)
(* serial sections; and every operation of EMSElement takes effect in one    *)
(* step of TaggedCell.                                                       *)
EXTENDS EMSElementRefinement, FiniteSetTheorems, TLAPS

\* The program calls write and setTag only while no other call is in progress.
Synchronised == Ops \cap {"write", "setFull", "setEmpty"} \subseteq Alone

\* Which operation can be at which program point.
OpFits(p, o) ==
  /\ p \in {"rLoad", "rCAS", "rData", "rStore"} => o \in Readers
  /\ p \in {"rCAS", "rStore"} => o # "read"
  /\ p \in {"tLoad", "tCAS"} => o \in Waiters
  /\ p \in {"wLoad", "wCAS", "wData", "wCheck", "wStore"} => o \in Writers
  /\ p = "wCAS" => o \in {"writeXF", "writeXE"}
  /\ p = "wCheck" => o # "write"
  /\ p \in {"uLoad", "uCAS"} => o = "releaseRW"
  /\ p \in {"sLoad", "sStore"} => o \in Setters
  /\ p \in {"fRead", "fWrite", "fStore"} => o = "faa"
  /\ p \in {"cType", "cRead", "cWrite", "cStore"} => o = "cas"
  /\ p # "idle" => o \in Ops

\* What the tag a thread loaded tells it before its compare-and-swap.
MemFits(p, o, m) ==
  /\ p = "rCAS" => m.fe # "BUSY" /\ (o = "readRW" => m.rw < RWMax)
  /\ p = "wCAS" => m.fe # "BUSY"
  /\ p = "uCAS" => m.fe = "RW_LOCK" /\ m.rw > 0

LocalInv ==
  \A t \in Threads : OpFits(loc[t].pc, Op(t)) /\ MemFits(loc[t].pc, Op(t), Mem(t))

\* A writer that owns the element knows the whole tag byte.
LockKept ==
  \A t \in Threads :
    loc[t].pc \in {"wData", "wCheck", "wStore"} /\ FinalFE(Op(t)) # "ANY" => HasLock(t)

\* write and setTag are about to store the tag they loaded, changed in one field.
StoresBack(p, o) == (p \in {"wData", "wStore"} /\ o = "write") \/ p = "sStore"

Quiescent(t) == \A u \in Threads \ {t} : At(u, "idle")

\* An operation of a serial section has the element to itself, so that the tag byte
\* that write and setTag load is still there when they store it back.
Serial ==
  \A t \in Threads : ~At(t, "idle") =>
    /\ Op(t) \in Alone => Quiescent(t)
    /\ StoresBack(loc[t].pc, Op(t)) => Op(t) \in Alone /\ Mem(t) = tag

Inv == TypeOK /\ LocalInv /\ ExclusiveBusy /\ LockKept /\ Serial

\* The value that stands for no argument is one of the values.
LEMMA AnyValueType == AnyValue \in Value
  BY ElementAssumption DEF AnyValue

\* The locals of an idle thread and an empty result are well typed.
LEMMA IdleType == Idle \in Locals /\ NoRet \in Ret
  BY AnyValueType, ElementAssumption
     DEF Idle, Locals, NoRet, NoTag, Ret, Tag, FE, Type, PC, AllOps, Readers, Writers

\* Thread t moves to p with m as its loaded tag; the other threads do not move.
Becomes(t, p, m) ==
  /\ loc' \in [Threads -> Locals]
  /\ loc'[t].pc = p /\ loc'[t].op = loc[t].op /\ loc'[t].mem = m
  /\ \A u \in Threads : u # t => loc'[u] = loc[u]

\* What each way of moving a thread does to its program counter and its loaded tag.
LEMMA GoBecomes ==
  ASSUME NEW t \in Threads, NEW p \in PC, TypeOK, Go(t, p)
  PROVE  Becomes(t, p, Mem(t))
  BY DEF TypeOK, Go, Becomes, Mem, Locals

LEMMA GoWithBecomes ==
  ASSUME NEW t \in Threads, NEW p \in PC, NEW m \in Tag, TypeOK, GoWith(t, p, m)
  PROVE  Becomes(t, p, m)
  BY DEF TypeOK, GoWith, Becomes, Locals

LEMMA GoFullBecomes ==
  ASSUME NEW t \in Threads, NEW p \in PC, NEW b \in BOOLEAN, TypeOK,
         loc' = [loc EXCEPT ![t].pc = p, ![t].full = b]
  PROVE  Becomes(t, p, Mem(t))
<1> DEFINE r == [loc[t] EXCEPT !.pc = p, !.full = b]
<1>1. r \in Locals /\ r.pc = p /\ r.op = loc[t].op /\ r.mem = loc[t].mem
  BY DEF TypeOK, Locals
<1>2. loc' = [loc EXCEPT ![t] = r]
  OBVIOUS
<1> HIDE DEF r
<1> QED
  BY <1>1, <1>2 DEF TypeOK, Becomes, Mem

LEMMA GoRetBecomes ==
  ASSUME NEW t \in Threads, NEW p \in PC, NEW r \in Ret, TypeOK, GoRet(t, p, r)
  PROVE  Becomes(t, p, Mem(t))
  BY DEF TypeOK, GoRet, Becomes, Mem, Locals

LEMMA ReturnBecomes ==
  ASSUME NEW t \in Threads, NEW r \in Ret, TypeOK, Return(t, r)
  PROVE  Becomes(t, "done", Mem(t))
  BY GoRetBecomes DEF Return, PC

\* Marking a tag BUSY keeps it a tag.
LEMMA BusyType == ASSUME NEW m \in Tag PROVE Busy(m) \in Tag /\ Busy(m).fe = "BUSY"
  BY DEF Busy, Tag, FE

\* A successful result is a result.
LEMMA OkType == ASSUME NEW ty \in Type, NEW v \in Value PROVE Ok(ty, v) \in Ret
  BY DEF Ok, Ret

\* A tag given the type of a value is still a tag, with the same reader count.
LEMMA RetypedTag ==
  ASSUME NEW m \in Tag, NEW ty \in Type
  PROVE  /\ [m EXCEPT !.type = ty] \in Tag /\ [m EXCEPT !.type = ty].rw = m.rw
         /\ [m EXCEPT !.type = ty].type = ty
  BY DEF Tag

\* The type EMSfaa gives a sum is one of the types.
LEMMA FaaTypeType ==
  ASSUME NEW ty \in Type, NEW a \in Value, NEW b \in Value PROVE FaaType(ty, a, b) \in Type
<1>1. TypeOf[Sum[a][b]] \in Type
  BY ElementAssumption
<1>2. "UNDEFINED" \in Type
  BY DEF Type
<1> QED
  BY <1>1, <1>2 DEF FaaType

\* So EMSfaa and EMScas retype a loaded tag to a tag.
LEMMA UpdateTags ==
  ASSUME Inv, NEW t \in Threads, NEW a \in Value
  PROVE  /\ [Mem(t) EXCEPT !.type = FaaType(Mem(t).type, a, loc[t].arg)] \in Tag
         /\ [Mem(t) EXCEPT !.type = FaaType(Mem(t).type, a, loc[t].arg)].rw = Mem(t).rw
         /\ [Mem(t) EXCEPT !.type = TypeOf[loc[t].arg]] \in Tag
         /\ [Mem(t) EXCEPT !.type = TypeOf[loc[t].arg]].rw = Mem(t).rw
         /\ [Mem(t) EXCEPT !.type = TypeOf[loc[t].arg]].type = TypeOf[loc[t].arg]
         /\ Sum[a][loc[t].arg] \in Value
<1>1. Mem(t) \in Tag /\ loc[t].arg \in Value
  BY DEF Inv, TypeOK, Locals, Mem
<1>2. Mem(t).type \in Type /\ TypeOf[loc[t].arg] \in Type /\ Sum[a][loc[t].arg] \in Value
  BY <1>1, ElementAssumption DEF Tag
<1>3. FaaType(Mem(t).type, a, loc[t].arg) \in Type
  BY <1>1, <1>2, FaaTypeType
<1> QED
  BY <1>1, <1>2, <1>3, RetypedTag

\* What a thread may find in the data word is a value.
LEMMA ContentsValue == ASSUME NEW t, NEW v \in Contents(t) PROVE v \in Value
  BY DEF Contents

-------------------------------------------------------------------------------

\* What a step of t may do to the lock: nothing, acquire, release, abandon it
\* with an error, change the tag while nobody holds it, or do so in a serial section.
LockStep(t, p) ==
  \/ tag' = tag /\ leaked' = leaked /\ (OwnerAt(p, Op(t)) <=> Owns(t))
  \/ /\ tag.fe # "BUSY" /\ tag'.fe = "BUSY" /\ leaked' = leaked
     /\ OwnerAt(p, Op(t))
  \/ /\ Owns(t) /\ ~OwnerAt(p, Op(t))
     /\ tag'.fe # "BUSY" /\ leaked' = leaked
  \/ /\ Owns(t) /\ ~OwnerAt(p, Op(t))
     /\ tag' = tag /\ leaked' = TRUE
  \/ /\ ~Owns(t) /\ ~OwnerAt(p, Op(t))
     /\ tag.fe # "BUSY" /\ tag'.fe # "BUSY" /\ leaked' = leaked
  \/ /\ ~Owns(t) /\ ~OwnerAt(p, Op(t)) /\ Quiescent(t)
     /\ \/ tag'.fe = tag.fe /\ leaked' = leaked
        \/ tag'.fe # "BUSY" /\ leaked' = FALSE

\* A step of t to p with loaded tag m that keeps the invariant.
GoodStep(t, p, m) ==
  /\ Becomes(t, p, m)
  /\ OpFits(p, Op(t)) /\ MemFits(p, Op(t), m)
  /\ LockStep(t, p)
  /\ p \in {"wData", "wCheck", "wStore"} /\ FinalFE(Op(t)) # "ANY" => tag' = Busy(m)
  /\ StoresBack(p, Op(t)) => Op(t) \in Alone /\ m = tag'
  /\ ~At(t, "idle")
  /\ tag' \in Tag /\ data' \in Value /\ freed' \in BOOLEAN /\ holders' \subseteq Threads

\* A good step keeps every part of the invariant.
LEMMA GoodStepInv ==
  ASSUME Inv, NEW t \in Threads, NEW p, NEW m, GoodStep(t, p, m)
  PROVE  Inv'
<1> USE DEF GoodStep, Becomes
<1>1. \A u \in Threads : u # t => Owns(u)' = Owns(u)
  BY DEF Owns, Op
<1>2. Owns(t)' = OwnerAt(p, Op(t))
  BY DEF Owns, Op
<1>3. TypeOK'
  BY DEF Inv, TypeOK, LockStep
<1>4. LocalInv'
  BY DEF Inv, LocalInv, Op, Mem
<1>5. ExclusiveBusy'
  <2>1. Quiescent(t) => \A u \in Threads : u # t => ~Owns(u)
    BY DEF Quiescent, At, Owns, OwnerAt
  <2> QED
    BY <1>1, <1>2, <2>1 DEF Inv, ExclusiveBusy, LockStep
<1>6. LockKept'
  <2> SUFFICES ASSUME NEW u \in Threads, loc'[u].pc \in {"wData", "wCheck", "wStore"},
                      FinalFE(Op(u)') # "ANY"
               PROVE  tag' = Busy(Mem(u)')
    BY DEF LockKept, HasLock, Op, Mem
  <2>1. CASE u = t
    BY <2>1 DEF Op, Mem
  <2>2. CASE u # t
    <3>1. Owns(u) /\ tag = Busy(Mem(u)) /\ Mem(u)' = Mem(u)
      BY <2>2 DEF Inv, LockKept, HasLock, Owns, OwnerAt, Op, Mem
    <3>2. ~Quiescent(t)
      BY <3>1, <2>2 DEF Quiescent, At, Owns, OwnerAt
    <3>3. tag' = tag
      BY <3>1, <3>2, <2>2 DEF Inv, ExclusiveBusy, LockStep
    <3> QED
      BY <3>1, <3>3
  <2> QED
    BY <2>1, <2>2
<1>7. Serial'
  <2> SUFFICES ASSUME NEW u \in Threads, loc'[u].pc # "idle"
               PROVE  /\ Op(u)' \in Alone => Quiescent(u)'
                      /\ StoresBack(loc'[u].pc, Op(u)') => Op(u)' \in Alone /\ Mem(u)' = tag'
    BY DEF Serial, At
  <2>1. CASE u = t
    BY <2>1 DEF Inv, Serial, Quiescent, At, Op, Mem
  <2>2. CASE u # t
    BY <2>2 DEF Inv, Serial, Quiescent, At, Op, Mem
  <2> QED
    BY <2>1, <2>2
<1> QED
  BY <1>3, <1>4, <1>5, <1>6, <1>7 DEF Inv

\* The invariant holds when the array has been created.
LEMMA InvInit == Init => Inv
<1> SUFFICES ASSUME Init PROVE Inv
  OBVIOUS
<1>1. tag \in Tag
  <2>1. PICK f \in InitFE : tag = [fe |-> f, type |-> TypeOf[data], rw |-> 0]
    BY DEF Init
  <2>2. TypeOf[data] \in Type /\ 0 \in 0 .. RWMax /\ f \in FE
    BY <2>1, ElementAssumption DEF Init, FE
  <2> QED
    BY <2>1, <2>2 DEF Tag
<1>2. loc \in [Threads -> Locals]
  BY IdleType DEF Init
<1>3. TypeOK
  BY <1>1, <1>2 DEF Init, TypeOK
<1>4. LocalInv
  BY DEF Init, LocalInv, OpFits, MemFits, Op, Mem, Idle
<1>5. \A t \in Threads : ~Owns(t)
  BY DEF Init, Owns, OwnerAt, Idle
<1>6. tag.fe # "BUSY"
  BY ElementAssumption DEF Init
<1>7. ExclusiveBusy
  BY <1>5, <1>6 DEF Init, ExclusiveBusy
<1>8. LockKept
  BY DEF Init, LockKept, Idle
<1>9. Serial
  BY DEF Init, Serial, At, Idle
<1> QED
  BY <1>3, <1>4, <1>7, <1>8, <1>9 DEF Inv

\* A call touches the locals of its thread only.
LEMMA CallInv ==
  ASSUME NEW t \in Threads, NEW o \in Ops, Inv, Call(t, o)
  PROVE  Inv'
<1> USE ElementAssumption
<1>1. TypeOK'
  <2>1. PICK a \in Value, b \in Value, full \in BOOLEAN :
          loc' = [loc EXCEPT ![t] = [Idle EXCEPT !.pc = Entry(o), !.op = o,
                                       !.arg = a, !.old = b, !.full = full]]
    BY AnyValueType DEF Call, Args, Olds
  <2>2. Entry(o) \in PC /\ o \in AllOps
    BY DEF Entry, PC
  <2>3. [Idle EXCEPT !.pc = Entry(o), !.op = o, !.arg = a, !.old = b, !.full = full] \in Locals
    BY <2>2, IdleType DEF Locals, Idle
  <2> QED
    BY <2>1, <2>3 DEF Inv, TypeOK, Call
<1>2. LocalInv'
  BY DEF Inv, TypeOK, LocalInv, OpFits, MemFits, Call, Op, Mem, At, Locals, Idle, Entry,
         AllOps, Readers, Writers, Waiters, Setters
<1>3. \A u \in Threads : Owns(u)' <=> Owns(u)
  <2>1. ~Owns(t)
    BY DEF Call, At, Owns, OwnerAt
  <2>2. loc'[t].pc = Entry(o) /\ loc'[t].op = o /\ \A u \in Threads : u # t => loc'[u] = loc[u]
    BY DEF Inv, TypeOK, Call, Locals, Idle
  <2>3. ~Owns(t)'
    BY <2>2 DEF Owns, OwnerAt, Entry, Op, Readers, Waiters
  <2> QED
    BY <2>1, <2>2, <2>3 DEF Owns, Op
<1>4. ExclusiveBusy'
  BY <1>3 DEF Inv, ExclusiveBusy, Call
<1>5. LockKept'
  BY DEF Inv, TypeOK, LockKept, HasLock, Call, Entry, Op, Mem, Locals, Idle
<1>6. Serial'
  <2>1. /\ loc'[t].pc = Entry(o) /\ loc'[t].op = o
        /\ \A u \in Threads : u # t => loc'[u] = loc[u]
    BY DEF Inv, TypeOK, Call, Locals, Idle
  <2>2. ~StoresBack(Entry(o), o)
    BY DEF StoresBack, Entry
  <2> QED
    BY <2>1, <2>2 DEF Inv, Serial, Call, Undisturbed, Quiescent, At, Op, Mem
<1> QED
  BY <1>1, <1>2, <1>4, <1>5, <1>6 DEF Inv

-------------------------------------------------------------------------------
\* What the invariant gives about a thread that takes a step.
LEMMA ThreadFacts ==
  ASSUME Inv, NEW t \in Threads
  PROVE  /\ OpFits(loc[t].pc, Op(t)) /\ MemFits(loc[t].pc, Op(t), Mem(t))
         /\ Mem(t) \in Tag /\ Op(t) \in AllOps /\ loc[t].arg \in Value
         /\ tag \in Tag /\ data \in Value /\ freed \in BOOLEAN /\ holders \subseteq Threads
         /\ Owns(t) => tag.fe = "BUSY"
         /\ loc[t].pc \in {"wData", "wCheck", "wStore"} /\ FinalFE(Op(t)) # "ANY"
              => tag = Busy(Mem(t))
         /\ ~At(t, "idle") /\ Op(t) \in Alone => Quiescent(t)
         /\ StoresBack(loc[t].pc, Op(t)) => Op(t) \in Alone /\ Mem(t) = tag
         /\ TypeOK
  BY DEF Inv, TypeOK, LocalInv, ExclusiveBusy, LockKept, HasLock, Serial, StoresBack, At,
         Locals, Op, Mem

\* EMSreadUsingTags keeps the invariant.
LEMMA ReadSteps ==
  ASSUME Inv, NEW t \in Threads,
         ReadLoad(t) \/ ReadCAS(t) \/ ReadData(t) \/ ReadStore(t)
  PROVE  Inv'
<1> USE ElementAssumption, ThreadFacts
<1>1. CASE ReadLoad(t)
  <2> DEFINE p == IF ~ReadReady(tag, Op(t), loc[t].full) THEN "rLoad"
                  ELSE IF InitialFE(Op(t)) = "ANY" THEN "rData" ELSE "rCAS"
  <2>1. p \in PC /\ Becomes(t, p, tag)
    BY <1>1, GoWithBecomes DEF ReadLoad, PC
  <2>2. OpFits(p, Op(t)) /\ MemFits(p, Op(t), tag)
    BY <1>1 DEF ReadLoad, At, OpFits, MemFits, ReadReady, InitialFE, Readers, Writers,
                Waiters, Setters
  <2>3. LockStep(t, p)
    BY <1>1 DEF ReadLoad, At, LockStep, Owns, OwnerAt, InitialFE, FinalFE, OpFits, Readers
  <2> QED
    BY <1>1, <2>1, <2>2, <2>3, GoodStepInv DEF ReadLoad, GoodStep, At, StoresBack
<1>2. CASE ReadCAS(t)
  <2>1. CASE tag = Mem(t)
    <3>0. ReadTag(t) \in Tag
      <4>1. Op(t) = "readRW" => Mem(t).rw + 1 \in 0 .. RWMax
        BY <1>2 DEF ReadCAS, At, MemFits, Tag
      <4> QED
        BY <4>1 DEF ReadTag, Tag
    <3>1. Busy(ReadTag(t)) \in Tag /\ Busy(ReadTag(t)).fe = "BUSY"
      BY <3>0, BusyType
    <3>2. Becomes(t, "rData", ReadTag(t))
      BY <1>2, <2>1, <3>0, GoWithBecomes DEF ReadCAS, PC
    <3>3. OpFits("rData", Op(t)) /\ MemFits("rData", Op(t), ReadTag(t))
      BY <1>2 DEF ReadCAS, At, OpFits, MemFits
    <3>4. LockStep(t, "rData")
      BY <1>2, <2>1, <3>1 DEF ReadCAS, At, LockStep, OwnerAt, FinalFE, OpFits, MemFits, Readers
    <3> QED
      BY <1>2, <2>1, <3>1, <3>2, <3>3, <3>4, GoodStepInv DEF ReadCAS, GoodStep, At, StoresBack
  <2>2. CASE tag # Mem(t)
    <3>1. Becomes(t, "rLoad", Mem(t))
      <4>1. PICK b \in BOOLEAN : loc' = [loc EXCEPT ![t].pc = "rLoad", ![t].full = b]
        BY <1>2, <2>2 DEF ReadCAS
      <4> QED
        BY <4>1, GoFullBecomes DEF PC
    <3>2. OpFits("rLoad", Op(t)) /\ MemFits("rLoad", Op(t), Mem(t))
      BY <1>2 DEF ReadCAS, At, OpFits, MemFits
    <3>3. LockStep(t, "rLoad")
      BY <1>2, <2>2 DEF ReadCAS, At, LockStep, Owns, OwnerAt
    <3> QED
      BY <1>2, <2>2, <3>1, <3>2, <3>3, GoodStepInv DEF ReadCAS, GoodStep, At, StoresBack
  <2> QED
    BY <2>1, <2>2
<1>3. CASE ReadData(t)
  <2> DEFINE p == IF FinalFE(Op(t)) = "ANY" THEN "done" ELSE "rStore"
  <2>0. PICK v \in Value : GoRet(t, p, Ok(Mem(t).type, v))
    BY <1>3, ContentsValue DEF ReadData
  <2>1. Becomes(t, p, Mem(t))
    BY <2>0, GoRetBecomes, OkType DEF PC, Tag
  <2>2. OpFits(p, Op(t)) /\ MemFits(p, Op(t), Mem(t))
    BY <1>3 DEF ReadData, At, OpFits, MemFits, FinalFE
  <2>3. LockStep(t, p)
    BY <1>3 DEF ReadData, At, LockStep, Owns, OwnerAt
  <2> QED
    BY <1>3, <2>1, <2>2, <2>3, GoodStepInv DEF ReadData, GoodStep, At, StoresBack
<1>4. CASE ReadStore(t)
  <2>1. Becomes(t, "done", Mem(t))
    BY <1>4, GoBecomes DEF ReadStore, PC
  <2>2. OpFits("done", Op(t)) /\ MemFits("done", Op(t), Mem(t))
    BY <1>4 DEF ReadStore, At, OpFits, MemFits
  <2>3. FinalFE(Op(t)) \in FE \ {"BUSY"}
    BY <1>4 DEF ReadStore, At, OpFits, FinalFE, FE, Readers
  <2>4. LockStep(t, "done") /\ tag' \in Tag
    BY <1>4, <2>3 DEF ReadStore, At, LockStep, Owns, OwnerAt, Tag
  <2> QED
    BY <1>4, <2>1, <2>2, <2>4, GoodStepInv DEF ReadStore, GoodStep, At, StoresBack
<1> QED
  BY <1>1, <1>2, <1>3, <1>4

\* EMStransitionFEtag keeps the invariant.
LEMMA TransitionSteps ==
  ASSUME Inv, NEW t \in Threads, TransitionLoad(t) \/ TransitionCAS(t)
  PROVE  Inv'
<1> USE ElementAssumption, ThreadFacts
<1>1. CASE TransitionLoad(t)
  <2>1. Becomes(t, "tCAS", tag)
    BY <1>1, GoWithBecomes DEF TransitionLoad, PC
  <2>2. OpFits("tCAS", Op(t)) /\ MemFits("tCAS", Op(t), tag) /\ LockStep(t, "tCAS")
    BY <1>1 DEF TransitionLoad, At, OpFits, MemFits, LockStep, Owns, OwnerAt
  <2> QED
    BY <1>1, <2>1, <2>2, GoodStepInv DEF TransitionLoad, GoodStep, At, StoresBack
<1>2. CASE TransitionCAS(t)
  <2> DEFINE old == [Mem(t) EXCEPT !.fe = InitialFE(Op(t))]
             p   == Resume(Op(t))
  <2>1. Op(t) \in Waiters /\ InitialFE(Op(t)) \in FE \ {"BUSY"}
    BY <1>2 DEF TransitionCAS, At, OpFits, InitialFE, Waiters, FE
  <2>2. old \in Tag /\ old.fe # "BUSY" /\ Busy(old) \in Tag /\ Busy(old).fe = "BUSY"
    BY <2>1, BusyType DEF Tag
  <2>3. CASE tag = old
    <3>1. p \in PC /\ Becomes(t, p, Busy(old))
      BY <1>2, <2>2, <2>3, GoWithBecomes DEF TransitionCAS, Resume, PC
    <3>2. OpFits(p, Op(t)) /\ MemFits(p, Op(t), Busy(old)) /\ OwnerAt(p, Op(t))
      BY <1>2, <2>1 DEF TransitionCAS, At, OpFits, MemFits, Resume, Waiters, Writers, OwnerAt
    <3>3. LockStep(t, p)
      BY <1>2, <2>2, <2>3, <3>2 DEF TransitionCAS, LockStep
    <3> QED
      BY <1>2, <2>2, <2>3, <3>1, <3>2, <3>3, GoodStepInv DEF TransitionCAS, GoodStep, At, StoresBack, Resume
  <2>4. CASE tag # old
    <3>1. Becomes(t, "tLoad", Mem(t))
      BY <1>2, <2>4, GoBecomes DEF TransitionCAS, PC
    <3>2. OpFits("tLoad", Op(t)) /\ MemFits("tLoad", Op(t), Mem(t)) /\ LockStep(t, "tLoad")
      BY <1>2, <2>4 DEF TransitionCAS, At, OpFits, MemFits, LockStep, Owns, OwnerAt
    <3> QED
      BY <1>2, <2>4, <3>1, <3>2, GoodStepInv DEF TransitionCAS, GoodStep, At, StoresBack
  <2> QED
    BY <2>3, <2>4
<1> QED
  BY <1>1, <1>2

\* EMSwriteUsingTags keeps the invariant.
LEMMA WriteSteps ==
  ASSUME Inv, NEW t \in Threads, Op(t) # "write",
         WriteLoad(t) \/ WriteCAS(t) \/ WriteData(t) \/ WriteCheck(t) \/ WriteStore(t)
  PROVE  Inv'
<1> USE ElementAssumption, ThreadFacts
<1>0. /\ Op(t) \in {"writeXF", "writeXE", "writeEF"}
      /\ FinalFE(Op(t)) \in FE \ {"BUSY"} /\ FinalFE(Op(t)) # "ANY"
  BY DEF WriteLoad, WriteCAS, WriteData, WriteCheck, WriteStore, At, OpFits, Writers,
         FinalFE, FE
<1>1. CASE WriteLoad(t)
  <2> DEFINE p == IF InitialFE(Op(t)) # "ANY" THEN "wData"
                  ELSE IF tag.fe # "BUSY" THEN "wCAS" ELSE "wLoad"
  <2>1. p \in PC /\ Becomes(t, p, tag)
    BY <1>0, <1>1, GoWithBecomes DEF WriteLoad, PC
  <2>2. OpFits(p, Op(t)) /\ MemFits(p, Op(t), tag)
    BY <1>0, <1>1 DEF WriteLoad, At, OpFits, MemFits, InitialFE, Writers, Waiters
  <2>3. LockStep(t, p)
    BY <1>0, <1>1 DEF WriteLoad, At, LockStep, Owns, OwnerAt, InitialFE
  <2>4. p = "wData" => tag = Busy(tag)
    BY <1>0, <1>1 DEF WriteLoad, At, Owns, OwnerAt, InitialFE, Busy, Tag
  <2> QED
    BY <1>1, <2>1, <2>2, <2>3, <2>4, GoodStepInv DEF WriteLoad, GoodStep, At, StoresBack
<1>2. CASE WriteCAS(t)
  <2>1. CASE tag = Mem(t)
    <3>1. Becomes(t, "wData", Mem(t))
      BY <1>2, <2>1, GoBecomes DEF WriteCAS, PC
    <3>2. OpFits("wData", Op(t)) /\ MemFits("wData", Op(t), Mem(t))
      BY <1>0, <1>2 DEF WriteCAS, At, OpFits, MemFits
    <3>3. LockStep(t, "wData")
      BY <1>0, <1>2, <2>1, BusyType DEF WriteCAS, At, LockStep, OwnerAt, MemFits
    <3> QED
      BY <1>2, <2>1, <3>1, <3>2, <3>3, BusyType, GoodStepInv DEF WriteCAS, GoodStep, At, StoresBack
  <2>2. CASE tag # Mem(t)
    <3>1. Becomes(t, "wLoad", Mem(t))
      BY <1>2, <2>2, GoBecomes DEF WriteCAS, PC
    <3>2. OpFits("wLoad", Op(t)) /\ MemFits("wLoad", Op(t), Mem(t)) /\ LockStep(t, "wLoad")
      BY <1>0, <1>2, <2>2 DEF WriteCAS, At, OpFits, MemFits, LockStep, Owns, OwnerAt
    <3> QED
      BY <1>2, <2>2, <3>1, <3>2, GoodStepInv DEF WriteCAS, GoodStep, At, StoresBack
  <2> QED
    BY <2>1, <2>2
<1>3. CASE WriteData(t)
  <2>1. CASE data' = loc[t].arg /\ freed' = FALSE /\ Go(t, "wCheck") /\ leaked' = leaked
    <3>1. Becomes(t, "wCheck", Mem(t))
      BY <2>1, GoBecomes DEF PC
    <3>2. OpFits("wCheck", Op(t)) /\ MemFits("wCheck", Op(t), Mem(t)) /\ LockStep(t, "wCheck")
      BY <1>0, <1>3, <2>1 DEF WriteData, At, OpFits, MemFits, LockStep, Owns, OwnerAt
    <3>3. tag' = Busy(Mem(t))
      BY <1>0, <1>3 DEF WriteData, At
    <3> QED
      BY <1>3, <2>1, <3>1, <3>2, <3>3, GoodStepInv DEF WriteData, GoodStep, At, StoresBack
  <2>2. CASE ReturnHolding(t) /\ data' = data /\ freed' \in BOOLEAN
    <3>1. Becomes(t, "done", Mem(t))
      BY <2>2, IdleType, ReturnBecomes DEF ReturnHolding
    <3>2. OpFits("done", Op(t)) /\ MemFits("done", Op(t), Mem(t)) /\ LockStep(t, "done")
      BY <1>0, <1>3, <2>2
         DEF WriteData, At, OpFits, MemFits, LockStep, Owns, OwnerAt, ReturnHolding
    <3> QED
      BY <1>3, <2>2, <3>1, <3>2, GoodStepInv DEF WriteData, GoodStep, At, StoresBack
  <2> QED
    BY <1>0, <1>3, <2>1, <2>2 DEF WriteData
<1>4. CASE WriteCheck(t)
  <2>1. HasLock(t)
    BY <1>0, <1>4 DEF WriteCheck, At, HasLock
  <2>2. Becomes(t, "wStore", Mem(t))
    BY <1>4, <2>1, GoBecomes DEF WriteCheck, PC
  <2>3. OpFits("wStore", Op(t)) /\ MemFits("wStore", Op(t), Mem(t)) /\ LockStep(t, "wStore")
    BY <1>0, <1>4 DEF WriteCheck, At, OpFits, MemFits, LockStep, Owns, OwnerAt
  <2> QED
    BY <1>4, <2>1, <2>2, <2>3, GoodStepInv DEF WriteCheck, GoodStep, At, StoresBack, HasLock
<1>5. CASE WriteStore(t)
  <2>1. TypeOf[loc[t].arg] \in Type /\ WriteTag(t) \in Tag /\ WriteTag(t).fe # "BUSY"
    BY <1>0 DEF WriteTag, Tag
  <2>2. Becomes(t, "done", Mem(t))
    BY <1>5, <2>1, OkType, ReturnBecomes DEF WriteStore
  <2>3. OpFits("done", Op(t)) /\ MemFits("done", Op(t), Mem(t)) /\ LockStep(t, "done")
    BY <1>0, <1>5, <2>1 DEF WriteStore, At, OpFits, MemFits, LockStep, Owns, OwnerAt
  <2> QED
    BY <1>5, <2>1, <2>2, <2>3, GoodStepInv DEF WriteStore, GoodStep, At, StoresBack
<1> QED
  BY <1>1, <1>2, <1>3, <1>4, <1>5

\* write neither looks at the tag nor keeps it BUSY: it relies on being alone.
LEMMA PlainWriteSteps ==
  ASSUME Synchronised, Inv, NEW t \in Threads, Op(t) = "write",
         WriteLoad(t) \/ WriteCAS(t) \/ WriteData(t) \/ WriteCheck(t) \/ WriteStore(t)
  PROVE  Inv'
<1> USE ElementAssumption, ThreadFacts
<1>0. /\ Op(t) \in Alone /\ Quiescent(t) /\ FinalFE(Op(t)) = "ANY"
      /\ ~WriteCAS(t) /\ ~WriteCheck(t)
      /\ \A p : ~OwnerAt(p, Op(t)) \/ p \notin {"wLoad", "wData", "wStore", "done"}
      /\ \A p \in {"wData", "wStore", "done"}, m \in Tag : OpFits(p, Op(t)) /\ MemFits(p, Op(t), m)
  <2>1. Op(t) \in Alone /\ FinalFE(Op(t)) = "ANY" /\ ~WriteCAS(t) /\ ~WriteCheck(t)
    BY DEF WriteLoad, WriteCAS, WriteData, WriteCheck, WriteStore, At, OpFits, Writers,
           Synchronised, FinalFE
  <2>2. Quiescent(t)
    BY <2>1 DEF WriteLoad, WriteData, WriteStore, At
  <2>3. \A p : ~OwnerAt(p, Op(t)) \/ p \notin {"wLoad", "wData", "wStore", "done"}
    BY <2>1 DEF OwnerAt
  <2>4. \A p \in {"wData", "wStore", "done"}, m \in Tag : OpFits(p, Op(t)) /\ MemFits(p, Op(t), m)
    BY <2>1 DEF OpFits, MemFits, Writers
  <2> QED
    BY <2>1, <2>2, <2>3, <2>4
<1>1. CASE WriteLoad(t)
  <2>1. Becomes(t, "wData", tag)
    BY <1>0, <1>1, GoWithBecomes DEF WriteLoad, PC
  <2>2. LockStep(t, "wData")
    BY <1>0, <1>1 DEF WriteLoad, At, LockStep, Owns
  <2> QED
    BY <1>0, <1>1, <2>1, <2>2, GoodStepInv DEF WriteLoad, GoodStep, At
<1>2. CASE WriteData(t)
  <2>0. Mem(t) = tag
    BY <1>2 DEF WriteData, At, StoresBack
  <2>1. CASE data' = loc[t].arg /\ freed' = FALSE /\ Go(t, "wStore") /\ leaked' = leaked
    <3>1. Becomes(t, "wStore", Mem(t))
      BY <2>1, GoBecomes DEF PC
    <3>2. LockStep(t, "wStore")
      BY <1>0, <1>2, <2>1 DEF WriteData, At, LockStep, Owns
    <3> QED
      BY <1>0, <1>2, <2>0, <2>1, <3>1, <3>2, GoodStepInv DEF WriteData, GoodStep, At
  <2>2. CASE Return(t, NoRet) /\ leaked' = leaked /\ data' = data /\ freed' \in BOOLEAN
    <3>1. Becomes(t, "done", Mem(t))
      BY <2>2, IdleType, ReturnBecomes
    <3>2. LockStep(t, "done")
      BY <1>0, <1>2, <2>2 DEF WriteData, At, LockStep, Owns
    <3> QED
      BY <1>0, <1>2, <2>2, <3>1, <3>2, GoodStepInv DEF WriteData, GoodStep, At, StoresBack
  <2> QED
    BY <1>0, <1>2, <2>1, <2>2 DEF WriteData
<1>3. CASE WriteStore(t)
  <2>0. Mem(t) = tag
    BY <1>3 DEF WriteStore, At, StoresBack
  <2>1. TypeOf[loc[t].arg] \in Type /\ WriteTag(t) \in Tag /\ WriteTag(t).fe = tag.fe
    BY <1>0, <2>0 DEF WriteTag, Tag
  <2>2. Becomes(t, "done", Mem(t))
    BY <1>3, <2>1, OkType, ReturnBecomes DEF WriteStore
  <2>3. LockStep(t, "done")
    BY <1>0, <1>3, <2>1 DEF WriteStore, At, LockStep, Owns
  <2> QED
    BY <1>0, <1>3, <2>1, <2>2, <2>3, GoodStepInv DEF WriteStore, GoodStep, At, StoresBack
<1> QED
  BY <1>0, <1>1, <1>2, <1>3

\* setTag stores whatever tag it was asked for, which also frees an abandoned element.
LEMMA SetSteps ==
  ASSUME Synchronised, Inv, NEW t \in Threads, SetLoad(t) \/ SetStore(t)
  PROVE  Inv'
<1> USE ElementAssumption, ThreadFacts
<1>0. /\ Op(t) \in Alone /\ Quiescent(t) /\ Op(t) \in Setters
      /\ ~Owns(t) /\ ~OwnerAt("sStore", Op(t)) /\ ~OwnerAt("done", Op(t))
  BY DEF SetLoad, SetStore, At, OpFits, Setters, Synchronised, Owns, OwnerAt
<1>1. \A p \in {"sStore", "done"}, m \in Tag : OpFits(p, Op(t)) /\ MemFits(p, Op(t), m)
  BY <1>0 DEF OpFits, MemFits
<1>2. CASE SetLoad(t)
  <2>1. Becomes(t, "sStore", tag)
    BY <1>2, GoWithBecomes DEF SetLoad, PC
  <2>2. LockStep(t, "sStore")
    BY <1>0, <1>2 DEF SetLoad, LockStep
  <2> QED
    BY <1>0, <1>1, <1>2, <2>1, <2>2, GoodStepInv DEF SetLoad, GoodStep, At
<1>3. CASE SetStore(t)
  <2>1. tag' \in Tag /\ tag'.fe # "BUSY"
    BY <1>3 DEF SetStore, Tag, FE
  <2>2. AnyValue \in Value /\ "BOOLEAN" \in Type
    BY AnyValueType DEF Type
  <2>3. Becomes(t, "done", Mem(t))
    BY <1>3, <2>2, OkType, ReturnBecomes DEF SetStore
  <2>4. LockStep(t, "done")
    BY <1>0, <1>3, <2>1 DEF SetStore, LockStep
  <2> QED
    BY <1>0, <1>1, <1>3, <2>1, <2>3, <2>4, GoodStepInv DEF SetStore, GoodStep, At, StoresBack
<1> QED
  BY <1>2, <1>3

\* EMSreleaseRW keeps the invariant.
LEMMA ReleaseSteps ==
  ASSUME Inv, NEW t \in Threads, ReleaseLoad(t) \/ ReleaseCAS(t)
  PROVE  Inv'
<1> USE ElementAssumption, ThreadFacts
<1>1. CASE ReleaseLoad(t)
  <2>1. PICK p \in {"uCAS", "uLoad", "done"} :
          /\ p = "uCAS" => tag.fe = "RW_LOCK" /\ tag.rw > 0
          /\ \/ p \in {"uCAS", "uLoad"} /\ GoWith(t, p, tag)
             \/ p = "done" /\ Return(t, NoRet)
    BY <1>1 DEF ReleaseLoad
  <2>2. PICK m \in Tag : Becomes(t, p, m) /\ (p # "done" => m = tag)
    BY <2>1, IdleType, GoWithBecomes, ReturnBecomes DEF PC
  <2>3. OpFits(p, Op(t)) /\ MemFits(p, Op(t), m)
    BY <1>1, <2>1, <2>2 DEF ReleaseLoad, At, OpFits, MemFits
  <2>4. LockStep(t, p)
    BY <1>1, <2>1 DEF ReleaseLoad, At, LockStep, Owns, OwnerAt
  <2> QED
    BY <1>1, <2>1, <2>2, <2>3, <2>4, GoodStepInv DEF ReleaseLoad, GoodStep, At, StoresBack
<1>2. CASE ReleaseCAS(t)
  <2>1. CASE tag = Mem(t)
    <3>1. AnyValue \in Value /\ "INTEGER" \in Type
      BY AnyValueType DEF Type
    <3>2. Becomes(t, "done", Mem(t))
      BY <1>2, <2>1, <3>1, OkType, ReturnBecomes DEF ReleaseCAS
    <3>3. ReleasedTag(tag) \in Tag /\ ReleasedTag(tag).fe # "BUSY" /\ tag.fe # "BUSY"
      <4>1. tag.fe = "RW_LOCK" /\ tag.rw > 0 /\ tag.rw \in 0 .. RWMax /\ tag.type \in Type
        BY <1>2, <2>1 DEF ReleaseCAS, At, MemFits, Tag
      <4>2. tag.rw - 1 \in 0 .. RWMax
        BY <4>1
      <4> QED
        BY <4>1, <4>2 DEF ReleasedTag, Tag, FE
    <3>4. OpFits("done", Op(t)) /\ MemFits("done", Op(t), Mem(t)) /\ LockStep(t, "done")
      BY <1>2, <2>1, <3>3 DEF ReleaseCAS, At, OpFits, MemFits, LockStep, Owns, OwnerAt
    <3> QED
      BY <1>2, <2>1, <3>2, <3>3, <3>4, GoodStepInv DEF ReleaseCAS, GoodStep, At, StoresBack
  <2>2. CASE tag # Mem(t)
    <3>1. Becomes(t, "uLoad", Mem(t))
      BY <1>2, <2>2, GoBecomes DEF ReleaseCAS, PC
    <3>2. OpFits("uLoad", Op(t)) /\ MemFits("uLoad", Op(t), Mem(t)) /\ LockStep(t, "uLoad")
      BY <1>2, <2>2 DEF ReleaseCAS, At, OpFits, MemFits, LockStep, Owns, OwnerAt
    <3> QED
      BY <1>2, <2>2, <3>1, <3>2, GoodStepInv DEF ReleaseCAS, GoodStep, At, StoresBack
  <2> QED
    BY <2>1, <2>2
<1> QED
  BY <1>1, <1>2

\* The steps of EMSfaa and EMScas before the last keep the lock or abandon it.
LEMMA HeldStep ==
  ASSUME Inv, NEW t \in Threads, Owns(t), NEW p \in PC, NEW m \in Tag,
         Becomes(t, p, m), OpFits(p, Op(t)), MemFits(p, Op(t), m),
         p \notin {"wData", "wCheck", "wStore", "sStore"},
         tag' = tag, holders' = holders, data' \in Value, freed' \in BOOLEAN,
         \/ OwnerAt(p, Op(t)) /\ leaked' = leaked
         \/ ~OwnerAt(p, Op(t)) /\ leaked' = TRUE
  PROVE  Inv'
  BY ThreadFacts, GoodStepInv DEF GoodStep, LockStep, StoresBack, At, Owns, OwnerAt

\* The last step of EMSfaa and EMScas stores a FULL tag.
LEMMA FullStep ==
  ASSUME Inv, NEW t \in Threads, Owns(t), Go(t, "done"),
         tag' \in Tag, tag'.fe = "FULL", UNCHANGED <<data, freed, holders, leaked>>
  PROVE  Inv'
<1>1. Becomes(t, "done", Mem(t))
  BY ThreadFacts, GoBecomes DEF PC
<1>2. OpFits("done", Op(t)) /\ MemFits("done", Op(t), Mem(t)) /\ LockStep(t, "done")
  BY ThreadFacts DEF OpFits, MemFits, LockStep, Owns, OwnerAt
<1> QED
  BY <1>1, <1>2, ThreadFacts, GoodStepInv DEF GoodStep, StoresBack, At, Owns, OwnerAt

\* An error return that leaves the tag BUSY keeps the invariant.
LEMMA ErrorStep ==
  ASSUME Inv, NEW t \in Threads, Owns(t), ReturnHolding(t), UNCHANGED <<tag, data, holders>>,
         freed' \in BOOLEAN
  PROVE  Inv'
<1>1. Becomes(t, "done", Mem(t))
  BY ThreadFacts, IdleType, ReturnBecomes DEF ReturnHolding
<1>2. OpFits("done", Op(t)) /\ MemFits("done", Op(t), Mem(t)) /\ ~OwnerAt("done", Op(t))
  BY ThreadFacts DEF OpFits, MemFits, Owns, OwnerAt
<1> QED
  BY <1>1, <1>2, ThreadFacts, HeldStep DEF ReturnHolding, PC

\* EMSfaa keeps the invariant.
LEMMA FaaSteps ==
  ASSUME Inv, NEW t \in Threads, FaaRead(t) \/ FaaWrite(t) \/ FaaStore(t)
  PROVE  Inv'
<1> USE ElementAssumption, ThreadFacts
<1>0. Owns(t) /\ Op(t) = "faa" /\ Op(t) \in Ops /\ Mem(t).type \in Type
  BY DEF FaaRead, FaaWrite, FaaStore, At, Owns, OwnerAt, OpFits, Tag
<1>1. CASE FaaRead(t)
  <2>1. ASSUME NEW v \in Contents(t), GoRet(t, "fWrite", Ok(Mem(t).type, v)), leaked' = leaked
        PROVE  Inv'
    <3>0. v \in Value
      BY ContentsValue
    <3>1. Becomes(t, "fWrite", Mem(t))
      BY <1>0, <2>1, <3>0, OkType, GoRetBecomes DEF PC
    <3>2. OpFits("fWrite", Op(t)) /\ MemFits("fWrite", Op(t), Mem(t)) /\ OwnerAt("fWrite", Op(t))
      BY <1>0 DEF OpFits, MemFits, OwnerAt, Readers, Writers, Waiters, Setters
    <3> QED
      BY <1>0, <1>1, <2>1, <3>1, <3>2, HeldStep DEF FaaRead, PC
  <2>2. CASE ReturnHolding(t)
    BY <1>0, <1>1, <2>2, ErrorStep DEF FaaRead
  <2> QED
    BY <1>1, <2>1, <2>2 DEF FaaRead
<1>2. CASE FaaWrite(t)
  <2>0. PICK a \in Contents(t) :
          \/ /\ data' = Sum[a][loc[t].arg] /\ freed' \in {freed, FALSE} /\ leaked' = leaked
             /\ GoWith(t, "fStore", [Mem(t) EXCEPT !.type = FaaType(Mem(t).type, a, loc[t].arg)])
          \/ ReturnHolding(t) /\ data' = data /\ freed' = freed
    BY <1>2 DEF FaaWrite
  <2> DEFINE m == [Mem(t) EXCEPT !.type = FaaType(Mem(t).type, a, loc[t].arg)]
  <2>1. Sum[a][loc[t].arg] \in Value /\ m \in Tag
    BY UpdateTags, ContentsValue
  <2>2. CASE /\ data' = Sum[a][loc[t].arg] /\ freed' \in {freed, FALSE} /\ leaked' = leaked
             /\ GoWith(t, "fStore", m)
    <3>1. Becomes(t, "fStore", m)
      BY <2>1, <2>2, GoWithBecomes DEF PC
    <3>2. OpFits("fStore", Op(t)) /\ MemFits("fStore", Op(t), m) /\ OwnerAt("fStore", Op(t))
      BY <1>0 DEF OpFits, MemFits, OwnerAt, Readers, Writers, Waiters, Setters
    <3> QED
      BY <1>0, <1>2, <2>1, <2>2, <3>1, <3>2, HeldStep DEF FaaWrite, PC
  <2>3. CASE ReturnHolding(t) /\ data' = data /\ freed' = freed
    BY <1>0, <1>2, <2>3, ErrorStep DEF FaaWrite
  <2> QED
    BY <2>0, <2>2, <2>3
<1>3. CASE FaaStore(t)
  <2>1. tag' \in Tag /\ tag'.fe = "FULL"
    BY <1>3 DEF FaaStore, Tag, FE
  <2> QED
    BY <1>0, <1>3, <2>1, FullStep DEF FaaStore
<1> QED
  BY <1>1, <1>2, <1>3

\* EMScas keeps the invariant.
LEMMA CasSteps ==
  ASSUME Inv, NEW t \in Threads, CasType(t) \/ CasRead(t) \/ CasWrite(t) \/ CasStore(t)
  PROVE  Inv'
<1> USE ElementAssumption, ThreadFacts
<1>0. /\ Owns(t) /\ Op(t) = "cas" /\ Mem(t).type \in Type
      /\ \A p \in {"cRead", "cWrite", "cStore"}, m \in Tag :
           OpFits(p, Op(t)) /\ MemFits(p, Op(t), m) /\ OwnerAt(p, Op(t))
  BY DEF CasType, CasRead, CasWrite, CasStore, At, Owns, OwnerAt, OpFits, MemFits, Tag,
         Readers, Writers, Waiters, Setters
<1>1. CASE CasType(t)
  <2>1. Becomes(t, "cRead", tag)
    BY <1>1, GoWithBecomes DEF CasType, PC
  <2> QED
    BY <1>0, <1>1, <2>1, HeldStep DEF CasType, PC
<1>2. CASE CasRead(t)
  <2>1. CASE ReturnHolding(t)
    BY <1>0, <1>2, <2>1, ErrorStep DEF CasRead
  <2>2. ASSUME NEW p \in {"cWrite", "cStore"}, NEW v \in Value,
               GoRet(t, p, Ok(Mem(t).type, v)), leaked' = leaked
        PROVE  Inv'
    <3>1. p \in PC /\ p \notin {"wData", "wCheck", "wStore", "sStore"} /\ Becomes(t, p, Mem(t))
      BY <1>0, <2>2, OkType, GoRetBecomes DEF PC
    <3> QED
      BY <1>0, <1>2, <2>2, <3>1, HeldStep DEF CasRead
  <2> QED
    BY <1>2, <2>1, <2>2, ContentsValue DEF CasRead
<1>3. CASE CasWrite(t)
  <2> DEFINE m == [Mem(t) EXCEPT !.type = TypeOf[loc[t].arg]]
  <2>1. m \in Tag
    BY UpdateTags
  <2>2. CASE data' = loc[t].arg /\ freed' = FALSE /\ GoWith(t, "cStore", m) /\ leaked' = leaked
    <3>1. Becomes(t, "cStore", m)
      BY <2>1, <2>2, GoWithBecomes DEF PC
    <3> QED
      BY <1>0, <1>3, <2>1, <2>2, <3>1, HeldStep DEF CasWrite, PC
  <2>3. CASE ReturnHolding(t) /\ data' = data /\ freed' \in BOOLEAN
    BY <1>0, <1>3, <2>3, ErrorStep DEF CasWrite
  <2> QED
    BY <1>3, <2>2, <2>3 DEF CasWrite
<1>4. CASE CasStore(t)
  <2>1. tag' \in Tag /\ tag'.fe = "FULL"
    BY <1>0, <1>4 DEF CasStore, Tag, FE
  <2> QED
    BY <1>0, <1>4, <2>1, FullStep DEF CasStore
<1> QED
  BY <1>1, <1>2, <1>3, <1>4

\* What a process leaves that dies in emsMem_free.
LEMMA AbortFacts ==
  ASSUME Inv, NEW t \in Threads, Abort(t)
  PROVE  /\ Becomes(t, "aborted", Mem(t))
         /\ OpFits("aborted", Op(t)) /\ MemFits("aborted", Op(t), Mem(t))
         /\ ~OwnerAt("aborted", Op(t)) /\ UNCHANGED <<tag, data, freed, holders>>
         /\ Owns(t) => leaked' = TRUE
         /\ ~Owns(t) => leaked' = leaked
<1> USE ThreadFacts
<1>1. Becomes(t, "aborted", Mem(t))
  BY GoBecomes DEF Abort, PC
<1>2. OpFits("aborted", Op(t)) /\ MemFits("aborted", Op(t), Mem(t)) /\ ~OwnerAt("aborted", Op(t))
  BY DEF Abort, OpFits, MemFits, OwnerAt
<1>3. leaked \in BOOLEAN
  BY DEF TypeOK
<1>4. FinalFE(Op(t)) # "ANY" <=> Owns(t)
  <2>1. loc[t].pc \in {"fWrite", "cWrite"} => FinalFE(Op(t)) # "ANY"
    BY DEF OpFits, FinalFE
  <2> QED
    BY <2>1 DEF Abort, Owns, OwnerAt
<1>5. leaked' = (leaked \/ FinalFE(Op(t)) # "ANY") /\ UNCHANGED <<tag, data, freed, holders>>
  BY DEF Abort
<1>6. (Owns(t) => leaked' = TRUE) /\ (~Owns(t) => leaked' = leaked)
  BY <1>3, <1>4, <1>5
<1> QED
  BY <1>1, <1>2, <1>5, <1>6

\* The death of a process keeps the invariant: an element it held stays BUSY.
LEMMA AbortInv ==
  ASSUME Inv, NEW t \in Threads, Abort(t)
  PROVE  Inv'
<1>1. LockStep(t, "aborted")
  BY AbortFacts DEF LockStep
<1>2. ~At(t, "idle")
  BY DEF Abort, At
<1> QED
  BY <1>1, <1>2, AbortFacts, ThreadFacts, GoodStepInv DEF GoodStep, StoresBack

\* A return touches the locals of its thread only.
LEMMA FinishInv ==
  ASSUME Inv, NEW t \in Threads, Finish(t)
  PROVE  Inv'
<1>1. /\ loc' \in [Threads -> Locals] /\ loc'[t] = Idle
      /\ \A u \in Threads : u # t => loc'[u] = loc[u]
  BY IdleType DEF Inv, TypeOK, Finish
<1>2. \A u \in Threads : Owns(u)' <=> Owns(u)
  BY <1>1 DEF Finish, At, Owns, OwnerAt, Op, Idle
<1>3. TypeOK' /\ ExclusiveBusy'
  BY <1>1, <1>2 DEF Inv, TypeOK, ExclusiveBusy, Finish
<1>4. LocalInv'
  BY <1>1 DEF Inv, LocalInv, OpFits, MemFits, Op, Mem, Idle
<1>5. LockKept'
  BY <1>1 DEF Inv, LockKept, HasLock, Op, Mem, Finish, Idle
<1>6. Serial'
  BY <1>1 DEF Inv, Serial, Quiescent, Finish, At, Op, Mem, Idle
<1> QED
  BY <1>3, <1>4, <1>5, <1>6 DEF Inv

-------------------------------------------------------------------------------
\* The inductive invariant holds of every program that keeps write and setTag to
\* its serial sections.
THEOREM InvHolds == ASSUME Synchronised PROVE Spec => []Inv
<1>1. Init => Inv
  BY InvInit
<1>2. ASSUME Inv, [Next]_vars PROVE Inv'
  <2>1. CASE UNCHANGED vars
    BY <1>2, <2>1 DEF vars, Inv, TypeOK, LocalInv, ExclusiveBusy, LockKept, HasLock, Serial,
                      Quiescent, Owns, Op, Mem, At
  <2>2. ASSUME NEW t \in Threads, NEW o \in Ops, Call(t, o) PROVE Inv'
    BY <1>2, <2>2, CallInv
  <2>3. ASSUME NEW t \in Threads, Step(t) PROVE Inv'
    BY <1>2, <2>3, ReadSteps, TransitionSteps, WriteSteps, PlainWriteSteps, ReleaseSteps,
       SetSteps, FaaSteps, CasSteps, AbortInv, FinishInv DEF Step
  <2> QED
    BY <1>2, <2>1, <2>2, <2>3 DEF Next
<1> QED
  BY <1>1, <1>2, PTL DEF Spec

\* Types: in particular the reader count stays within its three bits.
THEOREM TypeCorrect == ASSUME Synchronised PROVE Spec => []TypeOK
<1>1. Inv => TypeOK
  BY DEF Inv
<1> QED
  BY <1>1, InvHolds, PTL

\* BUSY is a lock with at most one owner, whatever handlers run concurrently.
THEOREM BusyIsALock == ASSUME Synchronised PROVE Spec => []ExclusiveBusy
<1>1. Inv => ExclusiveBusy
  BY DEF Inv
<1> QED
  BY <1>1, InvHolds, PTL

\* EMSwriteUsingTags never reports "Lost tag lock while BUSY".
THEOREM WritersKeepLock == ASSUME Synchronised PROVE Spec => []LockNeverLost
<1>1. Inv => LockNeverLost
  <2> SUFFICES ASSUME Inv, NEW t \in Threads, At(t, "wCheck") PROVE HasLock(t)
    BY DEF LockNeverLost
  <2>1. Op(t) \in Writers /\ Op(t) # "write"
    BY ThreadFacts DEF At, OpFits
  <2> QED
    BY <2>1, ThreadFacts DEF At, HasLock, FinalFE, Writers
<1> QED
  BY <1>1, InvHolds, PTL

-------------------------------------------------------------------------------
(* What the lock protects: the count of readers and the agreement of the type    *)
(* bits with the data word.                                                      *)

\* Nothing takes an element away from its readers: the operations that do not wait
\* for FULL or EMPTY are not called on an element used with readRW.
Respected ==
  "readRW" \in Ops => Ops \cap {"writeXF", "writeXE", "setFull", "setEmpty"} = {}

\* The rw bits count the holders, who keep out everyone but another reader.
Counted ==
  /\ IsFiniteSet(holders)
  /\ tag.rw = Cardinality(holders)
  /\ tag.fe \in {"FULL", "EMPTY"} \/ leaked => holders = {}
  /\ tag.fe = "RW_LOCK" => holders # {}
  /\ "readRW" \notin Ops => holders = {}

\* What thread t with locals l knows of the readers.
ReadsFit(t, l) ==
  /\ l.pc = "rCAS" => l.mem.fe \in {"FULL"} \cup IF l.op = "readRW" THEN {"RW_LOCK"} ELSE {}
  /\ OwnerAt(l.pc, l.op) /\ l.op # "readRW" => holders = {}
  /\ OwnerAt(l.pc, l.op) /\ l.pc \notin {"wLoad", "cType"} => l.mem.rw = tag.rw
  /\ l.op = "readRW" /\ l.pc \in {"rLoad", "rCAS"} => t \notin holders
  /\ l.op = "readRW" /\ l.pc \in {"rData", "rStore"} => t \in holders
  /\ l.pc \in {"uLoad", "uCAS"} => t \in holders
  /\ l.pc = "done" /\ l.op = "releaseRW" => l.ret.ok

ReaderInv == Counted /\ \A t \in Threads : ReadsFit(t, loc[t])

\* read, too, is kept to serial sections.
SerialReads == "read" \in Ops => "read" \in Alone

\* EMSfaa is not asked to add a string to an undefined element, a case in which it
\* stores the string but not its type.
FaaTyped ==
  "faa" \in Ops => \A a, b \in Value : TypeOf[a] = "UNDEFINED" => TypeOf[b] # "STRING"

\* The data word of an element owned by a thread at p has the type its tag names.
TypeKept(p) == p \in {"wLoad", "wData", "rData", "rStore", "fRead", "fWrite",
                      "cType", "cRead", "cWrite"}

Typed ==
  (tag.fe # "BUSY" \/ leaked) /\ ~(\E t \in Threads : At(t, "wStore") /\ Op(t) = "write")
    => tag.type = TypeOf[data]

\* The values a read may return of an element whose tag has the right type.
Readable == {v \in Value : v = data \/ (freed /\ TypeOf[v] = TypeOf[data])}

\* The result r is one that a read may return.
Carried(r) == \E v \in Readable : r = Ok(TypeOf[data], v)

\* What a thread with locals l knows of the type and the data.
TypesFit(l) ==
  /\ OwnerAt(l.pc, l.op) /\ TypeKept(l.pc) => tag.type = TypeOf[data]
  /\ l.pc \in {"wData"} /\ l.op = "write" => tag.type = TypeOf[data]
  /\ OwnerAt(l.pc, l.op) /\ l.pc \in {"rData", "rStore", "fRead", "fWrite", "cRead", "cWrite"}
       => l.mem.type = tag.type
  /\ l.pc \in {"rData"} /\ l.op = "read" => l.mem.type = TypeOf[data]
  /\ l.pc \in {"wCheck", "wStore"} => data = l.arg
  /\ l.pc \in {"fStore", "cStore"} => l.mem.type = TypeOf[data]
  /\ l.pc \in {"fWrite", "cWrite"} => Carried(l.ret)
  /\ l.pc \in {"rStore", "fStore", "cStore"} => l.ret.type = TypeOf[l.ret.v]
  /\ l.pc = "done" /\ l.op \notin Setters \cup {"releaseRW"} /\ l.ret.ok
       => l.ret.type = TypeOf[l.ret.v]

TypedInv == Typed /\ \A t \in Threads : TypesFit(loc[t])

-------------------------------------------------------------------------------
(* The steps of a thread, seen from its own locals and from the others'.     *)

\* Thread t moves to p with loaded tag m and result r.
Moves(t, p, m, r) ==
  Becomes(t, p, m) /\ loc'[t].ret = r /\ loc'[t].arg = loc[t].arg /\ loc'[t].old = loc[t].old

\* What each way of moving a thread does to all its locals.
LEMMA GoMoves ==
  ASSUME NEW t \in Threads, NEW p \in PC, TypeOK, Go(t, p)
  PROVE  Moves(t, p, Mem(t), loc[t].ret)
<1>1. /\ loc'[t].ret = loc[t].ret /\ loc'[t].arg = loc[t].arg /\ loc'[t].old = loc[t].old
  BY DEF TypeOK, Go, Locals
<1> QED
  BY <1>1, GoBecomes DEF Moves

LEMMA GoWithMoves ==
  ASSUME NEW t \in Threads, NEW p \in PC, NEW m \in Tag, TypeOK, GoWith(t, p, m)
  PROVE  Moves(t, p, m, loc[t].ret)
<1>1. /\ loc'[t].ret = loc[t].ret /\ loc'[t].arg = loc[t].arg /\ loc'[t].old = loc[t].old
  BY DEF TypeOK, GoWith, Locals
<1> QED
  BY <1>1, GoWithBecomes DEF Moves

LEMMA GoFullMoves ==
  ASSUME NEW t \in Threads, NEW p \in PC, NEW b \in BOOLEAN, TypeOK,
         loc' = [loc EXCEPT ![t].pc = p, ![t].full = b]
  PROVE  Moves(t, p, Mem(t), loc[t].ret)
<1> DEFINE l == [loc[t] EXCEPT !.pc = p, !.full = b]
<1>1. l.ret = loc[t].ret /\ l.arg = loc[t].arg /\ l.old = loc[t].old
  BY DEF TypeOK, Locals
<1>2. loc' = [loc EXCEPT ![t] = l]
  OBVIOUS
<1> HIDE DEF l
<1>3. loc'[t] = l
  BY <1>2 DEF TypeOK
<1> QED
  BY <1>1, <1>3, GoFullBecomes DEF Moves

LEMMA GoRetMoves ==
  ASSUME NEW t \in Threads, NEW p \in PC, NEW r \in Ret, TypeOK, GoRet(t, p, r)
  PROVE  Moves(t, p, Mem(t), r)
<1>1. /\ loc'[t].ret = r /\ loc'[t].arg = loc[t].arg /\ loc'[t].old = loc[t].old
  BY DEF TypeOK, GoRet, Locals
<1> QED
  BY <1>1, GoRetBecomes DEF Moves

LEMMA ReturnMoves ==
  ASSUME NEW t \in Threads, NEW r \in Ret, TypeOK, Return(t, r)
  PROVE  Moves(t, "done", Mem(t), r)
  BY GoRetMoves DEF Return, PC

\* A read-modify-write that has stored its tag returns what it carried.
LEMMA DoneFits ==
  ASSUME NEW t \in Threads, NEW m, Moves(t, "done", m, loc[t].ret),
         loc[t].pc \in {"rStore", "fStore", "cStore"}, TypesFit(loc[t])
  PROVE  TypesFit(loc[t])'
<1>1. loc'[t].pc = "done" /\ loc'[t].op = loc[t].op /\ loc'[t].ret = loc[t].ret
  BY DEF Moves, Becomes
<1>2. loc[t].ret.type = TypeOf[loc[t].ret.v]
  BY DEF TypesFit
<1>3. ~OwnerAt("done", loc[t].op)
  BY DEF OwnerAt
<1> QED
  BY <1>1, <1>2, <1>3 DEF TypesFit

\* A step of one thread leaves the locals of the others alone.
LEMMA OthersStay ==
  ASSUME TypeOK, NEW t \in Threads, NEW u \in Threads, u # t, Step(t)
  PROVE  loc'[u] = loc[u]
  BY DEF TypeOK, Step, ReadLoad, ReadCAS, ReadData, ReadStore, TransitionLoad, TransitionCAS,
         WriteLoad, WriteCAS, WriteData, WriteCheck, WriteStore, ReleaseLoad, ReleaseCAS,
         SetLoad, SetStore, FaaRead, FaaWrite, FaaStore, CasType, CasRead, CasWrite, CasStore,
         Abort, Finish, Go, GoWith, GoRet, Return, ReturnHolding

\* While a thread owns the element no other thread changes the tag or the data.
LEMMA OwnerUndisturbed ==
  ASSUME Synchronised, Inv, NEW t \in Threads, NEW u \in Threads, u # t, Owns(u), Step(t)
  PROVE  tag' = tag /\ data' = data /\ freed' = freed /\ leaked' = leaked
<1>1. tag.fe = "BUSY" /\ ~Owns(t) /\ ~Quiescent(t)
  BY DEF Inv, ExclusiveBusy, Quiescent, At, Owns, OwnerAt
<1>2. ~At(t, "idle") => Op(t) \notin Alone
  BY <1>1, ThreadFacts
<1>3. ReadLoad(t) \/ ReadCAS(t) \/ ReadData(t) \/ ReadStore(t) => UNCHANGED <<tag, data, freed, leaked>>
  BY <1>1, ThreadFacts DEF ReadLoad, ReadCAS, ReadData, ReadStore, At, MemFits, Owns, OwnerAt
<1>4. TransitionLoad(t) \/ TransitionCAS(t) => UNCHANGED <<tag, data, freed, leaked>>
  <2>1. TransitionCAS(t) => InitialFE(Op(t)) # "BUSY" /\ Mem(t) \in Tag
    BY ThreadFacts DEF TransitionCAS, At, InitialFE, OpFits, Waiters
  <2>2. TransitionCAS(t) => [Mem(t) EXCEPT !.fe = InitialFE(Op(t))].fe # "BUSY"
    BY <2>1 DEF Tag
  <2> QED
    BY <1>1, <2>2 DEF TransitionLoad, TransitionCAS
<1>5. CASE WriteLoad(t) \/ WriteCAS(t) \/ WriteData(t) \/ WriteCheck(t) \/ WriteStore(t)
  <2>1. Op(t) \in {"writeXF", "writeXE", "writeEF"}
    BY <1>2, <1>5, ThreadFacts
       DEF WriteLoad, WriteCAS, WriteData, WriteCheck, WriteStore, At, OpFits, Writers, Synchronised
  <2>2. ~WriteData(t) /\ ~WriteStore(t)
    BY <1>1, <2>1 DEF WriteData, WriteStore, At, Owns, OwnerAt, FinalFE
  <2> QED
    BY <1>1, <1>5, <2>2, ThreadFacts DEF WriteLoad, WriteCAS, WriteCheck, At, MemFits
<1>6. ReleaseLoad(t) \/ ReleaseCAS(t) => UNCHANGED <<tag, data, freed, leaked>>
  BY <1>1, ThreadFacts DEF ReleaseLoad, ReleaseCAS, At, MemFits
<1>7. ~SetLoad(t) /\ ~SetStore(t)
  BY <1>2, ThreadFacts DEF SetLoad, SetStore, At, OpFits, Setters, Synchronised
<1>8. /\ ~FaaRead(t) /\ ~FaaWrite(t) /\ ~FaaStore(t)
      /\ ~CasType(t) /\ ~CasRead(t) /\ ~CasWrite(t) /\ ~CasStore(t)
  BY <1>1 DEF FaaRead, FaaWrite, FaaStore, CasType, CasRead, CasWrite, CasStore, At, Owns, OwnerAt
<1>9. ~Abort(t)
  <2> SUFFICES ASSUME Abort(t) PROVE FALSE
    OBVIOUS
  <2>1. loc[t].pc = "wData" /\ Op(t) = "write"
    BY <1>1, ThreadFacts DEF Abort, Owns, OwnerAt, OpFits, FinalFE, Writers
  <2> QED
    BY <1>2, <2>1, ThreadFacts DEF At, OpFits, Synchronised
<1> QED
  BY <1>3, <1>4, <1>5, <1>6, <1>7, <1>8, <1>9 DEF Step, Finish

-------------------------------------------------------------------------------
(* The readers *)

\* A step of t that keeps the count, given what it does to t and to the count.
LEMMA ReaderStep ==
  ASSUME Synchronised, Inv, ReaderInv, NEW t \in Threads, Step(t), Counted', ReadsFit(t, loc[t])',
         \A u \in Threads : u # t => (u \in holders' <=> u \in holders),
         tag.fe = "BUSY" /\ ~Owns(t) => holders' = holders
  PROVE  ReaderInv'
<1> SUFFICES ASSUME NEW u \in Threads, u # t PROVE ReadsFit(u, loc[u])'
  BY DEF ReaderInv
<1>1. loc'[u] = loc[u] /\ ReadsFit(u, loc[u])
  BY OthersStay, ThreadFacts DEF ReaderInv
<1>2. Owns(u) => tag' = tag /\ holders' = holders
  BY OwnerUndisturbed DEF Inv, ExclusiveBusy
<1> QED
  BY <1>1, <1>2 DEF ReadsFit, Owns, Op

\* A step that changes neither the holders nor what the tag says of them.
LEMMA ReaderQuietStep ==
  ASSUME Synchronised, Inv, ReaderInv, NEW t \in Threads, Step(t), holders' = holders,
         tag'.fe = tag.fe, tag'.rw = tag.rw, leaked' = leaked \/ holders = {},
         ReadsFit(t, loc[t])'
  PROVE  ReaderInv'
<1>1. Counted'
  BY DEF ReaderInv, Counted
<1> QED
  BY <1>1, ReaderStep

\* A step on an element without holders.
LEMMA ReaderVacantStep ==
  ASSUME Synchronised, Inv, ReaderInv, NEW t \in Threads, Step(t), holders = {}, holders' = {},
         tag'.fe # "RW_LOCK", tag'.rw = 0, ReadsFit(t, loc[t])'
  PROVE  ReaderInv'
<1>1. Counted'
  BY FS_EmptySet DEF Counted
<1> QED
  BY <1>1, ReaderStep

\* What the invariant gives about the holders to a thread that takes a step.
LEMMA HolderFacts ==
  ASSUME Inv, ReaderInv, NEW t \in Threads
  PROVE  /\ ReadsFit(t, loc[t]) /\ Counted
         /\ holders = {} => tag.rw = 0
         /\ Owns(t) /\ Op(t) # "readRW" => holders = {}
         /\ Owns(t) /\ loc[t].pc \notin {"wLoad", "cType"} => Mem(t).rw = tag.rw
  BY FS_EmptySet DEF ReaderInv, Counted, ReadsFit, Owns, Op, Mem

\* EMSreadUsingTags keeps the count of readers.
LEMMA ReaderReadSteps ==
  ASSUME Synchronised, Inv, ReaderInv, NEW t \in Threads, Step(t),
         ReadLoad(t) \/ ReadCAS(t) \/ ReadData(t) \/ ReadStore(t)
  PROVE  ReaderInv'
<1> USE ElementAssumption, ThreadFacts, HolderFacts
<1>1. CASE ReadLoad(t)
  <2> DEFINE p == IF ~ReadReady(tag, Op(t), loc[t].full) THEN "rLoad"
                  ELSE IF InitialFE(Op(t)) = "ANY" THEN "rData" ELSE "rCAS"
  <2>1. p \in PC /\ Moves(t, p, tag, loc[t].ret)
    BY <1>1, GoWithMoves DEF ReadLoad, PC
  <2>2. p = "rCAS" => tag.fe \in {"FULL"} \cup IF Op(t) = "readRW" THEN {"RW_LOCK"} ELSE {}
    BY <1>1 DEF ReadLoad, At, ReadReady, InitialFE, OpFits, Readers
  <2>3. p = "rData" => Op(t) = "read"
    BY <1>1 DEF ReadLoad, At, InitialFE, OpFits, Readers
  <2>4. p \in {"rLoad", "rCAS", "rData"} /\ (Op(t) = "readRW" => t \notin holders)
    BY <1>1 DEF ReadLoad, At, ReadsFit, Op
  <2> HIDE DEF p
  <2>5. ReadsFit(t, loc[t])'
    BY <1>1, <2>1, <2>2, <2>3, <2>4 DEF ReadLoad, Moves, Becomes, ReadsFit, OwnerAt, FinalFE, Op
  <2> QED
    BY <1>1, <2>5, ReaderQuietStep DEF ReadLoad
<1>2. CASE ReadCAS(t)
  <2>0. Op(t) \in {"readRW", "readFE", "readFF"}
    BY <1>2 DEF ReadCAS, At, OpFits, Readers
  <2>1. CASE tag = Mem(t)
    <3>0. ReadTag(t) \in Tag
      <4>1. Op(t) = "readRW" => Mem(t).rw + 1 \in 0 .. RWMax
        BY <1>2 DEF ReadCAS, At, MemFits, Tag
      <4> QED
        BY <4>1 DEF ReadTag, Tag
    <3>1. Moves(t, "rData", ReadTag(t), loc[t].ret)
      BY <1>2, <2>1, <3>0, GoWithMoves DEF ReadCAS, PC
    <3>2. tag'.fe = "BUSY" /\ tag'.rw = ReadTag(t).rw /\ leaked' = leaked
      BY <1>2, <2>1, <3>0 DEF ReadCAS, Busy, Tag
    <3>3. tag.fe \in {"FULL", "RW_LOCK"} /\ (Op(t) # "readRW" => tag.fe = "FULL") /\ ~leaked
      BY <1>2, <2>1 DEF ReadCAS, At, ReadsFit, Op, Mem, Inv, ExclusiveBusy
    <3>4. CASE Op(t) = "readRW"
      <4>1. holders' = holders \cup {t} /\ t \notin holders
        BY <1>2, <2>1, <3>4 DEF ReadCAS, At, ReadsFit, Op
      <4>2. tag'.rw = tag.rw + 1
        BY <2>1, <3>2, <3>4 DEF ReadTag, Tag
      <4>3. Counted'
        <5>1. "readRW" \in Ops
          BY <1>2, <3>4 DEF ReadCAS, At, OpFits
        <5>2. IsFiniteSet(holders) /\ tag.rw = Cardinality(holders)
          BY DEF Counted
        <5>3. IsFiniteSet(holders') /\ Cardinality(holders') = Cardinality(holders) + 1
          BY <4>1, <5>2, FS_AddElement
        <5>4. holders' # {}
          BY <4>1
        <5>5. tag'.rw = Cardinality(holders')
          BY <4>2, <5>2, <5>3
        <5>6. ~leaked' /\ tag'.fe \notin {"FULL", "EMPTY"}
          BY <3>2, <3>3
        <5> QED
          BY <5>1, <5>3, <5>4, <5>5, <5>6 DEF Counted
      <4>4. ReadsFit(t, loc[t])'
        BY <3>1, <3>2, <3>4, <4>1 DEF Moves, Becomes, ReadsFit, Op
      <4> QED
        BY <3>3, <4>1, <4>3, <4>4, ReaderStep
    <3>5. CASE Op(t) # "readRW"
      <4>1. holders' = {} /\ holders = {} /\ tag'.rw = 0 /\ ReadTag(t).rw = 0
        BY <1>2, <2>1, <3>2, <3>3, <3>5 DEF ReadCAS, Counted, ReadTag
      <4>2. ReadsFit(t, loc[t])'
        BY <2>0, <3>1, <3>2, <3>5, <4>1 DEF Moves, Becomes, ReadsFit, Op
      <4> QED
        BY <3>2, <4>1, <4>2, ReaderVacantStep
    <3> QED
      BY <3>4, <3>5
  <2>2. CASE tag # Mem(t)
    <3>1. Moves(t, "rLoad", Mem(t), loc[t].ret)
      <4>1. PICK b \in BOOLEAN : loc' = [loc EXCEPT ![t].pc = "rLoad", ![t].full = b]
        BY <1>2, <2>2 DEF ReadCAS
      <4> QED
        BY <4>1, GoFullMoves DEF PC
    <3>2. UNCHANGED <<tag, holders, leaked>>
      BY <1>2, <2>2 DEF ReadCAS
    <3>3. ReadsFit(t, loc[t])'
      BY <1>2, <3>1, <3>2 DEF ReadCAS, At, Moves, Becomes, ReadsFit, OwnerAt, Op
    <3> QED
      BY <3>2, <3>3, ReaderQuietStep
  <2> QED
    BY <2>1, <2>2
<1>3. CASE ReadData(t)
  <2> DEFINE p == IF FinalFE(Op(t)) = "ANY" THEN "done" ELSE "rStore"
  <2>0. PICK v \in Value : GoRet(t, p, Ok(Mem(t).type, v))
    BY <1>3, ContentsValue DEF ReadData
  <2>1. Moves(t, p, Mem(t), Ok(Mem(t).type, v))
    BY <2>0, GoRetMoves, OkType DEF PC, Tag
  <2>2. p \in {"done", "rStore"} /\ (p = "rStore" => Owns(t)) /\ Op(t) \in Readers
    BY <1>3 DEF ReadData, At, Owns, OwnerAt, OpFits
  <2> HIDE DEF p
  <2>3. ReadsFit(t, loc[t])'
    BY <1>3, <2>1, <2>2 DEF ReadData, At, Moves, Becomes, ReadsFit, OwnerAt, Readers, Op, Mem
  <2> QED
    BY <1>3, <2>3, ReaderQuietStep DEF ReadData
<1>4. CASE ReadStore(t)
  <2>1. Moves(t, "done", Mem(t), loc[t].ret)
    BY <1>4, GoMoves DEF ReadStore, PC
  <2>2. Owns(t) /\ Op(t) \in {"readRW", "readFE", "readFF"}
    BY <1>4 DEF ReadStore, At, Owns, OwnerAt, OpFits, Readers
  <2>3. tag'.fe = FinalFE(Op(t)) /\ tag'.rw = tag.rw
    BY <1>4, <2>2 DEF ReadStore, At, Tag
  <2>4. ReadsFit(t, loc[t])'
    BY <2>1, <2>2 DEF Moves, Becomes, ReadsFit, OwnerAt, Op
  <2>5. CASE Op(t) = "readRW"
    <3>1. t \in holders /\ holders' = holders /\ leaked' = leaked /\ ~leaked
      BY <1>4, <2>2, <2>5 DEF ReadStore, At, ReadsFit, Op, Inv, ExclusiveBusy
    <3>2. Counted'
      BY <2>3, <2>5, <3>1 DEF Counted, FinalFE, OpFits
    <3> QED
      BY <2>4, <3>1, <3>2, ReaderStep
  <2>6. CASE Op(t) # "readRW"
    <3>1. holders = {} /\ holders' = {} /\ tag'.rw = 0 /\ tag'.fe # "RW_LOCK"
      BY <1>4, <2>2, <2>3, <2>6 DEF ReadStore, FinalFE
    <3> QED
      BY <2>4, <3>1, ReaderVacantStep
  <2> QED
    BY <2>5, <2>6
<1> QED
  BY <1>1, <1>2, <1>3, <1>4

\* The loads and the compare-and-swaps of EMStransitionFEtag.
LEMMA ReaderTransitionSteps ==
  ASSUME Synchronised, Inv, ReaderInv, NEW t \in Threads, Step(t),
         TransitionLoad(t) \/ TransitionCAS(t)
  PROVE  ReaderInv'
<1> USE ElementAssumption, ThreadFacts, HolderFacts
<1>0. Op(t) \in Waiters
  BY DEF TransitionLoad, TransitionCAS, At, OpFits
<1>1. CASE TransitionLoad(t)
  <2>1. Moves(t, "tCAS", tag, loc[t].ret)
    BY <1>1, GoWithMoves DEF TransitionLoad, PC
  <2>2. ReadsFit(t, loc[t])'
    BY <1>0, <2>1 DEF Moves, Becomes, ReadsFit, OwnerAt, Waiters, Op
  <2> QED
    BY <1>1, <2>2, ReaderQuietStep DEF TransitionLoad
<1>2. CASE TransitionCAS(t)
  <2> DEFINE old == [Mem(t) EXCEPT !.fe = InitialFE(Op(t))]
             p   == Resume(Op(t))
  <2>1. InitialFE(Op(t)) \in {"FULL", "EMPTY"}
    BY <1>0 DEF InitialFE, Waiters
  <2>2. old \in Tag /\ old.fe = InitialFE(Op(t)) /\ Busy(old) \in Tag
        /\ Busy(old).fe = "BUSY" /\ Busy(old).rw = old.rw
    BY <2>1 DEF Tag, FE, Busy
  <2>3. CASE tag = old
    <3>1. p \in PC /\ Moves(t, p, Busy(old), loc[t].ret)
      BY <1>2, <2>2, <2>3, GoWithMoves DEF TransitionCAS, Resume, PC
    <3>2. /\ holders = {} /\ holders' = {} /\ tag' = Busy(old)
          /\ tag'.rw = 0 /\ Busy(old).rw = 0 /\ tag'.fe # "RW_LOCK"
      BY <1>2, <2>1, <2>2, <2>3 DEF TransitionCAS, Counted
    <3>3. ReadsFit(t, loc[t])'
      BY <1>0, <3>1, <3>2 DEF Moves, Becomes, ReadsFit, Resume, Waiters, Op
    <3> QED
      BY <3>2, <3>3, ReaderVacantStep
  <2>4. CASE tag # old
    <3>1. Moves(t, "tLoad", Mem(t), loc[t].ret)
      BY <1>2, <2>4, GoMoves DEF TransitionCAS, PC
    <3>2. ReadsFit(t, loc[t])'
      BY <1>0, <3>1 DEF Moves, Becomes, ReadsFit, OwnerAt, Waiters, Op
    <3> QED
      BY <1>2, <2>4, <3>2, ReaderQuietStep DEF TransitionCAS
  <2> QED
    BY <2>3, <2>4
<1> QED
  BY <1>1, <1>2

\* Writers find no reader: writeEF waits for EMPTY, the others are not used with readRW
\* except write, which leaves the count and the state as they are.
LEMMA ReaderWriteSteps ==
  ASSUME Synchronised, Respected, Inv, ReaderInv, NEW t \in Threads, Step(t),
         WriteLoad(t) \/ WriteCAS(t) \/ WriteData(t) \/ WriteCheck(t) \/ WriteStore(t)
  PROVE  ReaderInv'
<1> USE ElementAssumption, ThreadFacts, HolderFacts
<1>0. Op(t) \in Writers
  BY DEF WriteLoad, WriteCAS, WriteData, WriteCheck, WriteStore, At, OpFits
<1>1. ASSUME NEW p \in {"wLoad", "wCAS", "wData", "wCheck", "wStore", "done"}, NEW m, NEW r,
             Moves(t, p, m, r),
             OwnerAt(p, Op(t)) => holders' = {} /\ (p # "wLoad" => m.rw = tag'.rw)
      PROVE  ReadsFit(t, loc[t])'
  BY <1>0, <1>1 DEF Moves, Becomes, ReadsFit, Writers, Op
<1>2. CASE WriteLoad(t)
  <2> DEFINE p == IF InitialFE(Op(t)) # "ANY" \/ FinalFE(Op(t)) = "ANY" THEN "wData"
                  ELSE IF tag.fe # "BUSY" THEN "wCAS" ELSE "wLoad"
  <2>1. p \in {"wLoad", "wCAS", "wData"} /\ Moves(t, p, tag, loc[t].ret)
    BY <1>2, GoWithMoves DEF WriteLoad, PC
  <2>2. OwnerAt(p, Op(t)) => Owns(t)
    BY <1>0, <1>2 DEF WriteLoad, At, Owns, OwnerAt, InitialFE, FinalFE, Writers
  <2> HIDE DEF p
  <2>3. holders' = holders /\ tag' = tag /\ leaked' = leaked /\ Op(t) # "readRW"
    BY <1>0, <1>2 DEF WriteLoad, Writers
  <2>4. OwnerAt(p, Op(t)) => holders' = {} /\ (p # "wLoad" => tag.rw = tag'.rw)
    BY <2>2, <2>3
  <2>5. ReadsFit(t, loc[t])'
    BY <1>1, <2>1, <2>4
  <2> QED
    BY <2>3, <2>5, ReaderQuietStep
<1>3. CASE WriteCAS(t)
  <2>1. CASE tag = Mem(t)
    <3>1. Moves(t, "wData", Mem(t), loc[t].ret)
      BY <1>3, <2>1, GoMoves DEF WriteCAS, PC
    <3>2. holders = {} /\ holders' = {}
      BY <1>3 DEF WriteCAS, At, OpFits, Counted, Respected
    <3>3. tag'.fe = "BUSY" /\ tag'.rw = 0 /\ Mem(t).rw = 0
      BY <1>3, <2>1, <3>2 DEF WriteCAS, Busy, Tag
    <3>4. ReadsFit(t, loc[t])'
      BY <1>1, <3>1, <3>2, <3>3
    <3> QED
      BY <3>2, <3>3, <3>4, ReaderVacantStep
  <2>2. CASE tag # Mem(t)
    <3>1. Moves(t, "wLoad", Mem(t), loc[t].ret)
      BY <1>3, <2>2, GoMoves DEF WriteCAS, PC
    <3>2. ~OwnerAt("wLoad", Op(t))
      BY <1>3 DEF WriteCAS, At, OpFits, OwnerAt
    <3>3. ReadsFit(t, loc[t])'
      BY <1>1, <3>1, <3>2
    <3> QED
      BY <1>3, <2>2, <3>3, ReaderQuietStep DEF WriteCAS
  <2> QED
    BY <2>1, <2>2
<1>4. CASE WriteData(t)
  <2>0. /\ tag' = tag /\ holders' = holders /\ Op(t) # "readRW"
        /\ FinalFE(Op(t)) # "ANY" => Owns(t) /\ holders = {} /\ Mem(t).rw = tag.rw
    BY <1>0, <1>4 DEF WriteData, At, Owns, OwnerAt, Writers
  <2>1. CASE leaked' = leaked /\ \E p \in {"wStore", "wCheck"} : 
               Go(t, p) /\ (p = "wCheck" => FinalFE(Op(t)) # "ANY")
    <3>1. PICK p \in {"wStore", "wCheck"} :
            Moves(t, p, Mem(t), loc[t].ret) /\ (p = "wCheck" => FinalFE(Op(t)) # "ANY")
      BY <2>1, GoMoves DEF PC
    <3>2. OwnerAt(p, Op(t)) => FinalFE(Op(t)) # "ANY"
      BY <3>1 DEF OwnerAt
    <3>3. ReadsFit(t, loc[t])'
      BY <1>1, <2>0, <3>1, <3>2
    <3> QED
      BY <2>0, <2>1, <3>3, ReaderQuietStep
  <2>2. CASE Return(t, NoRet) /\ (leaked' = leaked \/ FinalFE(Op(t)) # "ANY")
    <3>1. Moves(t, "done", Mem(t), NoRet)
      BY <2>2, IdleType, ReturnMoves
    <3>2. ReadsFit(t, loc[t])'
      BY <1>1, <3>1 DEF OwnerAt
    <3> QED
      BY <2>0, <2>2, <3>2, ReaderQuietStep
  <2> QED
    BY <1>4, <2>1, <2>2 DEF WriteData, ReturnHolding
<1>5. CASE WriteCheck(t)
  <2>0. Owns(t) /\ Op(t) # "readRW"
    BY <1>0, <1>5 DEF WriteCheck, At, Owns, OwnerAt, Writers
  <2>1. PICK p \in {"wStore", "done"}, r \in Ret : Moves(t, p, Mem(t), r)
    BY <1>5, GoMoves, ReturnMoves, IdleType DEF WriteCheck, PC, TypeOK, Locals
  <2>2. ReadsFit(t, loc[t])'
    BY <1>1, <1>5, <2>0, <2>1 DEF WriteCheck, At
  <2> QED
    BY <1>5, <2>2, ReaderQuietStep DEF WriteCheck
<1>6. CASE WriteStore(t)
  <2>1. TypeOf[loc[t].arg] \in Type
    OBVIOUS
  <2>2. Moves(t, "done", Mem(t), Ok(TypeOf[loc[t].arg], loc[t].arg))
    BY <1>6, <2>1, OkType, ReturnMoves DEF WriteStore
  <2>3. ReadsFit(t, loc[t])'
    BY <1>1, <2>2 DEF OwnerAt
  <2>4. CASE FinalFE(Op(t)) = "ANY"
    <3>1. Mem(t) = tag
      BY <1>0, <1>6, <2>4 DEF WriteStore, At, StoresBack, FinalFE, Writers
    <3>2. tag'.fe = tag.fe /\ tag'.rw = tag.rw
      BY <1>6, <2>1, <2>4, <3>1 DEF WriteStore, WriteTag, Tag
    <3> QED
      BY <1>6, <2>3, <3>2, ReaderQuietStep DEF WriteStore
  <2>5. CASE FinalFE(Op(t)) # "ANY"
    <3>1. Owns(t) /\ Op(t) # "readRW" /\ tag'.rw = 0 /\ tag'.fe = FinalFE(Op(t))
      BY <1>0, <1>6, <2>5 DEF WriteStore, At, Owns, OwnerAt, WriteTag, Writers
    <3>2. tag'.fe # "RW_LOCK" /\ holders = {} /\ holders' = {}
      BY <1>0, <1>6, <3>1 DEF WriteStore, FinalFE, Writers
    <3> QED
      BY <2>3, <3>1, <3>2, ReaderVacantStep
  <2> QED
    BY <2>4, <2>5
<1> QED
  BY <1>2, <1>3, <1>4, <1>5, <1>6

\* EMSreleaseRW finds the element RW_LOCK or BUSY, never empty of readers.
LEMMA ReaderReleaseSteps ==
  ASSUME Synchronised, Inv, ReaderInv, NEW t \in Threads, Step(t),
         ReleaseLoad(t) \/ ReleaseCAS(t)
  PROVE  ReaderInv'
<1> USE ElementAssumption, ThreadFacts, HolderFacts
<1>0. t \in holders /\ Op(t) = "releaseRW" /\ tag.rw \in Nat
  BY DEF ReleaseLoad, ReleaseCAS, At, ReadsFit, OpFits, Tag
<1>1. CASE ReleaseLoad(t)
  <2>1. ~(tag.fe \in {"FULL", "EMPTY"} \/ (tag.fe = "RW_LOCK" /\ tag.rw = 0))
    BY <1>0, FS_EmptySet DEF Counted
  <2>2. PICK p \in {"uCAS", "uLoad"} : GoWith(t, p, tag) /\ UNCHANGED holders
    BY <1>1, <2>1 DEF ReleaseLoad
  <2>3. Moves(t, p, tag, loc[t].ret)
    BY <2>2, GoWithMoves DEF PC
  <2>4. ReadsFit(t, loc[t])'
    BY <1>0, <2>2, <2>3 DEF Moves, Becomes, ReadsFit, OwnerAt, Op
  <2> QED
    BY <1>1, <2>2, <2>4, ReaderQuietStep DEF ReleaseLoad
<1>2. CASE ReleaseCAS(t)
  <2>1. CASE tag = Mem(t)
    <3>1. AnyValue \in Value /\ "INTEGER" \in Type
      BY AnyValueType DEF Type
    <3>2. Moves(t, "done", Mem(t), Ok("INTEGER", AnyValue))
      BY <1>2, <2>1, <3>1, OkType, ReturnMoves DEF ReleaseCAS
    <3>3. ReadsFit(t, loc[t])'
      BY <1>0, <3>2 DEF Moves, Becomes, ReadsFit, OwnerAt, Ok, Op
    <3>4. /\ tag.fe = "RW_LOCK" /\ tag.rw > 0 /\ tag'.rw = tag.rw - 1
          /\ tag'.fe = IF tag.rw = 1 THEN "FULL" ELSE "RW_LOCK"
          /\ holders' = holders \ {t} /\ leaked' = leaked /\ ~leaked
      BY <1>2, <2>1 DEF ReleaseCAS, ReleasedTag, At, MemFits, Inv, ExclusiveBusy
    <3>5. /\ IsFiniteSet(holders') /\ Cardinality(holders') = Cardinality(holders) - 1
          /\ Cardinality(holders') = 0 <=> holders' = {}
      BY <1>0, <3>4, FS_RemoveElement, FS_EmptySet DEF Counted
    <3>6. Counted'
      BY <1>0, <3>4, <3>5 DEF Counted
    <3> QED
      BY <3>3, <3>4, <3>6, ReaderStep
  <2>2. CASE tag # Mem(t)
    <3>1. Moves(t, "uLoad", Mem(t), loc[t].ret)
      BY <1>2, <2>2, GoMoves DEF ReleaseCAS, PC
    <3>2. ReadsFit(t, loc[t])'
      BY <1>0, <1>2, <2>2, <3>1 DEF ReleaseCAS, Moves, Becomes, ReadsFit, OwnerAt, Op
    <3> QED
      BY <1>2, <2>2, <3>2, ReaderQuietStep DEF ReleaseCAS
  <2> QED
    BY <2>1, <2>2
<1> QED
  BY <1>1, <1>2

\* setTag is not used on an element with readers.
LEMMA ReaderSetSteps ==
  ASSUME Synchronised, Respected, Inv, ReaderInv, NEW t \in Threads, Step(t),
         SetLoad(t) \/ SetStore(t)
  PROVE  ReaderInv'
<1> USE ElementAssumption, ThreadFacts, HolderFacts
<1>0. Op(t) \in Setters /\ holders = {} /\ (At(t, "sStore") => Mem(t) = tag)
  BY DEF SetLoad, SetStore, At, OpFits, Setters, Counted, Respected, StoresBack
<1>1. CASE SetLoad(t)
  <2>1. Moves(t, "sStore", tag, loc[t].ret)
    BY <1>1, GoWithMoves DEF SetLoad, PC
  <2>2. ReadsFit(t, loc[t])'
    BY <1>0, <2>1 DEF Moves, Becomes, ReadsFit, OwnerAt, Setters, Op
  <2> QED
    BY <1>1, <2>2, ReaderQuietStep DEF SetLoad
<1>2. CASE SetStore(t)
  <2>1. AnyValue \in Value /\ "BOOLEAN" \in Type
    BY AnyValueType DEF Type
  <2>2. Moves(t, "done", Mem(t), Ok("BOOLEAN", AnyValue))
    BY <1>2, <2>1, OkType, ReturnMoves DEF SetStore
  <2>3. ReadsFit(t, loc[t])'
    BY <1>0, <2>2 DEF Moves, Becomes, ReadsFit, OwnerAt, Setters, Op
  <2>4. holders' = {} /\ tag'.rw = 0 /\ tag'.fe # "RW_LOCK"
    BY <1>0, <1>2 DEF SetStore, Tag
  <2> QED
    BY <1>0, <2>3, <2>4, ReaderVacantStep
<1> QED
  BY <1>1, <1>2

\* EMSfaa and EMScas waited for FULL: there are no readers while they own the element.
LEMMA ReaderUpdateSteps ==
  ASSUME Synchronised, Inv, ReaderInv, NEW t \in Threads, Step(t),
         \/ FaaRead(t) \/ FaaWrite(t) \/ FaaStore(t)
         \/ CasType(t) \/ CasRead(t) \/ CasWrite(t) \/ CasStore(t)
  PROVE  ReaderInv'
<1> USE ElementAssumption, ThreadFacts, HolderFacts
<1>0. /\ Op(t) \in {"faa", "cas"} /\ Owns(t) /\ holders = {} /\ tag.rw = 0 /\ holders' = {}
      /\ Mem(t).type \in Type /\ (~At(t, "cType") => Mem(t).rw = 0)
  <2>1. Op(t) \in {"faa", "cas"} /\ Owns(t) /\ holders' = holders
    BY DEF FaaRead, FaaWrite, FaaStore, CasType, CasRead, CasWrite, CasStore, At, OpFits, Owns,
           OwnerAt
  <2>2. ~At(t, "wLoad")
    BY <2>1 DEF At, OpFits, Writers
  <2> QED
    BY <2>1, <2>2 DEF At, Tag
<1>1. ASSUME NEW p \in {"fWrite", "fStore", "cRead", "cWrite", "cStore", "done"}, NEW m, NEW r,
             Moves(t, p, m, r), p = "done" \/ m.rw = tag'.rw
      PROVE  ReadsFit(t, loc[t])'
  BY <1>0, <1>1 DEF Moves, Becomes, ReadsFit, OwnerAt, Op
<1>2. ASSUME ReturnHolding(t), tag' = tag PROVE ReaderInv'
  <2>1. Moves(t, "done", Mem(t), NoRet)
    BY <1>2, IdleType, ReturnMoves DEF ReturnHolding
  <2> QED
    BY <1>0, <1>1, <1>2, <2>1, ReaderQuietStep
<1>3. ASSUME tag' = tag, leaked' = leaked, NEW p \in {"fWrite", "fStore", "cRead", "cWrite", "cStore"},
             NEW m \in Tag, NEW r, Moves(t, p, m, r), m.rw = 0
      PROVE  ReaderInv'
  BY <1>0, <1>1, <1>3, ReaderQuietStep
<1>4. ASSUME tag'.fe = "FULL", tag'.rw = 0, Go(t, "done") PROVE ReaderInv'
  <2>1. Moves(t, "done", Mem(t), loc[t].ret)
    BY <1>4, GoMoves DEF PC
  <2> QED
    BY <1>0, <1>1, <1>4, <2>1, ReaderVacantStep
<1>5. CASE FaaRead(t) \/ CasRead(t)
  <2>1. CASE ReturnHolding(t)
    BY <1>2, <1>5, <2>1 DEF FaaRead, CasRead
  <2>2. ASSUME NEW p \in {"fWrite", "cWrite", "cStore"}, NEW v \in Value,
               GoRet(t, p, Ok(Mem(t).type, v)), leaked' = leaked
        PROVE  ReaderInv'
    <3>1. Moves(t, p, Mem(t), Ok(Mem(t).type, v))
      BY <1>0, <2>2, OkType, GoRetMoves DEF PC
    <3> QED
      BY <1>0, <1>3, <1>5, <2>2, <3>1 DEF FaaRead, CasRead, At
  <2>3. \/ ReturnHolding(t)
        \/ \E p \in {"fWrite", "cWrite", "cStore"}, v \in Value :
              GoRet(t, p, Ok(Mem(t).type, v)) /\ leaked' = leaked
    <3>1. CASE FaaRead(t)
      BY <3>1, ContentsValue DEF FaaRead
    <3>2. CASE CasRead(t)
      BY <3>2, ContentsValue DEF CasRead
    <3> QED
      BY <1>5, <3>1, <3>2
  <2> QED
    BY <2>1, <2>2, <2>3
<1>6. CASE FaaWrite(t)
  <2>0. PICK a \in Value :
          \/ /\ GoWith(t, "fStore", [Mem(t) EXCEPT !.type = FaaType(Mem(t).type, a, loc[t].arg)])
             /\ leaked' = leaked
          \/ ReturnHolding(t)
    BY <1>6, ContentsValue DEF FaaWrite
  <2> DEFINE m == [Mem(t) EXCEPT !.type = FaaType(Mem(t).type, a, loc[t].arg)]
  <2>1. m \in Tag /\ m.rw = Mem(t).rw
    BY UpdateTags
  <2>2. CASE GoWith(t, "fStore", m) /\ leaked' = leaked
    <3>1. Moves(t, "fStore", m, loc[t].ret)
      BY <2>1, <2>2, GoWithMoves DEF PC
    <3>2. tag' = tag /\ m.rw = 0
      BY <1>0, <1>6, <2>1 DEF FaaWrite, At
    <3> HIDE DEF m
    <3> QED
      BY <1>3, <2>1, <2>2, <3>1, <3>2
  <2>3. CASE ReturnHolding(t)
    BY <1>2, <1>6, <2>3 DEF FaaWrite
  <2> QED
    BY <2>0, <2>2, <2>3
<1>7. CASE CasWrite(t)
  <2> DEFINE m == [Mem(t) EXCEPT !.type = TypeOf[loc[t].arg]]
  <2>1. m \in Tag /\ m.rw = Mem(t).rw
    BY UpdateTags
  <2>2. CASE GoWith(t, "cStore", m) /\ leaked' = leaked
    <3>1. Moves(t, "cStore", m, loc[t].ret)
      BY <2>1, <2>2, GoWithMoves DEF PC
    <3> QED
      BY <1>0, <1>3, <1>7, <2>1, <2>2, <3>1 DEF CasWrite, At
  <2>3. CASE ReturnHolding(t)
    BY <1>2, <1>7, <2>3 DEF CasWrite
  <2> QED
    BY <1>7, <2>2, <2>3 DEF CasWrite
<1>8. CASE CasType(t)
  <2>1. Moves(t, "cRead", tag, loc[t].ret)
    BY <1>8, GoWithMoves DEF CasType, PC
  <2> QED
    BY <1>0, <1>3, <1>8, <2>1 DEF CasType
<1>9. CASE FaaStore(t) \/ CasStore(t)
  <2>1. tag'.fe = "FULL" /\ tag'.rw = 0
    BY <1>0, <1>9 DEF FaaStore, CasStore, At, Tag
  <2> QED
    BY <1>4, <1>9, <2>1 DEF FaaStore, CasStore
<1> QED
  BY <1>5, <1>6, <1>7, <1>8, <1>9

\* A process that dies holding the element leaves no readers behind.
LEMMA ReaderAbort ==
  ASSUME Synchronised, Inv, ReaderInv, NEW t \in Threads, Step(t), Abort(t)
  PROVE  ReaderInv'
<1>1. Op(t) # "readRW"
  BY ThreadFacts DEF Abort, OpFits, Writers
<1>2. ReadsFit(t, loc[t])'
  BY <1>1, AbortFacts DEF ReadsFit, Becomes, Op, OwnerAt
<1>3. UNCHANGED <<tag, holders>> /\ (leaked' = leaked \/ holders = {})
  BY <1>1, AbortFacts, HolderFacts
<1> QED
  BY <1>2, <1>3, ReaderQuietStep

\* A return keeps the count of readers.
LEMMA ReaderFinish ==
  ASSUME Synchronised, Inv, ReaderInv, NEW t \in Threads, Step(t), Finish(t)
  PROVE  ReaderInv'
<1>1. loc'[t] = Idle
  BY DEF Finish, Inv, TypeOK
<1>2. ReadsFit(t, loc[t])'
  BY <1>1 DEF ReadsFit, OwnerAt, Idle
<1> QED
  BY <1>2, ReaderQuietStep DEF Finish

\* A call starts with the readers as they are.
LEMMA ReaderCall ==
  ASSUME Inv, ReaderInv, NEW t \in Threads, NEW o \in Ops, Call(t, o)
  PROVE  ReaderInv'
<1>1. /\ loc'[t].pc = Entry(o) /\ loc'[t].op = o
      /\ \A u \in Threads : u # t => loc'[u] = loc[u]
  BY DEF Inv, TypeOK, Call, Locals, Idle
<1>2. ReadsFit(t, loc[t])'
  BY <1>1, ElementAssumption
     DEF Call, Entry, ReadsFit, OwnerAt, AllOps, Readers, Writers, Waiters, Setters
<1>3. Counted'
  BY DEF ReaderInv, Counted, Call
<1>4. \A u \in Threads : u # t => ReadsFit(u, loc[u])'
  BY <1>1 DEF ReaderInv, ReadsFit, Call
<1> QED
  BY <1>2, <1>3, <1>4 DEF ReaderInv

-------------------------------------------------------------------------------
\* A new element has no readers.
LEMMA ReaderInit == Init => ReaderInv
  BY FS_EmptySet, ElementAssumption DEF Init, ReaderInv, Counted, ReadsFit, OwnerAt, Idle

\* Every step keeps the count of readers.
LEMMA ReaderNext ==
  ASSUME Synchronised, Respected, Inv, ReaderInv, [Next]_vars
  PROVE  ReaderInv'
<1>1. CASE UNCHANGED vars
  BY <1>1 DEF vars, ReaderInv, Counted, ReadsFit
<1>2. ASSUME NEW t \in Threads, NEW o \in Ops, Call(t, o) PROVE ReaderInv'
  BY <1>2, ReaderCall
<1>3. ASSUME NEW t \in Threads, Step(t) PROVE ReaderInv'
  BY <1>3, ReaderReadSteps, ReaderTransitionSteps, ReaderWriteSteps, ReaderReleaseSteps,
     ReaderSetSteps, ReaderUpdateSteps, ReaderAbort, ReaderFinish DEF Step
<1> QED
  BY <1>1, <1>2, <1>3 DEF Next

\* The invariant of the readers-writer lock, for a program that respects it.
THEOREM ReaderInvHolds == ASSUME Synchronised, Respected PROVE Spec => []ReaderInv
  BY ReaderInit, ReaderNext, InvHolds, PTL DEF Spec

\* The rw bits are the number of threads that hold the readers-writer lock.
THEOREM ReadersCounted == ASSUME Synchronised, Respected PROVE Spec => []ReaderCount
<1>1. ReaderInv => ReaderCount
  BY DEF ReaderInv, Counted, ReaderCount
<1> QED
  BY <1>1, ReaderInvHolds, PTL

\* EMSreleaseRW called by a holder returns success.
THEOREM ReleasesSucceed == ASSUME Synchronised, Respected PROVE Spec => []ReleaseSucceeds
<1>1. ReaderInv => ReleaseSucceeds
  BY DEF ReaderInv, ReadsFit, ReleaseSucceeds, At, Op
<1> QED
  BY <1>1, ReaderInvHolds, PTL

\* The data does not change under a thread that holds the readers-writer lock, unless
\* by a plain write of a serial section.
THEOREM ReadersStable ==
  ASSUME Synchronised, Respected, "readRW" \in Ops => "write" \notin Ops
  PROVE  Spec => StableUnderReaders
<1>1. ASSUME Inv, ReaderInv, [Next]_vars PROVE [holders \cap holders' # {} => UNCHANGED <<data, freed>>]_vars
  <2> SUFFICES ASSUME NEW t \in Threads, Step(t), holders # {} PROVE UNCHANGED <<data, freed>>
    BY <1>1 DEF Next, vars, Call
  <2>1. ~WriteData(t) /\ ~FaaWrite(t) /\ ~CasWrite(t)
    <3> SUFFICES ASSUME At(t, "wData") \/ At(t, "fWrite") \/ At(t, "cWrite") PROVE FALSE
      BY DEF WriteData, FaaWrite, CasWrite
    <3>1. Op(t) \in {"writeXF", "writeXE", "writeEF", "faa", "cas"}
      BY <1>1, ThreadFacts DEF At, OpFits, Writers, ReaderInv, Counted
    <3>2. Owns(t)
      BY <3>1 DEF At, Owns, OwnerAt, FinalFE
    <3> QED
      BY <1>1, <3>1, <3>2, HolderFacts
  <2> QED
    BY <2>1 DEF Step, ReadLoad, ReadCAS, ReadData, ReadStore, TransitionLoad, TransitionCAS,
       WriteLoad, WriteCAS, WriteCheck, WriteStore, ReleaseLoad, ReleaseCAS, SetLoad, SetStore,
       FaaRead, FaaStore, CasType, CasRead, CasStore, Abort, Finish
<1> QED
  BY <1>1, ReaderInvHolds, InvHolds, PTL DEF Spec, StableUnderReaders

-------------------------------------------------------------------------------
(* The types *)

\* A thread that takes a step is in a call.
LEMMA StepActive ==
  ASSUME NEW t \in Threads, Step(t)
  PROVE  ~At(t, "idle")
  BY DEF Step, ReadLoad, ReadCAS, ReadData, ReadStore, TransitionLoad, TransitionCAS,
         WriteLoad, WriteCAS, WriteData, WriteCheck, WriteStore, ReleaseLoad, ReleaseCAS,
         SetLoad, SetStore, FaaRead, FaaWrite, FaaStore, CasType, CasRead, CasWrite, CasStore,
         Abort, Finish, At

\* A thread that takes a step finds no other thread in an operation of a serial section.
LEMMA NobodyAlone ==
  ASSUME Inv, NEW t \in Threads, NEW u \in Threads, u # t, Step(t), ~At(u, "idle")
  PROVE  Op(u) \notin Alone
  BY StepActive DEF Inv, Serial, Quiescent

\* A step of t that keeps the types, given what it does to t and to the shared words.
LEMMA TypedStep ==
  ASSUME Synchronised, SerialReads, Inv, TypedInv, NEW t \in Threads, Step(t),
         TypesFit(loc[t])',
         \/ tag'.type = TypeOf[data']
         \/ tag'.fe = "BUSY" /\ leaked' = FALSE
         \/ loc'[t].pc = "wStore" /\ loc'[t].op = "write"
         \/ UNCHANGED <<tag, data, leaked>> /\ ~(At(t, "wStore") /\ Op(t) = "write")
  PROVE  TypedInv'
<1>1. ASSUME NEW u \in Threads, u # t
      PROVE  /\ loc'[u] = loc[u] /\ TypesFit(loc[u])
             /\ Owns(u) => tag' = tag /\ data' = data /\ freed' = freed
             /\ ~At(u, "idle") => Op(u) \notin Alone
             /\ OpFits(loc[u].pc, Op(u))
  BY <1>1, OthersStay, ThreadFacts, OwnerUndisturbed, NobodyAlone DEF TypedInv
<1>2. ASSUME NEW u \in Threads, u # t
      PROVE  /\ ~(loc[u].pc \in {"wData", "wStore"} /\ Op(u) = "write")
             /\ ~(At(u, "rData") /\ Op(u) = "read")
             /\ loc[u].pc \in {"wCheck", "wStore"} => Owns(u)
  <2>1. /\ ~(loc[u].pc \in {"wData", "wStore"} /\ Op(u) = "write")
        /\ ~(At(u, "rData") /\ Op(u) = "read")
    <3>1. StoresBack(loc[u].pc, Op(u)) => Op(u) \in Alone
      BY ThreadFacts
    <3>2. At(u, "rData") /\ Op(u) = "read" => Op(u) \in Alone
      BY <1>1, <1>2 DEF SerialReads, OpFits, At
    <3> QED
      BY <1>1, <1>2, <3>1, <3>2 DEF StoresBack, At
  <2>2. loc[u].pc \in {"wCheck", "wStore"} => Owns(u)
    BY <1>1, <1>2, <2>1 DEF OpFits, Owns, OwnerAt, FinalFE, Writers
  <2> QED
    BY <2>1, <2>2
<1>3. Typed'
  BY <1>1, <1>2 DEF TypedInv, Typed, At, Op
<1>4. ASSUME NEW u \in Threads, u # t PROVE TypesFit(loc[u])'
  BY <1>1, <1>2, <1>4 DEF TypesFit, Carried, Readable, Owns, OwnerAt, At, Op
<1> QED
  BY <1>3, <1>4 DEF TypedInv

\* What the invariant gives about the types to a thread that takes a step.
LEMMA TypeFacts ==
  ASSUME Synchronised, Inv, TypedInv, NEW t \in Threads, Step(t)
  PROVE  /\ TypesFit(loc[t])
         /\ tag.fe # "BUSY" /\ ~At(t, "wStore") => tag.type = TypeOf[data]
         /\ ~Owns(t) /\ Op(t) \in Alone /\ ~At(t, "wStore") => tag.type = TypeOf[data]
         /\ Owns(t) => leaked = FALSE /\ tag.fe = "BUSY"
<1>1. Owns(t) => leaked = FALSE /\ tag.fe = "BUSY"
  BY DEF Inv, TypeOK, ExclusiveBusy
<1>2. ~At(t, "wStore") => ~\E u \in Threads : At(u, "wStore") /\ Op(u) = "write"
  <2>1. ASSUME ~At(t, "wStore"), NEW u \in Threads, At(u, "wStore"), Op(u) = "write"
        PROVE  FALSE
    <3>1. u # t
      BY <2>1
    <3>2. ~At(u, "idle") /\ StoresBack(loc[u].pc, Op(u))
      BY <2>1 DEF At, StoresBack
    <3>3. Op(u) \notin Alone
      BY <3>1, <3>2, NobodyAlone
    <3>4. Op(u) \in Alone
      BY <3>2, ThreadFacts
    <3> QED
      BY <3>3, <3>4
  <2> QED
    BY <2>1
<1>3. Op(t) \in Alone => \A u \in Threads : u # t => ~Owns(u)
  <2>1. ASSUME Op(t) \in Alone, NEW u \in Threads, u # t PROVE ~Owns(u)
    <3>1. Quiescent(t)
      BY <2>1, StepActive, ThreadFacts
    <3> QED
      BY <2>1, <3>1 DEF Quiescent, Owns, OwnerAt, At
  <2> QED
    BY <2>1
<1>4. ~Owns(t) /\ Op(t) \in Alone => tag.fe # "BUSY" \/ leaked
  BY <1>3 DEF Inv, ExclusiveBusy
<1> QED
  BY <1>1, <1>2, <1>4 DEF TypedInv, Typed

\* What may be read of an element has the type of its data word.
LEMMA ReadableFacts ==
  ASSUME NEW v \in Readable
  PROVE  v \in Value /\ TypeOf[v] = TypeOf[data]
  BY DEF Readable

\* A thread that knows the type finds a readable value.
LEMMA ContentsReadable ==
  ASSUME NEW t, Mem(t).type = TypeOf[data], NEW v \in Contents(t)
  PROVE  v \in Readable
  BY DEF Contents, Readable

\* What EMSfaa and EMScas carry to their end.
LEMMA CarriedFacts ==
  ASSUME NEW r, Carried(r)
  PROVE  r.ok /\ r.v \in Readable /\ r.type = TypeOf[data] /\ r.type = TypeOf[r.v]
<1>1. PICK v \in Readable : r = Ok(TypeOf[data], v)
  BY DEF Carried
<1>2. r.ok /\ r.type = TypeOf[data] /\ r.v = v
  BY <1>1 DEF Ok
<1> QED
  BY <1>2, ReadableFacts

\* EMSreadUsingTags keeps the types.
LEMMA TypedReadSteps ==
  ASSUME Synchronised, SerialReads, Inv, TypedInv, NEW t \in Threads, Step(t),
         ReadLoad(t) \/ ReadCAS(t) \/ ReadData(t) \/ ReadStore(t)
  PROVE  TypedInv'
<1> USE ElementAssumption, ThreadFacts, TypeFacts
<1>1. CASE ReadLoad(t)
  <2> DEFINE p == IF ~ReadReady(tag, Op(t), loc[t].full) THEN "rLoad"
                  ELSE IF InitialFE(Op(t)) = "ANY" THEN "rData" ELSE "rCAS"
  <2>1. p \in PC /\ Moves(t, p, tag, loc[t].ret)
    BY <1>1, GoWithMoves DEF ReadLoad, PC
  <2>2. p \in {"rLoad", "rCAS", "rData"} /\ (p = "rData" => Op(t) = "read" /\ Op(t) \in Alone)
    BY <1>1 DEF ReadLoad, At, InitialFE, OpFits, Readers, SerialReads
  <2> HIDE DEF p
  <2>3. p = "rData" => tag.type = TypeOf[data]
    BY <1>1, <2>2 DEF ReadLoad, At, Owns, OwnerAt
  <2>4. TypesFit(loc[t])'
    BY <1>1, <2>1, <2>2, <2>3 DEF ReadLoad, Moves, Becomes, TypesFit, OwnerAt, FinalFE, Op
  <2> QED
    BY <1>1, <2>4, TypedStep DEF ReadLoad, At
<1>2. CASE ReadCAS(t)
  <2>1. CASE tag = Mem(t)
    <3>0. ReadTag(t) \in Tag /\ ReadTag(t).type = tag.type
      <4>1. Op(t) = "readRW" => Mem(t).rw + 1 \in 0 .. RWMax
        BY <1>2 DEF ReadCAS, At, MemFits, Tag
      <4> QED
        BY <2>1, <4>1 DEF ReadTag, Tag
    <3>1. Moves(t, "rData", ReadTag(t), loc[t].ret)
      BY <1>2, <2>1, <3>0, GoWithMoves DEF ReadCAS, PC
    <3>2. tag'.type = tag.type /\ data' = data /\ tag.type = TypeOf[data] /\ Op(t) # "read"
      BY <1>2, <2>1, <3>0 DEF ReadCAS, At, MemFits, OpFits, Busy, Tag
    <3>3. TypesFit(loc[t])'
      BY <3>0, <3>1, <3>2 DEF Moves, Becomes, TypesFit, Op
    <3> QED
      BY <3>2, <3>3, TypedStep
  <2>2. CASE tag # Mem(t)
    <3>1. Moves(t, "rLoad", Mem(t), loc[t].ret)
      <4>1. PICK b \in BOOLEAN : loc' = [loc EXCEPT ![t].pc = "rLoad", ![t].full = b]
        BY <1>2, <2>2 DEF ReadCAS
      <4> QED
        BY <4>1, GoFullMoves DEF PC
    <3>2. TypesFit(loc[t])'
      BY <3>1 DEF Moves, Becomes, TypesFit, OwnerAt
    <3> QED
      BY <1>2, <2>2, <3>2, TypedStep DEF ReadCAS, At
  <2> QED
    BY <2>1, <2>2
<1>3. CASE ReadData(t)
  <2> DEFINE p == IF FinalFE(Op(t)) = "ANY" THEN "done" ELSE "rStore"
  <2>0. PICK v \in Contents(t) : GoRet(t, p, Ok(Mem(t).type, v))
    BY <1>3 DEF ReadData
  <2>1. Moves(t, p, Mem(t), Ok(Mem(t).type, v))
    BY <2>0, ContentsValue, GoRetMoves, OkType DEF PC, Tag
  <2>2. /\ p \in {"done", "rStore"} /\ (p = "rStore" => Owns(t)) /\ (p = "done" => Op(t) = "read")
        /\ Op(t) \in Readers
    BY <1>3 DEF ReadData, At, Owns, OwnerAt, OpFits, FinalFE, Readers
  <2>3. Mem(t).type = TypeOf[data] /\ (p = "rStore" => tag.type = TypeOf[data])
    BY <1>3, <2>2 DEF ReadData, At, TypesFit, TypeKept, Owns, Op, Mem
  <2>5. TypeOf[v] = Mem(t).type
    BY <2>3, ContentsReadable, ReadableFacts
  <2> HIDE DEF p
  <2>4. TypesFit(loc[t])'
    BY <1>3, <2>1, <2>2, <2>3, <2>5 DEF ReadData, Moves, Becomes, TypesFit, OwnerAt, Ok, Op
  <2> QED
    BY <1>3, <2>4, TypedStep DEF ReadData, At
<1>4. CASE ReadStore(t)
  <2>1. Moves(t, "done", Mem(t), loc[t].ret)
    BY <1>4, GoMoves DEF ReadStore, PC
  <2>2. tag'.type = Mem(t).type /\ data' = data /\ Mem(t).type = TypeOf[data]
    <3>1. loc[t].pc = "rStore" /\ OwnerAt(loc[t].pc, loc[t].op) /\ TypeKept(loc[t].pc)
      BY <1>4 DEF ReadStore, At, OwnerAt, TypeKept
    <3>2. Mem(t).type = TypeOf[data]
      BY <3>1 DEF TypesFit, Mem
    <3>3. tag'.type = Mem(t).type /\ data' = data
      BY <1>4 DEF ReadStore, Tag
    <3> QED
      BY <3>2, <3>3
  <2>3. TypesFit(loc[t])'
    BY <1>4, <2>1, DoneFits DEF ReadStore, At
  <2> QED
    BY <2>2, <2>3, TypedStep
<1> QED
  BY <1>1, <1>2, <1>3, <1>4

\* EMStransitionFEtag keeps the types.
LEMMA TypedTransitionSteps ==
  ASSUME Synchronised, SerialReads, Inv, TypedInv, NEW t \in Threads, Step(t),
         TransitionLoad(t) \/ TransitionCAS(t)
  PROVE  TypedInv'
<1> USE ElementAssumption, ThreadFacts, TypeFacts
<1>1. CASE TransitionLoad(t)
  <2>1. Moves(t, "tCAS", tag, loc[t].ret)
    BY <1>1, GoWithMoves DEF TransitionLoad, PC
  <2>2. TypesFit(loc[t])'
    BY <2>1 DEF Moves, Becomes, TypesFit, OwnerAt
  <2> QED
    BY <1>1, <2>2, TypedStep DEF TransitionLoad, At
<1>2. CASE TransitionCAS(t)
  <2> DEFINE old == [Mem(t) EXCEPT !.fe = InitialFE(Op(t))]
             p   == Resume(Op(t))
  <2>1. Op(t) \in Waiters /\ InitialFE(Op(t)) \in {"FULL", "EMPTY"}
    BY <1>2 DEF TransitionCAS, At, OpFits, InitialFE, Waiters
  <2>2. old \in Tag /\ old.fe # "BUSY" /\ Busy(old) \in Tag /\ Busy(old).type = old.type
    BY <2>1 DEF Tag, FE, Busy
  <2>3. CASE tag = old
    <3>1. p \in PC /\ Moves(t, p, Busy(old), loc[t].ret)
      BY <1>2, <2>2, <2>3, GoWithMoves DEF TransitionCAS, Resume, PC
    <3>2. tag' = Busy(old) /\ data' = data /\ Busy(old).type = TypeOf[data]
      BY <1>2, <2>2, <2>3 DEF TransitionCAS, At
    <3>3. TypesFit(loc[t])'
      BY <3>1, <3>2 DEF Moves, Becomes, TypesFit, Resume
    <3> QED
      BY <3>2, <3>3, TypedStep
  <2>4. CASE tag # old
    <3>1. Moves(t, "tLoad", Mem(t), loc[t].ret)
      BY <1>2, <2>4, GoMoves DEF TransitionCAS, PC
    <3>2. TypesFit(loc[t])'
      BY <3>1 DEF Moves, Becomes, TypesFit, OwnerAt
    <3> QED
      BY <1>2, <2>4, <3>2, TypedStep DEF TransitionCAS, At
  <2> QED
    BY <2>3, <2>4
<1> QED
  BY <1>1, <1>2

\* EMSwriteUsingTags keeps the types.
LEMMA TypedWriteSteps ==
  ASSUME Synchronised, SerialReads, Inv, TypedInv, NEW t \in Threads, Step(t),
         WriteLoad(t) \/ WriteCAS(t) \/ WriteData(t) \/ WriteCheck(t) \/ WriteStore(t)
  PROVE  TypedInv'
<1> USE ElementAssumption, ThreadFacts, TypeFacts
<1>0. /\ Op(t) \in Writers /\ TypeOf[loc[t].arg] \in Type
      /\ FinalFE(Op(t)) = "ANY" <=> Op(t) = "write"
      /\ Op(t) = "write" => Op(t) \in Alone
  BY DEF WriteLoad, WriteCAS, WriteData, WriteCheck, WriteStore, At, OpFits, FinalFE, Writers,
         Synchronised
<1>1. CASE WriteLoad(t)
  <2> DEFINE p == IF InitialFE(Op(t)) # "ANY" \/ FinalFE(Op(t)) = "ANY" THEN "wData"
                  ELSE IF tag.fe # "BUSY" THEN "wCAS" ELSE "wLoad"
  <2>1. p \in {"wLoad", "wCAS", "wData"} /\ Moves(t, p, tag, loc[t].ret)
    BY <1>1, GoWithMoves DEF WriteLoad, PC
  <2>2. OwnerAt(p, Op(t)) => Owns(t)
    BY <1>0, <1>1 DEF WriteLoad, At, Owns, OwnerAt, InitialFE, FinalFE, Writers
  <2> HIDE DEF p
  <2>3. OwnerAt(p, Op(t)) \/ Op(t) = "write" => tag.type = TypeOf[data]
    BY <1>0, <1>1, <2>2 DEF WriteLoad, At, Owns, OwnerAt, TypesFit, TypeKept, Op
  <2>4. TypesFit(loc[t])'
    BY <1>1, <2>1, <2>3 DEF WriteLoad, Moves, Becomes, TypesFit, Op
  <2> QED
    BY <1>1, <2>4, TypedStep DEF WriteLoad, At
<1>2. CASE WriteCAS(t)
  <2>1. CASE tag = Mem(t)
    <3>1. Moves(t, "wData", Mem(t), loc[t].ret)
      BY <1>2, <2>1, GoMoves DEF WriteCAS, PC
    <3>2. tag'.type = tag.type /\ data' = data /\ tag.type = TypeOf[data]
      BY <1>2, <2>1 DEF WriteCAS, At, MemFits, Busy, Tag
    <3>3. TypesFit(loc[t])'
      BY <3>1, <3>2 DEF Moves, Becomes, TypesFit
    <3> QED
      BY <3>2, <3>3, TypedStep
  <2>2. CASE tag # Mem(t)
    <3>1. Moves(t, "wLoad", Mem(t), loc[t].ret)
      BY <1>2, <2>2, GoMoves DEF WriteCAS, PC
    <3>2. TypesFit(loc[t])'
      BY <1>2, <3>1 DEF WriteCAS, At, OpFits, Moves, Becomes, TypesFit, OwnerAt, Op
    <3> QED
      BY <1>2, <2>2, <3>2, TypedStep DEF WriteCAS, At
  <2> QED
    BY <2>1, <2>2
<1>3. CASE WriteData(t)
  <2>0. tag.type = TypeOf[data] /\ (Op(t) # "write" => Owns(t))
    BY <1>0, <1>3 DEF WriteData, At, Owns, OwnerAt, TypesFit, TypeKept, Op
  <2>1. CASE /\ data' = loc[t].arg /\ UNCHANGED leaked
             /\ Go(t, IF FinalFE(Op(t)) = "ANY" THEN "wStore" ELSE "wCheck")
    <3> DEFINE p == IF FinalFE(Op(t)) = "ANY" THEN "wStore" ELSE "wCheck"
    <3>1. p \in {"wStore", "wCheck"} /\ Moves(t, p, Mem(t), loc[t].ret)
      BY <2>1, GoMoves DEF PC
    <3>2. p = "wStore" \/ Owns(t)
      BY <1>0, <2>0
    <3>3. p = "wStore" => Op(t) = "write"
      BY <1>0
    <3> HIDE DEF p
    <3>4. TypesFit(loc[t])'
      BY <2>1, <3>1 DEF Moves, Becomes, TypesFit, TypeKept
    <3>5. tag' = tag /\ leaked' = leaked
      BY <1>3, <2>1 DEF WriteData
    <3> QED
      BY <3>1, <3>2, <3>3, <3>4, <3>5, TypedStep DEF Moves, Becomes, Op
  <2>2. CASE Return(t, NoRet) /\ data' = data
    <3>1. Moves(t, "done", Mem(t), NoRet)
      BY <2>2, IdleType, ReturnMoves
    <3>2. TypesFit(loc[t])'
      BY <3>1 DEF Moves, Becomes, TypesFit, OwnerAt, NoRet
    <3> QED
      BY <1>3, <2>0, <2>2, <3>2, TypedStep DEF WriteData
  <2> QED
    BY <1>3, <2>1, <2>2 DEF WriteData, ReturnHolding
<1>4. CASE WriteCheck(t)
  <2>1. CASE HasLock(t)
    <3>1. Moves(t, "wStore", Mem(t), loc[t].ret)
      BY <1>4, <2>1, GoMoves DEF WriteCheck, PC
    <3>2. TypesFit(loc[t])'
      BY <1>4, <3>1 DEF WriteCheck, At, Moves, Becomes, TypesFit, TypeKept
    <3> QED
      BY <1>4, <3>2, TypedStep DEF WriteCheck, At
  <2>2. CASE ~HasLock(t)
    <3>1. Moves(t, "done", Mem(t), NoRet)
      BY <1>4, <2>2, IdleType, ReturnMoves DEF WriteCheck
    <3>2. TypesFit(loc[t])'
      BY <3>1 DEF Moves, Becomes, TypesFit, OwnerAt, NoRet
    <3> QED
      BY <1>4, <3>2, TypedStep DEF WriteCheck, At
  <2> QED
    BY <2>1, <2>2
<1>5. CASE WriteStore(t)
  <2>1. Moves(t, "done", Mem(t), Ok(TypeOf[loc[t].arg], loc[t].arg))
    BY <1>0, <1>5, OkType, ReturnMoves DEF WriteStore
  <2>2. tag'.type = TypeOf[loc[t].arg] /\ data' = loc[t].arg
    BY <1>5 DEF WriteStore, WriteTag, At, TypesFit, Tag
  <2>3. TypesFit(loc[t])'
    BY <2>1 DEF Moves, Becomes, TypesFit, OwnerAt, Ok
  <2> QED
    BY <2>2, <2>3, TypedStep
<1> QED
  BY <1>1, <1>2, <1>3, <1>4, <1>5

\* EMSreleaseRW keeps the types.
LEMMA TypedReleaseSteps ==
  ASSUME Synchronised, SerialReads, Inv, TypedInv, NEW t \in Threads, Step(t),
         ReleaseLoad(t) \/ ReleaseCAS(t)
  PROVE  TypedInv'
<1> USE ElementAssumption, ThreadFacts, TypeFacts
<1>0. Op(t) = "releaseRW"
  BY DEF ReleaseLoad, ReleaseCAS, At, OpFits
<1>1. ASSUME NEW p \in {"uCAS", "uLoad", "done"}, NEW m, NEW r, Moves(t, p, m, r)
      PROVE  TypesFit(loc[t])'
  BY <1>0, <1>1 DEF Moves, Becomes, TypesFit, OwnerAt, Op
<1>2. CASE ReleaseLoad(t)
  <2>1. PICK p \in {"uCAS", "uLoad", "done"}, m \in Tag, r \in Ret : Moves(t, p, m, r)
    BY <1>2, IdleType, GoWithMoves, ReturnMoves DEF ReleaseLoad, PC, TypeOK, Locals
  <2> QED
    BY <1>1, <1>2, <2>1, TypedStep DEF ReleaseLoad, At
<1>3. CASE ReleaseCAS(t)
  <2>1. CASE tag = Mem(t)
    <3>1. AnyValue \in Value /\ "INTEGER" \in Type
      BY AnyValueType DEF Type
    <3>2. Moves(t, "done", Mem(t), Ok("INTEGER", AnyValue))
      BY <1>3, <2>1, <3>1, OkType, ReturnMoves DEF ReleaseCAS
    <3>3. tag'.type = tag.type /\ data' = data /\ tag.type = TypeOf[data]
      <4>1. tag.fe # "BUSY" /\ ~At(t, "wStore")
        BY <1>3, <2>1 DEF ReleaseCAS, At, MemFits
      <4>2. tag'.type = tag.type /\ data' = data
        BY <1>3, <2>1 DEF ReleaseCAS, ReleasedTag
      <4> QED
        BY <4>1, <4>2
    <3> QED
      BY <1>1, <3>2, <3>3, TypedStep
  <2>2. CASE tag # Mem(t)
    <3>1. Moves(t, "uLoad", Mem(t), loc[t].ret)
      BY <1>3, <2>2, GoMoves DEF ReleaseCAS, PC
    <3> QED
      BY <1>1, <1>3, <2>2, <3>1, TypedStep DEF ReleaseCAS, At
  <2> QED
    BY <2>1, <2>2
<1> QED
  BY <1>2, <1>3

\* EMSsetTag keeps the types.
LEMMA TypedSetSteps ==
  ASSUME Synchronised, SerialReads, Inv, TypedInv, NEW t \in Threads, Step(t),
         SetLoad(t) \/ SetStore(t)
  PROVE  TypedInv'
<1> USE ElementAssumption, ThreadFacts, TypeFacts
<1>0. /\ Op(t) \in Setters /\ Op(t) \in Alone /\ ~Owns(t) /\ ~At(t, "wStore")
      /\ At(t, "sStore") => Mem(t) = tag
  BY DEF SetLoad, SetStore, At, OpFits, Setters, StoresBack, Owns, OwnerAt, Synchronised
<1>1. CASE SetLoad(t)
  <2>1. Moves(t, "sStore", tag, loc[t].ret)
    BY <1>1, GoWithMoves DEF SetLoad, PC
  <2>2. TypesFit(loc[t])'
    BY <2>1 DEF Moves, Becomes, TypesFit, OwnerAt
  <2> QED
    BY <1>0, <1>1, <2>2, TypedStep DEF SetLoad
<1>2. CASE SetStore(t)
  <2>1. AnyValue \in Value /\ "BOOLEAN" \in Type
    BY AnyValueType DEF Type
  <2>2. Moves(t, "done", Mem(t), Ok("BOOLEAN", AnyValue))
    BY <1>2, <2>1, OkType, ReturnMoves DEF SetStore
  <2>3. TypesFit(loc[t])'
    BY <1>0, <2>2 DEF Moves, Becomes, TypesFit, OwnerAt, Op
  <2>4. tag'.type = TypeOf[data']
    BY <1>0, <1>2 DEF SetStore, Tag
  <2> QED
    BY <2>3, <2>4, TypedStep
<1> QED
  BY <1>1, <1>2

\* EMSfaa and EMScas return the value they found, and leave the type of the one they store.
LEMMA TypedUpdateSteps ==
  ASSUME Synchronised, SerialReads, FaaTyped, Inv, TypedInv, NEW t \in Threads, Step(t),
         \/ FaaRead(t) \/ FaaWrite(t) \/ FaaStore(t)
         \/ CasType(t) \/ CasRead(t) \/ CasWrite(t) \/ CasStore(t)
  PROVE  TypedInv'
<1> USE ElementAssumption, ThreadFacts, TypeFacts
<1>0. /\ Op(t) \in {"faa", "cas"} /\ Op(t) \in Ops /\ Owns(t) /\ Mem(t).type \in Type
      /\ ~At(t, "wStore")
  BY DEF FaaRead, FaaWrite, FaaStore, CasType, CasRead, CasWrite, CasStore, At, OpFits, Owns,
         OwnerAt, Tag
<1>1. ~At(t, "fStore") /\ ~At(t, "cStore") => tag.type = TypeOf[data]
  BY <1>0 DEF FaaRead, FaaWrite, FaaStore, CasType, CasRead, CasWrite, CasStore, TypesFit,
              TypeKept, At, OwnerAt
<1>2. /\ loc[t].pc \in {"fRead", "fWrite", "cRead", "cWrite"} => Mem(t).type = TypeOf[data]
      /\ loc[t].pc \in {"fStore", "cStore"} =>
           Mem(t).type = TypeOf[data] /\ loc[t].ret.type = TypeOf[loc[t].ret.v]
      /\ loc[t].pc \in {"fWrite", "cWrite"} => loc[t].ret.type = TypeOf[loc[t].ret.v]
  <2>1. TypesFit(loc[t])
    OBVIOUS
  <2>2. loc[t].pc \in {"fRead", "fWrite", "cRead", "cWrite"} => OwnerAt(loc[t].pc, loc[t].op)
    BY DEF OwnerAt
  <2> HIDE ThreadFacts, TypeFacts, ElementAssumption
  <2>3. loc[t].pc \in {"fRead", "fWrite", "cRead", "cWrite"} => Mem(t).type = TypeOf[data]
    BY <1>1, <2>1, <2>2 DEF TypesFit, At, Mem
  <2>4. loc[t].pc \in {"fStore", "cStore"} =>
          Mem(t).type = TypeOf[data] /\ loc[t].ret.type = TypeOf[loc[t].ret.v]
    BY <2>1 DEF TypesFit, Mem
  <2>5. loc[t].pc \in {"fWrite", "cWrite"} => loc[t].ret.type = TypeOf[loc[t].ret.v]
    BY <2>1, CarriedFacts DEF TypesFit
  <2> QED
    BY <2>3, <2>4, <2>5
<1>3. ASSUME ReturnHolding(t), UNCHANGED <<tag, data>>, ~At(t, "fStore"), ~At(t, "cStore")
      PROVE  TypedInv'
  <2>1. Moves(t, "done", Mem(t), NoRet)
    BY <1>3, IdleType, ReturnMoves DEF ReturnHolding
  <2>2. TypesFit(loc[t])'
    BY <2>1 DEF Moves, Becomes, TypesFit, OwnerAt, NoRet
  <2> QED
    BY <1>1, <1>3, <2>2, TypedStep
<1>4. CASE FaaRead(t) \/ CasRead(t)
  <2>1. CASE ReturnHolding(t)
    BY <1>3, <1>4, <2>1 DEF FaaRead, CasRead, At
  <2>2. ASSUME NEW p \in {"fWrite", "cWrite", "cStore"}, NEW v \in Contents(t),
               GoRet(t, p, Ok(Mem(t).type, v)), leaked' = leaked
        PROVE  TypedInv'
    <3>1. Moves(t, p, Mem(t), Ok(Mem(t).type, v))
      BY <1>0, <2>2, ContentsValue, OkType, GoRetMoves DEF PC
    <3>2. /\ tag' = tag /\ data' = data /\ freed' = freed
          /\ Mem(t).type = TypeOf[data] /\ tag.type = TypeOf[data]
      BY <1>1, <1>2, <1>4 DEF FaaRead, CasRead, At
    <3>4. v \in Readable /\ TypeOf[v] = TypeOf[data]
      BY <3>2, ContentsReadable, ReadableFacts
    <3>5. Carried(Ok(TypeOf[data], v))'
      BY <3>2, <3>4 DEF Carried, Readable
    <3>3. TypesFit(loc[t])'
      BY <3>1, <3>2, <3>4, <3>5 DEF Moves, Becomes, TypesFit, Ok
    <3> QED
      BY <3>2, <3>3, TypedStep
  <2> QED
    BY <1>4, <2>1, <2>2 DEF FaaRead, CasRead
<1>5. CASE FaaWrite(t)
  <2>0. PICK a \in Contents(t) :
          \/ /\ data' = Sum[a][loc[t].arg] /\ leaked' = leaked
             /\ GoWith(t, "fStore", [Mem(t) EXCEPT !.type = FaaType(Mem(t).type, a, loc[t].arg)])
          \/ ReturnHolding(t) /\ data' = data
    BY <1>5 DEF FaaWrite
  <2> DEFINE m == [Mem(t) EXCEPT !.type = FaaType(Mem(t).type, a, loc[t].arg)]
  <2>1. CASE data' = Sum[a][loc[t].arg] /\ GoWith(t, "fStore", m) /\ leaked' = leaked
    <3>0. a \in Value /\ TypeOf[a] = Mem(t).type
      BY <1>2, <1>5, ContentsReadable, ReadableFacts DEF FaaWrite, At
    <3>1. FaaType(Mem(t).type, a, loc[t].arg) = TypeOf[Sum[a][loc[t].arg]]
      BY <1>0, <1>5, <3>0 DEF FaaWrite, At, FaaType, FaaTyped, OpFits
    <3>2. m \in Tag /\ m.type = TypeOf[Sum[a][loc[t].arg]]
      BY <3>0, <3>1, UpdateTags, RetypedTag DEF Tag
    <3>3. Moves(t, "fStore", m, loc[t].ret)
      BY <2>1, <3>2, GoWithMoves DEF PC
    <3>4. loc[t].ret.type = TypeOf[loc[t].ret.v]
      BY <1>2, <1>5 DEF FaaWrite, At
    <3> HIDE DEF m
    <3>5. TypesFit(loc[t])'
      BY <2>1, <3>2, <3>3, <3>4 DEF Moves, Becomes, TypesFit, TypeKept
    <3> QED
      BY <1>0, <1>5, <2>1, <3>5, TypedStep DEF FaaWrite
  <2>2. CASE ReturnHolding(t) /\ data' = data
    BY <1>3, <1>5, <2>2 DEF FaaWrite, At
  <2> QED
    BY <2>0, <2>1, <2>2
<1>6. CASE CasWrite(t)
  <2> DEFINE m == [Mem(t) EXCEPT !.type = TypeOf[loc[t].arg]]
  <2>1. CASE data' = loc[t].arg /\ GoWith(t, "cStore", m) /\ leaked' = leaked
    <3>2. m \in Tag /\ m.type = TypeOf[loc[t].arg]
      BY UpdateTags, ThreadFacts
    <3>3. Moves(t, "cStore", m, loc[t].ret)
      BY <2>1, <3>2, GoWithMoves DEF PC
    <3>4. loc[t].ret.type = TypeOf[loc[t].ret.v]
      BY <1>2, <1>6 DEF CasWrite, At
    <3> HIDE DEF m
    <3>5. TypesFit(loc[t])'
      BY <2>1, <3>2, <3>3, <3>4 DEF Moves, Becomes, TypesFit, TypeKept
    <3> QED
      BY <1>0, <1>6, <2>1, <3>5, TypedStep DEF CasWrite
  <2>2. CASE ReturnHolding(t) /\ data' = data
    BY <1>3, <1>6, <2>2 DEF CasWrite, At
  <2> QED
    BY <1>6, <2>1, <2>2 DEF CasWrite
<1>7. CASE CasType(t)
  <2>1. Moves(t, "cRead", tag, loc[t].ret)
    BY <1>7, GoWithMoves DEF CasType, PC
  <2>2. TypesFit(loc[t])'
    BY <1>1, <1>7, <2>1 DEF CasType, At, Moves, Becomes, TypesFit
  <2> QED
    BY <1>0, <1>7, <2>2, TypedStep DEF CasType
<1>8. CASE FaaStore(t) \/ CasStore(t)
  <2>1. Moves(t, "done", Mem(t), loc[t].ret)
    BY <1>8, GoMoves DEF FaaStore, CasStore, PC
  <2>2. tag'.type = Mem(t).type /\ data' = data /\ Mem(t).type = TypeOf[data]
    BY <1>2, <1>8 DEF FaaStore, CasStore, At, Tag
  <2>3. TypesFit(loc[t])'
    BY <1>8, <2>1, DoneFits DEF FaaStore, CasStore, At
  <2> QED
    BY <2>2, <2>3, TypedStep
<1> QED
  BY <1>4, <1>5, <1>6, <1>7, <1>8

\* A process dies with the types as they are.
LEMMA TypedAbort ==
  ASSUME Synchronised, SerialReads, Inv, TypedInv, NEW t \in Threads, Step(t), Abort(t)
  PROVE  TypedInv'
<1>1. Becomes(t, "aborted", Mem(t)) /\ UNCHANGED <<tag, data>> /\ Op(t) \notin Readers
  BY AbortFacts, ThreadFacts DEF Abort, OpFits, Writers, Readers
<1>2. TypesFit(loc[t])'
  BY <1>1 DEF TypesFit, Becomes, OwnerAt
<1>3. tag.type = TypeOf[data]
  <2>1. CASE Owns(t)
    BY <2>1, TypeFacts DEF Abort, TypesFit, TypeKept, Owns, Op
  <2>2. CASE ~Owns(t)
    BY <2>2, TypeFacts, ThreadFacts DEF Abort, TypesFit, Owns, OwnerAt, OpFits, FinalFE, Op, Writers
  <2> QED
    BY <2>1, <2>2
<1> QED
  BY <1>1, <1>2, <1>3, TypedStep

\* A return keeps the types.
LEMMA TypedFinish ==
  ASSUME Synchronised, SerialReads, Inv, TypedInv, NEW t \in Threads, Step(t), Finish(t)
  PROVE  TypedInv'
<1>1. loc'[t] = Idle
  BY DEF Finish, Inv, TypeOK
<1>2. TypesFit(loc[t])'
  BY <1>1 DEF TypesFit, OwnerAt, Idle
<1> QED
  BY <1>2, TypedStep DEF Finish, At

\* A call keeps the types.
LEMMA TypedCall ==
  ASSUME Inv, TypedInv, NEW t \in Threads, NEW o \in Ops, Call(t, o)
  PROVE  TypedInv'
<1>1. /\ loc'[t].pc = Entry(o) /\ loc'[t].op = o
      /\ \A u \in Threads : u # t => loc'[u] = loc[u]
  BY DEF Inv, TypeOK, Call, Locals, Idle
<1>2. Entry(o) \in {"rLoad", "tLoad", "wLoad", "uLoad", "sLoad"} /\ ~OwnerAt(Entry(o), o)
  BY DEF Entry, OwnerAt, Waiters
<1>3. TypesFit(loc[t])'
  BY <1>1, <1>2 DEF TypesFit
<1>4. Typed'
  BY <1>1, <1>2 DEF TypedInv, Typed, Call, At, Op
<1>5. \A u \in Threads : u # t => TypesFit(loc[u])'
  BY <1>1 DEF TypedInv, TypesFit, Carried, Readable, Call
<1> QED
  BY <1>3, <1>4, <1>5 DEF TypedInv

-------------------------------------------------------------------------------
\* A new element has the type of its initial value.
LEMMA TypedInit == Init => TypedInv
  BY DEF Init, TypedInv, Typed, TypesFit, OwnerAt, Idle

\* Every step keeps the types.
LEMMA TypedNext ==
  ASSUME Synchronised, SerialReads, FaaTyped, Inv, TypedInv, [Next]_vars
  PROVE  TypedInv'
<1>1. CASE UNCHANGED vars
  BY <1>1 DEF vars, TypedInv, Typed, TypesFit, Carried, Readable, At, Op
<1>2. ASSUME NEW t \in Threads, NEW o \in Ops, Call(t, o) PROVE TypedInv'
  BY <1>2, TypedCall
<1>3. ASSUME NEW t \in Threads, Step(t) PROVE TypedInv'
  BY <1>3, TypedReadSteps, TypedTransitionSteps, TypedWriteSteps, TypedReleaseSteps,
     TypedSetSteps, TypedUpdateSteps, TypedAbort, TypedFinish DEF Step
<1> QED
  BY <1>1, <1>2, <1>3 DEF Next

\* The invariant of the type bits.
THEOREM TypedInvHolds == ASSUME Synchronised, SerialReads, FaaTyped PROVE Spec => []TypedInv
  BY TypedInit, TypedNext, InvHolds, PTL DEF Spec

\* No operation returns the type of one value with the data of another, and the type bits
\* of an element at rest describe its data word.
THEOREM ResultsTyped == ASSUME Synchronised, SerialReads, FaaTyped PROVE Spec => []TypedResults
<1>1. TypedInv => TypedResults
  BY DEF TypedInv, Typed, TypesFit, TypedResults, At, Op
<1> QED
  BY <1>1, TypedInvHolds, PTL

-------------------------------------------------------------------------------
(* Every operation takes effect in one step of TaggedCell. *)

\* EMSfaa is not used with JSON, for which it returns an error with the tag BUSY even
\* when the heap has space.
FaaAddable == "faa" \in Ops => \A v \in Value : Addable(TypeOf[v])

Disciplined == Synchronised /\ Respected /\ SerialReads /\ FaaTyped /\ FaaAddable

\* What a thread that owns the element remembers of the state it found.
FoundFits(l) ==
  /\ l.pc = "rData" /\ l.op \in {"readFE", "readFF"} => l.mem.fe = "FULL"
  /\ l.pc = "rData" /\ l.op = "readRW" => l.mem.fe \in {"FULL", "RW_LOCK"}
  /\ l.pc = "wData" /\ l.op \in {"writeXF", "writeXE"} => l.mem.fe \in {"FULL", "EMPTY"}
  /\ l.pc = "cWrite" =>
       TypeOf[l.old] = TypeOf[data] /\ (TypeOf[data] = "UNDEFINED" \/ l.ret.v = l.old)

FoundInv == \A t \in Threads : FoundFits(loc[t])

CellInv == Inv /\ ReaderInv /\ TypedInv /\ FoundInv

-------------------------------------------------------------------------------
\* A step keeps FoundInv if it keeps its own thread's part: the owner's data stay.
LEMMA FoundStep ==
  ASSUME Synchronised, Inv, FoundInv, NEW t \in Threads, Step(t), FoundFits(loc[t])'
  PROVE  FoundInv'
<1> SUFFICES ASSUME NEW u \in Threads, u # t PROVE FoundFits(loc[u])'
  BY DEF FoundInv
<1>1. loc'[u] = loc[u] /\ FoundFits(loc[u])
  BY OthersStay, ThreadFacts DEF FoundInv
<1>2. Owns(u) => data' = data
  BY OwnerUndisturbed
<1> QED
  BY <1>1, <1>2 DEF FoundFits, Owns, OwnerAt

\* A step to a program point of which FoundFits says nothing.
LEMMA FoundElsewhere ==
  ASSUME Synchronised, Inv, FoundInv, NEW t \in Threads, Step(t),
         loc'[t].pc \notin {"rData", "wData", "cWrite"}
  PROVE  FoundInv'
  BY FoundStep DEF FoundFits

\* EMSreadUsingTags remembers the state it found.
LEMMA FoundReadSteps ==
  ASSUME Synchronised, Inv, ReaderInv, FoundInv, NEW t \in Threads, Step(t),
         ReadLoad(t) \/ ReadCAS(t)
  PROVE  FoundInv'
<1> USE ElementAssumption, ThreadFacts, HolderFacts
<1>1. CASE ReadLoad(t)
  <2> DEFINE p == IF ~ReadReady(tag, Op(t), loc[t].full) THEN "rLoad"
                  ELSE IF InitialFE(Op(t)) = "ANY" THEN "rData" ELSE "rCAS"
  <2>1. p \in PC /\ Moves(t, p, tag, loc[t].ret)
    BY <1>1, GoWithMoves DEF ReadLoad, PC
  <2>2. p \in {"rLoad", "rCAS", "rData"} /\ (p = "rData" => Op(t) = "read")
    BY <1>1 DEF ReadLoad, At, InitialFE, OpFits, Readers
  <2> HIDE DEF p
  <2>3. FoundFits(loc[t])'
    BY <2>1, <2>2 DEF Moves, Becomes, FoundFits, Op
  <2> QED
    BY <2>3, FoundStep
<1>2. CASE ReadCAS(t)
  <2>1. CASE tag = Mem(t)
    <3>0. ReadTag(t) \in Tag /\ ReadTag(t).fe = Mem(t).fe
      <4>1. Op(t) = "readRW" => Mem(t).rw + 1 \in 0 .. RWMax
        BY <1>2 DEF ReadCAS, At, MemFits, Tag
      <4> QED
        BY <4>1 DEF ReadTag, Tag
    <3>1. Moves(t, "rData", ReadTag(t), loc[t].ret)
      BY <1>2, <2>1, <3>0, GoWithMoves DEF ReadCAS, PC
    <3>2. Mem(t).fe = "FULL" \/ (Op(t) = "readRW" /\ Mem(t).fe = "RW_LOCK")
      BY <1>2 DEF ReadCAS, At, ReadsFit, Op, Mem
    <3>3. FoundFits(loc[t])'
      BY <3>0, <3>1, <3>2 DEF Moves, Becomes, FoundFits, Op
    <3> QED
      BY <3>3, FoundStep
  <2>2. CASE tag # Mem(t)
    <3>1. PICK b \in BOOLEAN : loc' = [loc EXCEPT ![t].pc = "rLoad", ![t].full = b]
      BY <1>2, <2>2 DEF ReadCAS
    <3>2. Moves(t, "rLoad", Mem(t), loc[t].ret)
      BY <3>1, GoFullMoves DEF PC
    <3> QED
      BY <3>2, FoundElsewhere DEF Moves, Becomes
  <2> QED
    BY <2>1, <2>2
<1> QED
  BY <1>1, <1>2

\* EMSwriteUsingTags remembers the state it found.
LEMMA FoundWriteSteps ==
  ASSUME Synchronised, Respected, Inv, ReaderInv, FoundInv, NEW t \in Threads, Step(t),
         WriteLoad(t) \/ WriteCAS(t)
  PROVE  FoundInv'
<1> USE ElementAssumption, ThreadFacts, HolderFacts
<1>1. CASE WriteLoad(t)
  <2> DEFINE p == IF InitialFE(Op(t)) # "ANY" \/ FinalFE(Op(t)) = "ANY" THEN "wData"
                  ELSE IF tag.fe # "BUSY" THEN "wCAS" ELSE "wLoad"
  <2>1. p \in {"wLoad", "wCAS", "wData"} /\ Moves(t, p, tag, loc[t].ret)
    BY <1>1, GoWithMoves DEF WriteLoad, PC
  <2>2. p = "wData" => Op(t) \in {"writeEF", "write"}
    BY <1>1 DEF WriteLoad, At, OpFits, Writers, InitialFE, FinalFE
  <2> HIDE DEF p
  <2>3. FoundFits(loc[t])'
    BY <2>1, <2>2 DEF Moves, Becomes, FoundFits, Op
  <2> QED
    BY <2>3, FoundStep
<1>2. CASE WriteCAS(t)
  <2>1. PICK p \in {"wData", "wLoad"} : Go(t, p) /\ (p = "wData" => tag = Mem(t))
    BY <1>2 DEF WriteCAS
  <2>2. Moves(t, p, Mem(t), loc[t].ret)
    BY <2>1, GoMoves DEF PC
  <2>3. p = "wData" => Mem(t).fe \in {"FULL", "EMPTY"}
    BY <1>2, <2>1 DEF WriteCAS, At, MemFits, OpFits, Counted, Respected, Tag, FE
  <2>4. FoundFits(loc[t])'
    BY <2>2, <2>3 DEF Moves, Becomes, FoundFits
  <2> QED
    BY <2>4, FoundStep
<1> QED
  BY <1>1, <1>2

\* EMScas writes only what matched the value it was given.
LEMMA FoundCasRead ==
  ASSUME Synchronised, Inv, TypedInv, FoundInv, NEW t \in Threads, Step(t), CasRead(t)
  PROVE  FoundInv'
<1> USE ElementAssumption, ThreadFacts, TypeFacts
<1>1. Mem(t).type \in Type /\ TypesFit(loc[t]) /\ OwnerAt(loc[t].pc, loc[t].op)
  BY DEF Tag, CasRead, At, OwnerAt
<1>2. Mem(t).type = TypeOf[data]
  BY <1>1 DEF CasRead, At, TypesFit, TypeKept, Mem
<1>3. CASE ReturnHolding(t)
  <2>1. Moves(t, "done", Mem(t), NoRet)
    BY <1>3, IdleType, ReturnMoves DEF ReturnHolding
  <2> QED
    BY <2>1, FoundElsewhere DEF Moves, Becomes
<1>4. ASSUME NEW v \in Contents(t), NEW p \in {"cWrite", "cStore"},
             GoRet(t, p, Ok(Mem(t).type, v)), p = "cWrite" => CasMatches(t, v)
      PROVE  FoundInv'
  <2>1. Moves(t, p, Mem(t), Ok(Mem(t).type, v)) /\ data' = data
    BY <1>1, <1>4, ContentsValue, OkType, GoRetMoves DEF PC, CasRead
  <2>2. FoundFits(loc[t])'
    BY <1>2, <1>4, <2>1 DEF Moves, Becomes, FoundFits, CasMatches, Ok
  <2> QED
    BY <2>2, FoundStep
<1> QED
  BY <1>3, <1>4 DEF CasRead

\* Every step keeps FoundInv.
LEMMA FoundNext ==
  ASSUME Synchronised, Respected, Inv, ReaderInv, TypedInv, FoundInv, [Next]_vars
  PROVE  FoundInv'
<1>1. CASE UNCHANGED vars
  BY <1>1 DEF vars, FoundInv, FoundFits
<1>2. ASSUME NEW t \in Threads, NEW o \in Ops, Call(t, o) PROVE FoundInv'
  <2>1. loc'[t].pc = Entry(o) /\ \A u \in Threads : u # t => loc'[u] = loc[u]
    BY <1>2 DEF Inv, TypeOK, Call, Locals, Idle
  <2> QED
    BY <1>2, <2>1 DEF FoundInv, FoundFits, Call, Entry
<1>3. ASSUME NEW t \in Threads, Step(t) PROVE FoundInv'
  <2> USE <1>3
  <2>1. CASE ReadLoad(t) \/ ReadCAS(t) \/ WriteLoad(t) \/ WriteCAS(t) \/ CasRead(t)
    BY <2>1, FoundReadSteps, FoundWriteSteps, FoundCasRead
  <2>2. CASE TransitionCAS(t)
    <3>1. loc'[t].pc \in {"tLoad", Resume(Op(t))}
      BY <2>2 DEF TransitionCAS, Go, GoWith, Inv, TypeOK, Locals
    <3> QED
      BY <3>1, FoundElsewhere DEF Resume
  <2>3. CASE ReadData(t) \/ ReadStore(t) \/ TransitionLoad(t) \/ WriteData(t) \/ WriteCheck(t)
             \/ WriteStore(t) \/ ReleaseLoad(t) \/ ReleaseCAS(t) \/ SetLoad(t) \/ SetStore(t)
             \/ FaaStore(t) \/ CasType(t) \/ CasStore(t) \/ Abort(t) \/ Finish(t)
    <3>1. loc'[t].pc \in {"rStore", "tCAS", "wCheck", "wStore", "uLoad", "uCAS", "sStore",
                         "cRead", "done", "aborted", "idle"}
      BY <2>3 DEF ReadData, ReadStore, TransitionLoad, WriteData, WriteCheck, WriteStore,
         ReleaseLoad, ReleaseCAS, SetLoad, SetStore, FaaStore, CasType, CasStore, Abort,
         Finish, Go, GoWith, GoRet, Return, ReturnHolding, Inv, TypeOK, Locals, Idle
    <3> QED
      BY <3>1, FoundElsewhere
  <2>4. CASE FaaRead(t) \/ FaaWrite(t) \/ CasWrite(t)
    <3>1. loc'[t].pc \in {"fWrite", "fStore", "cStore", "done"}
      BY <2>4 DEF FaaRead, FaaWrite, CasWrite, GoWith, GoRet, Return, ReturnHolding, Inv,
         TypeOK, Locals
    <3> QED
      BY <3>1, FoundElsewhere
  <2> QED
    BY <2>1, <2>2, <2>3, <2>4 DEF Step
<1> QED
  BY <1>1, <1>2, <1>3 DEF Next

\* The inductive invariant the refinement rests on.
LEMMA CellInvHolds == ASSUME Disciplined PROVE Spec => []CellInv
<1>1. Init => FoundInv
  BY DEF Init, FoundInv, FoundFits, Idle
<1>2. Inv /\ ReaderInv /\ TypedInv /\ FoundInv /\ [Next]_vars => FoundInv'
  BY FoundNext DEF Disciplined
<1>3. Spec => []Inv /\ []ReaderInv /\ []TypedInv
  BY InvHolds, ReaderInvHolds, TypedInvHolds DEF Disciplined
<1>4. CellInv <=> Inv /\ ReaderInv /\ TypedInv /\ FoundInv
  BY DEF CellInv
<1> QED
  BY <1>1, <1>2, <1>3, <1>4, PTL DEF Spec

-------------------------------------------------------------------------------
(* How a step of one thread shows in the variables of TaggedCell.            *)

\* What the abstract state says of the element when no thread but t may own it.
Seen(t) ==
  IF Owns(t) THEN IF Committed(t) THEN FinalFE(Op(t)) ELSE FoundFE(t) ELSE tag.fe

SeenIsAbs ==
  \A t \in Threads : Inv /\ (\A u \in Threads : u # t => ~Owns(u)) => AbsFE = Seen(t)

\* Only one thread can be the one AbsFE looks at.
LEMMA FESeen == SeenIsAbs
<1> SUFFICES ASSUME NEW t \in Threads, Inv, \A u \in Threads : u # t => ~Owns(u)
             PROVE  AbsFE = Seen(t)
  BY DEF SeenIsAbs
<1>1. CASE Owns(t)
  <2>1. tag.fe = "BUSY" /\ ~leaked
    BY <1>1 DEF Inv, ExclusiveBusy
  <2>2. (CHOOSE u \in Threads : Owns(u)) = t
    BY <1>1
  <2> QED
    BY <1>1, <2>1, <2>2 DEF AbsFE, Seen
<1>2. CASE ~Owns(t)
  <2>1. tag.fe = "BUSY" => leaked
    BY <1>2 DEF Inv, ExclusiveBusy
  <2> QED
    BY <1>2, <2>1 DEF AbsFE, Seen
<1> QED
  BY <1>1, <1>2

\* The same of the next state.
LEMMA FESeenNext == SeenIsAbs'
  BY FESeen, PTL

\* A step of t shows in AbsFE as it shows to t, or not at all while another thread owns
\* the element.
LEMMA FEStep ==
  ASSUME Synchronised, Inv, Inv', NEW t \in Threads, Step(t)
  PROVE  \/ AbsFE = Seen(t) /\ AbsFE' = Seen(t)'
         \/ /\ AbsFE' = AbsFE /\ tag' = tag /\ tag.fe = "BUSY" /\ data' = data /\ freed' = freed
            /\ ~Owns(t) /\ Op(t) \notin Alone
<1>1. CASE \A u \in Threads : u # t => ~Owns(u)
  <2>1. \A u \in Threads : u # t => ~Owns(u)'
    BY <1>1, OthersStay, ThreadFacts DEF Owns, Op
  <2> QED
    BY <1>1, <2>1, FESeen, FESeenNext DEF SeenIsAbs
<1>2. CASE \E u \in Threads : u # t /\ Owns(u)
  <2>1. PICK u \in Threads : u # t /\ Owns(u)
    BY <1>2
  <2>2. /\ loc'[u] = loc[u] /\ tag' = tag /\ data' = data /\ freed' = freed
        /\ leaked' = leaked /\ tag.fe = "BUSY"
    BY <2>1, OthersStay, OwnerUndisturbed, ThreadFacts
  <2>3. Owns(u)' /\ Seen(u)' = Seen(u)
    BY <2>1, <2>2 DEF Owns, Seen, Committed, FoundFE, Op, Mem
  <2>4. \A v \in Threads : v # u => ~Owns(v)
    BY <2>1 DEF Inv, ExclusiveBusy
  <2>5. \A v \in Threads : v # u => ~Owns(v)'
    BY <2>1, <2>3 DEF Inv, ExclusiveBusy
  <2>6. AbsFE = Seen(u) /\ AbsFE' = Seen(u)'
    BY <2>4, <2>5, FESeen, FESeenNext DEF SeenIsAbs
  <2>7. ~Owns(t)
    BY <2>1, <2>4
  <2>8. Op(t) \notin Alone
    <3>1. ~At(t, "idle") \/ Op(t) \notin Alone
      BY DEF Step, ReadLoad, ReadCAS, ReadData, ReadStore, TransitionLoad, TransitionCAS,
         WriteLoad, WriteCAS, WriteData, WriteCheck, WriteStore, ReleaseLoad, ReleaseCAS,
         SetLoad, SetStore, FaaRead, FaaWrite, FaaStore, CasType, CasRead, CasWrite, CasStore,
         Abort, Finish, At
    <3> QED
      BY <2>1, <3>1 DEF Inv, Serial, Quiescent, At, Owns, OwnerAt
  <2> QED
    BY <2>2, <2>3, <2>6, <2>7, <2>8
<1> QED
  BY <1>1, <1>2

CommittedAt(p) == p \in {"rStore", "wCheck", "wStore", "fStore", "cStore", "done"}

\* What TaggedCell sees of a thread with locals l.
Client(l) ==
  [st  |-> IF l.pc \in {"idle", "aborted"} THEN l.pc ELSE IF CommittedAt(l.pc) THEN "done" ELSE "pending",
   op  |-> l.op, arg |-> l.arg, old |-> l.old,
   res |-> IF ~CommittedAt(l.pc) THEN NoRet
           ELSE IF l.pc \in {"wCheck", "wStore"} THEN Ok(TypeOf[l.arg], l.arg)
           ELSE l.ret]

\* A step of t changes the client t of TaggedCell only.
LEMMA ClientStep ==
  ASSUME NEW t \in Threads, \A u \in Threads : u # t => loc'[u] = loc[u]
  PROVE  /\ AbsClient[t] = Client(loc[t])
         /\ AbsClient' = [AbsClient EXCEPT ![t] = Client(loc'[t])]
<1>1. AbsClient = [u \in Threads |-> Client(loc[u])]
  BY DEF AbsClient, Client, Committed, CommittedAt, At, Op
<1>2. AbsClient' = [u \in Threads |-> Client(loc'[u])]
  BY DEF AbsClient, Client, Committed, CommittedAt, At, Op
<1> QED
  BY <1>1, <1>2

\* A step of t changes no other reader of TaggedCell.
LEMMA ReadersStep ==
  ASSUME Inv, Inv', NEW t \in Threads,
         \A u \in Threads : u # t => loc'[u] = loc[u] /\ (u \in holders' <=> u \in holders)
  PROVE  \A u \in Threads : u # t => (u \in AbsReaders' <=> u \in AbsReaders)
  BY DEF AbsReaders, At, Op

\* Which of TaggedCell's readers t is.
Reading(t) == t \in holders /\ ~(At(t, "rData") /\ Op(t) = "readRW")

\* Steps that take effect neither for the caller nor for the others.
LEMMA SilentStep ==
  ASSUME Synchronised, Inv, Inv', NEW t \in Threads, Step(t),
         Client(loc'[t]) = Client(loc[t]), data' = data, freed' = freed, Seen(t)' = Seen(t),
         Reading(t)' <=> Reading(t),
         \A u \in Threads : u # t => (u \in holders' <=> u \in holders)
  PROVE  UNCHANGED <<AbsFE, data, freed, AbsReaders, AbsClient>>
<1>1. \A u \in Threads : u # t => loc'[u] = loc[u]
  BY OthersStay, ThreadFacts
<1>2. AbsFE' = AbsFE
  BY FEStep
<1>3. AbsReaders' = AbsReaders
  <2>1. \A u \in Threads : u # t => (u \in AbsReaders' <=> u \in AbsReaders)
    BY <1>1, ReadersStep
  <2>2. (t \in AbsReaders' <=> Reading(t)') /\ (t \in AbsReaders <=> Reading(t))
    BY DEF AbsReaders, Reading
  <2>3. AbsReaders \subseteq Threads /\ AbsReaders' \subseteq Threads
    BY DEF AbsReaders, Inv, TypeOK
  <2> QED
    BY <2>1, <2>2, <2>3
<1>4. AbsClient' = AbsClient
  <2>1. AbsClient[t] = Client(loc[t]) /\ AbsClient' = [AbsClient EXCEPT ![t] = Client(loc'[t])]
    BY <1>1, ClientStep
  <2> QED
    BY <2>1 DEF AbsClient
<1> QED
  BY <1>2, <1>3, <1>4

\* The same, in terms of where t was and where it goes.
SeenAt(o, p, m, f) ==
  IF OwnerAt(p, o)
  THEN IF CommittedAt(p) THEN FinalFE(o) ELSE IF o \in Waiters THEN InitialFE(o) ELSE m.fe
  ELSE f

\* Seen before and after a move of t.
LEMMA SeenMoves ==
  ASSUME NEW t \in Threads, NEW p, NEW m, NEW r, Moves(t, p, m, r)
  PROVE  /\ Seen(t) = SeenAt(Op(t), loc[t].pc, Mem(t), tag.fe)
         /\ Seen(t)' = SeenAt(Op(t), p, m, tag'.fe)
  BY DEF Moves, Becomes, Seen, SeenAt, Owns, Committed, CommittedAt, FoundFE, Op, Mem

\* A step before the operation takes effect.
LEMMA PendingStep ==
  ASSUME Synchronised, Inv, Inv', NEW t \in Threads, Step(t), NEW p, NEW m, NEW r,
         Moves(t, p, m, r), ~CommittedAt(loc[t].pc), ~CommittedAt(p),
         ~At(t, "idle"), ~At(t, "aborted"), p \notin {"idle", "aborted"},
         data' = data, freed' = freed,
         SeenAt(Op(t), p, m, tag'.fe) = SeenAt(Op(t), loc[t].pc, Mem(t), tag.fe),
         \/ holders' = holders /\ ~At(t, "rData") /\ (p # "rData" \/ Op(t) # "readRW")
         \/ p = "rData" /\ Op(t) = "readRW" /\ t \notin holders /\ holders' = holders \cup {t}
  PROVE  UNCHANGED <<AbsFE, data, freed, AbsReaders, AbsClient>>
<1>1. Client(loc'[t]) = Client(loc[t])
  BY DEF Moves, Becomes, Client, At
<1>2. Reading(t)' <=> Reading(t)
  BY DEF Moves, Becomes, Reading, At, Op
<1> QED
  BY <1>1, <1>2, SeenMoves, SilentStep

\* A step after the operation took effect.
LEMMA ResultStep ==
  ASSUME Synchronised, Inv, Inv', NEW t \in Threads, Step(t), NEW p, NEW m, NEW r,
         Moves(t, p, m, r), CommittedAt(loc[t].pc), CommittedAt(p),
         data' = data, freed' = freed, holders' = holders,
         SeenAt(Op(t), p, m, tag'.fe) = SeenAt(Op(t), loc[t].pc, Mem(t), tag.fe),
         \/ loc[t].pc \notin {"wCheck", "wStore"} /\ p \notin {"wCheck", "wStore"}
            /\ r = loc[t].ret
         \/ loc[t].pc \in {"wCheck", "wStore"}
            /\ (p \in {"wCheck", "wStore"} \/ r = Ok(TypeOf[loc[t].arg], loc[t].arg))
  PROVE  UNCHANGED <<AbsFE, data, freed, AbsReaders, AbsClient>>
<1>1. Client(loc'[t]) = Client(loc[t])
  BY DEF Moves, Becomes, Client, CommittedAt
<1>2. Reading(t)' <=> Reading(t)
  BY DEF Moves, Becomes, Reading, CommittedAt, At, Op
<1> QED
  BY <1>1, <1>2, SeenMoves, SilentStep

\* The step in which the operation takes effect.
LEMMA DoneStep ==
  ASSUME Inv, Inv', NEW t \in Threads, NEW p, NEW m, NEW r,
         Moves(t, p, m, r), ~CommittedAt(loc[t].pc), CommittedAt(p),
         ~At(t, "idle"), ~At(t, "aborted")
  PROVE  /\ Cell!Pending(t, Op(t))
         /\ AbsClient[t].arg = loc[t].arg /\ AbsClient[t].old = loc[t].old
         /\ Cell!Done(t, IF p \in {"wCheck", "wStore"} THEN Ok(TypeOf[loc[t].arg], loc[t].arg)
                         ELSE r)
<1> DEFINE res == IF p \in {"wCheck", "wStore"} THEN Ok(TypeOf[loc[t].arg], loc[t].arg) ELSE r
           c   == Client(loc[t])
<1>1. c.st = "pending" /\ c.op = Op(t) /\ c.arg = loc[t].arg /\ c.old = loc[t].old
  BY DEF Client, At, Op
<1>2. Client(loc'[t]) = [c EXCEPT !.st = "done", !.res = res]
  <2>1. Client(loc'[t]) =
          [st |-> "done", op |-> loc[t].op, arg |-> loc[t].arg, old |-> loc[t].old, res |-> res]
    BY DEF Moves, Becomes, Client, CommittedAt
  <2>2. c = [st |-> "pending", op |-> loc[t].op, arg |-> loc[t].arg, old |-> loc[t].old,
             res |-> NoRet]
    BY DEF Client, At
  <2> DEFINE d == [c EXCEPT !.st = "done"]
  <2> HIDE DEF c, res
  <2>3. d = [st |-> "done", op |-> loc[t].op, arg |-> loc[t].arg, old |-> loc[t].old,
             res |-> NoRet]
    BY <2>2
  <2>4. [c EXCEPT !.st = "done", !.res = res] = [d EXCEPT !.res = res]
    OBVIOUS
  <2> HIDE DEF d
  <2> QED
    BY <2>1, <2>3, <2>4
<1>3. AbsClient[t] = c /\ AbsClient' = [AbsClient EXCEPT ![t] = Client(loc'[t])]
  BY ClientStep DEF Moves, Becomes
<1> HIDE DEF c, res
<1>4. AbsClient' = [AbsClient EXCEPT ![t].st = "done", ![t].res = res]
  BY <1>2, <1>3
<1> QED
  BY <1>1, <1>3, <1>4 DEF Cell!Pending, Cell!Done, res

\* The readers of TaggedCell when t's step changes no holder.
LEMMA SameReaders ==
  ASSUME Inv, Inv', NEW t \in Threads, NEW p, NEW m, NEW r, Moves(t, p, m, r),
         holders' = holders, Op(t) # "readRW" \/ (~At(t, "rData") /\ p # "rData")
  PROVE  AbsReaders' = AbsReaders
<1>1. \A u \in Threads : u \in AbsReaders' <=> u \in AbsReaders
  BY DEF Moves, Becomes, AbsReaders, At, Op
<1>2. AbsReaders \subseteq Threads /\ AbsReaders' \subseteq Threads
  BY DEF AbsReaders, Inv, TypeOK
<1> QED
  BY <1>1, <1>2

\* The vocabulary of TaggedCell's actions.
LEMMA CellResults ==
  /\ Cell!NoRes = NoRet
  /\ \A v \in Value : Cell!Result(v) = Ok(TypeOf[v], v)
  /\ Cell!AnyValue = AnyValue
  /\ Cell!HeapTypes = HeapTypes /\ Cell!Contents = Readable
<1>1. Cell!AnyValue = AnyValue
  BY DEF Cell!AnyValue, AnyValue
<1>2. Cell!NoRes = NoRet
  BY <1>1 DEF Cell!NoRes, NoRet
<1>3. \A v \in Value : Cell!Result(v) = Ok(TypeOf[v], v)
  BY DEF Cell!Result, Ok
<1>4. Cell!HeapTypes = HeapTypes /\ Cell!Contents = Readable
  BY DEF Cell!HeapTypes, HeapTypes, Cell!Contents, Readable
<1> QED
  BY <1>1, <1>2, <1>3, <1>4

Maps == [Cell!Next]_(Cell!vars)

\* A step invisible in the variables of TaggedCell is a stuttering step.
LEMMA Unchanged ==
  ASSUME UNCHANGED <<AbsFE, data, freed, AbsReaders, AbsClient>> PROVE Maps
  BY DEF Maps, Cell!vars

\* TaggedCell's bound on its readers, in terms of their number.
LEMMA FitsCardinality ==
  ASSUME NEW S, IsFiniteSet(S), Cardinality(S) <= RWMax
  PROVE  Cell!Fit(S)
<1> DEFINE n == Cardinality(S)
<1>1. n \in Nat /\ RWMax \in Nat
  BY FS_CardinalityType, ElementAssumption
<1>2. PICK f \in [1 .. n -> S] :
        /\ \A x, y \in 1 .. n : f[x] = f[y] => x = y
        /\ \A s \in S : \E x \in 1 .. n : f[x] = s
  BY FS_CardinalityType DEF ExistsBijection, Bijection, Injection, IsInjective, Surjection
<1> DEFINE place == [s \in S |-> CHOOSE x \in 1 .. n : f[x] = s]
<1>3. \A s \in S : place[s] \in 1 .. n /\ f[place[s]] = s
  BY <1>2
<1> HIDE DEF n
<1>4. 1 .. n \subseteq 1 .. RWMax
  BY <1>1 DEF n
<1>5. place \in [S -> 1 .. RWMax]
  BY <1>3, <1>4
<1> HIDE DEF place
<1> QED
  BY <1>3, <1>5 DEF Cell!Fit

-------------------------------------------------------------------------------
\* Looking at the tag is invisible.
LEMMA MapsReadLoad ==
  ASSUME Disciplined, CellInv, CellInv', NEW t \in Threads, Step(t), ReadLoad(t)
  PROVE  Maps
<1> USE ElementAssumption, ThreadFacts DEF CellInv, Disciplined
<1> DEFINE p == IF ~ReadReady(tag, Op(t), loc[t].full) THEN "rLoad"
                ELSE IF InitialFE(Op(t)) = "ANY" THEN "rData" ELSE "rCAS"
<1>1. p \in PC /\ Moves(t, p, tag, loc[t].ret)
  BY GoWithMoves DEF ReadLoad, PC
<1>2. p \in {"rLoad", "rCAS", "rData"} /\ (p = "rData" => Op(t) = "read")
  BY DEF ReadLoad, At, InitialFE, OpFits, Readers
<1> HIDE DEF p
<1>3. SeenAt(Op(t), p, tag, tag'.fe) = SeenAt(Op(t), loc[t].pc, Mem(t), tag.fe)
  BY <1>2 DEF ReadLoad, At, SeenAt, OwnerAt, FinalFE
<1> QED
  BY <1>1, <1>2, <1>3, PendingStep, Unchanged DEF ReadLoad, At, CommittedAt

\* Making the element BUSY for a read is invisible.
LEMMA MapsReadCAS ==
  ASSUME Disciplined, CellInv, CellInv', NEW t \in Threads, Step(t), ReadCAS(t)
  PROVE  Maps
<1> USE ElementAssumption, ThreadFacts, HolderFacts DEF CellInv, Disciplined
<1>0. Op(t) \in {"readRW", "readFE", "readFF"} /\ FinalFE(Op(t)) # "ANY" /\ Op(t) \notin Waiters
  BY DEF ReadCAS, At, OpFits, Readers, FinalFE, Waiters
<1>1. CASE tag = Mem(t)
  <2>0. ReadTag(t) \in Tag /\ ReadTag(t).fe = Mem(t).fe
    <3>1. Op(t) = "readRW" => Mem(t).rw + 1 \in 0 .. RWMax
      BY DEF ReadCAS, At, MemFits, Tag
    <3> QED
      BY <3>1 DEF ReadTag, Tag
  <2>1. Moves(t, "rData", ReadTag(t), loc[t].ret)
    BY <1>1, <2>0, GoWithMoves DEF ReadCAS, PC
  <2>2. SeenAt(Op(t), "rData", ReadTag(t), tag'.fe) = SeenAt(Op(t), loc[t].pc, Mem(t), tag.fe)
    BY <1>0, <1>1, <2>0 DEF ReadCAS, At, SeenAt, OwnerAt, CommittedAt
  <2>3. \/ holders' = holders /\ Op(t) # "readRW"
        \/ Op(t) = "readRW" /\ t \notin holders /\ holders' = holders \cup {t}
    BY <1>1 DEF ReadCAS, At, ReadsFit, Op
  <2>4. loc[t].pc = "rCAS" /\ UNCHANGED <<data, freed>>
    BY DEF ReadCAS, At
  <2>5. UNCHANGED <<AbsFE, data, freed, AbsReaders, AbsClient>>
    BY <2>1, <2>2, <2>3, <2>4, PendingStep DEF At, CommittedAt
  <2> QED
    BY <2>5, Unchanged
<1>2. CASE tag # Mem(t)
  <2>1. PICK b \in BOOLEAN : loc' = [loc EXCEPT ![t].pc = "rLoad", ![t].full = b]
    BY <1>2 DEF ReadCAS
  <2>2. Moves(t, "rLoad", Mem(t), loc[t].ret)
    BY <2>1, GoFullMoves DEF PC
  <2>3. SeenAt(Op(t), "rLoad", Mem(t), tag'.fe) = SeenAt(Op(t), loc[t].pc, Mem(t), tag.fe)
    BY <1>2 DEF ReadCAS, At, SeenAt, OwnerAt
  <2>4. loc[t].pc = "rCAS" /\ UNCHANGED <<data, freed, holders>>
    BY <1>2 DEF ReadCAS, At
  <2>5. UNCHANGED <<AbsFE, data, freed, AbsReaders, AbsClient>>
    BY <2>2, <2>3, <2>4, PendingStep DEF At, CommittedAt
  <2> QED
    BY <2>5, Unchanged
<1> QED
  BY <1>1, <1>2

\* A read takes effect when it reads the data word: under BUSY, unless it is a plain one.
LEMMA MapsReadData ==
  ASSUME Disciplined, CellInv, CellInv', NEW t \in Threads, Step(t), ReadData(t)
  PROVE  Maps
<1> USE ElementAssumption, ThreadFacts, HolderFacts, TypeFacts DEF CellInv, Disciplined
<1> DEFINE p == IF FinalFE(Op(t)) = "ANY" THEN "done" ELSE "rStore"
<1>0. UNCHANGED <<tag, data, freed, holders>> /\ Op(t) \in Readers /\ At(t, "rData")
  BY DEF ReadData, At, OpFits
<1>1. PICK v \in Contents(t) : GoRet(t, p, Ok(Mem(t).type, v))
  BY DEF ReadData
<1>2. Moves(t, p, Mem(t), Ok(Mem(t).type, v))
  BY <1>1, ContentsValue, GoRetMoves, OkType DEF PC, Tag
<1>3. /\ (p = "done" /\ Op(t) = "read") \/ (p = "rStore" /\ Op(t) # "read" /\ Owns(t))
      /\ Op(t) = "read" => ~Owns(t)
  BY <1>0 DEF At, Owns, OwnerAt, FinalFE, Readers
<1>4. Mem(t).type = TypeOf[data]
  BY <1>0, <1>3 DEF At, TypesFit, TypeKept, Owns, Op, Mem
<1> HIDE DEF p
<1>5. Cell!Pending(t, Op(t)) /\ \E w \in Cell!Contents : Cell!Done(t, Cell!Result(w))
  <2>1. v \in Readable /\ v \in Value /\ TypeOf[v] = TypeOf[data]
    BY <1>4, ContentsReadable, ReadableFacts
  <2>2. v \in Cell!Contents /\ Cell!Result(v) = Ok(Mem(t).type, v)
    BY <1>4, <2>1, CellResults
  <2>3. Cell!Pending(t, Op(t)) /\ Cell!Done(t, Ok(Mem(t).type, v))
    BY <1>0, <1>2, <1>3, DoneStep DEF At, CommittedAt
  <2> QED
    BY <2>2, <2>3
<1>6. CASE Op(t) = "read"
  <2>1. SeenAt(Op(t), p, Mem(t), tag'.fe) = SeenAt(Op(t), loc[t].pc, Mem(t), tag.fe)
    BY <1>0, <1>3, <1>6 DEF At, SeenAt, OwnerAt, FinalFE
  <2>2. AbsFE' = AbsFE
    BY <1>2, <2>1, FEStep, SeenMoves
  <2>3. AbsReaders' = AbsReaders
    BY <1>0, <1>2, <1>6, SameReaders
  <2> QED
    BY <1>0, <1>5, <1>6, <2>2, <2>3 DEF Cell!Read, Cell!Next, Maps
<1>7. CASE Op(t) # "read"
  <2>1. Seen(t) = Mem(t).fe /\ Seen(t)' = FinalFE(Op(t))
    <3>1. Op(t) \notin Waiters
      BY <1>0 DEF Readers, Waiters
    <3> QED
      BY <1>0, <1>2, <1>3, <1>7, <3>1, SeenMoves DEF At, SeenAt, Owns, OwnerAt, CommittedAt, Readers, FinalFE
  <2>2. AbsFE = Mem(t).fe /\ AbsFE' = FinalFE(Op(t))
    BY <1>3, <1>7, <2>1, FEStep
  <2>3. FoundFits(loc[t])
    BY DEF FoundInv
  <2>4. CASE Op(t) \in {"readFE", "readFF"}
    <3>1. AbsFE = "FULL" /\ AbsFE' = IF Op(t) = "readFE" THEN "EMPTY" ELSE "FULL"
      BY <1>0, <2>2, <2>3, <2>4 DEF At, FoundFits, Op, Mem, FinalFE
    <3>2. AbsReaders' = AbsReaders
      BY <1>0, <1>2, <2>4, SameReaders
    <3> QED
      BY <1>0, <1>5, <2>4, <3>1, <3>2 DEF Cell!ReadFE, Cell!ReadFF, Cell!Next, Maps
  <2>5. CASE Op(t) = "readRW"
    <3>1. AbsFE \in {"FULL", "RW_LOCK"} /\ AbsFE' = "RW_LOCK"
      BY <1>0, <2>2, <2>3, <2>5 DEF At, FoundFits, Op, Mem, FinalFE
    <3>2. t \in holders
      BY <1>0, <2>5 DEF At, ReadsFit, Op
    <3>3. AbsReaders' = AbsReaders \cup {t}
      <4>1. \A u \in Threads : u # t => (u \in AbsReaders' <=> u \in AbsReaders)
        BY <1>0, <1>2 DEF Moves, Becomes, AbsReaders, At, Op
      <4>2. t \in AbsReaders'
        BY <1>0, <1>2, <1>3, <2>5, <3>2 DEF Moves, Becomes, AbsReaders, At
      <4>3. AbsReaders \subseteq Threads /\ AbsReaders' \subseteq Threads
        BY <1>0 DEF AbsReaders
      <4> QED
        BY <4>1, <4>2, <4>3
    <3>4. Cell!Fit(AbsReaders \cup {t})
      <4>1. /\ AbsReaders \cup {t} = holders
            /\ IsFiniteSet(holders) /\ Cardinality(holders) = tag.rw /\ tag.rw \in 0 .. RWMax
        <5>1. \A u \in Threads : u # t => (u \in AbsReaders <=> u \in holders)
          <6>1. \A u \in Threads : u # t => ~Owns(u)
            BY <1>3, <2>5 DEF Inv, ExclusiveBusy
          <6>2. \A u \in Threads : At(u, "rData") /\ Op(u) = "readRW" => Owns(u)
            BY DEF At, Op, Owns, OwnerAt, FinalFE
          <6> QED
            BY <6>1, <6>2 DEF AbsReaders
        <5> QED
          BY <3>2, <5>1 DEF Counted, Tag, AbsReaders
      <4>2. Cardinality(holders) <= RWMax
        BY <4>1
      <4>3. Cell!Fit(holders)
        BY <4>1, <4>2, FitsCardinality
      <4> QED
        BY <4>1, <4>3
    <3>5. Cell!ReadRW(t)
      BY <1>0, <1>5, <2>5, <3>1, <3>3, <3>4 DEF Cell!ReadRW
    <3> QED
      BY <3>5 DEF Cell!Next, Maps
  <2> QED
    BY <1>0, <1>7, <2>4, <2>5 DEF Readers
<1> QED
  BY <1>6, <1>7

\* Storing the final tag of a read is invisible.
LEMMA MapsReadStore ==
  ASSUME Disciplined, CellInv, CellInv', NEW t \in Threads, Step(t), ReadStore(t)
  PROVE  Maps
<1> USE ElementAssumption, ThreadFacts DEF CellInv, Disciplined
<1>1. Moves(t, "done", Mem(t), loc[t].ret)
  BY GoMoves DEF ReadStore, PC
<1>2. SeenAt(Op(t), "done", Mem(t), tag'.fe) = SeenAt(Op(t), loc[t].pc, Mem(t), tag.fe)
  <2>1. tag'.fe = FinalFE(Op(t))
    BY DEF ReadStore, Tag
  <2> QED
    BY <2>1 DEF ReadStore, At, SeenAt, OwnerAt, CommittedAt
<1> QED
  BY <1>1, <1>2, ResultStep, Unchanged DEF ReadStore, At, CommittedAt

\* Waiting in EMStransitionFEtag, and the end of the wait, are invisible.
LEMMA MapsTransition ==
  ASSUME Disciplined, CellInv, CellInv', NEW t \in Threads, Step(t),
         TransitionLoad(t) \/ TransitionCAS(t)
  PROVE  Maps
<1> USE ElementAssumption, ThreadFacts DEF CellInv, Disciplined
<1>0. Op(t) \in Waiters
  BY DEF TransitionLoad, TransitionCAS, At, OpFits
<1>1. CASE TransitionLoad(t)
  <2>1. Moves(t, "tCAS", tag, loc[t].ret)
    BY <1>1, GoWithMoves DEF TransitionLoad, PC
  <2>2. SeenAt(Op(t), "tCAS", tag, tag'.fe) = SeenAt(Op(t), loc[t].pc, Mem(t), tag.fe)
    BY <1>1 DEF TransitionLoad, At, SeenAt, OwnerAt
  <2> QED
    BY <1>1, <2>1, <2>2, PendingStep, Unchanged DEF TransitionLoad, At, CommittedAt
<1>2. CASE TransitionCAS(t)
  <2> DEFINE old == [Mem(t) EXCEPT !.fe = InitialFE(Op(t))]
             p   == Resume(Op(t))
  <2>1. InitialFE(Op(t)) \in {"FULL", "EMPTY"}
    BY <1>0 DEF InitialFE, Waiters
  <2>2. old \in Tag /\ Busy(old) \in Tag /\ old.fe = InitialFE(Op(t))
    <3>1. Mem(t) \in Tag /\ InitialFE(Op(t)) \in FE
      BY <2>1 DEF FE
    <3>2. old \in Tag /\ old.fe = InitialFE(Op(t))
      BY <3>1 DEF Tag
    <3> QED
      BY <3>2, BusyType
  <2>3. CASE tag = old
    <3>1. p \in PC /\ Moves(t, p, Busy(old), loc[t].ret)
      BY <1>2, <2>2, <2>3, GoWithMoves DEF TransitionCAS, Resume, PC
    <3>2. /\ OwnerAt(p, Op(t)) /\ ~CommittedAt(p) /\ p \notin {"idle", "aborted", "rData"}
          /\ ~OwnerAt("tCAS", Op(t))
      BY <1>0 DEF Resume, OwnerAt, CommittedAt, Waiters
    <3>3. SeenAt(Op(t), p, Busy(old), tag'.fe) = SeenAt(Op(t), loc[t].pc, Mem(t), tag.fe)
      BY <1>0, <1>2, <2>2, <2>3, <3>2 DEF TransitionCAS, At, SeenAt
    <3> HIDE DEF p
    <3> QED
      BY <1>2, <2>3, <3>1, <3>2, <3>3, PendingStep, Unchanged DEF TransitionCAS, At, CommittedAt
  <2>4. CASE tag # old
    <3>1. Moves(t, "tLoad", Mem(t), loc[t].ret)
      BY <1>2, <2>4, GoMoves DEF TransitionCAS, PC
    <3>2. SeenAt(Op(t), "tLoad", Mem(t), tag'.fe) = SeenAt(Op(t), loc[t].pc, Mem(t), tag.fe)
      BY <1>2, <2>4 DEF TransitionCAS, At, SeenAt, OwnerAt
    <3> QED
      BY <1>2, <3>1, <3>2, PendingStep, Unchanged DEF TransitionCAS, At, CommittedAt
  <2> QED
    BY <2>3, <2>4
<1> QED
  BY <1>1, <1>2

-------------------------------------------------------------------------------
\* The step in which an operation that holds the element takes effect.
LEMMA CommitStep ==
  ASSUME Disciplined, CellInv, CellInv', NEW t \in Threads, Step(t), NEW p, NEW m, NEW r,
         Moves(t, p, m, r), ~CommittedAt(loc[t].pc), CommittedAt(p), Owns(t),
         holders' = holders, Op(t) # "readRW"
  PROVE  /\ Cell!Pending(t, Op(t))
         /\ AbsClient[t].arg = loc[t].arg /\ AbsClient[t].old = loc[t].old
         /\ Cell!Done(t, IF p \in {"wCheck", "wStore"} THEN Ok(TypeOf[loc[t].arg], loc[t].arg)
                         ELSE r)
         /\ AbsReaders' = AbsReaders
         /\ AbsFE = (IF Op(t) \in Waiters THEN InitialFE(Op(t)) ELSE Mem(t).fe)
         /\ AbsFE' = (IF OwnerAt(p, Op(t)) THEN FinalFE(Op(t)) ELSE tag'.fe)
<1> USE DEF CellInv, Disciplined
<1>1. ~At(t, "idle") /\ ~At(t, "aborted")
  BY DEF At, Owns, OwnerAt
<1>2. AbsFE = Seen(t) /\ AbsFE' = Seen(t)'
  BY FEStep
<1>3. /\ Seen(t) = SeenAt(Op(t), loc[t].pc, Mem(t), tag.fe)
      /\ Seen(t)' = SeenAt(Op(t), p, m, tag'.fe)
  BY SeenMoves
<1>4. AbsReaders' = AbsReaders
  BY SameReaders
<1> QED
  BY <1>1, <1>2, <1>3, <1>4, DoneStep DEF SeenAt, Owns

\* What a thread about to free or allocate a block found when it took the element.
LEMMA HeldFE ==
  ASSUME Disciplined, CellInv, CellInv', NEW t \in Threads, Step(t), Owns(t),
         loc[t].pc \in {"wData", "fRead", "fWrite", "cRead", "cWrite"}
  PROVE  /\ Op(t) \in {"writeEF", "writeXF", "writeXE", "faa", "cas"}
         /\ Op(t) = "writeEF" => AbsFE = "EMPTY"
         /\ Op(t) \in {"writeXF", "writeXE"} => AbsFE \in {"FULL", "EMPTY"}
         /\ Op(t) \in {"faa", "cas"} => AbsFE = "FULL"
<1> USE ThreadFacts DEF CellInv, Disciplined
<1>1. Op(t) \in {"writeEF", "writeXF", "writeXE", "faa", "cas"}
  BY DEF OpFits, Owns, OwnerAt, FinalFE, Writers
<1>2. AbsFE = (IF Op(t) \in Waiters THEN InitialFE(Op(t)) ELSE Mem(t).fe)
  <2>1. AbsFE = Seen(t)
    BY FEStep
  <2> QED
    BY <2>1 DEF Seen, Committed, FoundFE
<1>3. Op(t) \in {"writeXF", "writeXE"} => Mem(t).fe \in {"FULL", "EMPTY"}
  BY DEF FoundInv, FoundFits, Op, Mem, OpFits
<1> QED
  BY <1>1, <1>2, <1>3 DEF Waiters, InitialFE

\* An error return under BUSY leaves the element BUSY.
LEMMA FailHolding ==
  ASSUME Disciplined, CellInv, CellInv', NEW t \in Threads, Step(t), ReturnHolding(t),
         UNCHANGED <<tag, data, holders>>, Owns(t),
         loc[t].pc \in {"wData", "fRead", "fWrite", "cRead", "cWrite"}
  PROVE  /\ Cell!Pending(t, Op(t)) /\ Cell!Done(t, Cell!NoRes)
         /\ AbsClient[t].arg = loc[t].arg /\ AbsClient[t].old = loc[t].old
         /\ AbsReaders' = AbsReaders /\ AbsFE' = "BUSY"
<1> USE ThreadFacts DEF CellInv, Disciplined
<1>1. Moves(t, "done", Mem(t), NoRet)
  BY IdleType, ReturnMoves DEF ReturnHolding
<1>2. tag.fe = "BUSY" /\ Op(t) # "readRW"
  BY HeldFE, TypeFacts
<1>3. ~CommittedAt(loc[t].pc) /\ CommittedAt("done") /\ ~OwnerAt("done", Op(t))
  BY DEF CommittedAt, OwnerAt
<1> QED
  BY <1>1, <1>2, <1>3, CommitStep, CellResults

\* faa and cas find no room for a copy.
LEMMA FailCopying ==
  ASSUME Disciplined, CellInv, CellInv', NEW t \in Threads, Step(t), ReturnHolding(t),
         UNCHANGED <<tag, data, freed, holders>>, Owns(t), HeapFills,
         loc[t].pc \in {"fRead", "fWrite", "cRead"}
  PROVE  Maps
<1>1. Op(t) \in {"faa", "cas"}
  BY ThreadFacts DEF CellInv, OpFits
<1>2. AbsFE = "FULL"
  BY <1>1, HeldFE
<1>3. Cell!Fail(t, Op(t))
  BY <1>2, FailHolding DEF Cell!Fail
<1> QED
  BY <1>1, <1>3 DEF Cell!Next, Maps

\* The type a thread loaded is that of the data it is about to replace.
LEMMA ReplacedType ==
  ASSUME Disciplined, CellInv, NEW t \in Threads, loc[t].pc \in {"wData", "fWrite", "cWrite"}
  PROVE  Mem(t).type = TypeOf[data]
<1> USE ElementAssumption, ThreadFacts DEF CellInv, Disciplined
<1>0. TypesFit(loc[t])
  BY DEF TypedInv
<1>1. CASE loc[t].pc \in {"fWrite", "cWrite"}
  BY <1>0, <1>1 DEF TypesFit, TypeKept, OwnerAt, Mem
<1>2. CASE loc[t].pc = "wData" /\ Op(t) = "write"
  <2>1. Mem(t) = tag
    BY <1>2 DEF StoresBack
  <2> QED
    BY <1>0, <1>2, <2>1 DEF TypesFit, Op
<1>3. CASE loc[t].pc = "wData" /\ Op(t) # "write"
  <2>1. OwnerAt(loc[t].pc, Op(t)) /\ FinalFE(Op(t)) # "ANY"
    BY <1>3 DEF OpFits, OwnerAt, FinalFE, Writers
  <2>2. Mem(t).type = tag.type
    BY <1>3, <2>1 DEF Busy, Tag
  <2> QED
    BY <1>0, <1>3, <2>1, <2>2 DEF TypesFit, TypeKept, Op
<1> QED
  BY <1>1, <1>2, <1>3

\* cas found a value that matches the one it was given.
LEMMA CasMatched ==
  ASSUME Disciplined, CellInv, NEW t \in Threads, At(t, "cWrite"), AbsClient[t].old = loc[t].old
  PROVE  /\ loc[t].ret.v \in Cell!Contents /\ loc[t].ret = Cell!Result(loc[t].ret.v)
         /\ Cell!Matches(t, loc[t].ret.v)
<1> USE ElementAssumption, ThreadFacts DEF CellInv
<1>1. Carried(loc[t].ret) /\ loc[t].ret \in Ret
  BY DEF TypedInv, At, TypesFit, TypeOK, Locals
<1>2. /\ loc[t].ret.ok /\ loc[t].ret.v \in Readable
      /\ loc[t].ret.type = TypeOf[loc[t].ret.v] /\ loc[t].ret.type = TypeOf[data]
  BY <1>1, CarriedFacts
<1>3. loc[t].ret = Cell!Result(loc[t].ret.v)
  BY <1>1, <1>2, CellResults DEF Ret, Ok
<1>4. Cell!Matches(t, loc[t].ret.v)
  BY <1>2 DEF At, FoundInv, FoundFits, Cell!Matches
<1> QED
  BY <1>2, <1>3, <1>4, CellResults

\* A write or cas that finds no room for the new string has freed the old one.
LEMMA FailReplacing ==
  ASSUME Disciplined, CellInv, CellInv', NEW t \in Threads, Step(t), ReturnHolding(t),
         UNCHANGED <<tag, data, holders>>, Owns(t), AllocFails(TypeOf[loc[t].arg]),
         freed' = (freed \/ Mem(t).type \in HeapTypes), loc[t].pc \in {"wData", "cWrite"}
  PROVE  Maps
<1>1. freed' = (freed \/ TypeOf[data] \in Cell!HeapTypes)
  BY ReplacedType, CellResults
<1>2. Op(t) \in {"writeEF", "writeXF", "writeXE"} \/ (Op(t) = "cas" /\ At(t, "cWrite"))
  BY HeldFE, ThreadFacts DEF CellInv, OpFits, Writers, At
<1>3. HeapFills /\ TypeOf[AbsClient[t].arg] \in Cell!HeapTypes
  BY FailHolding, CellResults DEF AllocFails
<1>4. ASSUME NEW from, AbsFE \in from PROVE Cell!FailReplacing(t, Op(t), from, "BUSY")
  BY <1>1, <1>3, <1>4, FailHolding DEF Cell!FailReplacing, Cell!FailFreed
<1>5. CASE Op(t) = "writeEF"
  <2>1. Cell!FailReplacing(t, "writeEF", {"EMPTY"}, "BUSY")
    BY <1>4, <1>5, HeldFE
  <2> QED
    BY <2>1 DEF Cell!Next, Maps
<1>6. CASE Op(t) \in {"writeXF", "writeXE"}
  <2>1. Cell!FailReplacing(t, Op(t), {"FULL", "EMPTY"}, "BUSY")
    BY <1>4, <1>6, HeldFE
  <2> QED
    BY <1>6, <2>1 DEF Cell!Next, Maps
<1>7. CASE Op(t) = "cas" /\ At(t, "cWrite")
  <2>1. Cell!FailReplacing(t, "cas", {"FULL"}, "BUSY")
    BY <1>4, <1>7, HeldFE
  <2>2. \E v \in Cell!Contents : Cell!Matches(t, v)
    BY <1>7, FailHolding, CasMatched
  <2> QED
    BY <2>1, <2>2 DEF Cell!Next, Maps
<1> QED
  BY <1>2, <1>5, <1>6, <1>7

\* A process that frees a string twice dies before it takes effect.
LEMMA MapsAbort ==
  ASSUME Disciplined, CellInv, CellInv', NEW t \in Threads, Step(t), Abort(t)
  PROVE  Maps
<1> USE ElementAssumption, ThreadFacts DEF CellInv, Disciplined
<1>1. Becomes(t, "aborted", Mem(t)) /\ UNCHANGED <<tag, data, freed, holders>> /\ freed
  BY AbortFacts DEF Abort
<1>2. loc[t].pc \in {"wData", "fWrite", "cWrite"} /\ Op(t) # "readRW"
  BY DEF Abort, OpFits, Writers
<1>3. loc' = [loc EXCEPT ![t].pc = "aborted"]
  BY DEF Abort, Go
<1>4. Moves(t, "aborted", Mem(t), loc[t].ret)
  BY <1>3, GoMoves DEF Go, PC
<1>5. /\ Cell!Pending(t, Op(t)) /\ AbsClient[t].old = loc[t].old
      /\ AbsClient' = [AbsClient EXCEPT ![t].st = "aborted"]
  <2> DEFINE c == Client(loc[t])
  <2>1. c.st = "pending" /\ c.op = Op(t) /\ c.old = loc[t].old
    BY <1>2 DEF Client, CommittedAt, Op
  <2>2. Client(loc'[t]) = [c EXCEPT !.st = "aborted"]
    BY <1>2, <1>4 DEF Moves, Becomes, Client, CommittedAt
  <2>3. AbsClient[t] = c /\ AbsClient' = [AbsClient EXCEPT ![t] = Client(loc'[t])]
    BY <1>4, ClientStep DEF Moves, Becomes
  <2> HIDE DEF c
  <2> QED
    BY <2>1, <2>2, <2>3 DEF Cell!Pending
<1>6. AbsReaders' = AbsReaders
  BY <1>1, <1>2, <1>4, SameReaders
<1>7. ASSUME NEW from, NEW to, AbsFE \in from, AbsFE' = to PROVE Cell!Die(t, Op(t), from, to)
  BY <1>1, <1>5, <1>6, <1>7 DEF Cell!Die
<1>8. CASE Owns(t)
  <2>1. AbsFE' = "BUSY"
    <3>1. ~OwnerAt("aborted", Op(t)) /\ tag.fe = "BUSY"
      BY <1>8, AbortFacts, TypeFacts
    <3>2. Seen(t)' = "BUSY"
      BY <1>1, <1>4, <3>1, SeenMoves DEF SeenAt
    <3> QED
      BY <1>8, <3>2, FEStep
  <2>2. CASE Op(t) = "writeEF"
    <3>1. Cell!Die(t, "writeEF", {"EMPTY"}, "BUSY")
      BY <1>2, <1>7, <1>8, <2>1, <2>2, HeldFE
    <3> QED
      BY <3>1 DEF Cell!FailReplacing, Cell!Next, Maps
  <2>3. CASE Op(t) \in {"writeXF", "writeXE"}
    <3>1. Cell!Die(t, Op(t), {"FULL", "EMPTY"}, "BUSY")
      BY <1>2, <1>7, <1>8, <2>1, <2>3, HeldFE
    <3> QED
      BY <2>3, <3>1 DEF Cell!FailReplacing, Cell!Next, Maps
  <2>4. CASE Op(t) = "faa"
    <3>1. Cell!Die(t, "faa", {"FULL"}, "BUSY")
      BY <1>2, <1>7, <1>8, <2>1, <2>4, HeldFE
    <3> QED
      BY <3>1 DEF Cell!Next, Maps
  <2>5. CASE Op(t) = "cas"
    <3>1. Cell!Die(t, "cas", {"FULL"}, "BUSY")
      BY <1>2, <1>7, <1>8, <2>1, <2>5, HeldFE
    <3>2. At(t, "cWrite")
      BY <1>2, <2>5 DEF At, OpFits, Writers
    <3>3. \E v \in Cell!Contents : Cell!Matches(t, v)
      BY <1>5, <3>2, CasMatched
    <3> QED
      BY <3>1, <3>3 DEF Cell!FailReplacing, Cell!Next, Maps
  <2> QED
    BY <1>2, <1>8, <2>2, <2>3, <2>4, <2>5, HeldFE
<1>9. CASE ~Owns(t)
  <2>1. Op(t) = "write" /\ ~OwnerAt("aborted", Op(t))
    BY <1>2, <1>9 DEF Owns, OwnerAt, OpFits, FinalFE, Writers
  <2>2. AbsFE' = AbsFE
    <3>1. Seen(t) = tag.fe /\ Seen(t)' = tag.fe
      BY <1>1, <1>4, <1>9, <2>1, SeenMoves DEF SeenAt, Owns
    <3> QED
      BY <3>1, FEStep
  <2>3. Cell!Die(t, "write", {AbsFE}, AbsFE)
    BY <1>7, <2>1, <2>2
  <2> QED
    BY <2>3 DEF Cell!FailReplacing, Cell!Next, Maps
<1> QED
  BY <1>8, <1>9

\* Waiting for the element, or marking it BUSY, is invisible.
LEMMA MapsWriteStart ==
  ASSUME Disciplined, CellInv, CellInv', NEW t \in Threads, Step(t),
         WriteLoad(t) \/ WriteCAS(t)
  PROVE  Maps
<1> USE ElementAssumption, ThreadFacts DEF CellInv, Disciplined
<1>0. Op(t) \in Writers
  BY DEF WriteLoad, WriteCAS, At, OpFits
<1>1. CASE WriteLoad(t)
  <2> DEFINE p == IF InitialFE(Op(t)) # "ANY" \/ FinalFE(Op(t)) = "ANY" THEN "wData"
                  ELSE IF tag.fe # "BUSY" THEN "wCAS" ELSE "wLoad"
  <2>1. p \in {"wLoad", "wCAS", "wData"} /\ Moves(t, p, tag, loc[t].ret)
    BY <1>1, GoWithMoves DEF WriteLoad, PC
  <2>2. /\ Op(t) \in {"writeEF", "write"} => p = "wData"
        /\ Op(t) \in {"writeXF", "writeXE"} => p \in {"wCAS", "wLoad"}
    BY DEF InitialFE, FinalFE
  <2> HIDE DEF p
  <2>3. SeenAt(Op(t), p, tag, tag'.fe) = SeenAt(Op(t), loc[t].pc, Mem(t), tag.fe)
    BY <1>0, <1>1, <2>1, <2>2
       DEF WriteLoad, At, SeenAt, OwnerAt, CommittedAt, Writers, Waiters, FinalFE
  <2> QED
    BY <1>1, <2>1, <2>3, PendingStep, Unchanged DEF WriteLoad, At, CommittedAt
<1>2. CASE WriteCAS(t)
  <2>1. PICK p \in {"wData", "wLoad"} :
          Go(t, p) /\ (p = "wData" => tag = Mem(t)) /\ (p = "wLoad" => tag' = tag)
    BY <1>2 DEF WriteCAS
  <2>2. Moves(t, p, Mem(t), loc[t].ret)
    BY <2>1, GoMoves DEF PC
  <2>3. SeenAt(Op(t), p, Mem(t), tag'.fe) = SeenAt(Op(t), loc[t].pc, Mem(t), tag.fe)
    BY <1>2, <2>1 DEF WriteCAS, At, SeenAt, OwnerAt, CommittedAt, OpFits, Waiters, FinalFE
  <2> QED
    BY <1>2, <2>2, <2>3, PendingStep, Unchanged DEF WriteCAS, At, CommittedAt
<1> QED
  BY <1>1, <1>2

\* A write takes effect when it stores the data word.
LEMMA MapsWriteData ==
  ASSUME Disciplined, CellInv, CellInv', NEW t \in Threads, Step(t), WriteData(t)
  PROVE  Maps
<1> USE ElementAssumption, ThreadFacts DEF CellInv, Disciplined
<1>0. UNCHANGED <<tag, holders>> /\ Op(t) \in Writers /\ At(t, "wData")
  BY DEF WriteData, At, OpFits
<1>1. /\ Op(t) # "readRW" /\ ~CommittedAt(loc[t].pc) /\ ~At(t, "idle") /\ ~At(t, "aborted")
      /\ CommittedAt("wCheck") /\ CommittedAt("wStore") /\ CommittedAt("done")
  BY <1>0 DEF Writers, CommittedAt, At
<1>2. CASE Op(t) # "write"
  <2>1. FinalFE(Op(t)) # "ANY" /\ Owns(t) /\ FoundFits(loc[t])
    BY <1>0, <1>2 DEF Writers, FinalFE, Owns, OwnerAt, At, FoundInv
  <2>2. CASE data' = loc[t].arg /\ freed' = FALSE /\ Go(t, "wCheck")
    <3>1. Moves(t, "wCheck", Mem(t), loc[t].ret)
      BY <2>2, GoMoves DEF PC
    <3>2. /\ Cell!Pending(t, Op(t)) /\ AbsClient[t].arg = loc[t].arg
          /\ Cell!Done(t, Cell!Result(loc[t].arg))
          /\ AbsReaders' = AbsReaders /\ AbsFE' = FinalFE(Op(t))
          /\ AbsFE = (IF Op(t) \in Waiters THEN InitialFE(Op(t)) ELSE Mem(t).fe)
      <4>1. OwnerAt("wCheck", Op(t))
        BY DEF OwnerAt
      <4> QED
        BY <1>0, <1>1, <2>1, <3>1, <4>1, CommitStep, CellResults
    <3>3. CASE Op(t) = "writeEF"
      <4>1. AbsFE = "EMPTY" /\ AbsFE' = "FULL"
        BY <3>2, <3>3 DEF Waiters, InitialFE, FinalFE
      <4>2. Cell!Write(t, "writeEF", {"EMPTY"}, "FULL")
        BY <2>2, <3>2, <3>3, <4>1 DEF Cell!Write
      <4> QED
        BY <4>2 DEF Cell!Next, Maps
    <3>4. CASE Op(t) = "writeXF"
      <4>1. AbsFE \in {"FULL", "EMPTY"} /\ AbsFE' = "FULL"
        BY <1>0, <2>1, <3>2, <3>4 DEF Waiters, FinalFE, FoundFits, At, Op, Mem
      <4>2. Cell!Write(t, "writeXF", {"FULL", "EMPTY"}, "FULL")
        BY <2>2, <3>2, <3>4, <4>1 DEF Cell!Write
      <4> QED
        BY <4>2 DEF Cell!Next, Maps
    <3>5. CASE Op(t) = "writeXE"
      <4>1. AbsFE \in {"FULL", "EMPTY"} /\ AbsFE' = "EMPTY"
        BY <1>0, <2>1, <3>2, <3>5 DEF Waiters, FinalFE, FoundFits, At, Op, Mem
      <4>2. Cell!Write(t, "writeXE", {"FULL", "EMPTY"}, "EMPTY")
        BY <2>2, <3>2, <3>5, <4>1 DEF Cell!Write
      <4> QED
        BY <4>2 DEF Cell!Next, Maps
    <3> QED
      BY <1>0, <1>2, <3>3, <3>4, <3>5 DEF Writers
  <2>3. CASE /\ AllocFails(TypeOf[loc[t].arg]) /\ ReturnHolding(t) /\ data' = data
             /\ freed' = (freed \/ Mem(t).type \in HeapTypes)
    BY <1>0, <2>1, <2>3, FailReplacing DEF At
  <2> QED
    BY <2>1, <2>2, <2>3 DEF WriteData
<1>3. CASE Op(t) = "write"
  <2>1. FinalFE(Op(t)) = "ANY" /\ ~Owns(t) /\ ~OwnerAt("wStore", Op(t))
        /\ ~OwnerAt("done", Op(t)) /\ Op(t) \in Alone
    BY <1>0, <1>3 DEF FinalFE, Owns, OwnerAt, At, StoresBack
  <2>2. ASSUME NEW p \in {"wStore", "done"}, NEW r, Moves(t, p, Mem(t), r)
        PROVE  /\ Cell!Pending(t, "write") /\ AbsClient[t].arg = loc[t].arg
               /\ Cell!Done(t, IF p = "wStore" THEN Cell!Result(loc[t].arg) ELSE r)
               /\ AbsReaders' = AbsReaders /\ AbsFE' = AbsFE
    <3>1. Seen(t) = tag.fe /\ Seen(t)' = tag.fe
      BY <1>0, <2>1, <2>2, SeenMoves DEF SeenAt, Owns
    <3>2. AbsFE' = AbsFE
      BY <3>1, FEStep
    <3>3. AbsReaders' = AbsReaders
      BY <1>0, <1>1, <2>2, SameReaders
    <3> QED
      BY <1>1, <1>3, <2>2, <3>2, <3>3, DoneStep, CellResults
  <2>3. CASE data' = loc[t].arg /\ freed' = FALSE /\ Go(t, "wStore")
    <3>1. Moves(t, "wStore", Mem(t), loc[t].ret)
      BY <2>3, GoMoves DEF PC
    <3>2. Cell!Write(t, "write", {AbsFE}, AbsFE)
      BY <2>2, <2>3, <3>1 DEF Cell!Write
    <3> QED
      BY <3>2 DEF Cell!Next, Maps
  <2>4. CASE /\ AllocFails(TypeOf[loc[t].arg]) /\ Return(t, NoRet) /\ data' = data
             /\ freed' = (freed \/ Mem(t).type \in HeapTypes)
    <3>1. Moves(t, "done", Mem(t), NoRet)
      BY <2>4, IdleType, ReturnMoves
    <3>2. freed' = (freed \/ TypeOf[data] \in Cell!HeapTypes)
      BY <1>0, <2>4, ReplacedType, CellResults DEF At
    <3>3. Cell!FailFreed(t, "write", {AbsFE}, AbsFE)
      BY <2>2, <2>4, <3>1, <3>2, CellResults DEF Cell!FailFreed, AllocFails
    <3> QED
      BY <3>3 DEF Cell!FailReplacing, Cell!Next, Maps
  <2> QED
    BY <2>1, <2>3, <2>4 DEF WriteData
<1> QED
  BY <1>2, <1>3

\* The rest of a write is invisible.
LEMMA MapsWriteEnd ==
  ASSUME Disciplined, CellInv, CellInv', NEW t \in Threads, Step(t),
         WriteCheck(t) \/ WriteStore(t)
  PROVE  Maps
<1> USE ElementAssumption, ThreadFacts DEF CellInv, Disciplined
<1>0. Op(t) \in Writers
  BY DEF WriteCheck, WriteStore, At, OpFits
<1>1. CASE WriteCheck(t)
  <2>1. HasLock(t)
    BY <1>0, <1>1 DEF WriteCheck, At, OpFits, Writers, FinalFE, HasLock
  <2>2. Moves(t, "wStore", Mem(t), loc[t].ret)
    BY <1>1, <2>1, GoMoves DEF WriteCheck, PC
  <2>3. SeenAt(Op(t), "wStore", Mem(t), tag'.fe) = SeenAt(Op(t), loc[t].pc, Mem(t), tag.fe)
    BY <1>0, <1>1 DEF WriteCheck, At, SeenAt, OwnerAt, CommittedAt, Writers, FinalFE, OpFits
  <2> QED
    BY <1>1, <2>2, <2>3, ResultStep, Unchanged DEF WriteCheck, At, CommittedAt
<1>2. CASE WriteStore(t)
  <2>1. Moves(t, "done", Mem(t), Ok(TypeOf[loc[t].arg], loc[t].arg))
    BY <1>2, OkType, ReturnMoves DEF WriteStore
  <2>2. /\ Op(t) = "write" => Mem(t) = tag /\ tag'.fe = Mem(t).fe
        /\ Op(t) # "write" => FinalFE(Op(t)) # "ANY" /\ tag'.fe = FinalFE(Op(t))
    BY <1>0, <1>2 DEF WriteStore, At, StoresBack, WriteTag, FinalFE, Writers, Tag
  <2>3. SeenAt(Op(t), "done", Mem(t), tag'.fe) = SeenAt(Op(t), loc[t].pc, Mem(t), tag.fe)
    BY <1>2, <2>2 DEF WriteStore, At, SeenAt, OwnerAt, CommittedAt, FinalFE
  <2> QED
    BY <1>2, <2>1, <2>3, ResultStep, Unchanged DEF WriteStore, At, CommittedAt
<1> QED
  BY <1>1, <1>2

-------------------------------------------------------------------------------
\* A release takes effect when its compare-and-swap succeeds.
LEMMA MapsRelease ==
  ASSUME Disciplined, CellInv, CellInv', NEW t \in Threads, Step(t),
         ReleaseLoad(t) \/ ReleaseCAS(t)
  PROVE  Maps
<1> USE ElementAssumption, ThreadFacts, HolderFacts DEF CellInv, Disciplined
<1>0. /\ Op(t) = "releaseRW" /\ t \in holders /\ ~CommittedAt(loc[t].pc)
      /\ \A p \in {"uLoad", "uCAS", "done"} : ~OwnerAt(p, "releaseRW")
  BY DEF ReleaseLoad, ReleaseCAS, At, OpFits, ReadsFit, OwnerAt, CommittedAt
<1>1. CASE ReleaseLoad(t)
  <2>1. tag.rw # 0 /\ tag.fe \notin {"FULL", "EMPTY"}
    BY <1>0, FS_EmptySet DEF Counted
  <2>2. PICK p \in {"uLoad", "uCAS"} : GoWith(t, p, tag) /\ holders' = holders
    BY <1>1, <2>1 DEF ReleaseLoad
  <2>3. Moves(t, p, tag, loc[t].ret)
    BY <2>2, GoWithMoves DEF PC
  <2>4. SeenAt(Op(t), p, tag, tag'.fe) = SeenAt(Op(t), loc[t].pc, Mem(t), tag.fe)
    BY <1>0, <1>1 DEF ReleaseLoad, At, SeenAt
  <2> QED
    BY <1>0, <1>1, <2>2, <2>3, <2>4, PendingStep, Unchanged DEF ReleaseLoad, At, CommittedAt
<1>2. CASE ReleaseCAS(t) /\ tag # Mem(t)
  <2>1. Moves(t, "uLoad", Mem(t), loc[t].ret)
    BY <1>2, GoMoves DEF ReleaseCAS, PC
  <2>2. SeenAt(Op(t), "uLoad", Mem(t), tag'.fe) = SeenAt(Op(t), loc[t].pc, Mem(t), tag.fe)
    BY <1>0, <1>2 DEF ReleaseCAS, At, SeenAt
  <2> QED
    BY <1>0, <1>2, <2>1, <2>2, PendingStep, Unchanged DEF ReleaseCAS, At, CommittedAt
<1>3. CASE ReleaseCAS(t) /\ tag = Mem(t)
  <2>1. /\ tag.fe = "RW_LOCK" /\ tag.rw \in 0 .. RWMax /\ tag.rw > 0
        /\ tag' = ReleasedTag(tag) /\ holders' = holders \ {t}
        /\ UNCHANGED <<data, freed>>
    BY <1>3 DEF ReleaseCAS, At, MemFits, Tag
  <2>2. tag'.fe = IF tag.rw = 1 THEN "FULL" ELSE "RW_LOCK"
    BY <2>1 DEF ReleasedTag
  <2>3. AbsFE = "RW_LOCK" /\ AbsFE' = IF tag.rw = 1 THEN "FULL" ELSE "RW_LOCK"
    BY <2>1, <2>2 DEF AbsFE
  <2>4. AbsReaders = holders /\ AbsReaders' = holders \ {t}
    <3>1. \A u \in Threads : ~Owns(u) /\ ~Owns(u)'
      BY <2>1, <2>2 DEF Inv, ExclusiveBusy
    <3>2. \A u \in Threads : ~(At(u, "rData") /\ Op(u) = "readRW")
                          /\ ~(At(u, "rData") /\ Op(u) = "readRW")'
      BY <3>1 DEF Owns, OwnerAt, At, FinalFE, Op
    <3>3. holders \subseteq Threads /\ holders' \subseteq Threads
      BY <2>1
    <3> QED
      BY <2>1, <3>2, <3>3 DEF AbsReaders
  <2>5. holders \ {t} = {} <=> tag.rw = 1
    <3>1. IsFiniteSet(holders \ {t}) /\ Cardinality(holders \ {t}) = tag.rw - 1
      BY <1>0, FS_RemoveElement DEF Counted
    <3>2. holders \ {t} = {} <=> Cardinality(holders \ {t}) = 0
      BY <3>1, FS_EmptySet
    <3>3. tag.rw - 1 = 0 <=> tag.rw = 1
      BY <2>1
    <3> QED
      BY <3>1, <3>2, <3>3
  <2>6. Moves(t, "done", Mem(t), Ok("INTEGER", AnyValue))
    BY <1>3, OkType, AnyValueType, ReturnMoves DEF ReleaseCAS, Type
  <2>7. Cell!Pending(t, "releaseRW") /\ Cell!Done(t, Ok("INTEGER", AnyValue))
    BY <1>0, <1>3, <2>6, DoneStep DEF CommittedAt, ReleaseCAS, At
  <2>8. Cell!ReleaseRW(t)
    BY <1>0, <2>1, <2>3, <2>4, <2>5, <2>7, CellResults DEF Cell!ReleaseRW, Ok
  <2> QED
    BY <2>8 DEF Cell!Next, Maps
<1> QED
  BY <1>1, <1>2, <1>3

\* setTag takes effect when it stores the tag.
LEMMA MapsSet ==
  ASSUME Disciplined, CellInv, CellInv', NEW t \in Threads, Step(t), SetLoad(t) \/ SetStore(t)
  PROVE  Maps
<1> USE ElementAssumption, ThreadFacts DEF CellInv, Disciplined
<1>0. /\ Op(t) \in Setters /\ Op(t) \in Alone /\ Op(t) # "readRW" /\ ~CommittedAt(loc[t].pc)
      /\ \A p \in {"sLoad", "sStore", "done"} : ~OwnerAt(p, Op(t))
  BY DEF SetLoad, SetStore, At, OpFits, OwnerAt, CommittedAt, Setters, Synchronised
<1>1. CASE SetLoad(t)
  <2>1. Moves(t, "sStore", tag, loc[t].ret)
    BY <1>1, GoWithMoves DEF SetLoad, PC
  <2>2. SeenAt(Op(t), "sStore", tag, tag'.fe) = SeenAt(Op(t), loc[t].pc, Mem(t), tag.fe)
    BY <1>0, <1>1 DEF SetLoad, At, SeenAt
  <2>3. loc[t].pc = "sLoad" /\ UNCHANGED <<data, freed, holders>>
    BY <1>1 DEF SetLoad, At
  <2>4. UNCHANGED <<AbsFE, data, freed, AbsReaders, AbsClient>>
    BY <2>1, <2>2, <2>3, PendingStep DEF At, CommittedAt
  <2> QED
    BY <2>4, Unchanged
<1>2. CASE SetStore(t)
  <2>1. Moves(t, "done", Mem(t), Ok("BOOLEAN", AnyValue))
    BY <1>2, OkType, AnyValueType, ReturnMoves DEF SetStore, Type
  <2>2. tag'.fe = IF Op(t) = "setFull" THEN "FULL" ELSE "EMPTY"
    BY <1>2 DEF SetStore, Tag
  <2>3. AbsFE' = IF Op(t) = "setFull" THEN "FULL" ELSE "EMPTY"
    <3>1. Seen(t)' = tag'.fe
      BY <1>0, <2>1, SeenMoves DEF SeenAt
    <3> QED
      BY <1>0, <2>2, <3>1, FEStep
  <2>4. Cell!Pending(t, Op(t)) /\ Cell!Done(t, Ok("BOOLEAN", AnyValue))
    BY <1>0, <1>2, <2>1, DoneStep DEF CommittedAt, SetStore, At
  <2>5. AbsReaders' = AbsReaders
    BY <1>0, <1>2, <2>1, SameReaders DEF SetStore
  <2>6. CASE Op(t) = "setFull"
    <3>1. Cell!SetTag(t, "setFull", "FULL")
      BY <1>2, <2>3, <2>4, <2>5, <2>6, CellResults DEF Cell!SetTag, Ok, SetStore
    <3> QED
      BY <3>1 DEF Cell!Next, Maps
  <2>7. CASE Op(t) = "setEmpty"
    <3>1. Cell!SetTag(t, "setEmpty", "EMPTY")
      BY <1>2, <2>3, <2>4, <2>5, <2>7, CellResults DEF Cell!SetTag, Ok, SetStore
    <3> QED
      BY <3>1 DEF Cell!Next, Maps
  <2> QED
    BY <1>0, <2>6, <2>7 DEF Setters
<1> QED
  BY <1>1, <1>2

\* faa and cas take effect on a FULL cell, and leave it FULL.
LEMMA UpdateCommits ==
  ASSUME Disciplined, CellInv, CellInv', NEW t \in Threads, Step(t), NEW p \in {"fStore", "cStore"},
         NEW m, NEW r, Moves(t, p, m, r), ~CommittedAt(loc[t].pc), CommittedAt(p), Owns(t),
         holders' = holders, Op(t) \in {"faa", "cas"}, Op(t) \in Waiters, OwnerAt(p, Op(t))
  PROVE  /\ Cell!Pending(t, Op(t))
         /\ AbsClient[t].arg = loc[t].arg /\ AbsClient[t].old = loc[t].old
         /\ Cell!Done(t, r) /\ AbsReaders' = AbsReaders
         /\ AbsFE = "FULL" /\ AbsFE' = "FULL"
<1> DEFINE v == IF p \in {"wCheck", "wStore"} THEN Ok(TypeOf[loc[t].arg], loc[t].arg) ELSE r
           fe == IF Op(t) \in Waiters THEN InitialFE(Op(t)) ELSE Mem(t).fe
           fe2 == IF OwnerAt(p, Op(t)) THEN FinalFE(Op(t)) ELSE tag'.fe
<1>1. v = r /\ fe = "FULL" /\ fe2 = "FULL" /\ Op(t) # "readRW"
  BY DEF InitialFE, FinalFE
<1>2. /\ Cell!Pending(t, Op(t))
      /\ AbsClient[t].arg = loc[t].arg /\ AbsClient[t].old = loc[t].old
      /\ Cell!Done(t, v) /\ AbsReaders' = AbsReaders /\ AbsFE = fe /\ AbsFE' = fe2
  BY <1>1, CommitStep
<1> HIDE DEF v, fe, fe2
<1> QED
  BY <1>1, <1>2

\* faa takes effect when it stores the sum.
LEMMA MapsFaa ==
  ASSUME Disciplined, CellInv, CellInv', NEW t \in Threads, Step(t),
         FaaRead(t) \/ FaaWrite(t) \/ FaaStore(t)
  PROVE  Maps
<1> USE ElementAssumption, ThreadFacts, TypeFacts DEF CellInv, Disciplined
<1>0. /\ Op(t) = "faa" /\ Op(t) \in Ops /\ Op(t) \in Waiters /\ Owns(t)
      /\ \A p \in {"fRead", "fWrite", "fStore"} : OwnerAt(p, "faa")
  BY DEF FaaRead, FaaWrite, FaaStore, At, OpFits, Waiters, Owns, OwnerAt
<1>1. CASE FaaRead(t)
  <2>1. Mem(t).type = TypeOf[data] /\ Addable(Mem(t).type) /\ Addable(TypeOf[loc[t].arg])
    BY <1>0, <1>1 DEF FaaRead, At, TypesFit, TypeKept, Op, Mem, Owns, FaaAddable
  <2>2. ASSUME NEW v \in Contents(t), GoRet(t, "fWrite", Ok(Mem(t).type, v)) PROVE Maps
    <3>1. Moves(t, "fWrite", Mem(t), Ok(Mem(t).type, v))
      BY <2>1, <2>2, ContentsValue, GoRetMoves, OkType DEF PC
    <3>2. SeenAt(Op(t), "fWrite", Mem(t), tag'.fe) = SeenAt(Op(t), loc[t].pc, Mem(t), tag.fe)
      BY <1>0, <1>1 DEF FaaRead, At, SeenAt, CommittedAt
    <3> QED
      BY <1>1, <3>1, <3>2, PendingStep, Unchanged DEF FaaRead, At, CommittedAt
  <2>3. CASE ReturnHolding(t) /\ AllocFails(Mem(t).type)
    BY <1>0, <1>1, <2>3, FailCopying DEF FaaRead, At, AllocFails
  <2> QED
    BY <1>1, <2>1, <2>2, <2>3 DEF FaaRead
<1>2. CASE FaaWrite(t)
  <2>1. PICK a \in Contents(t) :
          \/ /\ data' = Sum[a][loc[t].arg] /\ freed' \in {freed, FALSE}
             /\ GoWith(t, "fStore", [Mem(t) EXCEPT !.type = FaaType(Mem(t).type, a, loc[t].arg)])
          \/ ReturnHolding(t) /\ AllocFails(TypeOf[Sum[a][loc[t].arg]]) /\ UNCHANGED <<data, freed>>
    BY <1>2 DEF FaaWrite
  <2> DEFINE m == [Mem(t) EXCEPT !.type = FaaType(Mem(t).type, a, loc[t].arg)]
  <2>2. CASE data' = Sum[a][loc[t].arg] /\ freed' \in {freed, FALSE} /\ GoWith(t, "fStore", m)
    <3>1. m \in Tag
      BY UpdateTags, ContentsValue
    <3> HIDE DEF m
    <3>2. Moves(t, "fStore", m, loc[t].ret)
      BY <2>2, <3>1, GoWithMoves DEF PC
    <3>3. a \in Cell!Contents
      BY <1>2, ReplacedType, ContentsReadable, CellResults DEF FaaWrite, At
    <3>4. loc[t].ret.v \in Cell!Contents /\ loc[t].ret = Cell!Result(loc[t].ret.v)
      <4>1. Carried(loc[t].ret) /\ loc[t].ret \in Ret
        BY <1>2 DEF FaaWrite, At, TypesFit, TypeOK, Locals
      <4>2. /\ loc[t].ret.ok /\ loc[t].ret.v \in Readable
            /\ loc[t].ret.type = TypeOf[loc[t].ret.v]
        BY <4>1, CarriedFacts
      <4> QED
        BY <4>1, <4>2, CellResults DEF Ret, Ok
    <3>5. /\ Cell!Pending(t, "faa") /\ AbsClient[t].arg = loc[t].arg
          /\ Cell!Done(t, loc[t].ret) /\ AbsReaders' = AbsReaders
          /\ AbsFE = "FULL" /\ AbsFE' = "FULL"
      <4>1. ~CommittedAt(loc[t].pc) /\ CommittedAt("fStore") /\ holders' = holders
        BY <1>2 DEF FaaWrite, At, CommittedAt
      <4> QED
        BY <1>0, <3>2, <4>1, UpdateCommits
    <3>6. Cell!Faa(t)
      BY <2>2, <3>3, <3>4, <3>5 DEF Cell!Faa
    <3> QED
      BY <3>6 DEF Cell!Next, Maps
  <2>3. CASE ReturnHolding(t) /\ AllocFails(TypeOf[Sum[a][loc[t].arg]]) /\ UNCHANGED <<data, freed>>
    BY <1>0, <1>2, <2>3, FailCopying DEF FaaWrite, At, AllocFails
  <2> QED
    BY <2>1, <2>2, <2>3
<1>3. CASE FaaStore(t)
  <2>1. Moves(t, "done", Mem(t), loc[t].ret)
    BY <1>3, GoMoves DEF FaaStore, PC
  <2>2. tag'.fe = "FULL"
    BY <1>3 DEF FaaStore, Tag
  <2>3. SeenAt(Op(t), "done", Mem(t), tag'.fe) = SeenAt(Op(t), loc[t].pc, Mem(t), tag.fe)
    BY <1>0, <1>3, <2>2 DEF FaaStore, At, SeenAt, OwnerAt, CommittedAt, FinalFE
  <2> QED
    BY <1>3, <2>1, <2>3, ResultStep, Unchanged DEF FaaStore, At, CommittedAt
<1> QED
  BY <1>1, <1>2, <1>3

\* cas takes effect when it finds another value, or when it stores the new one.
LEMMA MapsCas ==
  ASSUME Disciplined, CellInv, CellInv', NEW t \in Threads, Step(t),
         CasType(t) \/ CasRead(t) \/ CasWrite(t) \/ CasStore(t)
  PROVE  Maps
<1> USE ElementAssumption, ThreadFacts, TypeFacts DEF CellInv, Disciplined
<1>0. /\ Op(t) = "cas" /\ Op(t) \in Waiters /\ Owns(t)
      /\ \A p \in {"cType", "cRead", "cWrite", "cStore"} : OwnerAt(p, "cas")
  BY DEF CasType, CasRead, CasWrite, CasStore, At, OpFits, Waiters, Owns, OwnerAt
<1>1. CASE CasType(t)
  <2>1. Moves(t, "cRead", tag, loc[t].ret)
    BY <1>1, GoWithMoves DEF CasType, PC
  <2>2. SeenAt(Op(t), "cRead", tag, tag'.fe) = SeenAt(Op(t), loc[t].pc, Mem(t), tag.fe)
    BY <1>0, <1>1 DEF CasType, At, SeenAt, CommittedAt
  <2> QED
    BY <1>1, <2>1, <2>2, PendingStep, Unchanged DEF CasType, At, CommittedAt
<1>2. CASE CasRead(t)
  <2>1. Mem(t).type = TypeOf[data]
    BY <1>0, <1>2 DEF CasRead, At, TypesFit, TypeKept, Op, Mem, Owns
  <2>2. ASSUME NEW v \in Contents(t) PROVE Ok(Mem(t).type, v) \in Ret
    BY <2>1, ContentsValue, OkType
  <2>3. ASSUME NEW v \in Contents(t), GoRet(t, "cWrite", Ok(Mem(t).type, v)) PROVE Maps
    <3>1. Moves(t, "cWrite", Mem(t), Ok(Mem(t).type, v))
      BY <2>2, <2>3, GoRetMoves DEF PC
    <3>2. SeenAt(Op(t), "cWrite", Mem(t), tag'.fe) = SeenAt(Op(t), loc[t].pc, Mem(t), tag.fe)
      BY <1>0, <1>2 DEF CasRead, At, SeenAt, CommittedAt
    <3> QED
      BY <1>2, <3>1, <3>2, PendingStep, Unchanged DEF CasRead, At, CommittedAt
  <2>4. ASSUME NEW v \in Contents(t), GoRet(t, "cStore", Ok(Mem(t).type, v)), ~CasMatches(t, v)
        PROVE  Maps
    <3>1. Moves(t, "cStore", Mem(t), Ok(Mem(t).type, v))
      BY <2>2, <2>4, GoRetMoves DEF PC
    <3>2. v \in Cell!Contents /\ TypeOf[v] = TypeOf[data] /\ Cell!Result(v) = Ok(Mem(t).type, v)
      BY <2>1, ContentsReadable, ReadableFacts, CellResults
    <3>3. /\ Cell!Pending(t, "cas") /\ AbsClient[t].old = loc[t].old
          /\ Cell!Done(t, Cell!Result(v)) /\ AbsReaders' = AbsReaders
          /\ AbsFE = "FULL" /\ AbsFE' = "FULL"
      <4>1. ~CommittedAt(loc[t].pc) /\ CommittedAt("cStore") /\ holders' = holders
        BY <1>2 DEF CasRead, At, CommittedAt
      <4> QED
        BY <1>0, <3>1, <3>2, <4>1, UpdateCommits
    <3>4. ~Cell!Matches(t, v)
      BY <2>1, <2>4, <3>2, <3>3 DEF CasMatches, Cell!Matches
    <3>5. UNCHANGED <<data, freed>>
      BY <1>2 DEF CasRead
    <3>6. Cell!Cas(t)
      BY <3>2, <3>3, <3>4, <3>5 DEF Cell!Cas
    <3> QED
      BY <3>6 DEF Cell!Next, Maps
  <2>5. CASE ReturnHolding(t) /\ AllocFails(Mem(t).type)
    BY <1>0, <1>2, <2>5, FailCopying DEF CasRead, At, AllocFails
  <2> QED
    BY <1>2, <2>3, <2>4, <2>5 DEF CasRead
<1>3. CASE CasWrite(t)
  <2> DEFINE m == [Mem(t) EXCEPT !.type = TypeOf[loc[t].arg]]
  <2>1. CASE data' = loc[t].arg /\ freed' = FALSE /\ GoWith(t, "cStore", m)
    <3>1. m \in Tag
      BY UpdateTags
    <3> HIDE DEF m
    <3>2. Moves(t, "cStore", m, loc[t].ret)
      BY <2>1, <3>1, GoWithMoves DEF PC
    <3>3. /\ Cell!Pending(t, "cas")
          /\ AbsClient[t].arg = loc[t].arg /\ AbsClient[t].old = loc[t].old
          /\ Cell!Done(t, loc[t].ret) /\ AbsReaders' = AbsReaders
          /\ AbsFE = "FULL" /\ AbsFE' = "FULL"
      <4>1. ~CommittedAt(loc[t].pc) /\ CommittedAt("cStore") /\ holders' = holders
        BY <1>3 DEF CasWrite, At, CommittedAt
      <4> QED
        BY <1>0, <3>2, <4>1, UpdateCommits
    <3>4. /\ loc[t].ret.v \in Cell!Contents /\ loc[t].ret = Cell!Result(loc[t].ret.v)
          /\ Cell!Matches(t, loc[t].ret.v)
      BY <1>3, <3>3, CasMatched DEF CasWrite
    <3>5. Cell!Cas(t)
      BY <2>1, <3>3, <3>4 DEF Cell!Cas
    <3> QED
      BY <3>5 DEF Cell!Next, Maps
  <2>2. CASE /\ AllocFails(TypeOf[loc[t].arg]) /\ ReturnHolding(t) /\ data' = data
             /\ freed' = (freed \/ Mem(t).type \in HeapTypes)
    BY <1>0, <1>3, <2>2, FailReplacing DEF CasWrite, At
  <2> QED
    BY <1>3, <2>1, <2>2 DEF CasWrite
<1>4. CASE CasStore(t)
  <2>1. Moves(t, "done", Mem(t), loc[t].ret)
    BY <1>4, GoMoves DEF CasStore, PC
  <2>2. tag'.fe = "FULL"
    BY <1>4 DEF CasStore
  <2>3. SeenAt(Op(t), "done", Mem(t), tag'.fe) = SeenAt(Op(t), loc[t].pc, Mem(t), tag.fe)
    BY <1>0, <1>4, <2>2 DEF CasStore, At, SeenAt, OwnerAt, CommittedAt, FinalFE
  <2> QED
    BY <1>4, <2>1, <2>3, ResultStep, Unchanged DEF CasStore, At, CommittedAt
<1> QED
  BY <1>1, <1>2, <1>3, <1>4

-------------------------------------------------------------------------------
\* The return of a call is TaggedCell's.
LEMMA MapsFinish ==
  ASSUME Disciplined, CellInv, CellInv', NEW t \in Threads, Step(t), Finish(t)
  PROVE  Maps
<1> USE ThreadFacts DEF CellInv, Disciplined
<1>1. /\ loc'[t] = Idle /\ At(t, "done") /\ UNCHANGED <<tag, data, freed, holders, leaked>>
      /\ \A u \in Threads : u # t => loc'[u] = loc[u]
  BY DEF Finish, TypeOK
<1>2. Client(loc[t]).st = "done" /\ Client(loc'[t]) = Cell!Quiet
  BY <1>1, CellResults DEF At, Client, CommittedAt, Idle, Cell!Quiet
<1>3. AbsClient[t].st = "done" /\ AbsClient' = [AbsClient EXCEPT ![t] = Cell!Quiet]
  BY <1>1, <1>2, ClientStep
<1>4. AbsFE' = AbsFE
  <2>1. Seen(t) = tag.fe /\ Seen(t)' = tag.fe
    BY <1>1 DEF Seen, Owns, OwnerAt, At, Op, Idle
  <2> QED
    BY <2>1, FEStep
<1>5. AbsReaders' = AbsReaders
  <2>1. \A u \in Threads : ~(At(u, "rData") /\ Op(u) = "readRW")
                             <=> ~(At(u, "rData") /\ Op(u) = "readRW")'
    BY <1>1 DEF At, Op, Idle
  <2> QED
    BY <1>1, <2>1 DEF AbsReaders
<1>6. Cell!Return(t)
  BY <1>1, <1>3, <1>4, <1>5 DEF Cell!Return
<1> QED
  BY <1>6 DEF Cell!Next, Maps

\* So is the call.
LEMMA MapsCall ==
  ASSUME Disciplined, CellInv, CellInv', NEW t \in Threads, NEW o \in Ops, Call(t, o)
  PROVE  Maps
<1> USE ThreadFacts DEF CellInv, Disciplined
<1>1. PICK a \in Args(o), b \in Olds(o), full \in BOOLEAN :
        loc' = [loc EXCEPT ![t] = [Idle EXCEPT !.pc = Entry(o), !.op = o,
                                     !.arg = a, !.old = b, !.full = full]]
  BY DEF Call
<1>2. a \in Value /\ b \in Value
  BY AnyValueType DEF Args, Olds
<1> DEFINE l == [Idle EXCEPT !.pc = Entry(o), !.op = o, !.arg = a, !.old = b, !.full = full]
<1>3. l.pc = Entry(o) /\ l.op = o /\ l.arg = a /\ l.old = b
  BY DEF Idle
<1>4. loc'[t] = l /\ \A u \in Threads : u # t => loc'[u] = loc[u]
  BY <1>1 DEF TypeOK
<1> HIDE DEF l
<1>5. /\ Entry(o) \in {"rLoad", "tLoad", "wLoad", "uLoad", "sLoad"} /\ (o = "writeEF" => Entry(o) = "tLoad")
      /\ At(t, "idle") /\ UNCHANGED <<tag, data, freed, holders, leaked>>
  BY DEF Entry, Call, Readers, Waiters
<1>6. \A u \in Threads : (Owns(u)' <=> Owns(u)) /\ (Owns(u) => Seen(u)' = Seen(u))
  BY <1>3, <1>4, <1>5
     DEF Owns, OwnerAt, Op, At, Seen, Committed, FoundFE, Mem
<1>7. AbsFE' = AbsFE
  <2>1. CASE tag.fe # "BUSY" \/ leaked
    BY <1>5, <2>1 DEF AbsFE
  <2>2. CASE tag.fe = "BUSY" /\ ~leaked
    <3>1. PICK u \in Threads : Owns(u)
      BY <2>2 DEF Inv, ExclusiveBusy
    <3>2. (\A v \in Threads : v # u => ~Owns(v)) /\ (\A v \in Threads : v # u => ~Owns(v)')
      BY <1>6, <3>1 DEF Inv, ExclusiveBusy
    <3>3. AbsFE = Seen(u) /\ AbsFE' = Seen(u)'
      BY <3>2, FESeen, FESeenNext DEF SeenIsAbs
    <3> QED
      BY <1>6, <3>1, <3>3
  <2> QED
    BY <2>1, <2>2
<1>8. AbsReaders' = AbsReaders
  <2>1. \A u \in Threads : ~(At(u, "rData") /\ Op(u) = "readRW")
                             <=> ~(At(u, "rData") /\ Op(u) = "readRW")'
    BY <1>3, <1>4, <1>5 DEF At, Op
  <2> QED
    BY <1>5, <2>1 DEF AbsReaders
<1>9. Client(loc'[t]) = [st |-> "pending", op |-> o, arg |-> a, old |-> b, res |-> NoRet]
  BY <1>3, <1>4, <1>5 DEF Client, CommittedAt
<1>10. Client(loc[t]).st = "idle"
  BY <1>5 DEF Client, At
<1>11. Cell!Call(t)
  <2>1. AbsClient[t].st = "idle" /\ AbsClient' = [AbsClient EXCEPT ![t] = Client(loc'[t])]
    BY <1>4, <1>10, ClientStep
  <2> QED
    BY <1>2, <1>5, <1>7, <1>8, <1>9, <2>1, CellResults DEF Cell!Call
<1> QED
  BY <1>11 DEF Cell!Next, Maps

\* The initial states of EMSElement are initial states of TaggedCell.
LEMMA MapsInit == Init => Cell!Init
<1> SUFFICES ASSUME Init PROVE Cell!Init
  OBVIOUS
<1>1. tag.fe \in InitFE /\ leaked = FALSE
  BY DEF Init
<1>2. AbsFE = tag.fe
  BY <1>1, ElementAssumption DEF AbsFE
<1>3. AbsReaders = {}
  BY DEF Init, AbsReaders
<1>4. AbsClient = [t \in Threads |-> Cell!Quiet]
  BY CellResults DEF Init, AbsClient, Idle, At, Op, Committed, Cell!Quiet
<1> QED
  BY <1>1, <1>2, <1>3, <1>4 DEF Init, Cell!Init

\* Every step of EMSElement is a step of TaggedCell or a stuttering step.
LEMMA MapsNext == Disciplined /\ CellInv /\ CellInv' /\ [Next]_vars => Maps
<1> SUFFICES ASSUME Disciplined, CellInv, CellInv', [Next]_vars PROVE Maps
  OBVIOUS
<1>1. CASE UNCHANGED vars
  <2>1. UNCHANGED <<AbsFE, data, freed, AbsReaders, AbsClient>>
    BY <1>1 DEF vars, AbsFE, AbsReaders, AbsClient, Owns, Committed, FoundFE, Op, Mem, At
  <2> QED
    BY <2>1, Unchanged
<1>2. ASSUME NEW t \in Threads, Step(t) PROVE Maps
  BY <1>2, MapsReadLoad, MapsReadCAS, MapsReadData, MapsReadStore, MapsTransition,
     MapsWriteStart, MapsWriteData, MapsWriteEnd, MapsRelease, MapsSet, MapsFaa, MapsCas,
     MapsAbort, MapsFinish DEF Step
<1> QED
  BY <1>1, <1>2, MapsCall DEF Next

\* Every operation of ems.cc and rmw.cc on an element is atomic: between its call and its
\* return it takes effect in one step, in a state of the full/empty tag that the reference
\* allows, and returns the result of that step.
THEOREM OperationsAtomic == ASSUME Disciplined PROVE Spec => Atomic
<1>1. Spec => []CellInv
  BY CellInvHolds
<1>2. CellInv /\ CellInv' /\ [Next]_vars => [Cell!Next]_(Cell!vars)
  BY MapsNext DEF Maps
<1> QED
  BY <1>1, <1>2, MapsInit, PTL DEF Spec, Atomic, Cell!Spec
===============================================================================
