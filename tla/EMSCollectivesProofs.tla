------------------------- MODULE EMSCollectivesProofs -------------------------
(***************************************************************************)
(* What the counters of the control block guarantee, for every number of   *)
(* threads and every program.                                              *)
(*                                                                         *)
(* Critical regions exclude each other, provided the binding honours the   *)
(* timeout: a thread that runs the function has swapped the lock from FULL *)
(* to EMPTY, and only such a thread stores FULL again.                     *)
(*                                                                         *)
(* A barrier separates what precedes it from what follows, provided no     *)
(* wait gives up: all threads know the same barriers to have opened        *)
(* (Together), and the count of the open phase is the number of threads    *)
(* not yet at it (Counts).                                                 *)
(*                                                                         *)
(* A single region runs once: its counter is the number of threads between *)
(* EMSsingleTask and the opening of the barrier that follows (SingleCount),*)
(* so exactly one thread of each passage finds it 0.                       *)
(***************************************************************************)
EXTENDS EMSCollectives, FiniteSetTheorems, TLAPS

-------------------------------------------------------------------------------
(* critical *)

\* No timeout given to critical runs out.
Endless == CriticalTimeouts \subseteq {Forever}

\* Either EMScriticalEnter is called from JavaScript, which throws on a timeout,
\* or there is no timeout.
Honoured == Binding = "js" \/ Endless

Locals == [pc : PC, time : Polls, phase : {0, 1}, first : BOOLEAN]

Typed ==
  /\ critical \in {"FULL", "EMPTY"}
  /\ phase \in {0, 1}
  /\ loc \in [Threads -> Locals]

\* A thread in EMScriticalEnter has the polls its caller gave it.
WaitsOn(l) == Endless /\ l.pc = "cTry" => l.time = Forever

Patient == \A t \in Threads : WaitsOn(loc[t])

CriticalInv == Typed /\ Patient /\ MutualExclusion /\ ExitSucceeds

\* A step that leaves the lock alone and neither enters nor crosses into a region
\* keeps the exclusion of the regions.
LEMMA OutsideRegion ==
  ASSUME MutualExclusion, ExitSucceeds, Typed, NEW t \in Threads,
         NEW l \in Locals, loc' = [loc EXCEPT ![t] = l], critical' = critical,
         l.pc \in {"cFunc", "cCheck", "cStore"} => InRegion(t)
  PROVE  MutualExclusion' /\ ExitSucceeds'
BY DEF MutualExclusion, ExitSucceeds, InRegion, Typed

\* A step of t outside the region's operations: only its own locals and the
\* phase change, and t does not enter a region.
LEMMA StepOutside ==
  ASSUME CriticalInv, NEW t \in Threads, NEW l \in Locals,
         loc' = [loc EXCEPT ![t] = l], critical' = critical, phase' \in {0, 1},
         l.pc \in {"cFunc", "cCheck", "cStore"} => InRegion(t),
         WaitsOn(l)
  PROVE  CriticalInv'
<1>1. Typed'
  BY DEF CriticalInv, Typed
<1>2. Patient'
  BY DEF CriticalInv, Typed, Patient
<1>3. MutualExclusion' /\ ExitSucceeds'
  BY OutsideRegion DEF CriticalInv
<1> QED BY <1>1, <1>2, <1>3 DEF CriticalInv

\* Initially the lock is FULL and no thread is in a region.
LEMMA InitCritical == Init => CriticalInv
BY DEF Init, CriticalInv, Typed, Patient, MutualExclusion, ExitSucceeds, InRegion, Quiet,
       Locals, PC, WaitsOn, Polls

\* The locals a thread moves to are again locals.
LEMMA Moved ==
  ASSUME CriticalInv, NEW t \in Threads, NEW p \in PC
  PROVE  /\ loc[t] \in Locals
         /\ WaitsOn(loc[t])
         /\ [loc[t] EXCEPT !.pc = p] \in Locals
         /\ [loc[t] EXCEPT !.pc = p].pc = p
         /\ [loc[t] EXCEPT !.pc = p].time = loc[t].time
         /\ [loc EXCEPT ![t].pc = p] = [loc EXCEPT ![t] = [loc[t] EXCEPT !.pc = p]]
BY DEF CriticalInv, Typed, Patient, Locals

\* The locals of a thread between statements.
LEMMA QuietLocals == Quiet \in Locals /\ Quiet.pc = "next" /\ WaitsOn(Quiet)
BY DEF Quiet, Locals, PC, Polls, WaitsOn

\* A poll that is made leaves a number of polls.
LEMMA PollType == ASSUME NEW n \in Polls, n # 0 PROVE Poll(n) \in Polls
BY DEF Polls, Poll, Forever

\* Moving to a program counter outside the regions, or along inside one.
LEMMA GoOutside ==
  ASSUME CriticalInv, NEW t \in Threads, NEW p \in PC \ {"cTry"}, Go(t, p),
         critical' = critical, phase' \in {0, 1},
         p \in {"cFunc", "cCheck", "cStore"} => InRegion(t)
  PROVE  CriticalInv'
<1> DEFINE l == [loc[t] EXCEPT !.pc = p]
<1>1. l \in Locals /\ l.pc = p /\ WaitsOn(l)
  BY Moved DEF WaitsOn
<1>2. loc' = [loc EXCEPT ![t] = l]
  BY Moved DEF Go
<1> HIDE DEF l
<1> QED BY <1>1, <1>2, StepOutside

\* Leaving a statement with the lock as it is.
LEMMA AdvanceOutside ==
  ASSUME CriticalInv, NEW t \in Threads, Advance(t), critical' = critical, phase' \in {0, 1}
  PROVE  CriticalInv'
BY QuietLocals, StepOutside DEF Advance

\* Moving outside the regions with a number of polls.
LEMMA WaitOutside ==
  ASSUME CriticalInv, NEW t \in Threads, NEW p \in PC \ {"cFunc", "cCheck", "cStore"},
         NEW tm \in Polls, Wait(t, p, tm), critical' = critical, phase' \in {0, 1},
         Endless /\ p = "cTry" => tm = Forever
  PROVE  CriticalInv'
<1> DEFINE l == [loc[t] EXCEPT !.pc = p, !.time = tm]
<1>1. loc \in [Threads -> Locals] /\ loc[t] \in Locals
  BY DEF CriticalInv, Typed
<1>2. l \in Locals /\ l.pc = p /\ l.time = tm
  BY <1>1 DEF Locals
<1>3. loc' = [loc EXCEPT ![t] = l]
  BY <1>1 DEF Wait, Locals
<1>4. WaitsOn(l)
  BY <1>2 DEF WaitsOn
<1> HIDE DEF l
<1> QED BY <1>2, <1>3, <1>4, StepOutside

\* Reaching a statement keeps the regions apart, and so do the steps of the other
\* collectives.
LEMMA BeginKeeps ==
  ASSUME CriticalInv, NEW t \in Threads, Begin(t)
  PROVE  CriticalInv'
<1>1. critical' = critical /\ phase' \in {0, 1}
  BY DEF Begin, counters, CriticalInv, Typed
<1>2. CASE Program[ip[t]] = "barrier"
  <2>1. Go(t, "bLoad")
    BY <1>2 DEF Begin
  <2> QED BY <1>1, <2>1, GoOutside DEF PC
<1>3. CASE Program[ip[t]] = "single"
  <2>1. Go(t, "sInc")
    BY <1>3 DEF Begin
  <2> QED BY <1>1, <2>1, GoOutside DEF PC
<1>4. CASE Program[ip[t]] = "critical"
  <2>1. PICK tm \in CriticalTimeouts : Wait(t, "cTry", tm)
    BY <1>4 DEF Begin
  <2>2. tm \in Polls /\ (Endless => tm = Forever)
    BY CollectivesAssumption DEF Endless
  <2> QED BY <1>1, <2>1, <2>2, WaitOutside DEF PC
<1>5. CASE Program[ip[t]] \notin {"barrier", "single", "critical"}
  <2>1. Go(t, "mFunc") \/ Advance(t)
    BY <1>5 DEF Begin
  <2> QED BY <1>1, <2>1, GoOutside, AdvanceOutside DEF PC
<1> QED BY <1>2, <1>3, <1>4, <1>5

\* The lock and the regions are not touched by master and single.
LEMMA SingleKeeps ==
  ASSUME CriticalInv, NEW t \in Threads,
         MasterFunc(t) \/ SingleInc(t) \/ SingleReset(t) \/ SingleFunc(t)
  PROVE  CriticalInv'
<1>1. critical' = critical /\ phase' \in {0, 1}
  BY DEF MasterFunc, SingleInc, SingleReset, SingleFunc, counters, CriticalInv, Typed
<1>2. CASE MasterFunc(t)
  BY <1>1, <1>2, AdvanceOutside DEF MasterFunc
<1>3. CASE SingleInc(t)
  <2> DEFINE p == IF single = NThreads - 1 THEN "sReset" ELSE "sFunc"
             l == [loc[t] EXCEPT !.first = (single = 0), !.pc = p]
  <2>1. loc \in [Threads -> Locals] /\ loc[t] \in Locals
    BY DEF CriticalInv, Typed
  <2>2. p \in PC \ {"cTry", "cFunc", "cCheck", "cStore"} /\ (single = 0) \in BOOLEAN
    BY DEF PC
  <2>3. loc' = [loc EXCEPT ![t] = l]
    BY <1>3, <2>1 DEF SingleInc, Locals
  <2> HIDE DEF p
  <2>4. l \in Locals /\ l.pc = p /\ WaitsOn(l)
    BY <2>1, <2>2 DEF Locals, WaitsOn
  <2> HIDE DEF l
  <2> QED BY <1>1, <2>2, <2>3, <2>4, StepOutside
<1>4. CASE SingleReset(t)
  BY <1>1, <1>4, GoOutside DEF SingleReset, PC
<1>5. CASE SingleFunc(t)
  BY <1>1, <1>5, GoOutside DEF SingleFunc, PC
<1> QED BY <1>2, <1>3, <1>4, <1>5

\* The lock and the regions are not touched by a barrier.
LEMMA BarrierKeeps ==
  ASSUME CriticalInv, NEW t \in Threads,
         \/ BarrierLoad(t) \/ BarrierDec(t) \/ BarrierReset(t) \/ BarrierFlip(t)
         \/ BarrierWait(t) \/ BarrierReturn(t)
  PROVE  CriticalInv'
<1>1. loc \in [Threads -> Locals] /\ loc[t] \in Locals /\ loc[t].phase \in {0, 1}
  BY DEF CriticalInv, Typed, Locals
<1>2. critical' = critical /\ phase' \in {0, 1}
  <2>1. critical' = critical /\ (phase' = phase \/ phase' = 1 - loc[t].phase)
    <3>1. CASE BarrierFlip(t)
      BY <3>1 DEF BarrierFlip
    <3>2. CASE BarrierDec(t)
      BY <3>2 DEF BarrierDec
    <3>3. CASE BarrierLoad(t) \/ BarrierReset(t) \/ BarrierWait(t) \/ BarrierReturn(t)
      BY <3>3 DEF BarrierLoad, BarrierReset, BarrierWait, BarrierReturn, counters
    <3> QED BY <3>1, <3>2, <3>3
  <2> QED BY <1>1, <2>1 DEF CriticalInv, Typed
<1>3. CASE BarrierLoad(t)
  <2> DEFINE l == [loc[t] EXCEPT !.pc = "bDec", !.phase = phase]
  <2>1. loc' = [loc EXCEPT ![t] = l]
    BY <1>1, <1>3 DEF BarrierLoad, Locals
  <2>2. l \in Locals /\ l.pc = "bDec" /\ WaitsOn(l)
    BY <1>1 DEF Locals, PC, CriticalInv, Typed, WaitsOn
  <2> HIDE DEF l
  <2> QED BY <1>1, <1>2, <2>1, <2>2, StepOutside
<1>4. CASE BarrierDec(t)
  <2> DEFINE n == nbar[loc[t].phase]
             p == IF n < 0 THEN "bReturn" ELSE IF n = 1 THEN "bReset" ELSE "bWait"
  <2>1. PICK tm \in BarrierTimeouts : Wait(t, p, tm)
    BY <1>4 DEF BarrierDec
  <2>2. p \in PC \ {"cTry", "cFunc", "cCheck", "cStore"} /\ tm \in Polls
    BY CollectivesAssumption DEF PC
  <2> HIDE DEF p
  <2> QED BY <1>2, <2>1, <2>2, WaitOutside
<1>5. CASE BarrierReset(t)
  BY <1>2, <1>5, GoOutside DEF BarrierReset, PC
<1>6. CASE BarrierFlip(t)
  BY <1>2, <1>6, GoOutside DEF BarrierFlip, PC
<1>7. CASE BarrierWait(t)
  <2>1. CASE Time(t) # 0 /\ phase = loc[t].phase
    <3>1. Poll(Time(t)) \in Polls
      BY <1>1, <2>1, PollType DEF Time, Locals
    <3> QED BY <1>2, <1>7, <2>1, <3>1, WaitOutside DEF BarrierWait, PC
  <2>2. CASE ~(Time(t) # 0 /\ phase = loc[t].phase)
    BY <1>2, <1>7, <2>2, GoOutside DEF BarrierWait, PC
  <2> QED BY <2>1, <2>2
<1>8. CASE BarrierReturn(t)
  BY <1>2, <1>8, AdvanceOutside DEF BarrierReturn
<1> QED BY <1>3, <1>4, <1>5, <1>6, <1>7, <1>8

\* The step that enters a region finds the lock FULL, so no region is occupied.
LEMMA CriticalTryKeeps ==
  ASSUME CriticalInv, Honoured, NEW t \in Threads, CriticalTry(t)
  PROVE  CriticalInv'
<1>1. phase' = phase /\ phase \in {0, 1} /\ loc \in [Threads -> Locals]
  BY DEF CriticalTry, counters, CriticalInv, Typed
<1>2. CASE critical = "FULL" /\ critical' = "EMPTY" /\ EnterOrThrow(t)
  <2>1. \A u \in Threads : ~InRegion(u)
    BY <1>2 DEF CriticalInv, ExitSucceeds
  <2>2. PICK l \in Locals : loc' = [loc EXCEPT ![t] = l] /\ WaitsOn(l)
    <3>1. CASE Enters(t)
      <4> DEFINE l == [loc[t] EXCEPT !.pc = "cFunc"]
      <4>1. "cFunc" \in PC
        BY DEF PC
      <4>2. l \in Locals /\ WaitsOn(l)
        BY <4>1, Moved DEF WaitsOn
      <4>3. loc' = [loc EXCEPT ![t] = l]
        BY <1>2, <3>1, <4>1, Moved DEF EnterOrThrow, Go
      <4> QED BY <4>2, <4>3
    <3>2. CASE ~Enters(t)
      BY <1>2, <3>2, QuietLocals DEF EnterOrThrow, Advance
    <3> QED BY <3>1, <3>2
  <2>3. Typed'
    BY <1>1, <1>2, <2>2 DEF Typed
  <2>4. Patient'
    BY <1>1, <2>2 DEF CriticalInv, Patient
  <2>5. \A u \in Threads : u # t => loc'[u] = loc[u]
    BY <1>1, <2>2
  <2>6. \A u \in Threads : InRegion(u)' => u = t
    BY <2>1, <2>5 DEF InRegion
  <2>7. MutualExclusion' /\ ExitSucceeds'
    BY <1>2, <2>6 DEF MutualExclusion, ExitSucceeds
  <2> QED BY <2>3, <2>4, <2>7 DEF CriticalInv
<1>3. CASE critical' = critical /\ Time(t) # 0 /\ Wait(t, "cTry", Poll(Time(t)))
  <2>1. Time(t) \in Polls /\ (Endless => Time(t) = Forever)
    BY <1>1 DEF Locals, Time, CriticalInv, Patient, WaitsOn, CriticalTry, At
  <2>2. Poll(Time(t)) \in Polls /\ (Endless => Poll(Time(t)) = Forever)
    BY <1>3, <2>1, PollType DEF Poll
  <2> QED BY <1>1, <1>3, <2>2, WaitOutside DEF PC
<1>4. CASE critical' = critical /\ Time(t) = 0 /\ EnterOrThrow(t)
  <2>1. ~Enters(t)
    BY <1>4 DEF Enters, Honoured, CriticalInv, Patient, WaitsOn, CriticalTry, At, Time, Forever
  <2> QED BY <1>1, <1>4, <2>1, AdvanceOutside DEF EnterOrThrow
<1> QED BY <1>2, <1>3, <1>4 DEF CriticalTry

\* The thread that leaves a region is the only one in a region.
LEMMA CriticalExitKeeps ==
  ASSUME CriticalInv, NEW t \in Threads,
         CriticalFunc(t) \/ CriticalCheck(t) \/ CriticalStore(t)
  PROVE  CriticalInv'
<1>1. phase' \in {0, 1} /\ loc \in [Threads -> Locals] /\ InRegion(t)
  BY DEF CriticalFunc, CriticalCheck, CriticalStore, counters, CriticalInv, Typed, At, InRegion
<1>2. CASE CriticalFunc(t)
  BY <1>1, <1>2, GoOutside, AdvanceOutside DEF CriticalFunc, PC
<1>3. CASE CriticalCheck(t)
  BY <1>1, <1>3, GoOutside, AdvanceOutside DEF CriticalCheck, PC
<1>4. CASE CriticalStore(t)
  <2>1. loc' = [loc EXCEPT ![t] = Quiet] /\ critical' = "FULL"
    BY <1>4 DEF CriticalStore, Advance
  <2>2. \A u \in Threads : ~InRegion(u)'
    <3> SUFFICES ASSUME NEW u \in Threads PROVE ~InRegion(u)'
      OBVIOUS
    <3>1. CASE u = t
      BY <1>1, <2>1, <3>1, QuietLocals DEF InRegion
    <3>2. CASE u # t
      BY <1>1, <2>1, <3>2 DEF InRegion, CriticalInv, MutualExclusion
    <3> QED BY <3>1, <3>2
  <2>3. Typed'
    BY <1>1, <2>1, QuietLocals DEF Typed
  <2>4. Patient'
    BY <1>1, <2>1, QuietLocals DEF CriticalInv, Patient
  <2>5. MutualExclusion' /\ ExitSucceeds'
    BY <2>2 DEF MutualExclusion, ExitSucceeds
  <2> QED BY <2>3, <2>4, <2>5 DEF CriticalInv
<1> QED BY <1>2, <1>3, <1>4

\* Every step keeps the regions apart.
LEMMA CriticalInductive ==
  ASSUME Honoured
  PROVE  CriticalInv /\ [Next]_vars => CriticalInv'
<1> SUFFICES ASSUME CriticalInv, [Next]_vars PROVE CriticalInv'
  OBVIOUS
<1>1. CASE Next
  <2> PICK t \in Threads : Step(t)
    BY <1>1 DEF Next
  <2> QED BY BeginKeeps, SingleKeeps, BarrierKeeps, CriticalTryKeeps, CriticalExitKeeps DEF Step
<1>2. CASE UNCHANGED vars
  BY <1>2 DEF vars, counters, CriticalInv, Typed, Patient, MutualExclusion,
              ExitSucceeds, InRegion
<1> QED BY <1>1, <1>2

\* collectives.cc:59-88 with nodejs.cc: two threads are never both between the
\* entry and the exit of a critical region, whatever times out or throws.
THEOREM CriticalExcludes ==
  ASSUME Honoured
  PROVE  Spec => []MutualExclusion
<1>1. CriticalInv => MutualExclusion
  BY DEF CriticalInv
<1> QED BY InitCritical, CriticalInductive, <1>1, PTL DEF Spec

\* collectives.cc:81-84: a thread leaving a region still finds its lock taken.
THEOREM CriticalExitSucceeds ==
  ASSUME Honoured
  PROVE  Spec => []ExitSucceeds
<1>1. CriticalInv => ExitSucceeds
  BY DEF CriticalInv
<1> QED BY InitCritical, CriticalInductive, <1>1, PTL DEF Spec

-------------------------------------------------------------------------------
(* barrier *)

\* No timeout given to barrier or single runs out.
Untimed == BarrierTimeouts \subseteq {Forever}

BarrierPC == {"bLoad", "bDec", "bReset", "bFlip", "bWait", "bReturn"}

\* Where a thread with locals l is in statement i of the program.
Fits(l, i) ==
  /\ i \in Nat \ {0} /\ (l.pc # "next" => i \in 1 .. Len(Program))
  /\ l.pc \in {"sInc", "sReset", "sFunc"} => Program[i] = "single"
  /\ l.pc \in BarrierPC => Program[i] \in {"barrier", "single"}
  /\ l.pc \in {"cTry", "cFunc", "cCheck", "cStore"} => Program[i] = "critical"
  /\ l.pc = "mFunc" => Program[i] = "master"
  /\ l.pc \in {"bDec", "bReset", "bFlip"} => l.phase = phase
  /\ l.pc = "bReturn" => l.phase # phase
  /\ l.pc = "bWait" => l.time = Forever

\* Counted in at the barrier that is open; at one that has opened already.
HereL(l) == l.pc \in {"bReset", "bFlip", "bWait"} /\ l.phase = phase
GoneL(l) == l.pc \in {"bWait", "bReturn"} /\ l.phase # phase

Here == {t \in Threads : HereL(loc[t])}

\* The barriers that a thread at statement i with locals l knows to have opened.
CompletedL(l, i) == Barriers(i) \cup (IF GoneL(l) THEN {i} ELSE {})
Completed(t) == CompletedL(loc[t], ip[t])

Together == \A t, u \in Threads : Completed(t) = Completed(u)

\* The thread that completes the count, and the count.
Last(t) == loc[t].pc \in {"bReset", "bFlip"}

Waiting == IF \E t \in Threads : At(t, "bFlip") THEN 0 ELSE Cardinality(Here)

Counts ==
  /\ nbar[1 - phase] = NThreads
  /\ nbar[phase] = NThreads - Waiting
  /\ \A t \in Threads : Last(t) => Here = Threads /\ \A u \in Threads : Last(u) => u = t
  /\ Here = Threads => \E t \in Threads : Last(t)

BarrierTyped ==
  /\ loc \in [Threads -> Locals] /\ phase \in {0, 1}
  /\ nbar \in [{0, 1} -> Int] /\ ip \in [Threads -> Nat \ {0}]

Placed == \A t \in Threads : Fits(loc[t], ip[t])

BarrierInv == BarrierTyped /\ Placed /\ Together /\ Counts

-------------------------------------------------------------------------------

\* The program is a sequence of collectives.
LEMMA ProgramType == Program \in Seq(Collective) /\ Len(Program) \in Nat
BY CollectivesAssumption

\* Two statements with a barrier are the same if the same barriers precede them.
LEMMA SameSpot ==
  ASSUME NEW i \in 1 .. Len(Program), NEW j \in 1 .. Len(Program),
         Program[i] \in {"barrier", "single"}, Program[j] \in {"barrier", "single"},
         Barriers(i) = Barriers(j)
  PROVE  i = j
<1>1. i < j => i \in Barriers(j) /\ i \notin Barriers(i)
  BY ProgramType DEF Barriers
<1>2. j < i => j \in Barriers(i) /\ j \notin Barriers(j)
  BY ProgramType DEF Barriers
<1> QED BY <1>1, <1>2, ProgramType

\* The barriers before the next statement.
LEMMA NextBarriers ==
  ASSUME NEW i \in 1 .. Len(Program)
  PROVE  Barriers(i + 1) = Barriers(i) \cup
           (IF Program[i] \in {"barrier", "single"} THEN {i} ELSE {})
BY ProgramType DEF Barriers

\* The threads are finitely many, and one of them is the master.
LEMMA ThreadCount == IsFiniteSet(Threads) /\ NThreads \in Nat \ {0} /\ Master \in Threads
<1>1. IsFiniteSet(Threads) /\ Threads # {}
  BY CollectivesAssumption
<1> QED BY <1>1, FS_CardinalityType, FS_EmptySet, CollectivesAssumption DEF NThreads

\* The threads at the open barrier are at most all of them.
LEMMA HereCount ==
  /\ IsFiniteSet(Here) /\ Cardinality(Here) \in 0 .. NThreads
  /\ Cardinality(Here) = NThreads => Here = Threads
<1>1. Here \subseteq Threads
  BY DEF Here
<1> QED BY <1>1, ThreadCount, FS_Subset, FS_CardinalityType DEF NThreads

\* The initial state: nobody has arrived.
LEMMA InitBarrier == Init => BarrierInv
<1> SUFFICES ASSUME Init PROVE BarrierInv
  OBVIOUS
<1>1. BarrierTyped
  BY QuietLocals, ThreadCount DEF Init, BarrierTyped
<1>2. \A t \in Threads : loc[t] = Quiet /\ ip[t] = 1 /\ loc[t].pc = "next"
  BY QuietLocals DEF Init
<1>3. Placed
  BY <1>2 DEF Placed, Fits, BarrierPC
<1>4. Together
  BY <1>2 DEF Together, Completed, CompletedL, GoneL
<1>5. Here = {} /\ \A t \in Threads : ~Last(t) /\ ~At(t, "bFlip")
  BY <1>2 DEF Here, HereL, Last, At
<1>6. nbar[1 - phase] = NThreads /\ nbar[phase] = NThreads
  BY DEF Init
<1>7. Waiting = 0
  BY <1>5, FS_EmptySet DEF Waiting
<1>8. Counts
  BY <1>5, <1>6, <1>7, ThreadCount DEF Counts
<1> QED BY <1>1, <1>3, <1>4, <1>8 DEF BarrierInv

\* A step of t outside the counting of the barrier.
LEMMA StepElsewhere ==
  ASSUME BarrierInv, NEW t \in Threads, NEW l \in Locals, NEW i \in Nat \ {0},
         loc' = [loc EXCEPT ![t] = l], ip' = [ip EXCEPT ![t] = i],
         UNCHANGED <<nbar, phase>>,
         Fits(l, i), CompletedL(l, i) = Completed(t),
         ~HereL(loc[t]), ~HereL(l), l.pc \notin {"bReset", "bFlip"},
         loc[t].pc \notin {"bReset", "bFlip"}
  PROVE  /\ BarrierInv' /\ Here' = Here
         /\ \A u \in Threads : Completed(u)' = Completed(u)
<1>1. BarrierTyped'
  BY DEF BarrierInv, BarrierTyped
<1>2. /\ loc'[t] = l /\ ip'[t] = i
      /\ \A u \in Threads : u # t => loc'[u] = loc[u] /\ ip'[u] = ip[u]
  BY DEF BarrierInv, BarrierTyped
<1>3. Placed'
  BY <1>2 DEF BarrierInv, Placed, Fits
<1>4. \A u \in Threads : Completed(u)' = Completed(u)
  BY <1>2 DEF Completed, CompletedL, GoneL
<1>5. Here' = Here
  BY <1>2 DEF Here, HereL
<1>6. \A u \in Threads : Last(u)' = Last(u) /\ At(u, "bFlip")' = At(u, "bFlip")
  BY <1>2 DEF Last, At
<1>7. Together'
  BY <1>4 DEF BarrierInv, Together
<1>8. Waiting' = Waiting
  BY <1>5, <1>6 DEF Waiting
<1>9. Counts'
  BY <1>5, <1>6, <1>8 DEF BarrierInv, Counts
<1> QED BY <1>1, <1>3, <1>4, <1>5, <1>7, <1>9 DEF BarrierInv

\* A step that only moves t on, between program counters outside the count.
LEMMA GoElsewhere ==
  ASSUME BarrierInv, NEW t \in Threads, NEW p \in PC, Go(t, p), UNCHANGED <<nbar, phase>>,
         Fits([loc[t] EXCEPT !.pc = p], ip[t]),
         ~HereL(loc[t]), ~GoneL(loc[t]) \/ p = "bReturn", GoneL(loc[t]) \/ p # "bReturn",
         p \notin {"bReset", "bFlip", "bWait"}, loc[t].pc \notin {"bReset", "bFlip"}
  PROVE  /\ BarrierInv' /\ Here' = Here
         /\ \A u \in Threads : Completed(u)' = Completed(u)
<1> DEFINE l == [loc[t] EXCEPT !.pc = p]
<1>1. loc \in [Threads -> Locals] /\ loc[t] \in Locals /\ ip \in [Threads -> Nat \ {0}]
  BY DEF BarrierInv, BarrierTyped
<1>2. l \in Locals /\ l.pc = p /\ l.phase = loc[t].phase
  BY <1>1 DEF Locals
<1>3. loc' = [loc EXCEPT ![t] = l] /\ ip' = [ip EXCEPT ![t] = ip[t]] /\ ip[t] \in Nat \ {0}
  BY <1>1 DEF Go, Locals
<1>4. Fits(l, ip[t])
  OBVIOUS
<1> HIDE DEF l
<1>5. GoneL(l) = GoneL(loc[t]) /\ ~HereL(l)
  BY <1>2 DEF GoneL, HereL, BarrierInv, Placed, Fits
<1>6. CompletedL(l, ip[t]) = Completed(t)
  BY <1>5 DEF CompletedL, Completed
<1> QED BY <1>2, <1>3, <1>4, <1>5, <1>6, StepElsewhere

\* A step that leaves a statement without a barrier, or one whose barrier has opened.
LEMMA AdvanceElsewhere ==
  ASSUME BarrierInv, NEW t \in Threads, Advance(t), UNCHANGED <<nbar, phase>>,
         ip[t] \in 1 .. Len(Program), ~HereL(loc[t]), loc[t].pc \notin {"bReset", "bFlip"},
         Program[ip[t]] \in {"barrier", "single"} <=> GoneL(loc[t])
  PROVE  /\ BarrierInv' /\ Here' = Here
         /\ \A u \in Threads : Completed(u)' = Completed(u)
<1>1. ip[t] + 1 \in Nat \ {0}
  BY ProgramType
<1>2. Fits(Quiet, ip[t] + 1) /\ ~HereL(Quiet) /\ ~GoneL(Quiet)
  BY <1>1, QuietLocals DEF Fits, BarrierPC, HereL, GoneL
<1>3. CompletedL(Quiet, ip[t] + 1) = Completed(t)
  BY <1>2, NextBarriers DEF CompletedL, Completed
<1>4. loc' = [loc EXCEPT ![t] = Quiet] /\ ip' = [ip EXCEPT ![t] = ip[t] + 1]
  BY DEF Advance
<1> QED BY <1>1, <1>2, <1>3, <1>4, QuietLocals, StepElsewhere

\* The step leaves the count, the places and the barriers known to have opened.
Kept == /\ BarrierInv' /\ Here' = Here
        /\ \A u \in Threads : Completed(u)' = Completed(u)

\* Reaching a statement: t is at no barrier yet.
LEMMA BeginPlaced ==
  ASSUME BarrierInv, NEW t \in Threads, Begin(t)
  PROVE  Kept
<1>1. /\ loc[t] \in Locals /\ loc[t].pc = "next" /\ ip[t] \in 1 .. Len(Program)
      /\ UNCHANGED <<nbar, phase>> /\ ~HereL(loc[t]) /\ ~GoneL(loc[t])
      /\ loc \in [Threads -> Locals] /\ ip \in [Threads -> Nat \ {0}]
  BY ProgramType DEF Begin, At, counters, BarrierInv, BarrierTyped, HereL, GoneL
<1>2. CASE Program[ip[t]] = "barrier"
  <2>1. Go(t, "bLoad")
    BY <1>2 DEF Begin
  <2>2. Fits([loc[t] EXCEPT !.pc = "bLoad"], ip[t])
    BY <1>1, <1>2 DEF Fits, Locals, BarrierPC
  <2> QED BY <1>1, <2>1, <2>2, GoElsewhere DEF PC, Kept
<1>3. CASE Program[ip[t]] = "single"
  <2>1. Go(t, "sInc")
    BY <1>3 DEF Begin
  <2>2. Fits([loc[t] EXCEPT !.pc = "sInc"], ip[t])
    BY <1>1, <1>3 DEF Fits, Locals, BarrierPC
  <2> QED BY <1>1, <2>1, <2>2, GoElsewhere DEF PC, Kept
<1>4. CASE Program[ip[t]] = "critical"
  <2>1. PICK tm \in CriticalTimeouts : Wait(t, "cTry", tm)
    BY <1>4 DEF Begin
  <2> DEFINE m == [loc[t] EXCEPT !.pc = "cTry", !.time = tm]
  <2>2. tm \in Polls
    BY CollectivesAssumption
  <2>3. m \in Locals /\ m.pc = "cTry"
    BY <1>1, <2>2 DEF Locals, PC
  <2>4. loc' = [loc EXCEPT ![t] = m] /\ ip' = [ip EXCEPT ![t] = ip[t]]
    BY <1>1, <2>1 DEF Wait, Locals
  <2> HIDE DEF m
  <2>5. Fits(m, ip[t]) /\ ~HereL(m) /\ ~GoneL(m)
    BY <1>1, <1>4, <2>3 DEF Fits, BarrierPC, HereL, GoneL
  <2>6. CompletedL(m, ip[t]) = Completed(t)
    BY <1>1, <2>5 DEF CompletedL, Completed
  <2> QED BY <1>1, <2>3, <2>4, <2>5, <2>6, StepElsewhere DEF Kept
<1>5. CASE Program[ip[t]] \notin {"barrier", "single", "critical"}
  <2>1. CASE Go(t, "mFunc")
    <3>1. Program[ip[t]] = "master"
      BY <1>1, <1>5, ProgramType DEF Collective
    <3>2. Fits([loc[t] EXCEPT !.pc = "mFunc"], ip[t])
      BY <1>1, <3>1 DEF Fits, Locals, BarrierPC
    <3> QED BY <1>1, <2>1, <3>2, GoElsewhere DEF PC, Kept
  <2>2. CASE Advance(t)
    BY <1>1, <1>5, <2>2, AdvanceElsewhere DEF Kept
  <2> QED BY <1>5, <2>1, <2>2 DEF Begin
<1> QED BY <1>2, <1>3, <1>4, <1>5

\* The function given to master is run at no barrier.
LEMMA MasterPlaced ==
  ASSUME BarrierInv, NEW t \in Threads, MasterFunc(t)
  PROVE  Kept
<1>1. UNCHANGED <<nbar, phase>> /\ Advance(t) /\ loc[t].pc = "mFunc"
  BY DEF MasterFunc, counters, At
<1>2. ip[t] \in 1 .. Len(Program) /\ Program[ip[t]] = "master"
  BY <1>1 DEF BarrierInv, Placed, Fits
<1> QED BY <1>1, <1>2, AdvanceElsewhere DEF HereL, GoneL, Kept

\* EMSsingleTask and the function of a single precede its barrier.
LEMMA SinglePlaced ==
  ASSUME BarrierInv, NEW t \in Threads, SingleInc(t) \/ SingleReset(t) \/ SingleFunc(t)
  PROVE  Kept
<1>1. /\ loc[t] \in Locals /\ loc[t].pc \in {"sInc", "sReset", "sFunc"}
      /\ loc \in [Threads -> Locals] /\ ip \in [Threads -> Nat \ {0}]
      /\ UNCHANGED <<nbar, phase>> /\ ~HereL(loc[t]) /\ ~GoneL(loc[t])
  BY DEF SingleInc, SingleReset, SingleFunc, At, counters, BarrierInv, BarrierTyped,
         HereL, GoneL
<1>2. ip[t] \in 1 .. Len(Program) /\ Program[ip[t]] = "single"
  BY <1>1 DEF BarrierInv, Placed, Fits
<1>3. CASE SingleInc(t)
  <2> DEFINE p == IF single = NThreads - 1 THEN "sReset" ELSE "sFunc"
             m == [loc[t] EXCEPT !.first = (single = 0), !.pc = p]
  <2>1. p \in {"sReset", "sFunc"} /\ (single = 0) \in BOOLEAN
    OBVIOUS
  <2>2. loc' = [loc EXCEPT ![t] = m] /\ ip' = [ip EXCEPT ![t] = ip[t]]
    BY <1>1, <1>3 DEF SingleInc, Locals
  <2> HIDE DEF p
  <2>3. m \in Locals /\ m.pc = p
    BY <1>1, <2>1 DEF Locals, PC
  <2> HIDE DEF m
  <2>4. Fits(m, ip[t]) /\ ~HereL(m) /\ ~GoneL(m)
    BY <1>1, <1>2, <2>1, <2>3 DEF Fits, BarrierPC, HereL, GoneL
  <2>5. CompletedL(m, ip[t]) = Completed(t)
    BY <1>1, <2>4 DEF CompletedL, Completed
  <2> QED BY <1>1, <2>1, <2>2, <2>3, <2>4, <2>5, StepElsewhere DEF Kept
<1>4. CASE SingleReset(t)
  <2>1. Fits([loc[t] EXCEPT !.pc = "sFunc"], ip[t])
    BY <1>1, <1>2 DEF Fits, Locals, BarrierPC
  <2> QED BY <1>1, <1>4, <2>1, GoElsewhere DEF SingleReset, PC, Kept
<1>5. CASE SingleFunc(t)
  <2>1. Fits([loc[t] EXCEPT !.pc = "bLoad"], ip[t])
    BY <1>1, <1>2 DEF Fits, Locals, BarrierPC
  <2> QED BY <1>1, <1>5, <2>1, GoElsewhere DEF SingleFunc, PC, Kept
<1> QED BY <1>3, <1>4, <1>5

\* A critical region has no barrier.
LEMMA CriticalPlaced ==
  ASSUME BarrierInv, NEW t \in Threads,
         CriticalTry(t) \/ CriticalFunc(t) \/ CriticalCheck(t) \/ CriticalStore(t)
  PROVE  Kept
<1>1. /\ loc[t] \in Locals /\ loc[t].pc \in {"cTry", "cFunc", "cCheck", "cStore"}
      /\ loc \in [Threads -> Locals] /\ ip \in [Threads -> Nat \ {0}]
      /\ UNCHANGED <<nbar, phase>> /\ ~HereL(loc[t]) /\ ~GoneL(loc[t])
  BY DEF CriticalTry, CriticalFunc, CriticalCheck, CriticalStore, At, counters, BarrierInv,
         BarrierTyped, HereL, GoneL
<1>2. ip[t] \in 1 .. Len(Program) /\ Program[ip[t]] = "critical"
  BY <1>1 DEF BarrierInv, Placed, Fits
<1>3. CASE Advance(t)
  BY <1>1, <1>2, <1>3, AdvanceElsewhere DEF Kept
<1>4. ASSUME NEW p \in {"cFunc", "cCheck", "cStore"}, Go(t, p) PROVE Kept
  <2>1. Fits([loc[t] EXCEPT !.pc = p], ip[t])
    BY <1>1, <1>2, <1>4 DEF Fits, Locals, BarrierPC
  <2> QED BY <1>1, <1>4, <2>1, GoElsewhere DEF PC, Kept
<1>5. CASE Time(t) # 0 /\ Wait(t, "cTry", Poll(Time(t)))
  <2> DEFINE m == [loc[t] EXCEPT !.pc = "cTry", !.time = Poll(Time(t))]
  <2>1. Poll(Time(t)) \in Polls
    BY <1>1, <1>5, PollType DEF Time, Locals
  <2>2. m \in Locals /\ m.pc = "cTry"
    BY <1>1, <2>1 DEF Locals, PC
  <2>3. loc' = [loc EXCEPT ![t] = m] /\ ip' = [ip EXCEPT ![t] = ip[t]]
    BY <1>1, <1>5 DEF Wait, Locals
  <2> HIDE DEF m
  <2>4. Fits(m, ip[t]) /\ ~HereL(m) /\ ~GoneL(m)
    BY <1>1, <1>2, <2>2 DEF Fits, BarrierPC, HereL, GoneL
  <2>5. CompletedL(m, ip[t]) = Completed(t)
    BY <1>1, <2>4 DEF CompletedL, Completed
  <2> QED BY <1>1, <2>2, <2>3, <2>4, <2>5, StepElsewhere DEF Kept
<1>6. CriticalTry(t) => Go(t, "cFunc") \/ Advance(t) \/ (Time(t) # 0 /\ Wait(t, "cTry", Poll(Time(t))))
  BY DEF CriticalTry, EnterOrThrow
<1>7. CriticalFunc(t) => Go(t, "cCheck") \/ Advance(t)
  BY DEF CriticalFunc
<1>8. CriticalCheck(t) => Go(t, "cStore") \/ Advance(t)
  BY DEF CriticalCheck
<1>9. CriticalStore(t) => Advance(t)
  BY DEF CriticalStore
<1> QED BY <1>3, <1>4, <1>5, <1>6, <1>7, <1>8, <1>9

\* A poll that finds the phase unchanged changes nothing.
LEMMA BarrierStill ==
  ASSUME BarrierInv, UNCHANGED <<loc, ip, nbar, phase>>
  PROVE  Kept
BY DEF Kept, BarrierInv, BarrierTyped, Placed, Fits, Together, Completed, CompletedL, GoneL,
       Counts, Waiting, Here, HereL, Last, At

\* Arriving, waiting and leaving, but not the count itself.
LEMMA BarrierPlaced ==
  ASSUME BarrierInv, NEW t \in Threads,
         BarrierLoad(t) \/ BarrierWait(t) \/ BarrierReturn(t)
  PROVE  Kept
<1>1. /\ loc[t] \in Locals /\ loc[t].pc \in {"bLoad", "bWait", "bReturn"}
      /\ loc \in [Threads -> Locals] /\ ip \in [Threads -> Nat \ {0}] /\ phase \in {0, 1}
      /\ UNCHANGED <<nbar, phase>>
  BY DEF BarrierLoad, BarrierWait, BarrierReturn, At, counters, BarrierInv, BarrierTyped
<1>2. /\ ip[t] \in 1 .. Len(Program) /\ Program[ip[t]] \in {"barrier", "single"}
      /\ Fits(loc[t], ip[t])
  BY <1>1 DEF BarrierInv, Placed, Fits, BarrierPC
<1>3. CASE BarrierLoad(t)
  <2> DEFINE m == [loc[t] EXCEPT !.pc = "bDec", !.phase = phase]
  <2>1. m \in Locals /\ m.pc = "bDec" /\ m.phase = phase
    BY <1>1 DEF Locals, PC
  <2>2. loc' = [loc EXCEPT ![t] = m] /\ ip' = [ip EXCEPT ![t] = ip[t]]
    BY <1>1, <1>3 DEF BarrierLoad, Locals
  <2> HIDE DEF m
  <2>3. loc[t].pc = "bLoad"
    BY <1>3 DEF BarrierLoad, At
  <2>4. Fits(m, ip[t]) /\ ~HereL(m) /\ ~GoneL(m) /\ ~HereL(loc[t]) /\ ~GoneL(loc[t])
    BY <1>2, <2>1, <2>3 DEF Fits, BarrierPC, HereL, GoneL
  <2>5. CompletedL(m, ip[t]) = Completed(t)
    BY <2>4 DEF CompletedL, Completed
  <2> QED BY <1>1, <2>1, <2>2, <2>3, <2>4, <2>5, StepElsewhere DEF Kept
<1>4. CASE BarrierWait(t)
  <2>1. loc[t].pc = "bWait" /\ loc[t].time = Forever /\ Time(t) # 0
    BY <1>2, <1>4 DEF BarrierWait, At, Fits, Time, Forever
  <2>2. CASE phase = loc[t].phase
    <3>1. Wait(t, "bWait", Forever)
      BY <1>4, <2>1, <2>2 DEF BarrierWait, Poll, Time
    <3>2. UNCHANGED <<loc, ip>>
      BY <1>1, <2>1, <3>1 DEF Wait, Locals
    <3> QED BY <1>1, <3>2, BarrierStill
  <2>3. CASE phase # loc[t].phase
    <3>1. Go(t, "bReturn")
      BY <1>4, <2>3 DEF BarrierWait
    <3>2. Fits([loc[t] EXCEPT !.pc = "bReturn"], ip[t])
      BY <1>1, <1>2, <2>3 DEF Fits, Locals, BarrierPC
    <3>3. GoneL(loc[t]) /\ ~HereL(loc[t])
      BY <2>1, <2>3 DEF GoneL, HereL
    <3> QED BY <1>1, <2>1, <3>1, <3>2, <3>3, GoElsewhere DEF PC, Kept
  <2> QED BY <2>2, <2>3
<1>5. CASE BarrierReturn(t)
  <2>1. loc[t].pc = "bReturn" /\ GoneL(loc[t]) /\ ~HereL(loc[t])
    BY <1>2, <1>5 DEF BarrierReturn, At, Fits, GoneL, HereL
  <2> QED BY <1>1, <1>2, <1>5, <2>1, AdvanceElsewhere DEF BarrierReturn, Kept
<1> QED BY <1>3, <1>4, <1>5

\* Nobody counts itself in between the completion of the count and the new phase.
LEMMA Open ==
  ASSUME BarrierInv, NEW t \in Threads, ~HereL(loc[t])
  PROVE  (\A u \in Threads : ~Last(u)) /\ nbar[phase] > 0
         /\ nbar[phase] = NThreads - Cardinality(Here) /\ t \notin Here
<1>1. t \notin Here
  BY DEF Here
<1>2. \A u \in Threads : ~Last(u)
  BY <1>1 DEF BarrierInv, Counts
<1>3. \A u \in Threads : ~At(u, "bFlip")
  BY <1>2 DEF Last, At
<1>4. nbar[phase] = NThreads - Cardinality(Here)
  BY <1>3 DEF BarrierInv, Counts, Waiting
<1>5. Cardinality(Here) \in 0 .. NThreads /\ Cardinality(Here) # NThreads
  BY <1>1, HereCount
<1>6. nbar[phase] > 0
  BY <1>4, <1>5, ThreadCount
<1> QED BY <1>1, <1>2, <1>4, <1>6

\* t counts itself in.
LEMMA DecPlaced ==
  ASSUME BarrierInv, Untimed, NEW t \in Threads, BarrierDec(t)
  PROVE  BarrierInv' /\ \A u \in Threads : Completed(u)' = Completed(u)
<1> DEFINE n == nbar[phase]
           p == IF n = 1 THEN "bReset" ELSE "bWait"
           m == [loc[t] EXCEPT !.pc = p, !.time = Forever]
<1>1. /\ loc[t] \in Locals /\ loc[t].pc = "bDec" /\ Fits(loc[t], ip[t])
      /\ loc \in [Threads -> Locals] /\ ip \in [Threads -> Nat \ {0}] /\ phase \in {0, 1}
      /\ nbar \in [{0, 1} -> Int]
  BY DEF BarrierDec, At, BarrierInv, BarrierTyped, Placed
<1>2. loc[t].phase = phase /\ ~HereL(loc[t]) /\ ~GoneL(loc[t])
  BY <1>1 DEF Fits, HereL, GoneL
<1>3. (\A u \in Threads : ~Last(u)) /\ n > 0 /\ n = NThreads - Cardinality(Here) /\ t \notin Here
  BY <1>2, Open
<1>4. n \in Int /\ ~(n < 0)
  BY <1>1, <1>3
<1>5. PICK tm \in BarrierTimeouts : Wait(t, p, tm)
  BY <1>2, <1>4 DEF BarrierDec
<1>6. tm = Forever /\ phase' = phase /\ nbar' = [nbar EXCEPT ![phase] = n - 1]
  BY <1>2 DEF Untimed, BarrierDec
<1>7. p \in {"bReset", "bWait"} /\ (p = "bReset" <=> n = 1)
  OBVIOUS
<1> HIDE DEF p
<1>8. m \in Locals /\ m.pc = p /\ m.phase = phase /\ m.time = Forever
  BY <1>1, <1>2, <1>7 DEF Locals, PC, Polls
<1>9. loc' = [loc EXCEPT ![t] = m] /\ ip' = ip
  BY <1>1, <1>5, <1>6 DEF Wait, Locals
<1> HIDE DEF m
<1>10. HereL(m) /\ ~GoneL(m) /\ Fits(m, ip[t])
  BY <1>1, <1>7, <1>8 DEF HereL, GoneL, Fits, BarrierPC
<1>11. loc'[t] = m /\ \A u \in Threads : u # t => loc'[u] = loc[u]
  BY <1>1, <1>9
<1>12. BarrierTyped'
  BY <1>1, <1>4, <1>6, <1>8, <1>9 DEF BarrierTyped
<1>13. Placed'
  BY <1>6, <1>9, <1>10, <1>11 DEF BarrierInv, Placed, Fits
<1>14. \A u \in Threads : Completed(u)' = Completed(u)
  BY <1>2, <1>6, <1>9, <1>10, <1>11 DEF Completed, CompletedL, GoneL
<1>15. Together'
  BY <1>14 DEF BarrierInv, Together
<1>16. Here' = Here \cup {t}
  BY <1>6, <1>10, <1>11 DEF Here, HereL
<1>17. Cardinality(Here') = Cardinality(Here) + 1
  BY <1>3, <1>16, HereCount, FS_AddElement
<1>18. \A u \in Threads : u # t => ~Last(u)'
  BY <1>3, <1>11 DEF Last
<1>19. Last(t)' <=> n = 1
  BY <1>7, <1>8, <1>11 DEF Last
<1>20. \A u \in Threads : ~At(u, "bFlip")'
  BY <1>7, <1>8, <1>11, <1>18 DEF At, Last
<1>21. Waiting' = Cardinality(Here')
  BY <1>20 DEF Waiting
<1>22. nbar'[phase'] = n - 1 /\ nbar'[1 - phase'] = nbar[1 - phase]
  BY <1>1, <1>6
<1>23. nbar'[phase'] = NThreads - Waiting'
  BY <1>3, <1>17, <1>21, <1>22, HereCount, ThreadCount
<1>24. n = 1 <=> Here' = Threads
  <2>1. Cardinality(Here) \in Nat /\ NThreads \in Nat
    BY HereCount, ThreadCount
  <2>2. n = 1 => Here' = Threads
    <3>1. IsFiniteSet(Threads) /\ Here' \subseteq Threads
      BY ThreadCount DEF Here
    <3>2. n = 1 => Cardinality(Here') = Cardinality(Threads)
      BY <1>3, <1>17, <2>1 DEF NThreads
    <3> QED BY <3>1, <3>2, FS_Subset
  <2>3. Here' = Threads => n = 1
    BY <1>3, <1>17, <2>1 DEF NThreads
  <2> QED BY <2>2, <2>3
<1>25. Counts'
  BY <1>18, <1>19, <1>22, <1>23, <1>24 DEF Counts, BarrierInv
<1> QED BY <1>12, <1>13, <1>14, <1>15, <1>25 DEF BarrierInv

\* The last thread restores the count of the barrier it has completed.
LEMMA ResetPlaced ==
  ASSUME BarrierInv, NEW t \in Threads, BarrierReset(t)
  PROVE  Kept
<1> DEFINE m == [loc[t] EXCEPT !.pc = "bFlip"]
<1>1. /\ loc[t] \in Locals /\ loc[t].pc = "bReset" /\ Fits(loc[t], ip[t])
      /\ loc \in [Threads -> Locals] /\ ip \in [Threads -> Nat \ {0}] /\ phase \in {0, 1}
      /\ nbar \in [{0, 1} -> Int]
  BY DEF BarrierReset, At, BarrierInv, BarrierTyped, Placed
<1>2. loc[t].phase = phase
  BY <1>1 DEF Fits
<1>3. /\ phase' = phase /\ nbar' = [nbar EXCEPT ![phase] = NThreads]
      /\ loc' = [loc EXCEPT ![t] = m] /\ ip' = ip
  BY <1>1, <1>2 DEF BarrierReset, Go, Locals
<1>4. m \in Locals /\ m.pc = "bFlip" /\ m.phase = phase
  BY <1>1, <1>2 DEF Locals, PC
<1> HIDE DEF m
<1>5. HereL(m) /\ ~GoneL(m) /\ HereL(loc[t]) /\ ~GoneL(loc[t]) /\ Fits(m, ip[t]) /\ Last(t)
  BY <1>1, <1>2, <1>4 DEF HereL, GoneL, Fits, BarrierPC, Last
<1>6. loc'[t] = m /\ \A u \in Threads : u # t => loc'[u] = loc[u]
  BY <1>1, <1>3
<1>7. BarrierTyped'
  BY <1>1, <1>3, <1>4, ThreadCount DEF BarrierTyped
<1>8. Placed'
  BY <1>3, <1>5, <1>6 DEF BarrierInv, Placed, Fits
<1>9. \A u \in Threads : Completed(u)' = Completed(u)
  BY <1>3, <1>5, <1>6 DEF Completed, CompletedL, GoneL
<1>10. Together'
  BY <1>9 DEF BarrierInv, Together
<1>11. Here' = Here
  BY <1>3, <1>5, <1>6 DEF Here, HereL
<1>12. Last(t)' /\ At(t, "bFlip")' /\ \A u \in Threads : Last(u)' <=> Last(u)
  BY <1>4, <1>5, <1>6 DEF Last, At
<1>13. nbar'[phase'] = NThreads /\ nbar'[1 - phase'] = NThreads /\ Waiting' = 0
  BY <1>1, <1>3, <1>12 DEF BarrierInv, Counts, Waiting
<1>14. Counts'
  BY <1>5, <1>11, <1>12, <1>13, ThreadCount DEF BarrierInv, Counts
<1> QED BY <1>7, <1>8, <1>9, <1>10, <1>11, <1>14 DEF BarrierInv, Kept

\* The barrier opens: every thread is at it, and at the same statement.
LEMMA FlipPlaced ==
  ASSUME BarrierInv, NEW t \in Threads, BarrierFlip(t)
  PROVE  /\ BarrierInv' /\ Here = Threads /\ Here' = {}
         /\ \A u \in Threads : ip[u] = ip[t] /\ Completed(u)' = Completed(u) \cup {ip[t]}
<1> DEFINE m == [loc[t] EXCEPT !.pc = "bReturn"]
<1>1. /\ loc[t] \in Locals /\ loc[t].pc = "bFlip" /\ Fits(loc[t], ip[t])
      /\ loc \in [Threads -> Locals] /\ ip \in [Threads -> Nat \ {0}] /\ phase \in {0, 1}
      /\ nbar \in [{0, 1} -> Int]
  BY DEF BarrierFlip, At, BarrierInv, BarrierTyped, Placed
<1>2. loc[t].phase = phase
  BY <1>1 DEF Fits
<1>3. /\ phase' = 1 - phase /\ nbar' = nbar /\ loc' = [loc EXCEPT ![t] = m] /\ ip' = ip
  BY <1>1, <1>2 DEF BarrierFlip, Go, Locals
<1>4. m \in Locals /\ m.pc = "bReturn" /\ m.phase = phase /\ phase' # phase /\ phase' \in {0, 1}
  BY <1>1, <1>2, <1>3 DEF Locals, PC
<1> HIDE DEF m
<1>5. loc'[t] = m /\ \A u \in Threads : u # t => loc'[u] = loc[u]
  BY <1>1, <1>3
<1>6. Last(t) /\ At(t, "bFlip") /\ Here = Threads /\ \A u \in Threads : u # t => ~Last(u)
  BY <1>1 DEF Last, At, BarrierInv, Counts
<1>7. \A u \in Threads : u # t => loc[u].pc = "bWait" /\ loc[u].phase = phase
  BY <1>6 DEF Here, HereL, Last
<1>8. \A u \in Threads : /\ loc'[u].pc \in {"bWait", "bReturn"} /\ loc'[u].phase # phase'
                         /\ loc'[u].pc = "bWait" => u # t
  BY <1>4, <1>5, <1>7
<1>9. \A u \in Threads : GoneL(loc[u])' /\ ~HereL(loc[u])' /\ ~GoneL(loc[u])
  BY <1>1, <1>2, <1>7, <1>8 DEF GoneL, HereL
<1>10. \A u \in Threads : ip[u] \in 1 .. Len(Program) /\ Program[ip[u]] \in {"barrier", "single"}
  BY <1>1, <1>7 DEF BarrierInv, Placed, Fits, BarrierPC
<1>11. \A u \in Threads : ip[u] = ip[t]
  <2> TAKE u \in Threads
  <2>1. Barriers(ip[u]) = Barriers(ip[t])
    <3>1. ~GoneL(loc[u]) /\ ~GoneL(loc[t])
      BY <1>9
    <3>2. CompletedL(loc[u], ip[u]) = CompletedL(loc[t], ip[t])
      BY DEF BarrierInv, Together, Completed
    <3> QED BY <3>1, <3>2 DEF CompletedL
  <2> QED BY <1>10, <2>1, SameSpot
<1>12. \A u \in Threads : Completed(u)' = Completed(u) \cup {ip[t]}
  BY <1>3, <1>9, <1>11 DEF Completed, CompletedL
<1>13. Together'
  BY <1>12 DEF BarrierInv, Together
<1>14. BarrierTyped'
  BY <1>1, <1>3, <1>4 DEF BarrierTyped
<1>15. Placed'
  <2> SUFFICES ASSUME NEW u \in Threads PROVE Fits(loc[u], ip[u])'
    BY DEF Placed
  <2>1. loc'[u].pc = "bWait" => loc'[u].time = Forever
    BY <1>5, <1>8 DEF BarrierInv, Placed, Fits
  <2>2. ip'[u] = ip[u] /\ ip'[u] \in 1 .. Len(Program) /\ ip'[u] \in Nat \ {0}
    BY <1>1, <1>3, <1>10
  <2> QED BY <1>8, <1>10, <2>1, <2>2 DEF Fits, BarrierPC
<1>16. Here' = {}
  BY <1>9 DEF Here
<1>17. \A u \in Threads : ~Last(u)' /\ ~At(u, "bFlip")'
  BY <1>8 DEF Last, At
<1>18. Waiting = 0 /\ Waiting' = 0
  BY <1>6, <1>16, <1>17, FS_EmptySet DEF Waiting
<1>19. nbar'[phase'] = NThreads /\ nbar'[1 - phase'] = NThreads
  BY <1>1, <1>3, <1>18, ThreadCount DEF BarrierInv, Counts
<1>20. Counts'
  BY <1>16, <1>17, <1>18, <1>19, ThreadCount DEF Counts
<1> QED BY <1>6, <1>11, <1>12, <1>13, <1>14, <1>15, <1>16, <1>20 DEF BarrierInv

\* Every step keeps the places of the threads and the counts in agreement.
LEMMA BarrierInductive ==
  ASSUME Untimed
  PROVE  BarrierInv /\ [Next]_vars => BarrierInv'
<1> SUFFICES ASSUME BarrierInv, [Next]_vars PROVE BarrierInv'
  OBVIOUS
<1>1. CASE Next
  <2> PICK t \in Threads : Step(t)
    BY <1>1 DEF Next
  <2>1. Kept => BarrierInv'
    BY DEF Kept
  <2> QED BY <2>1, BeginPlaced, MasterPlaced, SinglePlaced, CriticalPlaced, BarrierPlaced,
             DecPlaced, ResetPlaced, FlipPlaced DEF Step
<1>2. CASE UNCHANGED vars
  BY <1>2, BarrierStill DEF vars, counters, Kept
<1> QED BY <1>1, <1>2

\* The invariant of the barrier holds of the specification.
LEMMA BarrierInvHolds == ASSUME Untimed PROVE Spec => []BarrierInv
BY InitBarrier, BarrierInductive, PTL DEF Spec

\* collectives.cc:92-125, reference.html:492: a thread past a barrier knows that
\* every thread has counted itself in at it, with any number of threads and any
\* program, while no wait is given a timeout.
THEOREM BarriersSeparate ==
  ASSUME Untimed
  PROVE  Spec => []BarrierSeparates
<1>1. BarrierInv => BarrierSeparates
  <2> SUFFICES ASSUME BarrierInv, NEW t \in Threads, NEW u \in Threads
               PROVE  Barriers(ip[t]) \subseteq Arrived(u)
    BY DEF BarrierSeparates
  <2>1. Completed(t) = Completed(u)
    BY DEF BarrierInv, Together
  <2> QED BY <2>1 DEF Completed, CompletedL, GoneL, Arrived
<1> QED BY BarrierInvHolds, <1>1, PTL

\* collectives.cc:96-101: the count a thread decrements is positive, so "Race
\* condition at barrier" is never reported.
THEOREM BarrierCounts ==
  ASSUME Untimed
  PROVE  Spec => []NoBarrierRace
<1>1. BarrierInv => NoBarrierRace
  <2> SUFFICES ASSUME BarrierInv, NEW t \in Threads, At(t, "bDec")
               PROVE  nbar[loc[t].phase] > 0
    BY DEF NoBarrierRace
  <2>1. loc[t].phase = phase /\ ~HereL(loc[t])
    BY DEF At, BarrierInv, Placed, Fits, HereL
  <2> QED BY <2>1, Open
<1> QED BY BarrierInvHolds, <1>1, PTL

-------------------------------------------------------------------------------
(* single *)

\* Counted by EMSsingleTask and not yet past the barrier that follows.
CountedL(l, i) ==
  /\ l.pc \in {"sReset", "sFunc", "bLoad", "bDec", "bReset", "bFlip", "bWait"}
  /\ ~GoneL(l) /\ Program[i] = "single"

Tasked == {t \in Threads : CountedL(loc[t], ip[t])}

\* EMSsingleTask returned true to t, which has not yet called the function.
Chosen(t) == loc[t].pc \in {"sReset", "sFunc"} /\ loc[t].first

SingleCount ==
  single = IF Tasked = Threads /\ ~(\E t \in Threads : At(t, "sReset")) THEN 0
                                                                       ELSE Cardinality(Tasked)

OneResets == \A t \in Threads : At(t, "sReset") =>
               Tasked = Threads /\ \A u \in Threads : At(u, "sReset") => u = t

OneChosen == \A t, u \in Threads : Chosen(t) /\ Chosen(u) => t = u

\* The function of statement k has been called.
Done(k) == \/ k \in Completed(Master)
           \/ (\E u \in Tasked : ip[u] = k) /\ ~(\E u \in Threads : Chosen(u))

RunsTrue ==
  /\ ran \in [1 .. Len(Program) -> Nat]
  /\ \A k \in 1 .. Len(Program) : Program[k] = "single" => ran[k] = IF Done(k) THEN 1 ELSE 0

SingleInv == SingleCount /\ OneResets /\ OneChosen /\ RunsTrue

OthersStay(t) == \A u \in Threads : u # t => loc'[u] = loc[u] /\ ip'[u] = ip[u]

Moves(t, p) ==
  /\ OthersStay(t) /\ ip' = ip
  /\ loc'[t].pc = p /\ loc'[t].phase = loc[t].phase /\ loc'[t].first = loc[t].first

\* What Go, Wait and Advance do to the thread and to the others.
LEMMA GoMoves ==
  ASSUME BarrierTyped, NEW t \in Threads, NEW p, Go(t, p)
  PROVE  Moves(t, p)
BY DEF BarrierTyped, Locals, Go, OthersStay, Moves

\* Setting the polls does nothing else to the locals.
LEMMA WaitMoves ==
  ASSUME BarrierTyped, NEW t \in Threads, NEW p, NEW tm, Wait(t, p, tm)
  PROVE  Moves(t, p)
BY DEF BarrierTyped, Locals, Wait, OthersStay, Moves

\* Leaving a statement leaves the locals of the others alone.
LEMMA AdvanceMoves ==
  ASSUME BarrierTyped, NEW t \in Threads, Advance(t)
  PROVE  OthersStay(t) /\ loc'[t].pc = "next"
BY QuietLocals DEF BarrierTyped, Advance, OthersStay

\* The threads counted for one single are all at the same statement.
LEMMA TaskedTogether ==
  ASSUME BarrierInv, NEW t \in Threads, NEW u \in Threads,
         CountedL(loc[t], ip[t]) \/ loc[t].pc = "sInc",
         CountedL(loc[u], ip[u]) \/ loc[u].pc = "sInc"
  PROVE  ip[t] = ip[u] /\ ip[t] \in 1 .. Len(Program) /\ Program[ip[t]] = "single"
<1>1. ASSUME NEW v \in Threads, CountedL(loc[v], ip[v]) \/ loc[v].pc = "sInc"
      PROVE  /\ ip[v] \in 1 .. Len(Program) /\ Program[ip[v]] = "single"
             /\ Completed(v) = Barriers(ip[v])
  <2>1. ip[v] \in 1 .. Len(Program) /\ Program[ip[v]] = "single" /\ ~GoneL(loc[v])
    BY <1>1 DEF CountedL, BarrierInv, Placed, Fits, GoneL
  <2> QED BY <2>1 DEF Completed, CompletedL
<1>2. Completed(t) = Completed(u)
  BY DEF BarrierInv, Together
<1> QED BY <1>1, <1>2, SameSpot

\* The counted threads are at most all of them.
LEMMA TaskedCount ==
  /\ IsFiniteSet(Tasked) /\ Cardinality(Tasked) \in 0 .. NThreads
  /\ Cardinality(Tasked) = NThreads <=> Tasked = Threads
  /\ Cardinality(Tasked) = 0 <=> Tasked = {}
<1>1. Tasked \subseteq Threads
  BY DEF Tasked
<1> QED BY <1>1, ThreadCount, FS_Subset, FS_CardinalityType, FS_EmptySet DEF NThreads

\* A step that neither counts a thread nor chooses one.
LEMMA StepUncounted ==
  ASSUME SingleInv, NEW t \in Threads, OthersStay(t), UNCHANGED <<single, phase>>,
         \A u \in Threads : Completed(u)' = Completed(u),
         CountedL(loc[t], ip[t])' <=> CountedL(loc[t], ip[t]),
         CountedL(loc[t], ip[t]) => ip'[t] = ip[t],
         loc[t].pc \notin {"sReset", "sFunc"}, loc'[t].pc \notin {"sReset", "sFunc"},
         ran' \in [1 .. Len(Program) -> Nat],
         \A k \in 1 .. Len(Program) : Program[k] = "single" => ran'[k] = ran[k]
  PROVE  SingleInv'
<1>1. \A u \in Threads : CountedL(loc[u], ip[u])' <=> CountedL(loc[u], ip[u])
  BY DEF OthersStay, CountedL, GoneL
<1>2. Tasked' = Tasked /\ \A u \in Tasked : ip'[u] = ip[u]
  BY <1>1 DEF Tasked, OthersStay
<1>3. \A u \in Threads : /\ At(u, "sReset")' <=> At(u, "sReset")
                         /\ Chosen(u)' <=> Chosen(u)
  BY DEF OthersStay, At, Chosen
<1>4. Completed(Master)' = Completed(Master)
  BY ThreadCount
<1>5. \A k : Done(k)' <=> Done(k)
  BY <1>2, <1>3, <1>4 DEF Done
<1>6. SingleCount' /\ OneResets' /\ OneChosen'
  BY <1>2, <1>3 DEF SingleInv, SingleCount, OneResets, OneChosen
<1>7. RunsTrue'
  BY <1>5 DEF SingleInv, RunsTrue
<1> QED BY <1>6, <1>7 DEF SingleInv

\* Initially no thread has been counted and no function has run.
LEMMA InitSingle == Init => SingleInv
<1> SUFFICES ASSUME Init PROVE SingleInv
  OBVIOUS
<1>1. \A t \in Threads : loc[t] = Quiet /\ ip[t] = 1 /\ loc[t].pc = "next"
  BY QuietLocals DEF Init
<1>2. Tasked = {} /\ Tasked # Threads
  BY <1>1, ThreadCount DEF Tasked, CountedL
<1>3. \A t \in Threads : ~At(t, "sReset") /\ ~Chosen(t)
  BY <1>1 DEF At, Chosen
<1>4. Completed(Master) = {}
  BY <1>1, ThreadCount, ProgramType DEF Completed, CompletedL, GoneL, Barriers
<1>5. SingleCount
  BY <1>2, FS_EmptySet DEF SingleCount, Init
<1>6. RunsTrue
  BY <1>2, <1>4 DEF RunsTrue, Done, Init
<1> QED BY <1>3, <1>5, <1>6 DEF SingleInv, OneResets, OneChosen

\* Reaching a statement counts no thread.
LEMMA BeginCounts ==
  ASSUME BarrierInv, SingleInv, NEW t \in Threads, Begin(t)
  PROVE  SingleInv'
<1>1. /\ BarrierTyped /\ loc[t].pc = "next" /\ UNCHANGED <<single, phase, ran>>
      /\ ran \in [1 .. Len(Program) -> Nat]
  BY DEF Begin, At, counters, BarrierInv, SingleInv, RunsTrue
<1>2. \A u \in Threads : Completed(u)' = Completed(u)
  BY BeginPlaced DEF Kept
<1>3. /\ OthersStay(t)
      /\ \/ loc'[t].pc = "bLoad" /\ ip' = ip /\ Program[ip[t]] = "barrier"
         \/ loc'[t].pc \in {"sInc", "cTry", "mFunc", "next"}
  BY <1>1, GoMoves, WaitMoves, AdvanceMoves DEF Begin, Moves
<1>4. ~CountedL(loc[t], ip[t]) /\ ~CountedL(loc[t], ip[t])'
  BY <1>1, <1>3 DEF CountedL
<1> QED BY <1>1, <1>2, <1>3, <1>4, StepUncounted

\* Running a function that was not given to single counts no run of one that was.
LEMMA OtherRuns ==
  ASSUME SingleInv, NEW t \in Threads, Runs(t), Program[ip[t]] # "single"
  PROVE  /\ ran' \in [1 .. Len(Program) -> Nat]
         /\ \A k \in 1 .. Len(Program) : Program[k] = "single" => ran'[k] = ran[k]
<1>1. ran \in [1 .. Len(Program) -> Nat]
  BY DEF SingleInv, RunsTrue
<1>2. \A k \in 1 .. Len(Program) : ran'[k] = IF k = ip[t] THEN ran[k] + 1 ELSE ran[k]
  BY <1>1 DEF Runs
<1>3. ran' \in [1 .. Len(Program) -> Nat]
  <2>1. ran' = [k \in 1 .. Len(Program) |-> ran'[k]]
    BY <1>1 DEF Runs
  <2>2. \A k \in 1 .. Len(Program) : ran'[k] \in Nat
    BY <1>1, <1>2
  <2> QED BY <2>1, <2>2
<1>4. \A k \in 1 .. Len(Program) : Program[k] = "single" => ran'[k] = ran[k]
  BY <1>2
<1> QED BY <1>3, <1>4

\* The function given to master is none of those given to single.
LEMMA MasterCounts ==
  ASSUME BarrierInv, SingleInv, NEW t \in Threads, MasterFunc(t)
  PROVE  SingleInv'
<1>1. /\ BarrierTyped /\ loc[t].pc = "mFunc" /\ UNCHANGED <<single, phase>>
      /\ Runs(t) /\ Advance(t)
  BY DEF MasterFunc, At, counters, BarrierInv
<1>2. Program[ip[t]] = "master"
  BY <1>1 DEF BarrierInv, Placed, Fits
<1>3. \A u \in Threads : Completed(u)' = Completed(u)
  BY MasterPlaced DEF Kept
<1>4. OthersStay(t) /\ loc'[t].pc = "next"
  BY <1>1, AdvanceMoves
<1>5. ~CountedL(loc[t], ip[t]) /\ ~CountedL(loc[t], ip[t])'
  BY <1>1, <1>4 DEF CountedL
<1> QED BY <1>1, <1>2, <1>3, <1>4, <1>5, OtherRuns, StepUncounted

\* The function given to critical is none of those given to single.
LEMMA CriticalCounts ==
  ASSUME BarrierInv, SingleInv, NEW t \in Threads,
         CriticalTry(t) \/ CriticalFunc(t) \/ CriticalCheck(t) \/ CriticalStore(t)
  PROVE  SingleInv'
<1>1. /\ BarrierTyped /\ loc[t].pc \in {"cTry", "cFunc", "cCheck", "cStore"}
      /\ UNCHANGED <<single, phase>> /\ (ran' = ran \/ Runs(t))
  BY DEF CriticalTry, CriticalFunc, CriticalCheck, CriticalStore, At, counters, BarrierInv
<1>2. Program[ip[t]] = "critical"
  BY <1>1 DEF BarrierInv, Placed, Fits
<1>3. \A u \in Threads : Completed(u)' = Completed(u)
  BY CriticalPlaced DEF Kept
<1>4. OthersStay(t) /\ loc'[t].pc \in {"next", "cTry", "cFunc", "cCheck", "cStore"}
  <2>1. \/ \E p \in {"cFunc", "cCheck", "cStore"} : Go(t, p)
        \/ Advance(t)
        \/ Wait(t, "cTry", Poll(Time(t)))
    BY DEF CriticalTry, EnterOrThrow, CriticalFunc, CriticalCheck, CriticalStore
  <2> QED BY <1>1, <2>1, GoMoves, WaitMoves, AdvanceMoves DEF Moves
<1>5. ~CountedL(loc[t], ip[t]) /\ ~CountedL(loc[t], ip[t])'
  BY <1>1, <1>4 DEF CountedL
<1>6. /\ ran' \in [1 .. Len(Program) -> Nat]
      /\ \A k \in 1 .. Len(Program) : Program[k] = "single" => ran'[k] = ran[k]
  BY <1>1, <1>2, OtherRuns DEF SingleInv, RunsTrue
<1> QED BY <1>1, <1>3, <1>4, <1>5, <1>6, StepUncounted

\* Up to its opening, a barrier neither adds to the counted threads nor takes from them.
LEMMA BarrierCountsKept ==
  ASSUME BarrierInv, SingleInv, Untimed, NEW t \in Threads,
         \/ BarrierLoad(t) \/ BarrierDec(t) \/ BarrierReset(t)
         \/ BarrierWait(t) \/ BarrierReturn(t)
  PROVE  SingleInv'
<1>1. /\ BarrierTyped /\ loc[t].pc \in {"bLoad", "bDec", "bReset", "bWait", "bReturn"}
      /\ UNCHANGED <<single, phase, ran>> /\ ran \in [1 .. Len(Program) -> Nat]
      /\ Fits(loc[t], ip[t])
  BY DEF BarrierLoad, BarrierDec, BarrierReset, BarrierWait, BarrierReturn, At, counters,
         BarrierInv, SingleInv, RunsTrue, Placed
<1>2. \A u \in Threads : Completed(u)' = Completed(u)
  BY BarrierPlaced, DecPlaced, ResetPlaced DEF Kept
<1>3. CASE loc[t].pc = "bReturn"
  <2>1. OthersStay(t) /\ loc'[t].pc = "next"
    BY <1>1, <1>3, AdvanceMoves DEF BarrierLoad, BarrierDec, BarrierReset, BarrierWait,
                                    BarrierReturn, At
  <2>2. ~CountedL(loc[t], ip[t]) /\ ~CountedL(loc[t], ip[t])'
    BY <1>3, <2>1 DEF CountedL
  <2> QED BY <1>1, <1>2, <1>3, <2>1, <2>2, StepUncounted
<1>4. CASE loc[t].pc = "bWait" /\ loc[t].phase # phase
  <2>1. Go(t, "bReturn")
    BY <1>4 DEF BarrierLoad, BarrierDec, BarrierReset, BarrierWait, BarrierReturn, At
  <2>2. OthersStay(t) /\ loc'[t].pc = "bReturn"
    BY <1>1, <2>1, GoMoves DEF Moves
  <2>3. ~CountedL(loc[t], ip[t]) /\ ~CountedL(loc[t], ip[t])'
    BY <1>4, <2>2 DEF CountedL, GoneL
  <2> QED BY <1>1, <1>2, <1>4, <2>2, <2>3, StepUncounted
<1>5. CASE loc[t].pc # "bReturn" /\ ~(loc[t].pc = "bWait" /\ loc[t].phase # phase)
  <2>1. /\ OthersStay(t) /\ ip' = ip
        /\ loc'[t].pc \in {"bDec", "bReset", "bFlip", "bWait"} /\ loc'[t].phase = phase
    <3>1. CASE BarrierLoad(t)
      BY <1>1, <3>1 DEF BarrierLoad, BarrierTyped, Locals, OthersStay
    <3>2. CASE BarrierDec(t)
      <4>1. loc[t].phase = phase /\ ~HereL(loc[t])
        BY <1>1, <3>2 DEF BarrierDec, At, Fits, HereL
      <4>2. ~(nbar[loc[t].phase] < 0)
        BY <1>1, <4>1, Open DEF BarrierTyped
      <4>3. \E tm \in BarrierTimeouts, p \in {"bReset", "bWait"} : Wait(t, p, tm)
        BY <3>2, <4>2 DEF BarrierDec
      <4> QED BY <1>1, <4>1, <4>3, WaitMoves DEF Moves
    <3>3. CASE BarrierReset(t)
      <4>1. loc[t].phase = phase /\ Go(t, "bFlip")
        BY <1>1, <3>3 DEF BarrierReset, At, Fits
      <4> QED BY <1>1, <4>1, GoMoves DEF Moves
    <3>4. CASE BarrierWait(t)
      <4>1. loc[t].phase = phase /\ Time(t) # 0
        BY <1>1, <1>5, <3>4 DEF BarrierWait, At, Fits, Time, Forever
      <4>2. Wait(t, "bWait", Poll(Time(t)))
        BY <3>4, <4>1 DEF BarrierWait
      <4> QED BY <1>1, <4>1, <4>2, WaitMoves DEF Moves
    <3>5. CASE BarrierReturn(t)
      BY <1>5, <3>5 DEF BarrierReturn, At
    <3> QED BY <3>1, <3>2, <3>3, <3>4, <3>5
  <2>2. CountedL(loc[t], ip[t])' <=> CountedL(loc[t], ip[t])
    BY <1>1, <1>5, <2>1 DEF CountedL, GoneL
  <2> QED BY <1>1, <1>2, <2>1, <2>2, StepUncounted
<1> QED BY <1>3, <1>4, <1>5

\* When the barrier opens, the counted threads have the region behind them.
LEMMA FlipCounts ==
  ASSUME BarrierInv, SingleInv, NEW t \in Threads, BarrierFlip(t)
  PROVE  SingleInv'
<1>1. /\ BarrierTyped /\ loc[t].pc = "bFlip" /\ UNCHANGED <<single, ran>> /\ Go(t, "bReturn")
      /\ Fits(loc[t], ip[t]) /\ phase' = 1 - loc[t].phase
  BY DEF BarrierFlip, At, BarrierInv, Placed
<1>2. loc[t].phase = phase /\ phase \in {0, 1}
  BY <1>1 DEF Fits, BarrierTyped
<1>3. Here = Threads /\ \A u \in Threads : /\ ip[u] = ip[t]
                                          /\ Completed(u)' = Completed(u) \cup {ip[t]}
  BY FlipPlaced
<1>4. \A u \in Threads : loc[u].pc \in {"bReset", "bFlip", "bWait"} /\ loc[u].phase = phase
  BY <1>3 DEF Here, HereL
<1>5. Moves(t, "bReturn")
  BY <1>1, GoMoves
<1>6. \A u \in Threads : /\ loc'[u].pc \in {"bReset", "bFlip", "bWait", "bReturn"}
                         /\ loc'[u].phase = phase
  BY <1>4, <1>5 DEF Moves, OthersStay
<1>7. \A u \in Threads : loc'[u].pc \in {"bReset", "bFlip"} => loc'[u].phase = phase'
  <2>1. BarrierInv'
    BY FlipPlaced
  <2> QED BY <2>1 DEF BarrierInv, Placed, Fits
<1>8. phase' # phase
  BY <1>1, <1>2
<1>9. \A u \in Threads : ~CountedL(loc[u], ip[u])'
  <2> SUFFICES ASSUME NEW u \in Threads PROVE ~CountedL(loc[u], ip[u])'
    OBVIOUS
  <2>1. loc'[u].pc \in {"bWait", "bReturn"} /\ loc'[u].phase # phase'
    BY <1>6, <1>7, <1>8
  <2> QED BY <2>1 DEF CountedL, GoneL
<1>10. Tasked' = {} /\ Tasked' # Threads
  BY <1>9, ThreadCount DEF Tasked
<1>11. \A u \in Threads : /\ ~At(u, "sReset") /\ ~At(u, "sReset")'
                          /\ ~Chosen(u) /\ ~Chosen(u)'
  BY <1>4, <1>6 DEF At, Chosen
<1>12. \A u \in Threads : CountedL(loc[u], ip[u]) <=> Program[ip[t]] = "single"
  BY <1>3, <1>4 DEF CountedL, GoneL
<1>13. Tasked = IF Program[ip[t]] = "single" THEN Threads ELSE {}
  BY <1>12 DEF Tasked
<1>14. SingleCount'
  <2>1. single = 0
    BY <1>11, <1>13, FS_EmptySet DEF SingleInv, SingleCount
  <2> QED BY <1>1, <1>10, <2>1, FS_EmptySet DEF SingleCount
<1>15. OneResets' /\ OneChosen'
  BY <1>11 DEF OneResets, OneChosen
<1>16. ASSUME NEW k \in 1 .. Len(Program), Program[k] = "single"
       PROVE  Done(k)' <=> Done(k)
  <2>1. Done(k)' <=> k \in Completed(Master) \/ k = ip[t]
    BY <1>3, <1>10, ThreadCount DEF Done
  <2>2. Done(k) <=> k \in Completed(Master) \/ \E u \in Tasked : ip[u] = k
    BY <1>11 DEF Done
  <2>3. (\E u \in Tasked : ip[u] = k) <=> k = ip[t]
    BY <1>3, <1>13, <1>16, ThreadCount
  <2> QED BY <2>1, <2>2, <2>3
<1>17. RunsTrue'
  BY <1>1, <1>16 DEF SingleInv, RunsTrue
<1> QED BY <1>14, <1>15, <1>17 DEF SingleInv

\* EMSsingleTask counts t: the first to be counted is chosen, the last restores the
\* counter.
LEMMA SingleIncCounts ==
  ASSUME BarrierInv, SingleInv, NEW t \in Threads, SingleInc(t)
  PROVE  SingleInv'
<1> DEFINE p == IF single = NThreads - 1 THEN "sReset" ELSE "sFunc"
           m == [loc[t] EXCEPT !.first = (single = 0), !.pc = p]
<1>1. /\ BarrierTyped /\ loc \in [Threads -> Locals] /\ loc[t] \in Locals
      /\ loc[t].pc = "sInc" /\ UNCHANGED <<phase, ip, ran>> /\ single' = single + 1
  BY DEF SingleInc, At, BarrierInv, BarrierTyped
<1>2. p \in {"sReset", "sFunc"} /\ (p = "sReset" <=> single = NThreads - 1) /\ (single = 0) \in BOOLEAN
  OBVIOUS
<1>3. loc' = [loc EXCEPT ![t] = m]
  BY <1>1 DEF SingleInc, Locals
<1> HIDE DEF p
<1>4. m \in Locals /\ m.pc = p /\ m.first = (single = 0)
  BY <1>1, <1>2 DEF Locals, PC
<1> HIDE DEF m
<1>5. loc'[t] = m /\ \A u \in Threads : u # t => loc'[u] = loc[u]
  BY <1>1, <1>3
<1>6. ip[t] \in 1 .. Len(Program) /\ Program[ip[t]] = "single"
  BY <1>1, TaskedTogether
<1>7. ~CountedL(loc[t], ip[t]) /\ CountedL(loc[t], ip[t])'
  BY <1>1, <1>2, <1>4, <1>5, <1>6 DEF CountedL, GoneL
<1>8. t \notin Tasked /\ Tasked' = Tasked \cup {t}
  BY <1>1, <1>5, <1>7 DEF Tasked, CountedL, GoneL
<1>9. Cardinality(Tasked') = Cardinality(Tasked) + 1
  BY <1>8, TaskedCount, FS_AddElement
<1>10. single = Cardinality(Tasked)
  BY <1>8 DEF SingleInv, SingleCount
<1>11. \A u \in Threads : ~At(u, "sReset")
  BY <1>8 DEF SingleInv, OneResets
<1>12. single = NThreads - 1 <=> Tasked' = Threads
  <2>1. Tasked' \subseteq Threads /\ IsFiniteSet(Threads) /\ Cardinality(Threads) = NThreads
    BY ThreadCount DEF Tasked, NThreads
  <2>2. Cardinality(Tasked') = NThreads <=> Tasked' = Threads
    BY <2>1, FS_Subset
  <2> QED BY <1>9, <1>10, <2>2, TaskedCount, ThreadCount
<1>13. \A u \in Threads : u # t => ~At(u, "sReset")'
  BY <1>5, <1>11 DEF At
<1>14. At(t, "sReset")' <=> Tasked' = Threads
  BY <1>2, <1>4, <1>5, <1>12 DEF At
<1>15. SingleCount'
  BY <1>1, <1>9, <1>10, <1>14 DEF SingleCount
<1>16. OneResets'
  BY <1>13, <1>14 DEF OneResets
<1>17. \A u \in Threads : u # t => (Chosen(u)' <=> Chosen(u))
  BY <1>5 DEF Chosen
<1>18. Chosen(t)' <=> Tasked = {}
  BY <1>2, <1>4, <1>5, <1>10, TaskedCount DEF Chosen
<1>19. \A u \in Threads : Chosen(u) => u \in Tasked
  <2> SUFFICES ASSUME NEW u \in Threads, Chosen(u) PROVE CountedL(loc[u], ip[u])
    BY DEF Tasked
  <2> QED BY DEF Chosen, CountedL, GoneL, BarrierInv, Placed, Fits
<1>20. ~Chosen(t)
  BY <1>8, <1>19
<1>21. OneChosen'
  BY <1>17, <1>18, <1>19 DEF SingleInv, OneChosen
<1>22. \A u \in Threads : Completed(u)' = Completed(u)
  BY SinglePlaced DEF Kept
<1>23. \A u \in Tasked : ip[u] = ip[t]
  BY <1>1, TaskedTogether DEF Tasked
<1>24. ASSUME NEW k \in 1 .. Len(Program), Program[k] = "single"
       PROVE  Done(k)' <=> Done(k)
  <2>1. Completed(Master)' = Completed(Master)
    BY <1>22, ThreadCount
  <2>2. CASE Tasked = {}
    BY <1>18, <2>1, <2>2 DEF Done
  <2>3. CASE Tasked # {}
    <3>1. (\E u \in Threads : Chosen(u)') <=> \E u \in Threads : Chosen(u)
      BY <1>17, <1>18, <1>20, <2>3
    <3>2. (\E u \in Tasked' : ip'[u] = k) <=> \E u \in Tasked : ip[u] = k
      BY <1>1, <1>8, <1>23, <2>3
    <3> QED BY <2>1, <3>1, <3>2 DEF Done
  <2> QED BY <2>2, <2>3
<1>25. RunsTrue'
  BY <1>1, <1>24 DEF SingleInv, RunsTrue
<1> QED BY <1>15, <1>16, <1>21, <1>25 DEF SingleInv

\* The last thread restores the counter when all have been counted.
LEMMA SingleResetCounts ==
  ASSUME BarrierInv, SingleInv, NEW t \in Threads, SingleReset(t)
  PROVE  SingleInv'
<1>1. /\ BarrierTyped /\ loc[t].pc = "sReset" /\ UNCHANGED <<phase, ip, ran>>
      /\ single' = 0 /\ Moves(t, "sFunc")
  <2>1. BarrierTyped /\ Go(t, "sFunc")
    BY DEF SingleReset, BarrierInv
  <2>2. Moves(t, "sFunc")
    BY <2>1, GoMoves
  <2> QED BY <2>1, <2>2 DEF SingleReset, At, Moves
<1>2. Tasked = Threads /\ \A u \in Threads : At(u, "sReset") => u = t
  BY <1>1 DEF SingleInv, OneResets, At
<1>3. \A u \in Threads : CountedL(loc[u], ip[u])' <=> CountedL(loc[u], ip[u])
  BY <1>1 DEF Moves, OthersStay, CountedL, GoneL
<1>4. Tasked' = Tasked
  BY <1>3 DEF Tasked
<1>5. \A u \in Threads : ~At(u, "sReset")' /\ (Chosen(u)' <=> Chosen(u))
  BY <1>1, <1>2 DEF Moves, OthersStay, At, Chosen
<1>6. SingleCount' /\ OneResets' /\ OneChosen'
  BY <1>1, <1>2, <1>4, <1>5 DEF SingleInv, SingleCount, OneResets, OneChosen
<1>7. \A u \in Threads : Completed(u)' = Completed(u)
  BY SinglePlaced DEF Kept
<1>8. \A k : Done(k)' <=> Done(k)
  BY <1>1, <1>4, <1>5, <1>7, ThreadCount DEF Done
<1>9. RunsTrue'
  BY <1>1, <1>8 DEF SingleInv, RunsTrue
<1> QED BY <1>6, <1>9 DEF SingleInv

\* The chosen thread calls the function, the others go on to the barrier.
LEMMA SingleFuncCounts ==
  ASSUME BarrierInv, SingleInv, NEW t \in Threads, SingleFunc(t)
  PROVE  SingleInv'
<1>1. /\ BarrierTyped /\ loc[t].pc = "sFunc" /\ UNCHANGED <<single, phase, ip>>
      /\ Moves(t, "bLoad") /\ ran \in [1 .. Len(Program) -> Nat]
      /\ IF loc[t].first THEN Runs(t) ELSE ran' = ran
  <2>1. BarrierTyped /\ Go(t, "bLoad")
    BY DEF SingleFunc, BarrierInv
  <2>2. Moves(t, "bLoad")
    BY <2>1, GoMoves
  <2> QED BY <2>1, <2>2 DEF SingleFunc, At, SingleInv, RunsTrue, counters, Moves
<1>2. ip[t] \in 1 .. Len(Program) /\ Program[ip[t]] = "single" /\ ~GoneL(loc[t])
  BY <1>1 DEF BarrierInv, Placed, Fits, GoneL
<1>3. \A u \in Threads : CountedL(loc[u], ip[u])' <=> CountedL(loc[u], ip[u])
  BY <1>1 DEF Moves, OthersStay, CountedL, GoneL
<1>4. Tasked' = Tasked /\ t \in Tasked
  BY <1>1, <1>2, <1>3 DEF Tasked, CountedL
<1>5. /\ \A u \in Threads : At(u, "sReset")' <=> At(u, "sReset")
      /\ \A u \in Threads : Chosen(u)' <=> u # t /\ Chosen(u)
  BY <1>1 DEF Moves, OthersStay, At, Chosen
<1>6. SingleCount' /\ OneResets' /\ OneChosen'
  BY <1>1, <1>4, <1>5 DEF SingleInv, SingleCount, OneResets, OneChosen
<1>7. \A u \in Threads : Completed(u)' = Completed(u)
  BY SinglePlaced DEF Kept
<1>8. \A u \in Tasked : ip[u] = ip[t]
  BY <1>4, TaskedTogether DEF Tasked
<1>9. CASE ~loc[t].first
  <2>1. ~Chosen(t) /\ ran' = ran
    BY <1>1, <1>9 DEF Chosen
  <2>2. \A k : Done(k)' <=> Done(k)
    BY <1>1, <1>4, <1>5, <1>7, <2>1, ThreadCount DEF Done
  <2>3. RunsTrue'
    BY <2>1, <2>2 DEF SingleInv, RunsTrue
  <2> QED BY <1>6, <2>3 DEF SingleInv
<1>10. CASE loc[t].first
  <2>1. Chosen(t) /\ Runs(t)
    BY <1>1, <1>10 DEF Chosen
  <2>2. \A u \in Threads : ~Chosen(u)'
    BY <1>5, <2>1 DEF SingleInv, OneChosen
  <2>3. Completed(Master) = Barriers(ip[t]) /\ Completed(Master)' = Barriers(ip[t])
    <3>1. Completed(t) = Barriers(ip[t])
      BY <1>2 DEF Completed, CompletedL
    <3>2. Completed(Master) = Completed(t)
      BY ThreadCount DEF BarrierInv, Together
    <3>3. Completed(Master)' = Completed(Master)
      BY <1>7, ThreadCount
    <3> QED BY <3>1, <3>2, <3>3
  <2>4. ip[t] \notin Completed(Master)
    BY <1>2, <2>3 DEF Barriers
  <2>5. \A k \in 1 .. Len(Program) : ran'[k] = IF k = ip[t] THEN ran[k] + 1 ELSE ran[k]
    BY <1>1, <2>1 DEF Runs
  <2>6. ran' \in [1 .. Len(Program) -> Nat]
    <3>1. ran' = [k \in 1 .. Len(Program) |-> ran'[k]]
      BY <1>1, <2>1 DEF Runs
    <3>2. \A k \in 1 .. Len(Program) : ran'[k] \in Nat
      BY <1>1, <2>5
    <3> QED BY <3>1, <3>2
  <2>7. \A k : Done(k) <=> k \in Completed(Master)
    BY <2>1 DEF Done
  <2>8. \A k : Done(k)' <=> k \in Completed(Master) \/ k = ip[t]
    BY <1>1, <1>4, <1>8, <2>2, <2>3 DEF Done
  <2>9. RunsTrue'
    BY <2>4, <2>5, <2>6, <2>7, <2>8 DEF SingleInv, RunsTrue
  <2> QED BY <1>6, <2>9 DEF SingleInv
<1> QED BY <1>9, <1>10

\* A stuttering step changes no count.
LEMMA SingleStill ==
  ASSUME SingleInv, UNCHANGED vars
  PROVE  SingleInv'
BY DEF vars, counters, SingleInv, SingleCount, OneResets, OneChosen, RunsTrue, Done, Tasked,
       CountedL, GoneL, Chosen, At, Completed, CompletedL

\* Every step keeps the counter, the choice and the runs in agreement.
LEMMA SingleInductive ==
  ASSUME Untimed
  PROVE  BarrierInv /\ SingleInv /\ [Next]_vars => SingleInv'
<1> SUFFICES ASSUME BarrierInv, SingleInv, [Next]_vars PROVE SingleInv'
  OBVIOUS
<1>1. CASE Next
  <2> PICK t \in Threads : Step(t)
    BY <1>1 DEF Next
  <2> QED BY BeginCounts, MasterCounts, SingleIncCounts, SingleResetCounts, SingleFuncCounts,
             CriticalCounts, BarrierCountsKept, FlipCounts DEF Step
<1>2. CASE UNCHANGED vars
  BY <1>2, SingleStill
<1> QED BY <1>1, <1>2

\* The invariants of barrier and single hold of the specification.
LEMMA SingleInvHolds == ASSUME Untimed PROVE Spec => [](BarrierInv /\ SingleInv)
BY InitBarrier, InitSingle, BarrierInductive, SingleInductive, PTL DEF Spec

\* collectives.cc:36-54 with ems.js: the function given to single runs exactly once
\* before any thread is past it, with any number of threads and any program.
THEOREM SingleRunsOnce ==
  ASSUME Untimed
  PROVE  Spec => []SingleOnce
<1>1. BarrierInv /\ SingleInv => SingleOnce
  <2> SUFFICES ASSUME BarrierInv, SingleInv, NEW i \in DOMAIN ran, Program[i] = "single"
               PROVE  ran[i] <= 1 /\ \A t \in Threads : ip[t] > i => ran[i] = 1
    BY DEF SingleOnce
  <2>1. i \in 1 .. Len(Program) /\ ran[i] = IF Done(i) THEN 1 ELSE 0
    BY DEF SingleInv, RunsTrue
  <2>2. ASSUME NEW t \in Threads, ip[t] > i
        PROVE  Done(i)
    <3>1. i \in Barriers(ip[t])
      BY <2>1, <2>2 DEF Barriers
    <3>2. i \in Completed(Master)
      BY <3>1, ThreadCount DEF BarrierInv, Together, Completed, CompletedL
    <3> QED BY <3>2 DEF Done
  <2> QED BY <2>1, <2>2
<1> QED BY SingleInvHolds, <1>1, PTL

LockTyped == critical \in {"FULL", "EMPTY"}

\* The control block keeps its types: no counter of collectives.cc leaves its range,
\* whatever the critical regions do.
THEOREM CollectivesTyped ==
  ASSUME Untimed
  PROVE  Spec => []TypeOK
<1>1. Init => LockTyped
  BY DEF Init, LockTyped
<1>2. LockTyped /\ [Next]_vars => LockTyped'
  BY DEF LockTyped, Next, Step, vars, Begin, MasterFunc, SingleInc, SingleReset, SingleFunc,
       BarrierLoad, BarrierDec, BarrierReset, BarrierFlip, BarrierWait, BarrierReturn,
       CriticalTry, CriticalFunc, CriticalCheck, CriticalStore
<1>3. LockTyped /\ BarrierInv /\ SingleInv => TypeOK
  <2> SUFFICES ASSUME LockTyped, BarrierInv, SingleInv PROVE TypeOK
    OBVIOUS
  <2>1. single \in 0 .. NThreads
    BY TaskedCount, ThreadCount DEF SingleInv, SingleCount
  <2>2. ip \in [Threads -> Nat] /\ loc \in [Threads -> Locals]
    BY DEF BarrierInv, BarrierTyped
  <2> QED BY <2>1, <2>2 DEF TypeOK, LockTyped, BarrierInv, BarrierTyped, SingleInv, RunsTrue, Locals
<1>4. Spec => []LockTyped
  BY <1>1, <1>2, PTL DEF Spec
<1> QED BY <1>3, <1>4, SingleInvHolds, PTL
===============================================================================
