---------------------------- MODULE EMSCollectives ----------------------------
(***************************************************************************)
(* Barriers, critical regions, single and master execution: the counters   *)
(* of the control block (src/src/collectives.cc) under the functions of    *)
(* the language bindings that call them (src/nodejs/ems.js, src/nodejs/    *)
(* nodejs.cc, src/Python/ems.py).                                          *)
(*                                                                         *)
(* The threads of a bulk-synchronous program execute the same sequence of  *)
(* collectives.  Every access to a counter is a step.  A wait gives up     *)
(* after a number of polls the program chooses; Forever stands for a       *)
(* number no wait uses up.                                                 *)
(***************************************************************************)
EXTENDS Integers, Sequences, FiniteSets

CONSTANTS
  Threads,
  Master,      \* the thread whose myID is 0
  Program,     \* the sequence of collectives every thread executes
  Binding,     \* "js" or "py", the language of the program
  BarrierTimeouts, CriticalTimeouts,  \* the timeouts the program passes, in polls
  FuncThrows   \* whether the function given to critical may throw

Forever == -1
Polls   == Nat \cup {Forever}

Collective == {"barrier", "single", "critical", "master"}

ASSUME CollectivesAssumption ==
  /\ IsFiniteSet(Threads) /\ Master \in Threads
  /\ Program \in Seq(Collective)
  /\ Binding \in {"js", "py"}
  /\ BarrierTimeouts \subseteq Polls /\ BarrierTimeouts # {}
  /\ CriticalTimeouts \subseteq Polls /\ CriticalTimeouts # {}
  /\ FuncThrows \in BOOLEAN

VARIABLES
  critical,  \* EMS_CB_CRITICAL, "FULL" when the region is free
  single,    \* EMS_CB_SINGLE
  nbar,      \* EMS_CB_NBAR0 and EMS_CB_NBAR1
  phase,     \* EMS_CB_BARPHASE
  ip,        \* ip[t]: the statement of Program t is at
  loc,       \* loc[t]: program counter and locals inside that statement
  ran        \* history: ran[i], the executions of the function of statement i

counters == <<single, nbar, phase>>
vars == <<critical, counters, ip, loc, ran>>

NThreads == Cardinality(Threads)

PC == {"next", "sInc", "sReset", "sFunc", "bLoad", "bDec", "bReset", "bFlip", "bWait",
       "bReturn", "cTry", "cFunc", "cCheck", "cStore", "mFunc"}

\* time: polls left of timeout; phase: barPhase; first: retval = 0 in
\* EMSsingleTask.
Quiet == [pc |-> "next", time |-> Forever, phase |-> 0, first |-> FALSE]

Init ==
  /\ critical = "FULL"
  /\ single = 0
  /\ nbar = [p \in {0, 1} |-> NThreads]
  /\ phase = 0
  /\ ip = [t \in Threads |-> 1]
  /\ loc = [t \in Threads |-> Quiet]
  /\ ran = [i \in 1 .. Len(Program) |-> 0]

At(t, p)  == loc[t].pc = p
Time(t)   == loc[t].time
Go(t, p)  == loc' = [loc EXCEPT ![t].pc = p] /\ UNCHANGED ip
Wait(t, p, tm) == loc' = [loc EXCEPT ![t].pc = p, ![t].time = tm] /\ UNCHANGED ip
Advance(t) == loc' = [loc EXCEPT ![t] = Quiet] /\ ip' = [ip EXCEPT ![t] = ip[t] + 1]
Runs(t)   == ran' = [ran EXCEPT ![ip[t]] = ran[ip[t]] + 1]

\* The timeout after one more poll.
Poll(n) == IF n = Forever THEN n ELSE n - 1

-------------------------------------------------------------------------------

\* The program reaches its next statement.  EMSmaster is a test of myID.
Begin(t) ==
  /\ At(t, "next") /\ ip[t] <= Len(Program)
  /\ \E tm \in CriticalTimeouts :
       CASE Program[ip[t]] = "barrier"  -> Go(t, "bLoad")
         [] Program[ip[t]] = "single"   -> Go(t, "sInc")
         [] Program[ip[t]] = "critical" -> Wait(t, "cTry", tm)
         [] OTHER -> IF t = Master THEN Go(t, "mFunc") ELSE Advance(t)
  /\ UNCHANGED <<critical, counters, ran>>

MasterFunc(t) ==
  /\ At(t, "mFunc")
  /\ Runs(t) /\ Advance(t)
  /\ UNCHANGED <<critical, counters>>

-------------------------------------------------------------------------------
(* EMSsingle: EMSsingleTask, the function, EMSbarrier *)

SingleInc(t) ==
  /\ At(t, "sInc")
  /\ single' = single + 1
  /\ loc' = [loc EXCEPT ![t].first = (single = 0),
               ![t].pc = IF single = NThreads - 1 THEN "sReset" ELSE "sFunc"]
  /\ UNCHANGED <<critical, nbar, phase, ip, ran>>

\* Mutant of SingleReset: the counter is not reset.
SingleResetSkipped(t) ==
  /\ At(t, "sReset")
  /\ Go(t, "sFunc")
  /\ UNCHANGED <<critical, counters, ran>>

SingleReset(t) ==
  /\ At(t, "sReset")
  /\ single' = 0
  /\ Go(t, "sFunc")
  /\ UNCHANGED <<critical, nbar, phase, ran>>

\* Mutant of SingleFunc: no barrier after the region.
SingleFuncNoBarrier(t) ==
  /\ At(t, "sFunc")
  /\ IF loc[t].first THEN Runs(t) ELSE UNCHANGED ran
  /\ Advance(t)
  /\ UNCHANGED <<critical, counters>>

SingleFunc(t) ==
  /\ At(t, "sFunc")
  /\ IF loc[t].first THEN Runs(t) ELSE UNCHANGED ran
  /\ Go(t, "bLoad")
  /\ UNCHANGED <<critical, counters>>

-------------------------------------------------------------------------------
(* EMSbarrier *)

BarrierLoad(t) ==
  /\ At(t, "bLoad")
  /\ loc' = [loc EXCEPT ![t].pc = "bDec", ![t].phase = phase]
  /\ UNCHANGED <<critical, counters, ip, ran>>

\* The wait, or the return of false with "Race condition at barrier".
BarrierDec(t) ==
  /\ At(t, "bDec")
  /\ LET retval == nbar[loc[t].phase]
     IN  /\ nbar' = [nbar EXCEPT ![loc[t].phase] = retval - 1]
         /\ \E tm \in BarrierTimeouts :
              Wait(t, IF retval < 0 THEN "bReturn" ELSE IF retval = 1 THEN "bReset" ELSE "bWait", tm)
  /\ UNCHANGED <<critical, single, phase, ran>>

\* Mutant of BarrierReset: the count is not reset.
BarrierResetSkipped(t) ==
  /\ At(t, "bReset")
  /\ Go(t, "bFlip")
  /\ UNCHANGED <<critical, counters, ran>>

BarrierReset(t) ==
  /\ At(t, "bReset")
  /\ nbar' = [nbar EXCEPT ![loc[t].phase] = NThreads]
  /\ Go(t, "bFlip")
  /\ UNCHANGED <<critical, single, phase, ran>>

\* Mutant of BarrierFlip: the last thread does not graduate to the next phase.
BarrierFlipSkipped(t) ==
  /\ At(t, "bFlip")
  /\ Go(t, "bReturn")
  /\ UNCHANGED <<critical, counters, ran>>

BarrierFlip(t) ==
  /\ At(t, "bFlip")
  /\ phase' = 1 - loc[t].phase
  /\ Go(t, "bReturn")
  /\ UNCHANGED <<critical, single, nbar, ran>>

\* Mutant of BarrierWait: a single test in place of the loop.
BarrierWaitOnce(t) ==
  /\ At(t, "bWait")
  /\ Go(t, "bReturn")
  /\ UNCHANGED <<critical, counters, ran>>

BarrierWait(t) ==
  /\ At(t, "bWait")
  /\ IF Time(t) # 0 /\ phase = loc[t].phase THEN Wait(t, "bWait", Poll(Time(t)))
                                            ELSE Go(t, "bReturn")
  /\ UNCHANGED <<critical, counters, ran>>

\* ems.py returns what EMSbarrier returned.  NodeJSbarrier throws if no time is left:
\* a program that catches the exception goes on, as here; one that does not, ends.
BarrierReturn(t) ==
  /\ At(t, "bReturn")
  /\ Advance(t)
  /\ UNCHANGED <<critical, counters, ran>>

-------------------------------------------------------------------------------
(* EMScritical: EMScriticalEnter, the function, EMScriticalExit *)

\* Mutant of Enters: the caller runs the function whatever was returned.
EntersAlways(t) == TRUE

\* NodeJScriticalEnter throws unless time remains; ems.py ignores the result.
Enters(t) == Binding = "py" \/ Time(t) # 0

EnterOrThrow(t) == IF Enters(t) THEN Go(t, "cFunc") ELSE Advance(t)

\* Mutant of CriticalTry: test and set in place of compare-and-swap.
CriticalTryBlind(t) ==
  /\ At(t, "cTry")
  /\ critical' = "EMPTY" /\ EnterOrThrow(t)
  /\ UNCHANGED <<counters, ran>>

CriticalTry(t) ==
  /\ At(t, "cTry")
  /\ \/ /\ critical = "FULL"
        /\ critical' = "EMPTY"
        /\ EnterOrThrow(t)
     \/ /\ critical = "EMPTY"
        /\ IF Time(t) # 0 THEN Wait(t, "cTry", Poll(Time(t))) ELSE EnterOrThrow(t)
        /\ UNCHANGED critical
  /\ UNCHANGED <<counters, ran>>

\* An exception thrown by the function passes over EMScriticalExit.
CriticalFunc(t) ==
  /\ At(t, "cFunc")
  /\ Runs(t)
  /\ Go(t, "cCheck") \/ (FuncThrows /\ Advance(t))
  /\ UNCHANGED <<critical, counters>>

CriticalCheck(t) ==
  /\ At(t, "cCheck")
  /\ IF critical = "EMPTY" THEN Go(t, "cStore") ELSE Advance(t)
  /\ UNCHANGED <<critical, counters, ran>>

CriticalStore(t) ==
  /\ At(t, "cStore")
  /\ critical' = "FULL"
  /\ Advance(t)
  /\ UNCHANGED <<counters, ran>>

-------------------------------------------------------------------------------

Step(t) ==
  \/ Begin(t) \/ MasterFunc(t)
  \/ SingleInc(t) \/ SingleReset(t) \/ SingleFunc(t)
  \/ BarrierLoad(t) \/ BarrierDec(t) \/ BarrierReset(t) \/ BarrierFlip(t)
  \/ BarrierWait(t) \/ BarrierReturn(t)
  \/ CriticalTry(t) \/ CriticalFunc(t) \/ CriticalCheck(t) \/ CriticalStore(t)

Next == \E t \in Threads : Step(t)

Spec == Init /\ [][Next]_vars

\* Every thread of the program is scheduled by the operating system.
FairSpec == Spec /\ \A t \in Threads : WF_vars(Step(t))

-------------------------------------------------------------------------------
(* Properties *)

TypeOK ==
  /\ critical \in {"FULL", "EMPTY"}
  /\ single \in 0 .. NThreads
  /\ nbar \in [{0, 1} -> Int]
  /\ phase \in {0, 1}
  /\ ip \in [Threads -> Nat]
  /\ loc \in [Threads -> [pc : PC, time : Polls, phase : {0, 1}, first : BOOLEAN]]
  /\ DOMAIN ran = 1 .. Len(Program)

\* The statements before position i that end in a barrier.
Barriers(i) == {k \in 1 .. Len(Program) : k < i /\ Program[k] \in {"barrier", "single"}}

Arrived(t) == Barriers(ip[t]) \cup
  (IF loc[t].pc \in {"bReset", "bFlip", "bWait", "bReturn"} THEN {ip[t]} ELSE {})

\* reference.html:492: "All the threads must reach the same barrier before
\* proceeding": a thread past a barrier knows every thread has counted itself in.
BarrierSeparates == \A t, u \in Threads : Barriers(ip[t]) \subseteq Arrived(u)

\* "Race condition at barrier" (collectives.cc:100) cannot be reported, and no
\* arrival finds a count that another thread has already used up.
NoBarrierRace == \A t \in Threads : At(t, "bDec") => nbar[loc[t].phase] > 0

\* The function given to single runs exactly once before any thread is past it,
\* and a later single starts from a counter every thread has left.
SingleOnce ==
  \A i \in DOMAIN ran : Program[i] = "single" =>
    ran[i] <= 1 /\ \A t \in Threads : ip[t] > i => ran[i] = 1

InRegion(t) == loc[t].pc \in {"cFunc", "cCheck", "cStore"}

\* reference.html:535: critical performs its function "mutually exclusive of other
\* threads".
MutualExclusion == \A t, u \in Threads : InRegion(t) /\ InRegion(u) => t = u

\* EMScriticalExit never finds that "the mutual exclusion lock was somehow lost".
ExitSucceeds == \A t \in Threads : InRegion(t) => critical = "EMPTY"

\* Every thread executes the whole program: no barrier, single or critical region
\* keeps a thread for ever.
Termination == <>(\A t \in Threads : ip[t] > Len(Program))
===============================================================================
