------------------------------- MODULE EMSLoops -------------------------------
(***************************************************************************)
(* Parallel loops: the shared iteration counter of src/src/loops.cc under  *)
(* parForEach of src/nodejs/ems.js and src/Python/ems.py.                  *)
(*                                                                         *)
(* Every thread executes the same sequence of loops.  The accesses to the  *)
(* words other threads change, EMS_LOOP_IDX and EMS_LOOP_CHUNKSZ, are      *)
(* steps; the other words are stored with the same value by every thread   *)
(* and read only after a barrier.  A barrier, modelled in EMSCollectives,  *)
(* is here what it promises: nobody passes before everybody has arrived.   *)
(***************************************************************************)
EXTENDS Integers, Sequences

CONSTANTS
  NThreads,  \* EMS_CB_NTHREADS
  Program,   \* the sequence of loops: [start, end, sched, minChunk]
  Binding,   \* "js" or "py"
  HalfRange  \* 2^31: the values of an int32_t are -HalfRange .. HalfRange - 1

Threads == 0 .. NThreads - 1   \* by myID
Int32   == -HalfRange .. HalfRange - 1
Sched   == {"guided", "dynamic", "static"}

ASSUME LoopsAssumption ==
  /\ NThreads \in Nat \ {0} /\ HalfRange \in Nat \ {0}
  /\ Binding \in {"js", "py"}
  /\ Program \in Seq([start : Int32, end : Int32, sched : Sched, minChunk : Int32 \cap Nat])

VARIABLES
  idx, end, chunkSz, minChunk, sched,  \* the EMS_LOOP_ words of the control block
  ip,       \* ip[t]: the loop t is at
  loc,      \* loc[t]: program counter and locals of EMSloopChunk
  arrived,  \* arrived[t]: the barriers t has reached
  ran       \* history: ran[k][i], how often the body of loop k was given i

control == <<idx, end, chunkSz, minChunk, sched>>
vars == <<control, ip, loc, arrived, ran>>

Idle == [pc |-> "next", size |-> 0, start |-> 0, end |-> 0]

Init ==
  /\ idx = 0 /\ end = 0 /\ chunkSz = 0 /\ minChunk = 0 /\ sched = "guided"
  /\ ip = [t \in Threads |-> 1]
  /\ loc = [t \in Threads |-> Idle]
  /\ arrived = [t \in Threads |-> 0]
  /\ ran = [k \in 1 .. Len(Program) |-> [i \in Int32 |-> 0]]

At(t, p) == loc[t].pc = p
Loop(t)  == Program[ip[t]]
Go(t, p) == loc' = [loc EXCEPT ![t].pc = p]

Larger(a, b) == IF a > b THEN a ELSE b

\* Arithmetic on int32_t wraps round.
Wrap(n) == ((n + HalfRange) % (2 * HalfRange)) - HalfRange

\* A fair share of half the n iterations left.  Rounding down where C rounds to
\* zero makes no difference once the result is compared with minChunk.
Share(n) == (n \div 2) \div NThreads

\* Reaching a barrier and waiting at p for the other threads.
Arrive(t, p) == Go(t, p) /\ arrived' = [arrived EXCEPT ![t] = @ + 1]
Everybody(t) == \A u \in Threads : arrived[u] >= arrived[t]

-------------------------------------------------------------------------------
(* EMSloopInit *)

Begin(t) ==
  /\ At(t, "next") /\ ip[t] <= Len(Program)
  /\ Go(t, IF Loop(t).sched = "static" THEN "static" ELSE "initBounds")
  /\ UNCHANGED <<control, ip, arrived, ran>>

InitBounds(t) ==
  /\ At(t, "initBounds")
  /\ idx' = Loop(t).start /\ end' = Loop(t).end
  /\ Go(t, "initChunk")
  /\ UNCHANGED <<chunkSz, minChunk, sched, ip, arrived, ran>>

InitChunk(t) ==
  /\ At(t, "initChunk")
  /\ chunkSz' = IF Loop(t).sched = "guided" THEN Share(Wrap(Loop(t).end - Loop(t).start)) ELSE 1
  /\ Go(t, "initFix")
  /\ UNCHANGED <<idx, end, minChunk, sched, ip, arrived, ran>>

LeastChunk(l) == IF l.sched = "guided" THEN l.minChunk ELSE 1

InitFix(t) ==
  /\ At(t, "initFix")
  /\ chunkSz' = Larger(chunkSz, LeastChunk(Loop(t)))
  /\ minChunk' = LeastChunk(Loop(t)) /\ sched' = Loop(t).sched
  /\ Arrive(t, "enter")
  /\ UNCHANGED <<idx, end, ip, ran>>

\* Mutant of Enter: no barrier between initialisation and loop.
EnterAlone(t) ==
  /\ At(t, "enter")
  /\ Go(t, "load")
  /\ UNCHANGED <<control, ip, arrived, ran>>

Enter(t) ==
  /\ At(t, "enter") /\ Everybody(t)
  /\ Go(t, "load")
  /\ UNCHANGED <<control, ip, arrived, ran>>

-------------------------------------------------------------------------------
(* EMSloopChunk *)

ChunkLoad(t) ==
  /\ At(t, "load")
  /\ loc' = [loc EXCEPT ![t].pc = "add", ![t].size = chunkSz]
  /\ UNCHANGED <<control, ip, arrived, ran>>

\* The end of the chunk of iterations from start to stop: empty past the end
\* of the loop, cut at the end otherwise.
ChunkEnd(start, stop) ==
  LET e == IF start > end THEN 0 ELSE stop IN IF e > end THEN end ELSE e

ChunkAdd(t) ==
  /\ At(t, "add")
  /\ idx' = Wrap(idx + loc[t].size)
  /\ loc' = [loc EXCEPT ![t].pc = IF sched = "guided" THEN "update" ELSE "body",
               ![t].start = idx, ![t].end = ChunkEnd(idx, Wrap(idx + loc[t].size))]
  /\ UNCHANGED <<end, chunkSz, minChunk, sched, ip, arrived, ran>>

ChunkUpdate(t) ==
  /\ At(t, "update")
  /\ chunkSz' = Larger(Share(Wrap(end - loc[t].start)), minChunk)
  /\ Go(t, "body")
  /\ UNCHANGED <<idx, end, minChunk, sched, ip, arrived, ran>>

-------------------------------------------------------------------------------
(* parForEach *)

\* The loop body is called for the iterations from..to - 1 of the loop of t.
Execute(t, from, to) ==
  ran' = [ran EXCEPT ![ip[t]] =
            [i \in Int32 |-> @[i] + (IF i \in from .. to - 1 THEN 1 ELSE 0)]]

Body(t) ==
  /\ At(t, "body")
  /\ Execute(t, loc[t].start, loc[t].end)
  /\ IF loc[t].end - loc[t].start > 0 THEN Go(t, "load") /\ UNCHANGED arrived
                                      ELSE Arrive(t, "leave")
  /\ UNCHANGED <<control, ip>>

BlockSz(l) == ((l.end - l.start) \div NThreads) + 1

\* ems.js cuts a block end that counts from the start of the loop at the end of
\* the loop; ems.py adds the start first.
StaticEnd(t, l) ==
  LET e    == BlockSz(l) * (t + 1)
      last == IF Binding = "js" THEN l.end ELSE l.end - l.start
  IN  IF e > last THEN last ELSE e

\* Mutant of Static: a thread with nothing to do skips the barrier.
StaticEarlyReturn(t) ==
  /\ At(t, "static")
  /\ Execute(t, BlockSz(Loop(t)) * t + Loop(t).start, StaticEnd(t, Loop(t)) + Loop(t).start)
  /\ IF BlockSz(Loop(t)) * t < StaticEnd(t, Loop(t))
     THEN Arrive(t, "leave") /\ UNCHANGED ip
     ELSE Go(t, "next") /\ ip' = [ip EXCEPT ![t] = @ + 1] /\ UNCHANGED arrived
  /\ UNCHANGED control

Static(t) ==
  /\ At(t, "static")
  /\ Execute(t, BlockSz(Loop(t)) * t + Loop(t).start, StaticEnd(t, Loop(t)) + Loop(t).start)
  /\ Arrive(t, "leave")
  /\ UNCHANGED <<control, ip>>

Leave(t) ==
  /\ At(t, "leave") /\ Everybody(t)
  /\ loc' = [loc EXCEPT ![t] = Idle]
  /\ ip' = [ip EXCEPT ![t] = @ + 1]
  /\ UNCHANGED <<control, arrived, ran>>

-------------------------------------------------------------------------------

Step(t) ==
  \/ Begin(t) \/ InitBounds(t) \/ InitChunk(t) \/ InitFix(t) \/ Enter(t)
  \/ ChunkLoad(t) \/ ChunkAdd(t) \/ ChunkUpdate(t)
  \/ Body(t) \/ Static(t) \/ Leave(t)

Next == \E t \in Threads : Step(t)

Spec == Init /\ [][Next]_vars

\* Every thread of the program is scheduled by the operating system.
FairSpec == Spec /\ \A t \in Threads : WF_vars(Step(t))

-------------------------------------------------------------------------------
(* Properties *)

\* The body of a loop is called exactly once for each of its iterations, and for
\* nothing else, before any thread is past the loop (reference.html:403-410: the
\* iterations are divided among the threads and a barrier is implied at the end).
EachOnce ==
  \A k \in 1 .. Len(Program) : (\E t \in Threads : ip[t] > k) =>
    \A i \in Int32 : ran[k][i] = IF i \in Program[k].start .. Program[k].end - 1 THEN 1 ELSE 0

\* Every thread gets through every loop.
LoopsEnd == <>(\A t \in Threads : ip[t] > Len(Program))
===============================================================================
