-------------------------- MODULE EMSStackQueueProofs --------------------------
(***************************************************************************)
(* The index tags of a stack or queue are locks for every number of        *)
(* threads, elements and values, in every build and with every failure: a  *)
(* thread inside an operation has made the tag BUSY, and no other thread   *)
(* makes it FULL again.                                                    *)
(*                                                                         *)
(* EMSenqueue does not acquire the element it fills.  In a disciplined use *)
(* of a queue that is safe all the same: the values outstanding, of which  *)
(* there are no more than elements, cover the positions between the        *)
(* indices and the removals in progress (Balance), so that the positions   *)
(* in progress are fewer than N apart, and a FULL element belongs to a     *)
(* position already filled (FullCells, InOrder).                           *)
(*                                                                         *)
(* Hence a queue implements SharedSequence, and so does a stack, by a      *)
(* simpler invariant: an operation takes effect when it reserves its       *)
(* position, and after that nobody else works on its element (Tidy).       *)
(***************************************************************************)
EXTENDS EMSStackQueueRefinement, FiniteSetTheorems, TLAPS

\* The locals of the threads are records.
Shaped ==
  /\ loc = [t \in Threads |-> loc[t]]
  /\ \A t \in Threads : DOMAIN loc[t] = {"pc", "op", "v", "idx", "ok"}

TagsTyped == topTag \in {"FULL", "BUSY"} /\ bottomTag \in {"FULL", "BUSY"}

IndexInv == Shaped /\ TagsTyped /\ IndexExclusive

\* The step of t leaves the locals of the others and its own operation alone.
Alone(t) ==
  /\ Shaped' /\ loc'[t].op = loc[t].op
  /\ \A u \in Threads : u # t => loc'[u] = loc[u]

\* What the ways of moving on do to the locals.
LEMMA Moved ==
  ASSUME Shaped, NEW t \in Threads, NEW p, NEW x
  PROVE  /\ Go(t, p) => Alone(t) /\ loc'[t].pc = p /\ loc'[t].idx = loc[t].idx /\ loc'[t].v = loc[t].v
         /\ GoIdx(t, p, x) => Alone(t) /\ loc'[t].pc = p /\ loc'[t].idx = x /\ loc'[t].v = loc[t].v
         /\ GoVal(t, p, x) => Alone(t) /\ loc'[t].pc = p /\ loc'[t].v = x /\ loc'[t].idx = loc[t].idx
         /\ Fail(t) => Alone(t) /\ loc'[t].pc = "done"
<1>1. Go(t, p) => Alone(t) /\ loc'[t].pc = p /\ loc'[t].idx = loc[t].idx /\ loc'[t].v = loc[t].v
  BY DEF Shaped, Alone, Go
<1>2. GoIdx(t, p, x) => Alone(t) /\ loc'[t].pc = p /\ loc'[t].idx = x /\ loc'[t].v = loc[t].v
  BY DEF Shaped, Alone, GoIdx
<1>3. GoVal(t, p, x) => Alone(t) /\ loc'[t].pc = p /\ loc'[t].v = x /\ loc'[t].idx = loc[t].idx
  BY DEF Shaped, Alone, GoVal
<1>4. Fail(t) => Alone(t) /\ loc'[t].pc = "done"
  BY DEF Shaped, Alone, Fail
<1> QED BY <1>1, <1>2, <1>3, <1>4

\* Initially both index tags are FULL and no thread is inside an operation.
LEMMA InitIndex == Init => IndexInv
BY DEF Init, Idle, IndexInv, Shaped, TagsTyped, IndexExclusive, InCritical

\* A step that leaves the index tags alone and enters no operation.
LEMMA Within ==
  ASSUME IndexInv, NEW t \in Threads, Alone(t), UNCHANGED <<topTag, bottomTag>>,
         InCritical(t)' => InCritical(t)
  PROVE  IndexInv'
<1>1. \A u \in Threads : /\ loc'[u].op = loc[u].op
                         /\ InCritical(u)' => InCritical(u)
  BY DEF Alone, InCritical
<1>2. IndexExclusive'
  BY <1>1 DEF IndexInv, IndexExclusive, SameIndex
<1> QED BY <1>2 DEF IndexInv, TagsTyped, Alone

\* A step inside an operation, from the reservation of an index to its release.
LEMMA Inner ==
  ASSUME IndexInv, NEW t \in Threads, InCritical(t), UNCHANGED <<topTag, bottomTag>>,
         \/ Fail(t)
         \/ \E p : Go(t, p) \/ \E x : GoIdx(t, p, x) \/ GoVal(t, p, x)
  PROVE  IndexInv'
<1>1. Alone(t)
  BY Moved DEF IndexInv
<1> QED BY <1>1, Within

\* A step outside.
LEMMA Outer ==
  ASSUME IndexInv, NEW t \in Threads, UNCHANGED <<topTag, bottomTag>>,
         NEW p \in {"reset", "done", "deqLateCopy"},
         (p = "done" /\ Fail(t)) \/ Go(t, p) \/ \E x : GoVal(t, p, x)
  PROVE  IndexInv'
<1>1. Alone(t) /\ loc'[t].pc = p
  BY Moved DEF IndexInv
<1> QED BY <1>1, Within DEF InCritical

\* New locals outside of any operation.
LEMMA Fresh ==
  ASSUME IndexInv, NEW t \in Threads, NEW l, loc' = [loc EXCEPT ![t] = l],
         l.pc \in {"idle", "lock"}, DOMAIN l = {"pc", "op", "v", "idx", "ok"},
         UNCHANGED <<topTag, bottomTag>>
  PROVE  IndexInv'
<1>1. Shaped' /\ loc'[t] = l /\ \A u \in Threads : u # t => loc'[u] = loc[u]
  BY DEF IndexInv, Shaped
<1>2. ~InCritical(t)' /\ \A u \in Threads : InCritical(u)' => u # t /\ InCritical(u) /\ loc'[u] = loc[u]
  BY <1>1 DEF InCritical
<1>3. IndexExclusive'
  BY <1>2 DEF IndexInv, IndexExclusive, SameIndex
<1> QED BY <1>1, <1>3 DEF IndexInv, TagsTyped

\* Calling an operation and returning from it.
LEMMA CallKeeps ==
  ASSUME IndexInv, NEW t \in Threads, Finish(t) \/ \E o \in UNION Kinds : Call(t, o)
  PROVE  IndexInv'
<1>1. UNCHANGED <<topTag, bottomTag>>
  BY DEF Finish, Call, shared
<1>2. CASE Finish(t)
  <2>1. Idle.pc = "idle" /\ DOMAIN Idle = {"pc", "op", "v", "idx", "ok"}
    BY DEF Idle
  <2>2. loc' = [loc EXCEPT ![t] = Idle]
    BY <1>2 DEF Finish
  <2> QED BY <1>1, <2>1, <2>2, Fresh
<1>3. ASSUME NEW o \in UNION Kinds, Call(t, o) PROVE IndexInv'
  <2>1. PICK v : loc' = [loc EXCEPT ![t] = [Idle EXCEPT !.pc = "lock", !.op = o, !.v = v]]
    BY <1>3 DEF Call
  <2> DEFINE l == [Idle EXCEPT !.pc = "lock", !.op = o, !.v = v]
  <2>2. l.pc = "lock" /\ DOMAIN l = {"pc", "op", "v", "idx", "ok"}
    BY DEF Idle
  <2> HIDE DEF l
  <2> QED BY <1>1, <2>1, <2>2, Fresh DEF l
<1> QED BY <1>2, <1>3

\* The tag of the index is FULL, so no thread is inside.
LEMMA LockKeeps ==
  ASSUME IndexInv, NEW t \in Threads, LockTop(t) \/ LockBottom(t)
  PROVE  IndexInv'
<1>1. Go(t, Start(loc[t].op)) /\ loc[t].pc = "lock"
  BY DEF LockTop, LockBottom, At
<1>2. Alone(t)
  BY <1>1, Moved DEF IndexInv
<1>3. IF loc[t].op = "dequeue" THEN bottomTag = "FULL" /\ bottomTag' = "BUSY" /\ topTag' = topTag
                               ELSE topTag = "FULL" /\ topTag' = "BUSY" /\ bottomTag' = bottomTag
  BY DEF LockTop, LockBottom
<1>4. \A u \in Threads : u # t => ~(InCritical(u) /\ SameIndex(u, t))
  BY <1>3 DEF IndexInv, IndexExclusive, SameIndex
<1>5. \A u \in Threads : /\ loc'[u].op = loc[u].op
                         /\ u # t => (InCritical(u)' <=> InCritical(u))
  BY <1>2 DEF Alone, InCritical
<1>6. IndexExclusive'
  BY <1>3, <1>4, <1>5 DEF IndexInv, IndexExclusive, SameIndex
<1> QED BY <1>2, <1>3, <1>6 DEF IndexInv, TagsTyped, Alone

\* The only thread inside leaves.
LEMMA UnlockKeeps ==
  ASSUME IndexInv, NEW t \in Threads, UnlockTop(t) \/ UnlockBottom(t)
  PROVE  IndexInv'
<1>1. loc[t].pc = "unlock" /\ \E p \in {"reset", "done", "deqLateCopy"} : Go(t, p)
  BY DEF UnlockTop, UnlockBottom, At
<1>2. Alone(t) /\ loc'[t].pc \in {"reset", "done", "deqLateCopy"}
  BY <1>1, Moved DEF IndexInv
<1>3. IF loc[t].op = "dequeue" THEN bottomTag' = "FULL" /\ topTag' = topTag
                               ELSE topTag' = "FULL" /\ bottomTag' = bottomTag
  BY DEF UnlockTop, UnlockBottom
<1>4. \A u \in Threads : u # t => ~(InCritical(u) /\ SameIndex(u, t))
  BY <1>1 DEF IndexInv, IndexExclusive, InCritical, SameIndex
<1>5. \A u \in Threads : /\ loc'[u].op = loc[u].op
                         /\ InCritical(u)' => u # t /\ InCritical(u)
  BY <1>2 DEF Alone, InCritical
<1>6. IndexExclusive'
  BY <1>3, <1>4, <1>5 DEF IndexInv, IndexExclusive, SameIndex
<1> QED BY <1>2, <1>3, <1>6 DEF IndexInv, TagsTyped, Alone

\* The steps of a push or a pop leave the index tags alone.
LEMMA StackKeeps ==
  ASSUME IndexInv, NEW t \in Threads,
         \/ PushReserve(t) \/ PushClaim(t) \/ PushWrite(t) \/ PushMark(t)
         \/ PopReserve(t) \/ PopClaim(t) \/ PopCopy(t) \/ PopMark(t)
  PROVE  IndexInv'
<1>1. InCritical(t) /\ UNCHANGED <<topTag, bottomTag>>
  BY DEF PushReserve, PushClaim, PushWrite, PushMark, PopReserve, PopClaim, PopCopy, PopMark,
         At, InCritical, shared
<1>2. \/ Fail(t)
      \/ \E p : Go(t, p) \/ \E x : GoIdx(t, p, x) \/ GoVal(t, p, x)
  <2>1. CASE PushReserve(t) \/ PushClaim(t) \/ PushWrite(t) \/ PushMark(t)
    BY <2>1 DEF PushReserve, PushClaim, PushWrite, PushMark
  <2>2. CASE PopReserve(t) \/ PopClaim(t) \/ PopCopy(t) \/ PopMark(t)
    BY <2>2 DEF PopReserve, PopClaim, PopCopy, PopMark
  <2> QED BY <2>1, <2>2
<1> QED BY <1>1, <1>2, Inner

\* The steps of an enqueue or a dequeue between lock and unlock do so, too.
LEMMA QueueKeeps ==
  ASSUME IndexInv, NEW t \in Threads,
         \/ EnqReserve(t) \/ EnqCheck(t) \/ EnqWrite(t) \/ EnqMark(t)
         \/ DeqReserve(t) \/ DeqReload(t) \/ DeqClaim(t) \/ DeqCopy(t) \/ DeqMark(t)
  PROVE  IndexInv'
<1>1. InCritical(t) /\ UNCHANGED <<topTag, bottomTag>>
  BY DEF EnqReserve, EnqCheck, EnqWrite, EnqMark, DeqReserve, DeqReload, DeqClaim, DeqCopy,
         DeqMark, At, InCritical, shared
<1>2. \/ Fail(t)
      \/ \E p : Go(t, p) \/ \E x : GoIdx(t, p, x) \/ GoVal(t, p, x)
  <2>1. CASE EnqReserve(t) \/ EnqCheck(t) \/ EnqWrite(t) \/ EnqMark(t)
    BY <2>1 DEF EnqReserve, EnqCheck, EnqWrite, EnqMark
  <2>2. CASE DeqReserve(t) \/ DeqReload(t) \/ DeqClaim(t) \/ DeqCopy(t) \/ DeqMark(t)
    BY <2>2 DEF DeqReserve, DeqReload, DeqClaim, DeqCopy, DeqMark
  <2> QED BY <2>1, <2>2
<1> QED BY <1>1, <1>2, Inner

\* The late stores and copies of an operation that has released its index.
LEMMA LateKeeps ==
  ASSUME IndexInv, NEW t \in Threads, Reset(t) \/ DeqLateCopy(t)
  PROVE  IndexInv'
<1>1. UNCHANGED <<topTag, bottomTag>> /\ (Fail(t) \/ Go(t, "done") \/ \E x : GoVal(t, "done", x))
  BY DEF Reset, DeqLateCopy, shared
<1> QED BY <1>1, Outer

\* Every step keeps the index tags locks.
LEMMA IndexInductive == IndexInv /\ [Next]_vars => IndexInv'
<1> SUFFICES ASSUME IndexInv, [Next]_vars PROVE IndexInv'
  OBVIOUS
<1>1. CASE Next
  <2> PICK t \in Threads : Step(t) \/ \E o \in UNION Kinds : Call(t, o)
    BY <1>1 DEF Next
  <2> QED BY CallKeeps, LockKeeps, UnlockKeeps, StackKeeps, QueueKeeps, LateKeeps DEF Step
<1>2. CASE UNCHANGED vars
  BY <1>2 DEF vars, shared, IndexInv, Shaped, TagsTyped, IndexExclusive, InCritical, SameIndex
<1> QED BY <1>1, <1>2

\* primitives.cc: two operations never both hold the tag of STACKTOP, or of Q_BOTTOM,
\* in any build, when the stack is full or the heap exhausted as well.
THEOREM IndicesLocked == Spec => []IndexExclusive
<1>1. IndexInv => IndexExclusive
  BY DEF IndexInv
<1> QED BY InitIndex, IndexInductive, <1>1, PTL DEF Spec

-------------------------------------------------------------------------------
(* The operation a program counter belongs to *)

Belongs(l) ==
  /\ IF l.pc = "idle" THEN l.op = "none" ELSE l.op \in use.ops
  /\ l.pc \in {"pushReserve", "pushClaim", "pushWrite", "pushMark"} => l.op = "push"
  /\ l.pc \in {"popReserve", "popClaim", "popCopy", "popMark"} => l.op = "pop"
  /\ l.pc \in {"enqReserve", "enqCheck", "enqWrite", "enqMark"} => l.op = "enqueue"
  /\ l.pc \in {"deqReserve", "deqReload", "deqClaim", "deqCopy", "deqMark", "deqLateCopy"} =>
       l.op = "dequeue"
  /\ l.pc = "reset" => Build = "O2"

OpInv == Shaped /\ use \in Uses /\ \A t \in Threads : Belongs(loc[t])

\* Moving on inside an operation.
LEMMA OpKept ==
  ASSUME OpInv, NEW t \in Threads, Alone(t), use' = use, Belongs(loc[t])'
  PROVE  OpInv'
BY DEF OpInv, Alone, Belongs, Build

\* The locals outside of any operation.
LEMMA IdleFields ==
  /\ Idle.pc = "idle" /\ Idle.op = "none" /\ Idle.v = Undef /\ Idle.idx = 0
  /\ DOMAIN Idle = {"pc", "op", "v", "idx", "ok"}
BY DEF Idle

\* A thread outside of any operation is where it belongs.
LEMMA IdleBelongs == Belongs(Idle)
BY IdleFields DEF Belongs

\* Initially every thread is outside.
LEMMA InitOp == Init => OpInv
<1>1. Init => \A t \in Threads : loc[t] = Idle
  BY DEF Init
<1>2. Init => Shaped /\ use \in Uses
  BY IdleFields DEF Init, Shaped
<1> QED BY <1>1, <1>2, IdleBelongs DEF OpInv

\* A new call, and the end of one.
LEMMA OpCalls ==
  ASSUME OpInv, NEW t \in Threads, Finish(t) \/ \E o \in UNION Kinds : Call(t, o)
  PROVE  OpInv'
<1>1. use' = use
  BY DEF Finish, Call
<1>2. PICK l : loc' = [loc EXCEPT ![t] = l] /\ Belongs(l) /\ DOMAIN l = {"pc", "op", "v", "idx", "ok"}
  <2>1. CASE Finish(t)
    <3>1. loc' = [loc EXCEPT ![t] = Idle]
      BY <2>1 DEF Finish
    <3>2. Belongs(Idle) /\ DOMAIN Idle = {"pc", "op", "v", "idx", "ok"}
      BY IdleFields, IdleBelongs
    <3> QED BY <3>1, <3>2
  <2>2. ASSUME NEW o \in UNION Kinds, Call(t, o)
        PROVE  \E l : /\ loc' = [loc EXCEPT ![t] = l] /\ Belongs(l)
                      /\ DOMAIN l = {"pc", "op", "v", "idx", "ok"}
    <3>1. PICK v : loc' = [loc EXCEPT ![t] = [Idle EXCEPT !.pc = "lock", !.op = o, !.v = v]]
      BY <2>2 DEF Call
    <3> DEFINE m == [Idle EXCEPT !.pc = "lock", !.op = o, !.v = v]
    <3>2. m.pc = "lock" /\ m.op = o /\ DOMAIN m = {"pc", "op", "v", "idx", "ok"}
      BY DEF Idle
    <3>3. o \in use.ops
      BY <2>2 DEF Call
    <3> HIDE DEF m
    <3>4. Belongs(m)
      BY <3>2, <3>3 DEF Belongs
    <3> QED BY <3>1, <3>2, <3>4 DEF m
  <2> QED BY <2>1, <2>2
<1>3. Shaped' /\ \A u \in Threads : loc'[u] = IF u = t THEN l ELSE loc[u]
  BY <1>2 DEF OpInv, Shaped
<1> QED BY <1>1, <1>2, <1>3 DEF OpInv, Belongs, Build

\* What a use is.
LEMMA UseKinds ==
  ASSUME OpInv
  PROVE  /\ use.ops \in Kinds /\ N \in Nat \ {0} /\ Build \in {"O0", "O1", "O2"}
         /\ use.values \subseteq Value
BY StackQueueAssumption DEF OpInv, N, Build

\* Taking and releasing an index, and what follows its release.
LEMMA OpLocks ==
  ASSUME OpInv, NEW t \in Threads,
         \/ LockTop(t) \/ LockBottom(t) \/ UnlockTop(t) \/ UnlockBottom(t)
         \/ Reset(t) \/ DeqLateCopy(t)
  PROVE  OpInv'
<1>1. use' = use /\ loc[t].op \in use.ops /\ use.ops \in Kinds
  BY UseKinds DEF LockTop, LockBottom, UnlockTop, UnlockBottom, Reset, DeqLateCopy, Local, At,
                  OpInv, Belongs
<1>2. CASE LockTop(t) \/ LockBottom(t)
  <2>1. Go(t, Start(loc[t].op))
    BY <1>2 DEF LockTop, LockBottom
  <2>2. Alone(t) /\ loc'[t].pc = Start(loc[t].op)
    BY <2>1, Moved DEF OpInv
  <2>3. Belongs(loc[t])'
    BY <1>1, <2>2 DEF Belongs, Alone, Start, Kinds
  <2> QED BY <1>1, <2>2, <2>3, OpKept
<1>3. CASE UnlockTop(t) \/ UnlockBottom(t)
  <2>1. PICK p : /\ Go(t, p) /\ p \in {"reset", "done", "deqLateCopy"}
                 /\ p = "reset" => SinksReset(t)
                 /\ p = "deqLateCopy" => loc[t].op = "dequeue"
    BY <1>3 DEF UnlockTop, UnlockBottom
  <2>2. Alone(t) /\ loc'[t].pc = p
    BY <2>1, Moved DEF OpInv
  <2>3. Belongs(loc[t])'
    BY <1>1, <2>1, <2>2 DEF Belongs, Alone, SinksReset, Build
  <2> QED BY <1>1, <2>2, <2>3, OpKept
<1>4. CASE Reset(t) \/ DeqLateCopy(t)
  <2>1. Fail(t) \/ Go(t, "done") \/ \E x : GoVal(t, "done", x)
    BY <1>4 DEF Reset, DeqLateCopy
  <2>2. Alone(t) /\ loc'[t].pc = "done"
    BY <2>1, Moved DEF OpInv
  <2>3. Belongs(loc[t])'
    BY <1>1, <2>2 DEF Belongs, Alone
  <2> QED BY <1>1, <2>2, <2>3, OpKept
<1> QED BY <1>2, <1>3, <1>4

\* The steps of a push or a pop.
LEMMA OpStack ==
  ASSUME OpInv, NEW t \in Threads,
         \/ PushReserve(t) \/ PushClaim(t) \/ PushWrite(t) \/ PushMark(t)
         \/ PopReserve(t) \/ PopClaim(t) \/ PopCopy(t) \/ PopMark(t)
  PROVE  OpInv'
<1>1. use' = use /\ loc[t].op \in use.ops
  BY DEF PushReserve, PushClaim, PushWrite, PushMark, PopReserve, PopClaim, PopCopy, PopMark,
         Local, At, OpInv, Belongs
<1>2. CASE PushReserve(t) \/ PushClaim(t) \/ PushWrite(t) \/ PushMark(t)
  <2>1. loc[t].op = "push"
    BY <1>2 DEF PushReserve, PushClaim, PushWrite, PushMark, At, OpInv, Belongs
  <2>2. Fail(t) \/ \E p \in {"pushClaim", "pushWrite", "pushMark", "unlock"} :
                     Go(t, p) \/ \E x : GoIdx(t, p, x)
    BY <1>2 DEF PushReserve, PushClaim, PushWrite, PushMark
  <2>3. Alone(t) /\ loc'[t].pc \in {"pushClaim", "pushWrite", "pushMark", "unlock", "done"}
    BY <2>2, Moved DEF OpInv
  <2>4. Belongs(loc[t])'
    BY <1>1, <2>1, <2>3 DEF Belongs, Alone
  <2> QED BY <1>1, <2>3, <2>4, OpKept
<1>3. CASE PopReserve(t) \/ PopClaim(t) \/ PopCopy(t) \/ PopMark(t)
  <2>1. loc[t].op = "pop"
    BY <1>3 DEF PopReserve, PopClaim, PopCopy, PopMark, At, OpInv, Belongs
  <2>2. Fail(t) \/ \E p \in {"popClaim", "popCopy", "popMark", "unlock"} :
          Go(t, p) \/ \E x : GoIdx(t, p, x) \/ GoVal(t, p, x)
    BY <1>3 DEF PopReserve, PopClaim, PopCopy, PopMark
  <2>3. Alone(t) /\ loc'[t].pc \in {"popClaim", "popCopy", "popMark", "unlock", "done"}
    BY <2>2, Moved DEF OpInv
  <2>4. Belongs(loc[t])'
    BY <1>1, <2>1, <2>3 DEF Belongs, Alone
  <2> QED BY <1>1, <2>3, <2>4, OpKept
<1> QED BY <1>2, <1>3

\* The steps of an enqueue or a dequeue.
LEMMA OpQueue ==
  ASSUME OpInv, NEW t \in Threads,
         \/ EnqReserve(t) \/ EnqCheck(t) \/ EnqWrite(t) \/ EnqMark(t)
         \/ DeqReserve(t) \/ DeqReload(t) \/ DeqClaim(t) \/ DeqCopy(t) \/ DeqMark(t)
  PROVE  OpInv'
<1>1. use' = use /\ loc[t].op \in use.ops
  BY DEF EnqReserve, EnqCheck, EnqWrite, EnqMark, DeqReserve, DeqReload, DeqClaim, DeqCopy, DeqMark,
         Local, At, OpInv, Belongs
<1>2. CASE EnqReserve(t) \/ EnqCheck(t) \/ EnqWrite(t) \/ EnqMark(t)
  <2>1. loc[t].op = "enqueue"
    BY <1>2 DEF EnqReserve, EnqCheck, EnqWrite, EnqMark, At, OpInv, Belongs
  <2>2. Fail(t) \/ \E p \in {"enqCheck", "enqWrite", "enqMark", "unlock"} :
                     Go(t, p) \/ \E x : GoIdx(t, p, x)
    BY <1>2 DEF EnqReserve, EnqCheck, EnqWrite, EnqMark
  <2>3. Alone(t) /\ loc'[t].pc \in {"enqCheck", "enqWrite", "enqMark", "unlock", "done"}
    BY <2>2, Moved DEF OpInv
  <2>4. Belongs(loc[t])'
    BY <1>1, <2>1, <2>3 DEF Belongs, Alone
  <2> QED BY <1>1, <2>3, <2>4, OpKept
<1>3. CASE DeqReserve(t) \/ DeqReload(t) \/ DeqClaim(t) \/ DeqCopy(t) \/ DeqMark(t)
  <2>1. loc[t].op = "dequeue"
    BY <1>3 DEF DeqReserve, DeqReload, DeqClaim, DeqCopy, DeqMark, At, OpInv, Belongs
  <2>2. \E p \in {"deqReload", "deqClaim", "deqCopy", "deqMark", "unlock"} :
          Go(t, p) \/ \E x : GoIdx(t, p, x) \/ GoVal(t, p, x)
    BY <1>3 DEF DeqReserve, DeqReload, DeqClaim, DeqCopy, DeqMark
  <2>3. Alone(t) /\ loc'[t].pc \in {"deqReload", "deqClaim", "deqCopy", "deqMark", "unlock"}
    BY <2>2, Moved DEF OpInv
  <2>4. Belongs(loc[t])'
    BY <1>1, <2>1, <2>3 DEF Belongs, Alone
  <2> QED BY <1>1, <2>3, <2>4, OpKept
<1> QED BY <1>2, <1>3

\* Every step keeps the program counters in the operations that were called.
LEMMA OpInductive == OpInv /\ [Next]_vars => OpInv'
<1> SUFFICES ASSUME OpInv, [Next]_vars PROVE OpInv'
  OBVIOUS
<1>1. CASE Next
  <2> PICK t \in Threads : Step(t) \/ \E o \in UNION Kinds : Call(t, o)
    BY <1>1 DEF Next
  <2> QED BY OpCalls, OpLocks, OpStack, OpQueue DEF Step
<1>2. CASE UNCHANGED vars
  BY <1>2 DEF vars, OpInv, Shaped, Belongs, Build
<1> QED BY <1>1, <1>2

-------------------------------------------------------------------------------
(* The elements of a queue *)

\* The array is used as a queue, and as it should be.
AsQueue == use.ops = {"enqueue", "dequeue"} /\ Disciplined

QueuePC == {"idle", "lock", "enqReserve", "enqCheck", "enqWrite", "enqMark",
            "deqReserve", "deqClaim", "deqCopy", "deqMark", "unlock", "done"}

QueueLocals == [pc : QueuePC, op : {"none", "enqueue", "dequeue"}, v : Value \cup {Undef},
                idx : Int, ok : BOOLEAN]

Fills(l)  == l.pc \in {"enqCheck", "enqWrite", "enqMark"}
Claims(l) == l.pc = "deqClaim"

\* l: EMSdequeue has read, or is reading, an element it does not give back yet.
Reads(l) == \/ l.pc \in {"deqCopy", "deqMark"}
            \/ l.pc = "unlock" /\ l.op = "dequeue" /\ l.idx >= 0

\* The local idx of an operation and the value it has in hand.
FitsQueue(l) ==
  /\ l.pc \in {"enqReserve", "enqCheck", "enqWrite", "enqMark"} => l.op = "enqueue"
  /\ l.pc \in {"deqReserve", "deqClaim", "deqCopy", "deqMark"} => l.op = "dequeue"
  /\ l.op = "enqueue" => l.v \in Value \ HeapValue
  /\ Fills(l) => l.idx = (top - 1) % N /\ top > 0
  /\ Claims(l) \/ Reads(l) => l.idx = (bottom - 1) % N /\ bottom > 0
  /\ l.pc = "enqMark" \/ l.pc = "deqCopy" => cell[l.idx].v # Undef
  /\ l.op = "dequeue" /\ l.pc \in {"lock", "deqReserve", "deqClaim", "deqCopy"} => l.v = Undef
  /\ l.pc = "deqMark" => l.v # Undef
  /\ l.op = "dequeue" /\ l.pc \in {"unlock", "done"} => (l.idx >= 0 <=> l.v # Undef)

\* The positions of the values in FULL elements: from FirstFull to Filled - 1.
FirstFull == bottom - (IF \E t \in Threads : Claims(loc[t]) THEN 1 ELSE 0)
Filled    == top - (IF \E t \in Threads : Fills(loc[t]) THEN 1 ELSE 0)

FullCells ==
  \A i \in Slots : cell[i].fe = "FULL" =>
    cell[i].v # Undef /\ \E p \in FirstFull .. Filled - 1 : i = p % N

\* No element is claimed before it has been filled.
InOrder == FirstFull <= Filled

\* The calls that will add a value, and those that have removed one.
AddsL(l)    == l.op \in {"push", "enqueue"} /\ l.pc \in {"lock", "pushReserve", "enqReserve"}
RemovesL(l) == /\ l.op \in {"pop", "dequeue"} /\ l.idx >= 0
               /\ l.pc \in {"popClaim", "popCopy", "popMark", "deqClaim", "deqCopy", "deqMark",
                            "unlock", "done"}
Adding   == {t \in Threads : AddsL(loc[t])}
Removing == {t \in Threads : RemovesL(loc[t])}

\* Every value outstanding is counted once: not yet in the array, in it, or taken.
Balance ==
  /\ IsFiniteSet(Adding) /\ IsFiniteSet(Removing)
  /\ live \in Nat /\ live <= MaxLive
  /\ Cardinality(Adding) + (top - bottom) + Cardinality(Removing) <= live

QueueTyped ==
  /\ use \in Uses /\ top \in Nat /\ bottom \in Nat /\ bottom <= top
  /\ cell \in [Slots -> [fe : {"FULL", "EMPTY", "BUSY"}, v : (Value \ HeapValue) \cup {Undef}]]
  /\ loc \in [Threads -> QueueLocals]

Fit == \A t \in Threads : FitsQueue(loc[t])

QueueInv == QueueTyped /\ Fit /\ FullCells /\ InOrder /\ Balance

-------------------------------------------------------------------------------

\* A position has an element.
LEMMA ModRange == ASSUME NEW n \in Nat \ {0}, NEW a \in Nat PROVE a % n \in 0 .. n - 1
OBVIOUS

\* Fewer than n consecutive positions fall on different elements.
LEMMA ModDistinct ==
  ASSUME NEW n \in Nat \ {0}, NEW a \in Nat, NEW b \in Nat, a % n = b % n,
         a - b < n, b - a < n
  PROVE  a = b
<1> DEFINE p == a \div n
           q == b \div n
<1>1. p \in Int /\ q \in Int /\ a = n * p + (a % n) /\ b = n * q + (b % n)
  OBVIOUS
<1>2. a - b = n * (p - q)
  <2>1. n * p - n * q = n * (p - q)
    BY <1>1
  <2> QED BY <1>1, <2>1
<1> HIDE DEF p, q
<1>3. p - q >= 1 => n * (p - q) >= n
  BY <1>1
<1>4. q - p >= 1 => n * (q - p) >= n
  BY <1>1
<1>5. n * (q - p) = b - a
  BY <1>1, <1>2
<1>6. p = q
  BY <1>1, <1>2, <1>3, <1>4, <1>5
<1> QED BY <1>1, <1>2, <1>6

\* What a disciplined use of a queue gives.
LEMMA QueueUse ==
  ASSUME OpInv, AsQueue
  PROVE  /\ N \in Nat \ {0} /\ Slots = 0 .. N - 1 /\ Build = "O1" /\ ~use.heapFills
         /\ MaxLive \in Nat /\ MaxLive <= N /\ use.values \subseteq Value \ HeapValue
         /\ Undef \notin Value /\ use.ops = {"enqueue", "dequeue"}
<1>1. use.values \cap HeapValue = {}
  BY DEF AsQueue, Disciplined
<1> QED BY <1>1, UseKinds, StackQueueAssumption DEF AsQueue, Disciplined, Slots

\* Moving on keeps the locals in their types.
LEMMA MovedTyped ==
  ASSUME loc \in [Threads -> QueueLocals], NEW t \in Threads, NEW p \in QueuePC, NEW x
  PROVE  /\ Go(t, p) => loc' \in [Threads -> QueueLocals]
         /\ GoIdx(t, p, x) /\ x \in Int => loc' \in [Threads -> QueueLocals]
         /\ GoVal(t, p, x) /\ x \in Value \cup {Undef} => loc' \in [Threads -> QueueLocals]
<1>1. Go(t, p) => loc' \in [Threads -> QueueLocals]
  BY DEF Go, QueueLocals
<1>2. GoIdx(t, p, x) /\ x \in Int => loc' \in [Threads -> QueueLocals]
  <2> SUFFICES ASSUME GoIdx(t, p, x), x \in Int
               PROVE  loc' \in [Threads -> QueueLocals]
    OBVIOUS
  <2> DEFINE l == [loc[t] EXCEPT !.pc = p, !.idx = x]
  <2>1. l \in QueueLocals
    BY DEF QueueLocals
  <2>2. loc' = [loc EXCEPT ![t] = l]
    BY DEF GoIdx, QueueLocals
  <2> HIDE DEF l
  <2> QED BY <2>1, <2>2
<1>3. GoVal(t, p, x) /\ x \in Value \cup {Undef} => loc' \in [Threads -> QueueLocals]
  <2> SUFFICES ASSUME GoVal(t, p, x), x \in Value \cup {Undef}
               PROVE  loc' \in [Threads -> QueueLocals]
    OBVIOUS
  <2> DEFINE l == [loc[t] EXCEPT !.pc = p, !.v = x]
  <2>1. l \in QueueLocals
    BY DEF QueueLocals
  <2>2. loc' = [loc EXCEPT ![t] = l]
    BY DEF GoVal, QueueLocals
  <2> HIDE DEF l
  <2> QED BY <2>1, <2>2
<1> QED BY <1>1, <1>2, <1>3

\* The tag of STACKTOP keeps other enqueues from filling elements.
LEMMA OneFills ==
  ASSUME IndexInv, OpInv, NEW t \in Threads, NEW u \in Threads, u # t,
         InCritical(t), loc[t].op = "enqueue"
  PROVE  ~Fills(loc[u])
<1> SUFFICES ASSUME Fills(loc[u]) PROVE FALSE
  OBVIOUS
<1>1. loc[u].op = "enqueue" /\ InCritical(u)
  BY DEF OpInv, Belongs, Fills, InCritical
<1> QED BY <1>1 DEF IndexInv, IndexExclusive, SameIndex

\* The tag of Q_BOTTOM keeps other dequeues from claiming and reading elements.
LEMMA OneReads ==
  ASSUME IndexInv, OpInv, NEW t \in Threads, NEW u \in Threads, u # t,
         InCritical(t), loc[t].op = "dequeue"
  PROVE  ~Claims(loc[u]) /\ ~Reads(loc[u])
<1> SUFFICES ASSUME Claims(loc[u]) \/ Reads(loc[u]) PROVE FALSE
  OBVIOUS
<1>1. loc[u].op = "dequeue" /\ InCritical(u)
  BY DEF OpInv, Belongs, Claims, Reads, InCritical
<1> QED BY <1>1 DEF IndexInv, IndexExclusive, SameIndex

Others(t) == \A u \in Threads : u # t => loc'[u] = loc[u]

CellsTyped == cell \in [Slots -> [fe : {"FULL", "EMPTY", "BUSY"}, v : (Value \ HeapValue) \cup {Undef}]]

\* No element loses its value.
CellsKept == \A i \in Slots : cell[i].v # Undef => cell'[i].v # Undef

\* t goes on filling or claiming its element, if it was.
SamePart(t) ==
  /\ Fills(loc[t])' <=> Fills(loc[t])
  /\ Claims(loc[t])' <=> Claims(loc[t])

\* And it adds or removes what it was going to.
SameRole(t) ==
  /\ SamePart(t)
  /\ AddsL(loc[t])' <=> AddsL(loc[t])
  /\ RemovesL(loc[t])' <=> RemovesL(loc[t])

\* The other threads are not disturbed.
LEMMA OthersFit ==
  ASSUME OpInv, AsQueue, QueueTyped, Fit, NEW u \in Threads, loc'[u] = loc[u], use' = use,
         CellsKept, top' = top \/ (~Fills(loc[u]) /\ top' \in Nat),
         bottom' = bottom \/ (~Claims(loc[u]) /\ ~Reads(loc[u]))
  PROVE  FitsQueue(loc[u])'
<1> DEFINE l == loc[u]
<1>1. FitsQueue(l) /\ N \in Nat \ {0} /\ Slots = 0 .. N - 1 /\ top \in Nat /\ bottom \in Nat
  BY QueueUse DEF Fit, QueueTyped
<1>2. l.pc = "enqMark" \/ l.pc = "deqCopy" => l.idx \in Slots
  <2>1. Fills(l) => top - 1 \in Nat /\ l.idx = (top - 1) % N
    BY <1>1 DEF FitsQueue
  <2>2. Reads(l) => bottom - 1 \in Nat /\ l.idx = (bottom - 1) % N
    BY <1>1 DEF FitsQueue
  <2>3. (l.pc = "enqMark" => Fills(l)) /\ (l.pc = "deqCopy" => Reads(l))
    BY DEF Fills, Reads
  <2> QED BY <1>1, <2>1, <2>2, <2>3, ModRange
<1>3. l.pc = "enqMark" \/ l.pc = "deqCopy" => cell'[l.idx].v # Undef
  BY <1>1, <1>2 DEF FitsQueue, CellsKept
<1>4. N' = N
  BY DEF N
<1>5. Fills(l) => l.idx = (top' - 1) % N /\ top' > 0
  BY <1>1 DEF FitsQueue
<1>6. Claims(l) \/ Reads(l) => l.idx = (bottom' - 1) % N /\ bottom' > 0
  BY <1>1 DEF FitsQueue
<1> QED BY <1>1, <1>3, <1>4, <1>5, <1>6 DEF FitsQueue, Fills, Claims, Reads

\* A step that moves no index and fills or claims no element.
LEMMA QuietStep ==
  ASSUME OpInv, AsQueue, QueueInv, NEW t \in Threads, Others(t), UNCHANGED <<use, top, bottom>>,
         loc' \in [Threads -> QueueLocals], FitsQueue(loc[t])', CellsTyped', CellsKept,
         \A i \in Slots : cell'[i].fe = "FULL" => cell[i].fe = "FULL",
         SamePart(t)
  PROVE  QueueTyped' /\ Fit' /\ FullCells' /\ InOrder'
<1>1. QueueTyped'
  BY DEF QueueInv, QueueTyped, CellsTyped
<1>2. Fit'
  BY OthersFit DEF Fit, QueueInv, Others
<1>3. FirstFull' = FirstFull /\ Filled' = Filled
  <2>1. \A u \in Threads : (Fills(loc[u])' <=> Fills(loc[u])) /\ (Claims(loc[u])' <=> Claims(loc[u]))
    BY DEF Others, Fills, Claims, SamePart
  <2> QED BY <2>1 DEF FirstFull, Filled
<1>4. N' = N /\ Slots' = Slots
  BY DEF N, Slots
<1>5. FullCells'
  BY <1>3, <1>4 DEF FullCells, QueueInv, CellsKept
<1>6. InOrder'
  BY <1>3 DEF InOrder, QueueInv
<1> QED BY <1>1, <1>2, <1>5, <1>6

\* A step that adds and removes no value.
LEMMA BalanceStep ==
  ASSUME Balance, NEW t \in Threads, Others(t), UNCHANGED <<top, bottom, live>>,
         SameRole(t)
  PROVE  Balance'
<1>1. Adding' = Adding /\ Removing' = Removing
  BY DEF Others, AddsL, RemovesL, Adding, Removing, SameRole
<1> QED BY <1>1 DEF Balance

Context == IndexInv /\ OpInv /\ AsQueue /\ QueueInv

\* What is known of t.
LEMMA Self ==
  ASSUME Context, NEW t \in Threads
  PROVE  /\ loc \in [Threads -> QueueLocals] /\ loc[t] \in QueueLocals
         /\ FitsQueue(loc[t]) /\ Belongs(loc[t]) /\ top \in Nat /\ bottom \in Nat /\ bottom <= top
         /\ CellsTyped /\ Shaped /\ use.ops = {"enqueue", "dequeue"}
         /\ N \in Nat \ {0} /\ Slots = 0 .. N - 1
BY QueueUse DEF Context, QueueInv, QueueTyped, Fit, OpInv, CellsTyped, AsQueue

\* A step that only moves t on.
LEMMA GoStep ==
  ASSUME Context, NEW t \in Threads, NEW p \in QueuePC, Go(t, p),
         UNCHANGED <<use, top, bottom, cell, live>>, FitsQueue(loc[t])',
         SameRole(t)
  PROVE  QueueInv'
<1>1. loc' \in [Threads -> QueueLocals] /\ Others(t)
  BY Self, Moved, MovedTyped DEF Alone, Others
<1>2. CellsTyped' /\ CellsKept /\ \A i \in Slots : cell'[i].fe = "FULL" => cell[i].fe = "FULL"
  BY Self DEF CellsTyped, CellsKept, Slots, N
<1>3. QueueTyped' /\ Fit' /\ FullCells' /\ InOrder'
  BY <1>1, <1>2, QuietStep DEF Context, SameRole
<1>4. Balance'
  BY <1>1, BalanceStep DEF Context, QueueInv
<1> QED BY <1>3, <1>4 DEF QueueInv

\* Taking the tag of an index.
LEMMA LockQueue ==
  ASSUME Context, NEW t \in Threads, LockTop(t) \/ LockBottom(t)
  PROVE  QueueInv'
<1>1. /\ loc[t].pc = "lock" /\ Go(t, Start(loc[t].op))
      /\ UNCHANGED <<use, top, bottom, cell, live>>
  BY DEF LockTop, LockBottom, At, Local
<1>2. loc[t].op \in {"enqueue", "dequeue"}
  BY <1>1, Self DEF Belongs
<1>3. Start(loc[t].op) = IF loc[t].op = "enqueue" THEN "enqReserve" ELSE "deqReserve"
  BY <1>2 DEF Start
<1>4. Start(loc[t].op) \in QueuePC
  BY <1>3 DEF QueuePC
<1>5. /\ loc'[t].pc = Start(loc[t].op) /\ loc'[t].op = loc[t].op /\ loc'[t].v = loc[t].v
      /\ loc'[t].idx = loc[t].idx
  BY <1>1, Self, Moved DEF Alone
<1>6. FitsQueue(loc[t])'
  BY <1>1, <1>2, <1>3, <1>5, Self DEF FitsQueue, Fills, Claims, Reads
<1>7. SameRole(t)
  BY <1>1, <1>2, <1>3, <1>5 DEF SameRole, SamePart, Fills, Claims, Reads, AddsL, RemovesL
<1> QED BY <1>1, <1>4, <1>6, <1>7, GoStep

\* Releasing it: every number has been copied by then.
LEMMA UnlockQueue ==
  ASSUME Context, NEW t \in Threads, UnlockTop(t) \/ UnlockBottom(t)
  PROVE  QueueInv'
<1>1. loc[t].pc = "unlock" /\ UNCHANGED <<use, top, bottom, cell, live>>
  BY DEF UnlockTop, UnlockBottom, At, Local
<1>2. ~SinksReset(t)
  BY QueueUse DEF Context, SinksReset
<1>3. ~(loc[t].op = "dequeue" /\ Idx(t) >= 0 /\ loc[t].v = Undef)
  BY <1>1, Self DEF FitsQueue, Idx
<1>4. Go(t, "done") /\ "done" \in QueuePC
  BY <1>2, <1>3 DEF UnlockTop, UnlockBottom, QueuePC
<1>5. /\ loc'[t].pc = "done" /\ loc'[t].op = loc[t].op /\ loc'[t].v = loc[t].v
      /\ loc'[t].idx = loc[t].idx
  BY <1>4, Self, Moved DEF Alone
<1>6. FitsQueue(loc[t])'
  BY <1>1, <1>5, Self DEF FitsQueue, Fills, Claims, Reads
<1>7. SameRole(t)
  BY <1>1, <1>5 DEF SameRole, SamePart, Fills, Claims, Reads, AddsL, RemovesL
<1> QED BY <1>1, <1>4, <1>6, <1>7, GoStep

\* The queue is never full: there are as many elements as values outstanding.
LEMMA NeverFull ==
  ASSUME Context
  PROVE  /\ top - bottom <= N
         /\ Removing # {} => top - bottom < N
<1>1. /\ Cardinality(Adding) \in Nat /\ Cardinality(Removing) \in Nat
      /\ Removing # {} => Cardinality(Removing) > 0
  BY FS_CardinalityType, FS_EmptySet DEF Context, QueueInv, Balance
<1>2. /\ Cardinality(Adding) + (top - bottom) + Cardinality(Removing) <= N
      /\ top \in Nat /\ bottom \in Nat /\ N \in Nat
  BY QueueUse, <1>1 DEF Context, QueueInv, Balance, QueueTyped
<1> QED BY <1>1, <1>2

\* The check of the enqueuer finds room.
LEMMA CheckQueue ==
  ASSUME Context, NEW t \in Threads, EnqCheck(t)
  PROVE  QueueInv'
<1>1. ~QueueFull
  BY NeverFull, Self DEF QueueFull
<1>2. /\ loc[t].pc = "enqCheck" /\ Go(t, "enqWrite") /\ "enqWrite" \in QueuePC
      /\ UNCHANGED <<use, top, bottom, cell, live>>
  BY <1>1 DEF EnqCheck, At, Local, shared, QueuePC
<1>3. /\ loc'[t].pc = "enqWrite" /\ loc'[t].op = loc[t].op /\ loc'[t].v = loc[t].v
      /\ loc'[t].idx = loc[t].idx
  BY <1>2, Self, Moved DEF Alone
<1>4. N' = N
  BY <1>2 DEF N
<1>5. FitsQueue(loc[t])'
  BY <1>2, <1>3, <1>4, Self DEF FitsQueue, Fills, Claims, Reads
<1>6. SameRole(t)
  BY <1>2, <1>3 DEF SameRole, SamePart, Fills, Claims, Reads, AddsL, RemovesL
<1> QED BY <1>2, <1>5, <1>6, GoStep

\* What storing a value in one element does to the elements.
LEMMA CellStored ==
  ASSUME NEW S, NEW F, NEW V, NEW c \in [S -> [fe : F, v : V]], NEW i \in S, NEW w \in V,
         NEW d, d = [c EXCEPT ![i].v = w]
  PROVE  /\ d \in [S -> [fe : F, v : V]] /\ d[i].v = w
         /\ \A j \in S : d[j].fe = c[j].fe /\ (j # i => d[j] = c[j])
<1>1. d \in [S -> [fe : F, v : V]]
  OBVIOUS
<1>2. d[i].v = w /\ d[i].fe = c[i].fe
  OBVIOUS
<1>3. \A j \in S : j # i => d[j] = c[j]
  OBVIOUS
<1> QED BY <1>1, <1>2, <1>3

\* The enqueuer stores its value.
LEMMA WriteQueue ==
  ASSUME Context, NEW t \in Threads, EnqWrite(t)
  PROVE  QueueInv'
<1>1. /\ loc[t].pc = "enqWrite" /\ UNCHANGED <<use, top, bottom, live>>
      /\ cell' = [cell EXCEPT ![loc[t].idx].v = loc[t].v] /\ Go(t, "enqMark") /\ "enqMark" \in QueuePC
  BY QueueUse DEF Context, EnqWrite, AllocFails, At, Local, Idx, QueuePC
<1>2. /\ loc'[t].pc = "enqMark" /\ loc'[t].op = loc[t].op /\ loc'[t].v = loc[t].v
      /\ loc'[t].idx = loc[t].idx
  BY <1>1, Self, Moved DEF Alone
<1>3. loc' \in [Threads -> QueueLocals] /\ Others(t)
  BY <1>1, Self, Moved, MovedTyped DEF Alone, Others
<1>4. loc[t].op = "enqueue" /\ loc[t].v \in Value \ HeapValue /\ loc[t].v # Undef
      /\ loc[t].idx = (top - 1) % N /\ top > 0
  BY <1>1, Self, QueueUse DEF FitsQueue, Fills, Context
<1>5. loc[t].idx \in Slots
  <2>1. top - 1 \in Nat
    BY <1>4, Self
  <2> QED BY <1>4, <2>1, Self, ModRange
<1>6. /\ N' = N /\ Slots' = Slots /\ cell'[loc[t].idx].v = loc[t].v
      /\ CellsTyped' /\ CellsKept /\ \A i \in Slots : cell'[i].fe = cell[i].fe
  <2>1. N' = N /\ Slots' = Slots
    BY <1>1 DEF N, Slots
  <2> DEFINE i == loc[t].idx
             w == loc[t].v
             F == {"FULL", "EMPTY", "BUSY"}
             V == (Value \ HeapValue) \cup {Undef}
  <2>2. /\ cell \in [Slots -> [fe : F, v : V]] /\ i \in Slots /\ w \in V
        /\ cell' = [cell EXCEPT ![i].v = w]
    <3>1. cell \in [Slots -> [fe : F, v : V]]
      BY Self DEF CellsTyped
    <3>2. w \in V
      BY <1>4
    <3> HIDE DEF F, V
    <3> QED BY <1>1, <1>5, <3>1, <3>2
  <2> HIDE DEF i, w, F, V
  <2>3. /\ cell' \in [Slots -> [fe : F, v : V]] /\ cell'[i].v = w
        /\ \A j \in Slots : cell'[j].fe = cell[j].fe /\ (j # i => cell'[j] = cell[j])
    BY <2>2, CellStored
  <2>4. CellsKept
    BY <1>4, <2>3 DEF CellsKept, i, w
  <2>5. CellsTyped'
    BY <2>1, <2>3 DEF CellsTyped, F, V
  <2> QED BY <2>1, <2>3, <2>4, <2>5 DEF i, w
<1>7. FitsQueue(loc[t])'
  <2>1. loc'[t].idx = (top' - 1) % N' /\ top' > 0 /\ cell'[loc'[t].idx].v # Undef
    BY <1>1, <1>2, <1>4, <1>6
  <2>2. loc'[t].op = "enqueue" /\ loc'[t].v \in Value \ HeapValue
    BY <1>2, <1>4
  <2> QED BY <1>2, <2>1, <2>2 DEF FitsQueue, Fills, Claims, Reads
<1>8. SameRole(t)
  BY <1>1, <1>2 DEF SameRole, SamePart, Fills, Claims, Reads, AddsL, RemovesL
<1>9. QueueTyped' /\ Fit' /\ FullCells' /\ InOrder'
  BY <1>1, <1>3, <1>6, <1>7, <1>8, QuietStep DEF Context, SameRole
<1>10. Balance'
  BY <1>1, <1>3, <1>8, BalanceStep DEF Context, QueueInv
<1> QED BY <1>9, <1>10 DEF QueueInv

\* A value read stays in hand until the call returns.
LEMMA CopyQueue ==
  ASSUME Context, NEW t \in Threads, DeqCopy(t)
  PROVE  QueueInv'
<1> DEFINE x == cell[loc[t].idx].v
<1>1. /\ loc[t].pc = "deqCopy" /\ GoVal(t, "deqMark", x) /\ "deqMark" \in QueuePC
      /\ UNCHANGED <<use, top, bottom, cell, live>>
  BY DEF DeqCopy, At, Local, shared, Idx, QueuePC
<1>2. loc[t].op = "dequeue" /\ loc[t].idx = (bottom - 1) % N /\ bottom > 0 /\ x # Undef
  BY <1>1, Self DEF FitsQueue, Reads
<1>3. loc[t].idx \in Slots
  <2>1. bottom - 1 \in Nat
    BY <1>2, Self
  <2> QED BY <1>2, <2>1, Self, ModRange
<1>4. x \in Value \cup {Undef}
  BY <1>3, Self DEF CellsTyped
<1> HIDE DEF x
<1>5. /\ loc'[t].pc = "deqMark" /\ loc'[t].op = loc[t].op /\ loc'[t].v = x
      /\ loc'[t].idx = loc[t].idx
  BY <1>1, Self, Moved DEF Alone
<1>6. loc' \in [Threads -> QueueLocals] /\ Others(t)
  BY <1>1, <1>4, Self, Moved, MovedTyped DEF Alone, Others
<1>7. FitsQueue(loc[t])'
  <2>1. N' = N
    BY <1>1 DEF N
  <2> QED BY <1>1, <1>2, <1>5, <2>1 DEF FitsQueue, Fills, Claims, Reads
<1>8. SameRole(t)
  BY <1>1, <1>5 DEF SameRole, SamePart, Fills, Claims, Reads, AddsL, RemovesL
<1>9. CellsTyped' /\ CellsKept /\ \A i \in Slots : cell'[i].fe = "FULL" => cell[i].fe = "FULL"
  BY <1>1, Self DEF CellsTyped, CellsKept, Slots, N
<1>10. QueueTyped' /\ Fit' /\ FullCells' /\ InOrder'
  BY <1>1, <1>6, <1>7, <1>8, <1>9, QuietStep DEF Context, SameRole
<1>11. Balance'
  BY <1>1, <1>6, <1>8, BalanceStep DEF Context, QueueInv
<1> QED BY <1>10, <1>11 DEF QueueInv

\* What SetFE does to the elements.
LEMMA SetCells ==
  ASSUME CellsTyped, use' = use, NEW i \in Slots, NEW f \in {"FULL", "EMPTY", "BUSY"}, SetFE(i, f)
  PROVE  /\ CellsTyped' /\ CellsKept /\ \A j \in Slots : cell'[j].v = cell[j].v
         /\ \A j \in Slots : cell'[j].fe = IF j = i THEN f ELSE cell[j].fe
BY DEF CellsTyped, CellsKept, SetFE, Slots, N

\* The dequeuer gives its element back.
LEMMA MarkEmptyQueue ==
  ASSUME Context, NEW t \in Threads, DeqMark(t)
  PROVE  QueueInv'
<1>1. /\ loc[t].pc = "deqMark" /\ Go(t, "unlock") /\ "unlock" \in QueuePC
      /\ UNCHANGED <<use, top, bottom, live>> /\ SetFE(loc[t].idx, "EMPTY")
  BY DEF DeqMark, At, Local, Idx, QueuePC
<1>2. loc[t].op = "dequeue" /\ loc[t].idx = (bottom - 1) % N /\ bottom > 0 /\ loc[t].v # Undef
  BY <1>1, Self DEF FitsQueue, Reads
<1>3. loc[t].idx \in Slots
  <2>1. bottom - 1 \in Nat
    BY <1>2, Self
  <2> QED BY <1>2, <2>1, Self, ModRange
<1>4. /\ loc'[t].pc = "unlock" /\ loc'[t].op = loc[t].op /\ loc'[t].v = loc[t].v
      /\ loc'[t].idx = loc[t].idx
  BY <1>1, Self, Moved DEF Alone
<1>5. loc' \in [Threads -> QueueLocals] /\ Others(t)
  BY <1>1, Self, Moved, MovedTyped DEF Alone, Others
<1>6. loc[t].idx >= 0
  BY <1>3, Self
<1>7. FitsQueue(loc[t])'
  <2>1. N' = N
    BY <1>1 DEF N
  <2> QED BY <1>1, <1>2, <1>4, <1>6, <2>1 DEF FitsQueue, Fills, Claims, Reads
<1>8. SameRole(t)
  BY <1>1, <1>2, <1>4, <1>6 DEF SameRole, SamePart, Fills, Claims, Reads, AddsL, RemovesL
<1>9. CellsTyped' /\ CellsKept /\ \A i \in Slots : cell'[i].fe = "FULL" => cell[i].fe = "FULL"
  BY <1>1, <1>3, Self, SetCells
<1>10. QueueTyped' /\ Fit' /\ FullCells' /\ InOrder'
  BY <1>1, <1>5, <1>7, <1>8, <1>9, QuietStep DEF Context, SameRole
<1>11. Balance'
  BY <1>1, <1>5, <1>8, BalanceStep DEF Context, QueueInv
<1> QED BY <1>10, <1>11 DEF QueueInv

\* The element of a position.
LEMMA SlotOf ==
  ASSUME N \in Nat \ {0}, Slots = 0 .. N - 1, NEW a \in Nat
  PROVE  a % N \in Slots /\ a % N \in Int /\ a % N >= 0
<1>1. a % N \in 0 .. N - 1
  BY ModRange
<1> QED BY <1>1

\* The enqueuer takes the next position, whose element is not FULL yet.
LEMMA ReserveTopQueue ==
  ASSUME Context, NEW t \in Threads, EnqReserve(t)
  PROVE  QueueInv'
<1> DEFINE x == top % N
<1>1. /\ loc[t].pc = "enqReserve" /\ GoIdx(t, "enqCheck", x) /\ "enqCheck" \in QueuePC
      /\ top' = top + 1 /\ UNCHANGED <<use, bottom, cell, live>>
  BY DEF EnqReserve, At, Local, QueuePC
<1>2. x \in Slots /\ x \in Int
  BY Self, SlotOf
<1>3. top' \in Nat /\ top' - 1 = top /\ top' > 0 /\ bottom <= top'
  BY <1>1, Self
<1>4. N' = N /\ Slots' = Slots
  BY <1>1 DEF N, Slots
<1>5. x = (top' - 1) % N
  BY <1>3
<1> HIDE DEF x
<1>6. loc[t].op = "enqueue" /\ InCritical(t)
  BY <1>1, Self DEF FitsQueue, InCritical
<1>7. /\ loc'[t].pc = "enqCheck" /\ loc'[t].op = loc[t].op /\ loc'[t].v = loc[t].v
      /\ loc'[t].idx = x
  BY <1>1, Self, Moved DEF Alone
<1>8. loc' \in [Threads -> QueueLocals] /\ Others(t)
  BY <1>1, <1>2, Self, Moved, MovedTyped DEF Alone, Others
<1>9. \A u \in Threads : u # t => ~Fills(loc[u])
  BY <1>6, OneFills DEF Context
<1>10. QueueTyped'
  BY <1>1, <1>3, <1>4, <1>8, Self DEF QueueTyped, Context, QueueInv
<1>11. FitsQueue(loc[t])'
  BY <1>1, <1>3, <1>4, <1>5, <1>6, <1>7, Self DEF FitsQueue, Fills, Claims, Reads
<1>12. Fit'
  <2>1. CellsKept
    BY <1>1 DEF CellsKept
  <2> QED BY <1>1, <1>3, <1>8, <1>9, <1>11, <2>1, OthersFit DEF Fit, Others, Context, QueueInv
<1>13. ~Fills(loc[t]) /\ Fills(loc[t])' /\ ~Claims(loc[t]) /\ ~Claims(loc[t])'
  BY <1>1, <1>7 DEF Fills, Claims
<1>14. Filled = top /\ Filled' = top /\ FirstFull' = FirstFull
  <2>1. \A u \in Threads : ~Fills(loc[u])
    BY <1>9, <1>13
  <2>2. Filled = top
    BY <2>1, Self DEF Filled
  <2>3. Filled' = top
    BY <1>3, <1>13 DEF Filled
  <2>4. \A u \in Threads : Claims(loc[u])' <=> Claims(loc[u])
    BY <1>8, <1>13 DEF Others, Claims
  <2> QED BY <1>1, <2>2, <2>3, <2>4 DEF FirstFull
<1>15. FullCells'
  BY <1>1, <1>4, <1>14 DEF FullCells, Context, QueueInv
<1>16. InOrder'
  BY <1>14 DEF InOrder, Context, QueueInv
<1>17. Balance'
  <2>1. t \in Adding /\ Adding' = Adding \ {t}
    BY <1>1, <1>6, <1>7, <1>8 DEF Adding, AddsL, Others
  <2>2. Removing' = Removing
    BY <1>6, <1>7, <1>8 DEF Removing, RemovesL, Others
  <2>3. IsFiniteSet(Adding) /\ Cardinality(Adding) \in Nat /\ IsFiniteSet(Removing) /\ Cardinality(Removing) \in Nat
    BY FS_CardinalityType DEF Context, QueueInv, Balance
  <2>4. IsFiniteSet(Adding') /\ Cardinality(Adding') = Cardinality(Adding) - 1
    BY <2>1, <2>3, FS_RemoveElement
  <2>5. Cardinality(Adding') + (top' - bottom') + Cardinality(Removing') <= live'
    <3>1. Cardinality(Adding) + (top - bottom) + Cardinality(Removing) <= live /\ live \in Nat
      BY DEF Context, QueueInv, Balance
    <3> QED BY <1>1, <2>2, <2>3, <2>4, <3>1, Self
  <2> QED BY <1>1, <2>2, <2>3, <2>4, <2>5 DEF Balance, Context, QueueInv
<1> QED BY <1>10, <1>12, <1>15, <1>16, <1>17 DEF QueueInv

\* The enqueuer marks its element FULL: the position is filled.
LEMMA MarkFullQueue ==
  ASSUME Context, NEW t \in Threads, EnqMark(t)
  PROVE  QueueInv'
<1> DEFINE i == loc[t].idx
<1>1. /\ loc[t].pc = "enqMark" /\ Go(t, "unlock") /\ "unlock" \in QueuePC
      /\ UNCHANGED <<use, top, bottom, live>> /\ SetFE(i, "FULL")
  BY DEF EnqMark, At, Local, Idx, QueuePC
<1>2. loc[t].op = "enqueue" /\ i = (top - 1) % N /\ top > 0 /\ cell[i].v # Undef /\ InCritical(t)
  BY <1>1, Self DEF FitsQueue, Fills, InCritical
<1>3. i \in Slots /\ top - 1 \in Nat
  <2>1. top - 1 \in Nat
    BY <1>2, Self
  <2> QED BY <1>2, <2>1, Self, SlotOf
<1> HIDE DEF i
<1>4. /\ loc'[t].pc = "unlock" /\ loc'[t].op = loc[t].op /\ loc'[t].v = loc[t].v
      /\ loc'[t].idx = loc[t].idx
  BY <1>1, Self, Moved DEF Alone
<1>5. loc' \in [Threads -> QueueLocals] /\ Others(t)
  BY <1>1, Self, Moved, MovedTyped DEF Alone, Others
<1>6. \A u \in Threads : u # t => ~Fills(loc[u])
  BY <1>2, OneFills DEF Context
<1>7. /\ CellsTyped' /\ CellsKept /\ \A j \in Slots : cell'[j].v = cell[j].v
      /\ \A j \in Slots : cell'[j].fe = IF j = i THEN "FULL" ELSE cell[j].fe
  BY <1>1, <1>3, Self, SetCells
<1>8. N' = N /\ Slots' = Slots
  BY <1>1 DEF N, Slots
<1>9. QueueTyped'
  BY <1>1, <1>5, <1>7 DEF QueueTyped, CellsTyped, Context, QueueInv
<1>10. FitsQueue(loc[t])'
  BY <1>1, <1>2, <1>4, Self DEF FitsQueue, Fills, Claims, Reads
<1>11. Fit'
  BY <1>1, <1>5, <1>7, <1>10, OthersFit DEF Fit, Others, Context, QueueInv
<1>12. Fills(loc[t]) /\ ~Fills(loc[t])' /\ ~Claims(loc[t]) /\ ~Claims(loc[t])'
  BY <1>1, <1>4 DEF Fills, Claims
<1>13. Filled = top - 1 /\ Filled' = top /\ FirstFull' = FirstFull
  <2>1. Filled = top - 1
    BY <1>12 DEF Filled
  <2>2. \A u \in Threads : ~Fills(loc[u])'
    BY <1>5, <1>6, <1>12 DEF Others, Fills
  <2>3. Filled' = top
    BY <1>1, <2>2, Self DEF Filled
  <2>4. \A u \in Threads : Claims(loc[u])' <=> Claims(loc[u])
    BY <1>5, <1>12 DEF Others, Claims
  <2> QED BY <1>1, <2>1, <2>3, <2>4 DEF FirstFull
<1>14. FirstFull \in Int /\ FirstFull <= top - 1
  BY <1>13, Self DEF FirstFull, InOrder, Context, QueueInv
<1>15. FullCells'
  <2> SUFFICES ASSUME NEW j \in Slots, cell'[j].fe = "FULL"
               PROVE  cell'[j].v # Undef /\ \E p \in FirstFull .. top - 1 : j = p % N
    BY <1>8, <1>13 DEF FullCells
  <2>1. CASE j = i
    <3>1. top - 1 \in FirstFull .. top - 1
      BY <1>3, <1>14
    <3> QED BY <1>2, <1>3, <1>7, <2>1, <3>1
  <2>2. CASE j # i
    <3>1. cell[j].fe = "FULL" /\ cell'[j].v = cell[j].v
      BY <1>7, <2>2
    <3>2. cell[j].v # Undef /\ \E p \in FirstFull .. Filled - 1 : j = p % N
      BY <3>1 DEF FullCells, Context, QueueInv
    <3>3. \A p \in FirstFull .. Filled - 1 : p \in FirstFull .. top - 1
      BY <1>3, <1>13, <1>14
    <3> QED BY <3>1, <3>2, <3>3
  <2> QED BY <2>1, <2>2
<1>16. InOrder'
  BY <1>13, <1>14, Self DEF InOrder
<1>17. Balance'
  <2>1. Adding' = Adding /\ Removing' = Removing
    BY <1>1, <1>2, <1>4, <1>5 DEF Others, Adding, Removing, AddsL, RemovesL
  <2> QED BY <1>1, <2>1 DEF Balance, Context, QueueInv
<1> QED BY <1>9, <1>11, <1>15, <1>16, <1>17 DEF QueueInv

\* The dequeuer finds the queue empty, or takes the first position.
LEMMA ReserveBottomQueue ==
  ASSUME Context, NEW t \in Threads, DeqReserve(t)
  PROVE  QueueInv'
<1> DEFINE x == IF QueueEmpty THEN -1 - top ELSE bottom % N
           p == IF QueueEmpty THEN "unlock" ELSE "deqClaim"
<1>1. Build = "O1" /\ loc[t].pc = "deqReserve" /\ UNCHANGED <<use, top, cell, live>>
  BY QueueUse DEF DeqReserve, At, Local, Context
<1>2. GoIdx(t, p, x) /\ bottom' = IF QueueEmpty THEN top ELSE bottom + 1
  BY <1>1 DEF DeqReserve
<1>3. p \in QueuePC
  BY DEF QueuePC
<1>4. x \in Int /\ (QueueEmpty => x < 0) /\ (~QueueEmpty => x >= 0)
  <2>1. bottom % N \in Int /\ bottom % N >= 0
    BY Self, SlotOf
  <2>2. -1 - top \in Int /\ -1 - top < 0
    BY Self
  <2> QED BY <2>1, <2>2
<1>5. QueueEmpty => bottom' = bottom
  BY <1>2, Self DEF QueueEmpty
<1>6. ~QueueEmpty => bottom' = bottom + 1 /\ bottom' - 1 = bottom /\ bottom' > 0
                     /\ x = (bottom' - 1) % N
  BY <1>2, Self
<1>7. bottom' \in Nat /\ bottom' <= top
  BY <1>2, Self DEF QueueEmpty
<1>8. /\ QueueEmpty => p = "unlock"
      /\ ~QueueEmpty => p = "deqClaim"
  OBVIOUS
<1> HIDE DEF x, p
<1>9. /\ loc'[t].pc = p /\ loc'[t].op = loc[t].op /\ loc'[t].v = loc[t].v
      /\ loc'[t].idx = x
  BY <1>2, Self, Moved DEF Alone
<1>10. loc' \in [Threads -> QueueLocals] /\ Others(t)
  BY <1>2, <1>3, <1>4, Self, Moved, MovedTyped DEF Alone, Others
<1>11. loc[t].op = "dequeue" /\ loc[t].v = Undef /\ InCritical(t)
  BY <1>1, Self DEF FitsQueue, InCritical
<1>12. \A u \in Threads : u # t => ~Claims(loc[u]) /\ ~Reads(loc[u])
  BY <1>11, OneReads DEF Context
<1>13. N' = N /\ Slots' = Slots
  BY <1>1 DEF N, Slots
<1>14. QueueTyped'
  BY <1>1, <1>7, <1>10, <1>13, Self DEF QueueTyped, Context, QueueInv
<1>15. FitsQueue(loc[t])'
  <2>1. CASE QueueEmpty
    <3>1. loc'[t].pc = "unlock" /\ ~(loc'[t].idx >= 0)
      BY <1>4, <1>8, <1>9, <2>1
    <3> QED BY <1>9, <1>11, <3>1 DEF FitsQueue, Fills, Claims, Reads
  <2>2. CASE ~QueueEmpty
    BY <1>6, <1>8, <1>9, <1>11, <1>13, <2>2 DEF FitsQueue, Fills, Claims, Reads
  <2> QED BY <2>1, <2>2
<1>16. Fit'
  <2>1. CellsKept
    BY <1>1 DEF CellsKept
  <2> QED BY <1>1, <1>10, <1>12, <1>15, <2>1, OthersFit DEF Fit, Others, Context, QueueInv
<1>17. ~Fills(loc[t]) /\ ~Fills(loc[t])' /\ ~Claims(loc[t]) /\ (Claims(loc[t])' <=> ~QueueEmpty)
  BY <1>1, <1>8, <1>9 DEF Fills, Claims
<1>18. FirstFull = bottom /\ FirstFull' = bottom /\ Filled' = Filled
  <2>1. \A u \in Threads : ~Claims(loc[u])
    BY <1>12, <1>17
  <2>2. FirstFull = bottom
    BY <2>1, Self DEF FirstFull
  <2>3. (\E u \in Threads : Claims(loc[u])') <=> ~QueueEmpty
    BY <1>10, <1>12, <1>17 DEF Others, Claims
  <2>4. FirstFull' = bottom
    BY <1>5, <1>6, <2>3, Self DEF FirstFull
  <2>5. \A u \in Threads : Fills(loc[u])' <=> Fills(loc[u])
    BY <1>10, <1>17 DEF Others, Fills
  <2> QED BY <1>1, <2>2, <2>4, <2>5 DEF Filled
<1>19. FullCells' /\ InOrder'
  BY <1>1, <1>13, <1>18 DEF FullCells, InOrder, Context, QueueInv
<1>20. Balance'
  <2>1. Adding' = Adding
    BY <1>10, <1>11, <1>9 DEF Adding, AddsL, Others
  <2>2. t \notin Removing /\ Removing' = IF QueueEmpty THEN Removing ELSE Removing \cup {t}
    <3>1. ~RemovesL(loc[t])
      BY <1>1 DEF RemovesL
    <3>2. RemovesL(loc[t])' <=> ~QueueEmpty
      BY <1>4, <1>8, <1>9, <1>11 DEF RemovesL
    <3> QED BY <1>10, <3>1, <3>2 DEF Removing, RemovesL, Others
  <2>3. /\ IsFiniteSet(Removing) /\ Cardinality(Removing) \in Nat
        /\ IsFiniteSet(Adding) /\ Cardinality(Adding) \in Nat
    BY FS_CardinalityType DEF Context, QueueInv, Balance
  <2>4. IsFiniteSet(Removing') /\ Cardinality(Removing') = Cardinality(Removing) + (bottom' - bottom)
    <3>1. CASE QueueEmpty
      BY <1>5, <2>2, <2>3, <3>1, Self
    <3>2. CASE ~QueueEmpty
      <4>1. IsFiniteSet(Removing') /\ Cardinality(Removing') = Cardinality(Removing) + 1
        BY <2>2, <2>3, <3>2, FS_AddElement
      <4> QED BY <1>6, <4>1, <3>2, Self
    <3> QED BY <3>1, <3>2
  <2>5. Cardinality(Adding') + (top' - bottom') + Cardinality(Removing') <= live'
    <3>1. Cardinality(Adding) + (top - bottom) + Cardinality(Removing) <= live /\ live \in Nat
      BY DEF Context, QueueInv, Balance
    <3> QED BY <1>1, <1>7, <2>1, <2>3, <2>4, <3>1, Self
  <2> QED BY <1>1, <2>1, <2>3, <2>4, <2>5 DEF Balance, Context, QueueInv
<1> QED BY <1>14, <1>16, <1>19, <1>20 DEF QueueInv

\* The dequeuer finds its element FULL: it is the first filled position.
LEMMA ClaimQueue ==
  ASSUME Context, NEW t \in Threads, DeqClaim(t)
  PROVE  QueueInv'
<1> DEFINE i == loc[t].idx
<1>1. /\ loc[t].pc = "deqClaim" /\ UNCHANGED <<use, top, bottom, live>> /\ SetFE(i, "BUSY")
      /\ cell[i].fe = "FULL"
      /\ Go(t, IF cell[i].v \in HeapValue THEN "deqMark" ELSE "deqCopy")
  BY DEF DeqClaim, At, Local, Idx
<1>2. /\ loc[t].op = "dequeue" /\ i = (bottom - 1) % N /\ bottom > 0 /\ loc[t].v = Undef
      /\ InCritical(t)
  BY <1>1, Self DEF FitsQueue, Claims, InCritical
<1>3. i \in Slots /\ i >= 0 /\ bottom - 1 \in Nat
  <2>1. bottom - 1 \in Nat
    BY <1>2, Self
  <2> QED BY <1>2, <2>1, Self, SlotOf
<1>4. cell[i].v \notin HeapValue
  <2>1. cell[i].v \in (Value \ HeapValue) \cup {Undef}
    BY <1>3, Self DEF CellsTyped
  <2> QED BY <2>1, StackQueueAssumption
<1>5. Go(t, "deqCopy") /\ "deqCopy" \in QueuePC
  BY <1>1, <1>4 DEF QueuePC
<1> HIDE DEF i
<1>6. /\ loc'[t].pc = "deqCopy" /\ loc'[t].op = loc[t].op /\ loc'[t].v = loc[t].v
      /\ loc'[t].idx = i
  BY <1>5, Self, Moved DEF Alone, i
<1>7. loc' \in [Threads -> QueueLocals] /\ Others(t)
  BY <1>5, Self, Moved, MovedTyped DEF Alone, Others
<1>8. \A u \in Threads : u # t => ~Claims(loc[u]) /\ ~Reads(loc[u])
  BY <1>2, OneReads DEF Context
<1>9. /\ CellsTyped' /\ CellsKept /\ \A j \in Slots : cell'[j].v = cell[j].v
      /\ \A j \in Slots : cell'[j].fe = IF j = i THEN "BUSY" ELSE cell[j].fe
  BY <1>1, <1>3, Self, SetCells
<1>10. N' = N /\ Slots' = Slots
  BY <1>1 DEF N, Slots
<1>11. QueueTyped'
  BY <1>1, <1>7, <1>9 DEF QueueTyped, CellsTyped, Context, QueueInv
<1>12. Claims(loc[t]) /\ ~Claims(loc[t])' /\ ~Fills(loc[t]) /\ ~Fills(loc[t])'
  BY <1>1, <1>6 DEF Claims, Fills
<1>13. FirstFull = bottom - 1 /\ FirstFull' = bottom /\ Filled' = Filled
  <2>1. FirstFull = bottom - 1
    BY <1>12 DEF FirstFull
  <2>2. \A u \in Threads : ~Claims(loc[u])'
    BY <1>7, <1>8, <1>12 DEF Others, Claims
  <2>3. FirstFull' = bottom
    BY <1>1, <2>2, Self DEF FirstFull
  <2>4. \A u \in Threads : Fills(loc[u])' <=> Fills(loc[u])
    BY <1>7, <1>12 DEF Others, Fills
  <2> QED BY <1>1, <2>1, <2>3, <2>4 DEF Filled
<1>14. cell[i].v # Undef /\ \E p \in bottom - 1 .. Filled - 1 : i = p % N
  BY <1>1, <1>3, <1>13 DEF FullCells, Context, QueueInv
<1>15. Filled \in Int /\ Filled <= top
  BY Self DEF Filled
<1>16. InOrder'
  <2>1. PICK p \in bottom - 1 .. Filled - 1 : i = p % N
    BY <1>14
  <2>2. t \in Removing
    BY <1>1, <1>2, <1>3 DEF Removing, RemovesL, i
  <2>3. top - bottom < N
    BY <2>2, NeverFull
  <2>4. p \in Nat /\ p - (bottom - 1) < N /\ (bottom - 1) - p < N
    BY <1>3, <1>15, <2>3, Self
  <2>5. p % N = (bottom - 1) % N
    BY <1>2, <2>1 DEF i
  <2>6. p = bottom - 1
    BY <1>3, <2>4, <2>5, Self, ModDistinct
  <2>7. bottom <= Filled
    BY <1>3, <1>15, <2>1, <2>6, Self
  <2> QED BY <1>13, <2>7 DEF InOrder
<1>17. FullCells'
  <2> SUFFICES ASSUME NEW j \in Slots, cell'[j].fe = "FULL"
               PROVE  cell'[j].v # Undef /\ \E p \in bottom .. Filled - 1 : j = p % N
    BY <1>10, <1>13 DEF FullCells
  <2>1. j # i /\ cell[j].fe = "FULL" /\ cell'[j].v = cell[j].v
    BY <1>9
  <2>2. cell[j].v # Undef /\ \E p \in bottom - 1 .. Filled - 1 : j = p % N
    BY <1>13, <2>1 DEF FullCells, Context, QueueInv
  <2>3. PICK p \in bottom - 1 .. Filled - 1 : j = p % N
    BY <2>2
  <2>4. p # bottom - 1
    BY <1>2, <2>1, <2>3 DEF i
  <2>5. p \in bottom .. Filled - 1
    BY <1>15, <2>3, <2>4, Self
  <2> QED BY <2>1, <2>2, <2>3, <2>5
<1>18. FitsQueue(loc[t])'
  <2>1. cell'[i].v # Undef
    BY <1>3, <1>9, <1>14
  <2> QED BY <1>1, <1>2, <1>6, <1>10, <2>1 DEF FitsQueue, Fills, Claims, Reads, i
<1>19. Fit'
  BY <1>1, <1>7, <1>9, <1>18, OthersFit DEF Fit, Others, Context, QueueInv
<1>20. Balance'
  <2>1. Adding' = Adding /\ Removing' = Removing
    BY <1>1, <1>2, <1>3, <1>6, <1>7 DEF Others, Adding, Removing, AddsL, RemovesL, i
  <2> QED BY <1>1, <2>1 DEF Balance, Context, QueueInv
<1> QED BY <1>11, <1>16, <1>17, <1>19, <1>20 DEF QueueInv

\* Fewer than MaxLive values are outstanding when another is added.
LEMMA CallQueue ==
  ASSUME Context, NEW t \in Threads, NEW o \in UNION Kinds, Call(t, o)
  PROVE  QueueInv'
<1>1. PICK v \in IF o \in Adds THEN use.values ELSE {Undef} :
        loc' = [loc EXCEPT ![t] = [Idle EXCEPT !.pc = "lock", !.op = o, !.v = v]]
  BY DEF Call
<1> DEFINE m == [Idle EXCEPT !.pc = "lock", !.op = o, !.v = v]
<1>2. /\ loc[t].pc = "idle" /\ UNCHANGED <<use, top, bottom, cell>>
      /\ o \in {"enqueue", "dequeue"} /\ (o = "enqueue" => live < MaxLive)
      /\ live' = IF o = "enqueue" THEN live + 1 ELSE live
  BY Self DEF Call, At, shared, Adds
<1>3. IF o = "enqueue" THEN v \in Value \ HeapValue ELSE v = Undef
  BY <1>1, <1>2, QueueUse DEF Context, Adds
<1>4. m \in QueueLocals /\ m.pc = "lock" /\ m.op = o /\ m.v = v
  <2>1. v \in Value \cup {Undef}
    BY <1>3
  <2>2. Idle \in QueueLocals /\ "lock" \in QueuePC
    BY DEF Idle, QueueLocals, QueuePC
  <2> QED BY <1>2, <2>1, <2>2 DEF QueueLocals
<1> HIDE DEF m
<1>5. loc' \in [Threads -> QueueLocals] /\ Others(t) /\ loc'[t] = m
  BY <1>1, <1>4, Self DEF Others, m
<1>6. FitsQueue(loc[t])'
  BY <1>2, <1>3, <1>4, <1>5 DEF FitsQueue, Fills, Claims, Reads
<1>7. loc[t].op = "none"
  BY <1>2, Self DEF Belongs
<1>8. CellsTyped' /\ CellsKept /\ \A i \in Slots : cell'[i].fe = "FULL" => cell[i].fe = "FULL"
  BY <1>2, Self DEF CellsTyped, CellsKept, Slots, N
<1>9./\ SamePart(t) /\ (RemovesL(loc[t])' <=> RemovesL(loc[t]))
      /\ ~AddsL(loc[t]) /\ (AddsL(loc[t])' <=> o = "enqueue")
  BY <1>2, <1>4, <1>5 DEF SamePart, Fills, Claims, AddsL, RemovesL
<1>10. QueueTyped' /\ Fit' /\ FullCells' /\ InOrder'
  BY <1>2, <1>5, <1>6, <1>8, <1>9, QuietStep DEF Context, SameRole
<1>11. Balance'
  <2>1. Removing' = Removing
    BY <1>5, <1>9 DEF Others, Removing, RemovesL
  <2>2. t \notin Adding /\ Adding' = IF o = "enqueue" THEN Adding \cup {t} ELSE Adding
    BY <1>5, <1>9 DEF Others, Adding, AddsL
  <2>3. /\ IsFiniteSet(Removing) /\ Cardinality(Removing) \in Nat
        /\ IsFiniteSet(Adding) /\ Cardinality(Adding) \in Nat
    BY FS_CardinalityType DEF Context, QueueInv, Balance
  <2>4. /\ IsFiniteSet(Adding')
        /\ Cardinality(Adding') = IF o = "enqueue" THEN Cardinality(Adding) + 1 ELSE Cardinality(Adding)
    BY <2>2, <2>3, FS_AddElement
  <2>5. Cardinality(Adding) + (top - bottom) + Cardinality(Removing) <= live /\ live \in Nat /\ live <= MaxLive
    BY DEF Context, QueueInv, Balance
  <2>6. live' \in Nat /\ live' <= MaxLive
    BY <1>2, <2>5, QueueUse DEF Context
  <2>7. Cardinality(Adding') + (top' - bottom') + Cardinality(Removing') <= live'
    BY <1>2, <2>1, <2>3, <2>4, <2>5, Self
  <2> QED BY <2>1, <2>3, <2>4, <2>6, <2>7 DEF Balance
<1> QED BY <1>10, <1>11 DEF QueueInv

\* A value leaves the queue when the call that removed it returns.
LEMMA FinishQueue ==
  ASSUME Context, NEW t \in Threads, Finish(t)
  PROVE  QueueInv'
<1>1. /\ loc[t].pc = "done" /\ UNCHANGED <<use, top, bottom, cell>> /\ loc' = [loc EXCEPT ![t] = Idle]
      /\ live' = IF loc[t].op = "dequeue" /\ loc[t].v # Undef THEN live - 1 ELSE live
  <2>1. loc[t].op \in {"enqueue", "dequeue"}
    BY Self DEF Belongs, Finish, At
  <2> QED BY <2>1 DEF Finish, At, shared, Adds
<1>2. Idle \in QueueLocals
  BY DEF Idle, QueueLocals, QueuePC
<1>3. loc' \in [Threads -> QueueLocals] /\ Others(t) /\ loc'[t] = Idle
  BY <1>1, <1>2, Self DEF Others
<1>4. FitsQueue(loc[t])'
  BY <1>3, IdleFields DEF FitsQueue, Fills, Claims, Reads
<1>5. CellsTyped' /\ CellsKept /\ \A i \in Slots : cell'[i].fe = "FULL" => cell[i].fe = "FULL"
  BY <1>1, Self DEF CellsTyped, CellsKept, Slots, N
<1>6./\ SamePart(t) /\ (AddsL(loc[t])' <=> AddsL(loc[t]))
      /\ ~RemovesL(loc[t])'
  BY <1>1, <1>3, IdleFields DEF SamePart, Fills, Claims, AddsL, RemovesL
<1>7. RemovesL(loc[t]) <=> loc[t].op = "dequeue" /\ loc[t].v # Undef
  BY <1>1, Self DEF RemovesL, FitsQueue, Belongs
<1>8. QueueTyped' /\ Fit' /\ FullCells' /\ InOrder'
  BY <1>1, <1>3, <1>4, <1>5, <1>6, QuietStep DEF Context, SameRole
<1>9. Balance'
  <2>1. Adding' = Adding
    BY <1>3, <1>6 DEF Others, Adding, AddsL
  <2>2. Removing' = Removing \ {t} /\ (t \in Removing <=> RemovesL(loc[t]))
    BY <1>3, <1>6 DEF Others, Removing, RemovesL
  <2>3. /\ IsFiniteSet(Removing) /\ Cardinality(Removing) \in Nat
        /\ IsFiniteSet(Adding) /\ Cardinality(Adding) \in Nat
    BY FS_CardinalityType DEF Context, QueueInv, Balance
  <2>4. /\ IsFiniteSet(Removing') /\ Cardinality(Removing') \in Nat
        /\ Cardinality(Removing') = IF t \in Removing THEN Cardinality(Removing) - 1 ELSE Cardinality(Removing)
    BY <2>2, <2>3, FS_RemoveElement, FS_CardinalityType
  <2>5. Cardinality(Adding) + (top - bottom) + Cardinality(Removing) <= live /\ live \in Nat /\ live <= MaxLive
    BY DEF Context, QueueInv, Balance
  <2>6. live' = IF t \in Removing THEN live - 1 ELSE live
    BY <1>1, <1>7, <2>2
  <2>7. Cardinality(Adding') + (top' - bottom') + Cardinality(Removing') <= live'
    <3>1. Cardinality(Adding') = Cardinality(Adding) /\ top' - bottom' = top - bottom
      BY <1>1, <2>1
    <3>2. top - bottom \in Int
      BY Self
    <3>3. Cardinality(Removing') <= Cardinality(Removing) - (live - live')
      BY <2>3, <2>4, <2>5, <2>6
    <3>4. live' \in Int
      BY <2>5, <2>6
    <3> QED BY <2>3, <2>4, <2>5, <3>1, <3>2, <3>3, <3>4
  <2>8. live' \in Nat /\ live' <= MaxLive
    <3>1. top' - bottom' \in Nat
      BY <1>1, Self
    <3>2. live' \in Int /\ live' <= live
      BY <2>5, <2>6
    <3>3. MaxLive \in Nat
      BY QueueUse DEF Context
    <3>4. Cardinality(Adding') \in Nat
      BY <2>1, <2>3
    <3>5. live' >= 0
      BY <2>4, <2>7, <3>1, <3>2, <3>4
    <3> QED BY <2>5, <3>2, <3>3, <3>5
  <2> QED BY <2>1, <2>3, <2>4, <2>7, <2>8 DEF Balance
<1> QED BY <1>8, <1>9 DEF QueueInv

\* The steps of a stack, the late copy of a string and the stores that another build
\* delays: a disciplined use of a queue takes none of them.
LEMMA NotInQueue ==
  ASSUME Context, NEW t \in Threads
  PROVE  ~ (\/ PushReserve(t) \/ PushClaim(t) \/ PushWrite(t) \/ PushMark(t)
            \/ PopReserve(t) \/ PopClaim(t) \/ PopCopy(t) \/ PopMark(t)
            \/ Reset(t) \/ DeqReload(t) \/ DeqLateCopy(t))
<1>1. loc[t].pc \in QueuePC
  BY Self DEF QueueLocals
<1> QED BY <1>1 DEF QueuePC, PushReserve, PushClaim, PushWrite, PushMark, PopReserve, PopClaim,
                   PopCopy, PopMark, Reset, DeqReload, DeqLateCopy, At

\* A program uses its array in one way.
LEMMA UseFixed == [Next]_vars => use' = use
<1> SUFFICES ASSUME [Next]_vars PROVE use' = use
  OBVIOUS
<1>1. ASSUME NEW t \in Threads, Step(t) PROVE use' = use
  BY <1>1 DEF Step, Local, LockTop, LockBottom, UnlockTop, UnlockBottom, Reset, PushReserve,
       PushClaim, PushWrite, PushMark, PopReserve, PopClaim, PopCopy, PopMark, EnqReserve,
       EnqCheck, EnqWrite, EnqMark, DeqReserve, DeqReload, DeqClaim, DeqCopy, DeqMark,
       DeqLateCopy, Finish
<1>2. ASSUME NEW t \in Threads, NEW o \in UNION Kinds, Call(t, o) PROVE use' = use
  BY <1>2 DEF Call
<1> QED BY <1>1, <1>2 DEF Next, vars

\* Initially the queue is empty.
LEMMA InitQueue ==
  ASSUME Init, AsQueue
  PROVE  QueueInv
<1>1. \A t \in Threads : loc[t] = Idle
  BY DEF Init
<1>2. \A t \in Threads : /\ ~Fills(loc[t]) /\ ~Claims(loc[t]) /\ ~AddsL(loc[t]) /\ ~RemovesL(loc[t])
                         /\ FitsQueue(loc[t])
  BY <1>1, IdleFields DEF Fills, Claims, Reads, AddsL, RemovesL, FitsQueue
<1>3. Idle \in QueueLocals
  BY DEF Idle, QueueLocals, QueuePC
<1>4. QueueTyped
  BY <1>3 DEF Init, QueueTyped
<1>5. FirstFull = 0 /\ Filled = 0
  <2>1. top = 0 /\ bottom = 0 /\ 0 - 0 = 0
    BY DEF Init
  <2>2. ~(\E t \in Threads : Claims(loc[t])) /\ ~(\E t \in Threads : Fills(loc[t]))
    BY <1>2
  <2> QED BY <2>1, <2>2 DEF FirstFull, Filled
<1>6. FullCells
  BY DEF Init, FullCells
<1>7. Adding = {} /\ Removing = {}
  BY <1>2 DEF Adding, Removing
<1>8. Balance
  BY <1>7, FS_EmptySet, StackQueueAssumption DEF Init, Balance
<1> QED BY <1>2, <1>4, <1>5, <1>6, <1>8 DEF QueueInv, Fit, InOrder

\* Every step keeps the elements of a disciplined queue in order.
LEMMA QueueInductive ==
  ASSUME Context, [Next]_vars
  PROVE  QueueInv'
<1>1. CASE Next
  <2> PICK t \in Threads : Step(t) \/ \E o \in UNION Kinds : Call(t, o)
    BY <1>1 DEF Next
  <2> QED BY LockQueue, UnlockQueue, CheckQueue, WriteQueue, CopyQueue, MarkEmptyQueue,
             ReserveTopQueue, MarkFullQueue, ReserveBottomQueue, ClaimQueue, CallQueue,
             FinishQueue, NotInQueue DEF Step
<1>2. CASE UNCHANGED vars
  <2>1. QueueInv
    BY DEF Context
  <2> QED BY <1>2, <2>1 DEF vars, shared, QueueInv, QueueTyped, Fit, FitsQueue, Fills, Claims, Reads, N,
           Slots, FullCells, InOrder, FirstFull, Filled, Balance, Adding, Removing, AddsL, RemovesL
<1> QED BY <1>1, <1>2

QueueHolds == AsQueue => QueueInv

\* The invariants of a queue hold of the specification.
LEMMA QueueInvHolds == Spec => [](IndexInv /\ OpInv /\ QueueHolds)
<1>1. Init => QueueHolds
  BY InitQueue DEF QueueHolds
<1>2. IndexInv /\ OpInv /\ QueueHolds /\ [Next]_vars => QueueHolds'
  <2> SUFFICES ASSUME IndexInv, OpInv, QueueHolds, [Next]_vars, AsQueue' PROVE QueueInv'
    BY DEF QueueHolds
  <2>1. AsQueue
    BY UseFixed DEF AsQueue, Disciplined, Build, N
  <2>2. Context
    BY <2>1 DEF Context, QueueHolds
  <2> QED BY <2>2, QueueInductive
<1> QED BY InitIndex, InitOp, <1>1, IndexInductive, OpInductive, <1>2, PTL DEF Spec

\* The element a dequeuer reads is not the one an enqueuer is filling.
LEMMA ReadFilled ==
  ASSUME Context, NEW v \in Threads, NEW w \in Threads, Fills(loc[v]), Reads(loc[w])
  PROVE  loc[v].idx # loc[w].idx
<1>1. /\ loc[v].idx = (top - 1) % N /\ top > 0 /\ loc[w].idx = (bottom - 1) % N /\ bottom > 0
      /\ loc[w].op = "dequeue" /\ InCritical(w)
  BY Self DEF FitsQueue, Reads, InCritical
<1>2. \A x \in Threads : ~Claims(loc[x])
  BY <1>1, OneReads DEF Claims, Reads, Context
<1>3. bottom <= top - 1
  <2>1. Filled = top - 1 /\ FirstFull = bottom
    BY <1>2, Self DEF Filled, FirstFull
  <2> QED BY <2>1 DEF Context, QueueInv, InOrder
<1>4. top - bottom < N
  <2>1. bottom - 1 \in Nat
    BY <1>1, Self
  <2>2. (bottom - 1) % N >= 0
    BY <2>1, Self, SlotOf
  <2>3. w \in Removing
    BY <1>1, <2>2 DEF Removing, RemovesL, Reads
  <2> QED BY <2>3, NeverFull
<1>5. (top - 1) % N # (bottom - 1) % N
  <2>1. top \in Nat /\ bottom \in Nat /\ N \in Nat \ {0}
    BY Self
  <2>2. /\ top - 1 \in Nat /\ bottom - 1 \in Nat /\ top - 1 # bottom - 1
        /\ (top - 1) - (bottom - 1) < N /\ (bottom - 1) - (top - 1) < N
    BY <1>1, <1>3, <1>4, <2>1
  <2> QED BY <2>1, <2>2, ModDistinct
<1> QED BY <1>1, <1>5

\* primitives.cc:383-395: EMSenqueue does not acquire the element it fills, yet with any
\* number of threads, elements and values no two threads use one data word at once:
\* positions in progress are fewer than N apart, and none is read before it is filled.
THEOREM SlotsExclusive == Spec => []SlotExclusive
<1>1. IndexInv /\ OpInv /\ QueueHolds => SlotExclusive
  <2> SUFFICES ASSUME IndexInv, OpInv, QueueHolds, Disciplined, NEW t \in Threads, NEW u \in Threads,
                      Touches(t), Touches(u), t # u
               PROVE  Idx(t) # Idx(u)
    BY DEF SlotExclusive
  <2>1. CASE use.ops = {"push", "pop"}
    <3>1. ASSUME NEW v \in Threads, Touches(v)
          PROVE  InCritical(v) /\ loc[v].op # "dequeue"
      <4>1. loc[v].op # "dequeue" /\ loc[v].pc # "deqLateCopy"
        BY <2>1, <3>1 DEF OpInv, Belongs, Touches
      <4> QED BY <3>1, <4>1 DEF Touches, InCritical
    <3> QED BY <3>1 DEF IndexInv, IndexExclusive, SameIndex
  <2>2. CASE use.ops = {"enqueue", "dequeue"}
    <3>1. Context
      BY <2>2 DEF Context, QueueHolds, AsQueue
    <3>2. ASSUME NEW v \in Threads, Touches(v)
          PROVE  /\ InCritical(v) /\ loc[v].op \in {"enqueue", "dequeue"}
                 /\ loc[v].op = "enqueue" => Fills(loc[v])
                 /\ loc[v].op = "dequeue" => Reads(loc[v])
      <4>1. loc[v].pc \in {"enqWrite", "enqMark", "deqCopy", "deqMark"}
            \/ (loc[v].pc = "unlock" /\ loc[v].op = "dequeue" /\ loc[v].idx >= 0)
        <5>1. loc[v].pc \in QueuePC
          BY <3>1, Self DEF QueueLocals
        <5> QED BY <3>2, <5>1 DEF Touches, QueuePC, Idx
      <4> QED BY <3>1, <4>1, Self DEF FitsQueue, Fills, Reads, InCritical
    <3>3. \A v, w \in Threads : Fills(loc[v]) /\ Reads(loc[w]) => loc[v].idx # loc[w].idx
      BY <3>1, ReadFilled
    <3>4. loc[t].op # loc[u].op
      BY <3>2 DEF IndexInv, IndexExclusive, SameIndex
    <3> QED BY <3>2, <3>3, <3>4 DEF Idx
  <2> QED BY <2>1, <2>2, UseKinds DEF Kinds
<1> QED BY QueueInvHolds, <1>1, PTL

-------------------------------------------------------------------------------
(* The elements of a stack *)

\* The array is used as a stack, and as it should be.
AsStack == use.ops = {"push", "pop"} /\ Disciplined

Pushes(l) == l.pc \in {"pushClaim", "pushWrite", "pushMark"}
Pops(l)   == l.pc \in {"popClaim", "popCopy", "popMark"}

\* The local idx of an operation and the value it has in hand.
FitsStack(l) ==
  /\ l.idx \in Int
  /\ l.op = "push" => l.v \in Value
  /\ Pushes(l) => l.idx = top - 1 /\ top > 0
  /\ Pops(l) => l.idx = top /\ l.op = "pop"
  /\ l.op = "pop" => l.pc \in {"lock", "popReserve", "popClaim", "popCopy", "popMark", "unlock", "done"}
  /\ l.pc \in {"pushMark", "popCopy"} => cell[l.idx].v # Undef
  /\ l.op = "pop" /\ l.pc \in {"lock", "popReserve", "popClaim", "popCopy"} => l.v = Undef
  /\ l.pc = "popMark" => l.v # Undef
  /\ l.op = "pop" /\ l.pc \in {"unlock", "done"} => (l.idx >= 0 <=> l.v # Undef)

StackTyped ==
  /\ top \in Nat /\ bottom = 0
  /\ cell \in [Slots -> [fe : {"FULL", "EMPTY", "BUSY"}, v : Value \cup {Undef}]]

FitStack == \A t \in Threads : FitsStack(loc[t])

FullHolds == \A i \in Slots : cell[i].fe = "FULL" => cell[i].v # Undef

StackInv == StackTyped /\ FitStack /\ FullHolds /\ Balance

StackContext == IndexInv /\ OpInv /\ AsStack /\ StackInv

\* An element is left free whatever the values outstanding: EMSpush finds room.
LEMMA StackRoom ==
  ASSUME StackContext
  PROVE  /\ top < N /\ N \in Nat \ {0}
         /\ Adding # {} => top + 1 < N
<1>1. /\ Cardinality(Adding) \in Nat /\ Cardinality(Removing) \in Nat
      /\ Adding # {} => Cardinality(Adding) > 0
  BY FS_CardinalityType, FS_EmptySet DEF StackContext, StackInv, Balance
<1>2. MaxLive \in Nat /\ MaxLive < N /\ N \in Nat \ {0}
  BY UseKinds, StackQueueAssumption DEF StackContext, AsStack, Disciplined
<1>3. Cardinality(Adding) + top + Cardinality(Removing) <= MaxLive /\ top \in Nat
  <2>1. top - bottom = top /\ top \in Nat
    BY DEF StackContext, StackInv, StackTyped
  <2> QED BY <1>1, <1>2, <2>1 DEF StackContext, StackInv, Balance
<1> QED BY <1>1, <1>2, <1>3

\* What is known of t.
LEMMA StackSelf ==
  ASSUME StackContext, NEW t \in Threads
  PROVE  /\ FitsStack(loc[t]) /\ Belongs(loc[t]) /\ Shaped /\ StackTyped
         /\ N \in Nat \ {0} /\ Slots = 0 .. N - 1
         /\ use.ops = {"push", "pop"} /\ use.values \subseteq Value /\ Undef \notin Value
         /\ Build = "O1" /\ ~use.heapFills
         /\ Pushes(loc[t]) \/ Pops(loc[t]) => Idx(t) \in Slots
<1>1. Pushes(loc[t]) \/ Pops(loc[t]) => Idx(t) \in Slots
  BY StackRoom DEF StackContext, StackInv, StackTyped, FitStack, FitsStack, Idx, Slots
<1> QED BY <1>1, UseKinds, StackQueueAssumption
        DEF StackContext, StackInv, FitStack, OpInv, AsStack, Disciplined, Slots

\* The tag of STACKTOP keeps the others out.
LEMMA OneInside ==
  ASSUME StackContext, NEW t \in Threads, NEW u \in Threads, u # t, InCritical(t)
  PROVE  ~InCritical(u) /\ ~Pushes(loc[u]) /\ ~Pops(loc[u])
<1>1. loc[t].op # "dequeue" /\ loc[u].op # "dequeue"
  BY StackSelf DEF Belongs
<1> QED BY <1>1 DEF StackContext, IndexInv, IndexExclusive, SameIndex, InCritical, Pushes, Pops

\* The other threads are not disturbed.
LEMMA OthersFitStack ==
  ASSUME StackContext, NEW t \in Threads, Others(t), InCritical(t) \/ UNCHANGED <<top, cell>>,
         FitsStack(loc[t])'
  PROVE  FitStack'
<1> SUFFICES ASSUME NEW u \in Threads, u # t PROVE FitsStack(loc[u])'
  BY DEF FitStack
<1>1. FitsStack(loc[u]) /\ loc'[u] = loc[u]
  BY StackSelf DEF Others
<1>2. CASE InCritical(t)
  <2>1. ~Pushes(loc[u]) /\ ~Pops(loc[u])
    BY <1>2, OneInside
  <2> QED BY <1>1, <2>1 DEF FitsStack, Pushes, Pops
<1>3. CASE UNCHANGED <<top, cell>>
  BY <1>1, <1>3 DEF FitsStack, Pushes, Pops
<1> QED BY <1>2, <1>3

\* A step that moves no index and adds and removes no value.
LEMMA StackStep ==
  ASSUME StackContext, NEW t \in Threads, Others(t), UNCHANGED <<use, top, bottom, live>>,
         UNCHANGED cell \/ (InCritical(t) /\ StackTyped' /\ FullHolds'),
         FitsStack(loc[t])',
         AddsL(loc[t])' <=> AddsL(loc[t]), RemovesL(loc[t])' <=> RemovesL(loc[t])
  PROVE  StackInv'
<1>1. FitStack'
  BY OthersFitStack
<1>2. StackTyped' /\ FullHolds'
  <2>1. Slots' = Slots
    BY DEF Slots, N
  <2> QED BY <2>1 DEF StackContext, StackInv, StackTyped, FullHolds
<1>3. Adding' = Adding /\ Removing' = Removing
  BY DEF Others, Adding, Removing
<1>4. Balance'
  BY <1>3 DEF StackContext, StackInv, Balance
<1> QED BY <1>1, <1>2, <1>4 DEF StackInv

\* Taking and releasing the tag of STACKTOP.
LEMMA TagStack ==
  ASSUME StackContext, NEW t \in Threads, LockTop(t) \/ LockBottom(t) \/ UnlockTop(t) \/ UnlockBottom(t)
  PROVE  StackInv'
<1>1. /\ loc[t].pc \in {"lock", "unlock"} /\ loc[t].op \in {"push", "pop"}
      /\ UNCHANGED <<use, top, bottom, cell, live>>
  BY StackSelf DEF LockTop, LockBottom, UnlockTop, UnlockBottom, At, Local, Belongs
<1> DEFINE p == IF loc[t].pc = "unlock" THEN "done"
                ELSE IF loc[t].op = "push" THEN "pushReserve" ELSE "popReserve"
<1>2. Go(t, p)
  <2>1. ~SinksReset(t)
    BY StackSelf DEF SinksReset
  <2> QED BY <1>1, <2>1 DEF LockTop, LockBottom, UnlockTop, UnlockBottom, At, Start
<1>3. /\ loc[t].pc = "unlock" => p = "done"
      /\ loc[t].pc = "lock" => p = IF loc[t].op = "push" THEN "pushReserve" ELSE "popReserve"
  BY <1>1
<1> HIDE DEF p
<1>4. /\ loc'[t].pc = p /\ loc'[t].op = loc[t].op /\ loc'[t].v = loc[t].v /\ loc'[t].idx = loc[t].idx
      /\ Others(t)
  BY <1>2, StackSelf, Moved DEF Alone, Others
<1>5. FitsStack(loc[t])'
  BY <1>1, <1>3, <1>4, StackSelf DEF FitsStack, Pushes, Pops
<1>6. (AddsL(loc[t])' <=> AddsL(loc[t])) /\ (RemovesL(loc[t])' <=> RemovesL(loc[t]))
  BY <1>1, <1>3, <1>4 DEF AddsL, RemovesL
<1> QED BY <1>1, <1>4, <1>5, <1>6, StackStep

\* The tag of the element changes.
LEMMA MarkStack ==
  ASSUME StackContext, NEW t \in Threads,
         PushClaim(t) \/ PushMark(t) \/ PopClaim(t) \/ PopMark(t)
  PROVE  StackInv'
<1> DEFINE i == loc[t].idx
           p == CASE loc[t].pc = "pushClaim" -> "pushWrite" [] loc[t].pc = "popClaim" -> "popCopy"
                  [] OTHER -> "unlock"
           f == CASE loc[t].pc = "pushMark" -> "FULL" [] loc[t].pc = "popMark" -> "EMPTY"
                  [] OTHER -> "BUSY"
<1>1. /\ loc[t].pc \in {"pushClaim", "pushMark", "popClaim", "popMark"}
      /\ UNCHANGED <<use, top, bottom, live>> /\ SetFE(i, f) /\ Go(t, p)
      /\ loc[t].pc = "popClaim" => cell[i].fe = "FULL"
  BY DEF PushClaim, PushMark, PopClaim, PopMark, At, Local, Idx
<1>2. /\ loc[t].pc = "pushClaim" => p = "pushWrite"
      /\ loc[t].pc = "popClaim" => p = "popCopy"
      /\ loc[t].pc \in {"pushMark", "popMark"} => p = "unlock"
      /\ f \in {"FULL", "EMPTY", "BUSY"} /\ (f = "FULL" <=> loc[t].pc = "pushMark")
  BY <1>1
<1>3. i \in Slots /\ InCritical(t)
  BY <1>1, StackSelf DEF Pushes, Pops, InCritical, Idx
<1> HIDE DEF p, f, i
<1>4. /\ loc'[t].pc = p /\ loc'[t].op = loc[t].op /\ loc'[t].v = loc[t].v /\ loc'[t].idx = loc[t].idx
      /\ Others(t)
  BY <1>1, StackSelf, Moved DEF Alone, Others
<1>5. Slots' = Slots /\ i >= 0 /\ (loc[t].pc \in {"pushMark", "popClaim"} => cell[i].v # Undef)
  <2>1. Slots' = Slots
    BY <1>1 DEF Slots, N
  <2>2. loc[t].pc = "pushMark" => cell[i].v # Undef
    BY StackSelf DEF FitsStack, i
  <2>3. loc[t].pc = "popClaim" => cell[i].v # Undef
    BY <1>1, <1>3 DEF StackContext, StackInv, FullHolds
  <2> QED BY <1>3, <2>1, <2>2, <2>3, StackSelf
<1>6. /\ cell' \in [Slots -> [fe : {"FULL", "EMPTY", "BUSY"}, v : Value \cup {Undef}]]
      /\ \A j \in Slots : cell'[j].v = cell[j].v /\ cell'[j].fe = IF j = i THEN f ELSE cell[j].fe
  BY <1>1, <1>2, <1>3, StackSelf DEF StackTyped, SetFE
<1>7. StackTyped' /\ FullHolds'
  BY <1>1, <1>2, <1>5, <1>6, StackSelf DEF StackTyped, FullHolds, StackContext, StackInv
<1>8. FitsStack(loc[t])'
  BY <1>1, <1>2, <1>3, <1>4, <1>5, <1>6, StackSelf DEF FitsStack, Pushes, Pops, Belongs, i
<1>9. (AddsL(loc[t])' <=> AddsL(loc[t])) /\ (RemovesL(loc[t])' <=> RemovesL(loc[t]))
  BY <1>1, <1>2, <1>4, <1>5, StackSelf DEF AddsL, RemovesL, Belongs, i
<1> QED BY <1>1, <1>3, <1>4, <1>7, <1>8, <1>9, StackStep

\* The value is stored, or copied.
LEMMA DataStack ==
  ASSUME StackContext, NEW t \in Threads, PushWrite(t) \/ PopCopy(t)
  PROVE  StackInv'
<1> DEFINE i == loc[t].idx
<1>1. i \in Slots /\ InCritical(t) /\ loc[t].pc \in {"pushWrite", "popCopy"}
      /\ UNCHANGED <<use, top, bottom, live>>
  BY StackSelf DEF PushWrite, PopCopy, At, Local, shared, Pushes, Pops, InCritical, Idx
<1>2. Slots' = Slots
  BY <1>1 DEF Slots, N
<1>3. CASE PushWrite(t)
  <2>1. /\ loc[t].pc = "pushWrite" /\ Go(t, "pushMark") /\ loc[t].op = "push"
        /\ cell' = [cell EXCEPT ![i].v = loc[t].v]
    BY <1>3, StackSelf DEF PushWrite, AllocFails, At, Idx, Belongs
  <2> HIDE DEF i
  <2>2. /\ loc'[t].pc = "pushMark" /\ loc'[t].op = "push" /\ loc'[t].v = loc[t].v
        /\ loc'[t].idx = loc[t].idx /\ Others(t)
    BY <2>1, StackSelf, Moved DEF Alone, Others
  <2>3. loc[t].v \in Value /\ loc[t].v # Undef
    BY <2>1, StackSelf DEF FitsStack
  <2>4. /\ cell' \in [Slots -> [fe : {"FULL", "EMPTY", "BUSY"}, v : Value \cup {Undef}]]
        /\ \A j \in Slots : cell'[j].fe = cell[j].fe /\ cell'[j].v = IF j = i THEN loc[t].v ELSE cell[j].v
    BY <1>1, <2>1, <2>3, StackSelf DEF StackTyped
  <2>5. StackTyped' /\ FullHolds'
    BY <1>1, <1>2, <2>3, <2>4, StackSelf DEF StackTyped, FullHolds, StackContext, StackInv
  <2>6. FitsStack(loc[t])'
    BY <1>1, <2>1, <2>2, <2>3, <2>4, StackSelf DEF FitsStack, Pushes, Pops, i
  <2>7. (AddsL(loc[t])' <=> AddsL(loc[t])) /\ (RemovesL(loc[t])' <=> RemovesL(loc[t]))
    BY <2>1, <2>2 DEF AddsL, RemovesL
  <2> QED BY <1>1, <2>2, <2>5, <2>6, <2>7, StackStep
<1>4. CASE PopCopy(t)
  <2> DEFINE x == cell[i].v
  <2>1. loc[t].pc = "popCopy" /\ GoVal(t, "popMark", x) /\ UNCHANGED cell /\ loc[t].op = "pop"
    BY <1>4, StackSelf DEF PopCopy, AllocFails, At, shared, Idx, Belongs
  <2>2. x # Undef /\ i = top
    BY <2>1, StackSelf DEF FitsStack, Pops
  <2>3. i >= 0
    BY <1>1, StackSelf
  <2> HIDE DEF x, i
  <2>4. /\ loc'[t].pc = "popMark" /\ loc'[t].op = "pop" /\ loc'[t].v = x /\ loc'[t].idx = loc[t].idx
        /\ Others(t)
    BY <2>1, StackSelf, Moved DEF Alone, Others
  <2>5. FitsStack(loc[t])'
    BY <1>1, <2>1, <2>2, <2>4, StackSelf DEF FitsStack, Pushes, Pops, i
  <2>6. (AddsL(loc[t])' <=> AddsL(loc[t])) /\ (RemovesL(loc[t])' <=> RemovesL(loc[t]))
    BY <2>1, <2>3, <2>4 DEF AddsL, RemovesL, i
  <2> QED BY <1>1, <2>1, <2>4, <2>5, <2>6, StackStep
<1> QED BY <1>3, <1>4

\* The push takes the next position: EMSpush does not find the stack full.
LEMMA ReservePush ==
  ASSUME StackContext, NEW t \in Threads, PushReserve(t)
  PROVE  StackInv'
<1>1. /\ loc[t].pc = "pushReserve" /\ loc[t].op = "push" /\ InCritical(t)
      /\ UNCHANGED <<use, bottom, cell, live>> /\ top' = top + 1 /\ bottom = 0
  BY StackSelf DEF PushReserve, At, Local, InCritical, Belongs, StackTyped
<1>2. t \in Adding
  BY <1>1 DEF Adding, AddsL
<1>3. ~StackFull(top)
  BY <1>2, StackRoom, StackSelf DEF StackFull, StackTyped
<1>4. GoIdx(t, "pushClaim", top)
  BY <1>3 DEF PushReserve
<1>5. /\ loc'[t].pc = "pushClaim" /\ loc'[t].op = "push" /\ loc'[t].v = loc[t].v /\ loc'[t].idx = top
      /\ Others(t)
  BY <1>1, <1>4, StackSelf, Moved DEF Alone, Others
<1>6. Slots' = Slots
  BY <1>1 DEF Slots, N
<1>7. StackTyped' /\ FullHolds'
  BY <1>1, <1>6, StackSelf DEF StackTyped, FullHolds, StackContext, StackInv
<1>8. FitsStack(loc[t])'
  BY <1>1, <1>5, StackSelf DEF FitsStack, Pushes, Pops, StackTyped
<1>9. Adding' = Adding \ {t} /\ Removing' = Removing
  BY <1>1, <1>5 DEF Others, Adding, AddsL, Removing, RemovesL
<1>10. Balance'
  <2>1. IsFiniteSet(Adding) /\ Cardinality(Adding) \in Nat /\ IsFiniteSet(Removing) /\ Cardinality(Removing) \in Nat
    BY FS_CardinalityType DEF StackContext, StackInv, Balance
  <2>2. IsFiniteSet(Adding') /\ Cardinality(Adding') = Cardinality(Adding) - 1
    BY <1>2, <1>9, <2>1, FS_RemoveElement
  <2>3. Cardinality(Adding') + (top' - bottom') + Cardinality(Removing') <= live'
    <3>1. Cardinality(Adding) + (top - bottom) + Cardinality(Removing) <= live /\ live \in Nat
      BY DEF StackContext, StackInv, Balance
    <3> QED BY <1>1, <1>9, <2>1, <2>2, <3>1, StackSelf DEF StackTyped
  <2> QED BY <1>1, <1>9, <2>1, <2>2, <2>3 DEF Balance, StackContext, StackInv
<1>11. FitStack'
  BY <1>1, <1>5, <1>8, OthersFitStack
<1> QED BY <1>7, <1>10, <1>11 DEF StackInv

\* The pop takes the last position, or finds the stack empty.
LEMMA ReservePop ==
  ASSUME StackContext, NEW t \in Threads, PopReserve(t)
  PROVE  StackInv'
<1> DEFINE p == IF top > 0 THEN "popClaim" ELSE "unlock"
<1>1. /\ loc[t].pc = "popReserve" /\ loc[t].op = "pop" /\ InCritical(t) /\ loc[t].v = Undef
      /\ UNCHANGED <<use, bottom, cell, live>> /\ bottom = 0 /\ top \in Nat
  BY StackSelf DEF PopReserve, At, Local, InCritical, Belongs, StackTyped, FitsStack
<1>2. GoIdx(t, p, top - 1) /\ top' = IF top > 0 THEN top - 1 ELSE top
  <2>1. CASE top > 0
    BY <2>1 DEF PopReserve
  <2>2. CASE top = 0
    <3>1. top - 1 = -1
      BY <2>2
    <3> QED BY <2>2, <3>1, StackSelf DEF PopReserve
  <2> QED BY <1>1, <2>1, <2>2
<1>3. top' \in Nat /\ (top > 0 => p = "popClaim" /\ top' = top - 1) /\ (top = 0 => p = "unlock" /\ top' = top)
  BY <1>1, <1>2
<1> HIDE DEF p
<1>4. /\ loc'[t].pc = p /\ loc'[t].op = "pop" /\ loc'[t].v = Undef /\ loc'[t].idx = top - 1
      /\ Others(t)
  BY <1>1, <1>2, StackSelf, Moved DEF Alone, Others
<1>5. Slots' = Slots
  BY <1>1 DEF Slots, N
<1>6. StackTyped' /\ FullHolds'
  BY <1>1, <1>3, <1>5, StackSelf DEF StackTyped, FullHolds, StackContext, StackInv
<1>7. FitsStack(loc[t])'
  <2>1. CASE top > 0
    BY <1>1, <1>3, <1>4, <2>1 DEF FitsStack, Pushes, Pops
  <2>2. CASE top = 0
    BY <1>1, <1>3, <1>4, <2>2 DEF FitsStack, Pushes, Pops
  <2> QED BY <1>1, <2>1, <2>2
<1>8. Adding' = Adding
  BY <1>1, <1>4 DEF Others, Adding, AddsL
<1>9. t \notin Removing /\ Removing' = IF top > 0 THEN Removing \cup {t} ELSE Removing
  <2>1. ~RemovesL(loc[t])
    BY <1>1 DEF RemovesL
  <2>2. RemovesL(loc[t])' <=> top > 0
    BY <1>1, <1>3, <1>4 DEF RemovesL
  <2> QED BY <1>4, <2>1, <2>2 DEF Others, Removing, RemovesL
<1>10. Balance'
  <2>1. IsFiniteSet(Adding) /\ Cardinality(Adding) \in Nat /\ IsFiniteSet(Removing) /\ Cardinality(Removing) \in Nat
    BY FS_CardinalityType DEF StackContext, StackInv, Balance
  <2>2. IsFiniteSet(Removing') /\ Cardinality(Removing') = Cardinality(Removing) + (top - top')
    <3>1. CASE top > 0
      <4>1. IsFiniteSet(Removing') /\ Cardinality(Removing') = Cardinality(Removing) + 1
        BY <1>9, <2>1, <3>1, FS_AddElement
      <4> QED BY <1>1, <1>3, <3>1, <4>1
    <3>2. CASE top = 0
      BY <1>3, <1>9, <2>1, <3>2
    <3> QED BY <1>1, <3>1, <3>2
  <2>3. Cardinality(Adding') + (top' - bottom') + Cardinality(Removing') <= live'
    <3>1. Cardinality(Adding) + (top - bottom) + Cardinality(Removing) <= live /\ live \in Nat
      BY DEF StackContext, StackInv, Balance
    <3> QED BY <1>1, <1>3, <1>8, <2>1, <2>2, <3>1
  <2> QED BY <1>1, <1>8, <2>1, <2>2, <2>3 DEF Balance, StackContext, StackInv
<1>11. FitStack'
  BY <1>1, <1>4, <1>7, OthersFitStack
<1> QED BY <1>6, <1>10, <1>11 DEF StackInv

\* Fewer than MaxLive values are outstanding when another is added.
LEMMA CallStack ==
  ASSUME StackContext, NEW t \in Threads, NEW o \in UNION Kinds, Call(t, o)
  PROVE  StackInv'
<1>1. PICK v \in IF o \in Adds THEN use.values ELSE {Undef} :
        loc' = [loc EXCEPT ![t] = [Idle EXCEPT !.pc = "lock", !.op = o, !.v = v]]
  BY DEF Call
<1> DEFINE m == [Idle EXCEPT !.pc = "lock", !.op = o, !.v = v]
<1>2. /\ loc[t].pc = "idle" /\ UNCHANGED <<use, top, bottom, cell>>
      /\ o \in {"push", "pop"} /\ (o = "push" => live < MaxLive)
      /\ live' = IF o = "push" THEN live + 1 ELSE live
  BY StackSelf DEF Call, At, shared, Adds
<1>3. IF o = "push" THEN v \in Value ELSE v = Undef
  BY <1>1, <1>2, StackSelf DEF Adds
<1>4. m.pc = "lock" /\ m.op = o /\ m.v = v /\ m.idx = 0
  BY DEF Idle
<1> HIDE DEF m
<1>5. Others(t) /\ loc'[t] = m
  BY <1>1, StackSelf DEF Others, Shaped, m
<1>6. FitsStack(loc[t])'
  BY <1>2, <1>3, <1>4, <1>5 DEF FitsStack, Pushes, Pops
<1>7. FitStack'
  BY <1>2, <1>5, <1>6, OthersFitStack
<1>8. StackTyped' /\ FullHolds'
  <2>1. Slots' = Slots
    BY <1>2 DEF Slots, N
  <2> QED BY <1>2, <2>1 DEF StackTyped, FullHolds, StackContext, StackInv
<1>9. ~AddsL(loc[t]) /\ ~RemovesL(loc[t]) /\ ~RemovesL(loc[t])' /\ (AddsL(loc[t])' <=> o = "push")
  BY <1>2, <1>4, <1>5 DEF AddsL, RemovesL
<1>10. Removing' = Removing
  BY <1>5, <1>9 DEF Others, Removing
<1>11. t \notin Adding /\ Adding' = IF o = "push" THEN Adding \cup {t} ELSE Adding
  BY <1>5, <1>9 DEF Others, Adding, AddsL
<1>12. Balance'
  <2>1. IsFiniteSet(Adding) /\ Cardinality(Adding) \in Nat /\ IsFiniteSet(Removing) /\ Cardinality(Removing) \in Nat
    BY FS_CardinalityType DEF StackContext, StackInv, Balance
  <2>2. /\ IsFiniteSet(Adding')
        /\ Cardinality(Adding') = IF o = "push" THEN Cardinality(Adding) + 1 ELSE Cardinality(Adding)
    BY <1>11, <2>1, FS_AddElement
  <2>3. /\ Cardinality(Adding) + (top - bottom) + Cardinality(Removing) <= live
        /\ live \in Nat /\ live <= MaxLive /\ MaxLive \in Nat /\ top \in Nat /\ bottom = 0
    BY StackSelf, StackQueueAssumption DEF StackContext, StackInv, Balance, StackTyped
  <2>4. /\ live' \in Nat /\ live' <= MaxLive
        /\ Cardinality(Adding') + (top' - bottom') + Cardinality(Removing') <= live'
    BY <1>2, <1>10, <2>1, <2>2, <2>3
  <2> QED BY <1>10, <2>1, <2>2, <2>4 DEF Balance
<1> QED BY <1>7, <1>8, <1>12 DEF StackInv

\* A value leaves the stack when the call that removed it returns.
LEMMA FinishStack ==
  ASSUME StackContext, NEW t \in Threads, Finish(t)
  PROVE  StackInv'
<1>1. /\ loc[t].pc = "done" /\ UNCHANGED <<use, top, bottom, cell>> /\ loc' = [loc EXCEPT ![t] = Idle]
      /\ loc[t].op \in {"push", "pop"}
      /\ live' = IF loc[t].op = "pop" /\ loc[t].v # Undef THEN live - 1 ELSE live
  <2>1. loc[t].op \in {"push", "pop"}
    BY StackSelf DEF Belongs, Finish, At
  <2> QED BY <2>1 DEF Finish, At, shared, Adds
<1>2. Others(t) /\ loc'[t] = Idle
  BY <1>1, StackSelf DEF Others, Shaped
<1>3. FitsStack(loc[t])'
  BY <1>2, IdleFields DEF FitsStack, Pushes, Pops
<1>4. FitStack'
  BY <1>1, <1>2, <1>3, OthersFitStack
<1>5. StackTyped' /\ FullHolds'
  <2>1. Slots' = Slots
    BY <1>1 DEF Slots, N
  <2> QED BY <1>1, <2>1 DEF StackTyped, FullHolds, StackContext, StackInv
<1>6. /\ ~AddsL(loc[t]) /\ ~AddsL(loc[t])' /\ ~RemovesL(loc[t])'
      /\ RemovesL(loc[t]) <=> loc[t].op = "pop" /\ loc[t].v # Undef
  BY <1>1, <1>2, IdleFields, StackSelf DEF AddsL, RemovesL, FitsStack
<1>7. Adding' = Adding
  BY <1>2, <1>6 DEF Others, Adding, AddsL
<1>8. Removing' = Removing \ {t} /\ (t \in Removing <=> RemovesL(loc[t]))
  BY <1>2, <1>6 DEF Others, Removing, RemovesL
<1>9. Balance'
  <2>1. IsFiniteSet(Adding) /\ Cardinality(Adding) \in Nat /\ IsFiniteSet(Removing) /\ Cardinality(Removing) \in Nat
    BY FS_CardinalityType DEF StackContext, StackInv, Balance
  <2>2. /\ IsFiniteSet(Removing') /\ Cardinality(Removing') \in Nat
        /\ Cardinality(Removing') = IF t \in Removing THEN Cardinality(Removing) - 1 ELSE Cardinality(Removing)
    BY <1>8, <2>1, FS_RemoveElement, FS_CardinalityType
  <2>3. /\ Cardinality(Adding) + (top - bottom) + Cardinality(Removing) <= live
        /\ live \in Nat /\ live <= MaxLive /\ MaxLive \in Nat /\ top \in Nat /\ bottom = 0
    BY StackSelf, StackQueueAssumption DEF StackContext, StackInv, Balance, StackTyped
  <2>4. live' = IF t \in Removing THEN live - 1 ELSE live
    BY <1>1, <1>6, <1>8
  <2>5. /\ live' \in Nat /\ live' <= MaxLive
        /\ Cardinality(Adding') + (top' - bottom') + Cardinality(Removing') <= live'
    BY <1>1, <1>7, <2>1, <2>2, <2>3, <2>4
  <2> QED BY <1>7, <2>1, <2>2, <2>5 DEF Balance
<1> QED BY <1>4, <1>5, <1>9 DEF StackInv

\* The steps of a queue, and the stores that another build delays: a disciplined use of a
\* stack takes none of them.
LEMMA NotInStack ==
  ASSUME StackContext, NEW t \in Threads
  PROVE  ~ (\/ EnqReserve(t) \/ EnqCheck(t) \/ EnqWrite(t) \/ EnqMark(t)
            \/ DeqReserve(t) \/ DeqReload(t) \/ DeqClaim(t) \/ DeqCopy(t) \/ DeqMark(t)
            \/ Reset(t) \/ DeqLateCopy(t))
BY StackSelf DEF Belongs, EnqReserve, EnqCheck, EnqWrite, EnqMark, DeqReserve, DeqReload, DeqClaim,
                 DeqCopy, DeqMark, Reset, DeqLateCopy, At

\* Initially the stack is empty.
LEMMA InitStack ==
  ASSUME Init
  PROVE  StackInv
<1>1. \A t \in Threads : loc[t] = Idle
  BY DEF Init
<1>2. StackTyped /\ FullHolds
  BY DEF Init, StackTyped, FullHolds
<1>3. FitStack
  BY <1>1, IdleFields DEF FitStack, FitsStack, Pushes, Pops
<1>4. Adding = {} /\ Removing = {}
  BY <1>1, IdleFields DEF Adding, Removing, AddsL, RemovesL
<1>5. Balance
  BY <1>4, FS_EmptySet, StackQueueAssumption DEF Init, Balance
<1> QED BY <1>2, <1>3, <1>5 DEF StackInv

\* Every step keeps the elements of a disciplined stack in order.
LEMMA StackInductive ==
  ASSUME StackContext, [Next]_vars
  PROVE  StackInv'
<1>1. CASE Next
  <2> PICK t \in Threads : Step(t) \/ \E o \in UNION Kinds : Call(t, o)
    BY <1>1 DEF Next
  <2> QED BY TagStack, MarkStack, DataStack, ReservePush, ReservePop, CallStack, FinishStack,
             NotInStack DEF Step
<1>2. CASE UNCHANGED vars
  <2>1. StackInv
    BY DEF StackContext
  <2> QED BY <1>2, <2>1 DEF vars, shared, StackInv, StackTyped, FitStack, FitsStack, Pushes, Pops, N,
           Slots, FullHolds, Balance, Adding, Removing, AddsL, RemovesL
<1> QED BY <1>1, <1>2

StackHolds == AsStack => StackInv

\* The invariants of a stack hold of the specification.
LEMMA StackInvHolds == Spec => [](IndexInv /\ OpInv /\ StackHolds)
<1>1. Init => StackHolds
  BY InitStack DEF StackHolds
<1>2. IndexInv /\ OpInv /\ StackHolds /\ [Next]_vars => StackHolds'
  <2> SUFFICES ASSUME IndexInv, OpInv, StackHolds, [Next]_vars, AsStack' PROVE StackInv'
    BY DEF StackHolds
  <2>1. AsStack
    BY UseFixed DEF AsStack, Disciplined, Build, N
  <2>2. StackContext
    BY <2>1 DEF StackContext, StackHolds
  <2> QED BY <2>2, StackInductive
<1> QED BY InitIndex, InitOp, <1>1, IndexInductive, OpInductive, <1>2, PTL DEF Spec

-------------------------------------------------------------------------------
(* What the two uses have in common *)

Storing(l) == l.pc \in {"pushClaim", "pushWrite", "enqCheck", "enqWrite"}
Waiting(l) == l.pc \in {"popClaim", "popCopy", "deqClaim", "deqCopy"}

\* The positions in the sequence fit into the array.
Spanned ==
  /\ N \in Nat \ {0} /\ Slots = 0 .. N - 1 /\ top \in Nat /\ bottom \in Nat
  /\ bottom <= top /\ top - bottom <= N
  /\ "push" \in use.ops => bottom = 0 /\ top < N
  /\ cell \in [Slots -> [fe : {"FULL", "EMPTY", "BUSY"}, v : Value \cup {Undef}]]

\* Where an operation is, and the value it has in hand.
Handles(l) ==
  /\ l.op \in Adds => l.v \in Value
  /\ Storing(l) => l.idx = (top - 1) % N /\ top > 0 /\ l.op \in Adds
  /\ l.pc = "pushReserve" => ~StackFull(top)
  /\ Waiting(l) => l.idx \in Slots
  /\ l.op \notin Adds /\ (l.pc \in Pending \/ Waiting(l)) => l.v = Undef
  /\ l.op \notin Adds /\ l.pc \notin Pending \cup {"idle"} /\ ~Waiting(l) =>
       l.idx < 0 \/ l.v # Undef
  /\ l.pc \notin {"reset", "deqReload", "deqLateCopy"}

\* The next position is not the one an element is read at, and no element is read before
\* it is filled.
Apart(l, m) ==
  /\ Storing(l) \/ l.pc \in {"pushReserve", "enqReserve"} => ~Storing(m)
  /\ l.pc \in {"pushReserve", "enqReserve"} /\ Waiting(m) => m.idx # top % N
  /\ l.pc \in {"popCopy", "deqCopy"} /\ Storing(m) => l.idx # m.idx

Tidy ==
  /\ Spanned
  /\ \A t \in Threads : Handles(loc[t])
  /\ \A t, u \in Threads : t # u => Apart(loc[t], loc[u])

\* Two uses of one array.
LEMMA EitherUse == ASSUME OpInv, Disciplined PROVE AsStack \/ AsQueue
BY UseKinds DEF AsStack, AsQueue, Kinds

\* A small position is its own element.
LEMMA ModSmall == ASSUME NEW n \in Nat \ {0}, NEW a \in 0 .. n - 1 PROVE a % n = a
OBVIOUS

\* A disciplined stack is tidy.
LEMMA StackTidy == ASSUME StackContext PROVE Tidy
<1>1. Spanned
  BY StackRoom DEF StackContext, StackInv, StackTyped, Spanned, Slots
<1>2. ASSUME NEW t \in Threads PROVE Handles(loc[t])
  <2> DEFINE l == loc[t]
  <2>1. FitsStack(l) /\ Belongs(l) /\ use.ops = {"push", "pop"} /\ Build = "O1"
    BY StackSelf
  <2>2. l.op \in Adds => l.v \in Value
    BY <2>1 DEF FitsStack, Belongs, Adds
  <2>3. Storing(l) => l.idx = (top - 1) % N /\ top > 0 /\ l.op \in Adds
    <3> SUFFICES ASSUME Storing(l) PROVE l.idx = (top - 1) % N /\ top > 0 /\ l.op \in Adds
      OBVIOUS
    <3>1. l.idx = top - 1 /\ top > 0 /\ l.op \in Adds
      BY <2>1 DEF FitsStack, Pushes, Storing, Belongs, Adds
    <3>2. top - 1 \in 0 .. N - 1 /\ N \in Nat \ {0}
      BY <1>1, <3>1, StackRoom DEF Spanned
    <3> QED BY <3>1, <3>2, ModSmall
  <2>4. l.pc = "pushReserve" => ~StackFull(top)
    <3>1. l.pc = "pushReserve" => t \in Adding
      BY <2>1 DEF Belongs, Adding, AddsL
    <3> QED BY <1>1, <3>1, StackRoom DEF StackFull, Spanned
  <2>5. Waiting(l) => l.idx \in Slots
    BY <2>1, StackSelf DEF Waiting, Pops, Idx, Belongs
  <2>6. l.op \notin Adds /\ (l.pc \in Pending \/ Waiting(l)) => l.v = Undef
    BY <2>1 DEF FitsStack, Belongs, Adds, Pending, Waiting
  <2>7. l.op \notin Adds /\ l.pc \notin Pending \cup {"idle"} /\ ~Waiting(l) =>
          l.idx < 0 \/ l.v # Undef
    BY <2>1 DEF FitsStack, Belongs, Adds, Pending, Waiting
  <2>8. l.pc \notin {"reset", "deqReload", "deqLateCopy"}
    BY <2>1 DEF Belongs
  <2> QED BY <2>2, <2>3, <2>4, <2>5, <2>6, <2>7, <2>8 DEF Handles
<1>3. ASSUME NEW t \in Threads, NEW u \in Threads, t # u PROVE Apart(loc[t], loc[u])
  BY <1>3, OneInside DEF Apart, Storing, Waiting, InCritical
<1> QED BY <1>1, <1>2, <1>3 DEF Tidy

\* A disciplined queue is tidy.
LEMMA QueueTidy == ASSUME Context PROVE Tidy
<1>1. Spanned
  <2>1. cell \in [Slots -> [fe : {"FULL", "EMPTY", "BUSY"}, v : Value \cup {Undef}]]
    BY DEF Context, QueueInv, QueueTyped
  <2> QED BY <2>1, NeverFull, QueueUse DEF Context, QueueInv, QueueTyped, Spanned
<1>2. ASSUME NEW t \in Threads PROVE Handles(loc[t])
  <2> DEFINE l == loc[t]
  <2>1. /\ FitsQueue(l) /\ Belongs(l) /\ l.pc \in QueuePC /\ use.ops = {"enqueue", "dequeue"}
        /\ l.idx \in Int
    BY Self DEF QueueLocals
  <2>2. l.op \in Adds => l.v \in Value
    BY <2>1 DEF FitsQueue, Belongs, Adds
  <2>3. Storing(l) => l.idx = (top - 1) % N /\ top > 0 /\ l.op \in Adds
    BY <2>1 DEF FitsQueue, Fills, Storing, QueuePC, Adds
  <2>4. l.pc \notin {"pushReserve", "reset", "deqReload", "deqLateCopy"}
    BY <2>1 DEF QueuePC
  <2>5. Waiting(l) => l.idx \in Slots
    <3>1. Waiting(l) => l.idx = (bottom - 1) % N /\ bottom > 0
      BY <2>1 DEF FitsQueue, Waiting, Claims, Reads, QueuePC
    <3>2. bottom > 0 => bottom - 1 \in Nat
      BY <1>1 DEF Spanned
    <3> QED BY <1>1, <3>1, <3>2, SlotOf DEF Spanned
  <2>6. l.op \notin Adds /\ (l.pc \in Pending \/ Waiting(l)) => l.v = Undef
    BY <2>1 DEF FitsQueue, Belongs, Adds, Pending, Waiting, QueuePC
  <2>7. l.op \notin Adds /\ l.pc \notin Pending \cup {"idle"} /\ ~Waiting(l) =>
          l.idx < 0 \/ l.v # Undef
    BY <2>1 DEF FitsQueue, Belongs, Adds, QueuePC, Pending, Waiting
  <2> QED BY <2>2, <2>3, <2>4, <2>5, <2>6, <2>7 DEF Handles
<1>3. ASSUME NEW t \in Threads, NEW u \in Threads, t # u PROVE Apart(loc[t], loc[u])
  <2> DEFINE l == loc[t]
             m == loc[u]
  <2>1. /\ FitsQueue(l) /\ Belongs(l) /\ l.pc \in QueuePC
        /\ FitsQueue(m) /\ Belongs(m) /\ m.pc \in QueuePC
    BY Self DEF QueueLocals
  <2>2. Storing(l) \/ l.pc \in {"pushReserve", "enqReserve"} => ~Storing(m)
    <3>1. Storing(l) \/ l.pc \in {"pushReserve", "enqReserve"} => l.op = "enqueue" /\ InCritical(t)
      BY <2>1 DEF Storing, Belongs, QueuePC, InCritical
    <3>2. Storing(m) => Fills(m)
      BY <2>1 DEF Storing, QueuePC, Fills
    <3> QED BY <1>3, <3>1, <3>2, OneFills DEF Context
  <2>3. ASSUME l.pc \in {"pushReserve", "enqReserve"}, Waiting(m)
        PROVE  m.idx # top % N
    <3>1. l.pc = "enqReserve" /\ l.op = "enqueue" /\ m.op = "dequeue" /\ m.pc \in {"deqClaim", "deqCopy"}
          /\ m.idx = (bottom - 1) % N /\ bottom > 0
      BY <2>1, <2>3 DEF QueuePC, Belongs, Waiting, FitsQueue, Claims, Reads
    <3>2. bottom - 1 \in Nat /\ top \in Nat /\ N \in Nat \ {0}
      BY <1>1, <3>1 DEF Spanned
    <3>3. m.idx >= 0
      BY <1>1, <3>1, <3>2, SlotOf DEF Spanned
    <3>4. t \in Adding /\ u \in Removing
      BY <3>1, <3>3 DEF Adding, AddsL, Removing, RemovesL
    <3>5. /\ Cardinality(Adding) \in Nat /\ Cardinality(Adding) > 0
          /\ Cardinality(Removing) \in Nat /\ Cardinality(Removing) > 0
      BY <3>4, FS_CardinalityType, FS_EmptySet DEF Context, QueueInv, Balance
    <3>6. Cardinality(Adding) + (top - bottom) + Cardinality(Removing) <= N
      BY <3>5, <1>1, QueueUse DEF Context, QueueInv, Balance, Spanned
    <3>7. top - (bottom - 1) < N /\ (bottom - 1) - top < N /\ top # bottom - 1
      BY <1>1, <3>2, <3>5, <3>6 DEF Spanned
    <3> QED BY <3>1, <3>2, <3>7, ModDistinct
  <2>4. l.pc \in {"popCopy", "deqCopy"} /\ Storing(m) => l.idx # m.idx
    <3>1. l.pc \in {"popCopy", "deqCopy"} => Reads(l)
      BY <2>1 DEF QueuePC, Reads
    <3>2. Storing(m) => Fills(m)
      BY <2>1 DEF Storing, QueuePC, Fills
    <3> QED BY <3>1, <3>2, ReadFilled
  <2> QED BY <2>2, <2>3, <2>4 DEF Apart
<1> QED BY <1>1, <1>2, <1>3 DEF Tidy

\* A filler is alone, so the value an element is about to get is its value.
KnownReserved ==
  \A i \in Slots :
    /\ \A t \in Threads : Filling(t, i) => Reserved(i) = loc[t].v
    /\ (\A t \in Threads : ~Filling(t, i)) => Reserved(i) = cell[i].v

\* A filler fills the last position, so the sequence is what the elements have or will have.
KnownItems == Items = [k \in 1 .. top - bottom |-> Reserved((bottom + k - 1) % N)]

Abstract == Tidy /\ KnownReserved /\ KnownItems

\* Tidiness is all that the abstract sequence needs.
LEMMA TidyAbstract == Tidy => Abstract
<1> SUFFICES ASSUME Tidy PROVE KnownReserved /\ KnownItems
  BY DEF Abstract
<1>1. /\ N \in Nat \ {0} /\ Slots = 0 .. N - 1 /\ top \in Nat /\ bottom \in Nat
      /\ bottom <= top /\ top - bottom <= N
  BY DEF Tidy, Spanned
<1>2. \A t \in Threads : \A i : Filling(t, i) => Storing(loc[t]) /\ i = (top - 1) % N /\ top > 0
  BY DEF Tidy, Handles, Filling, Storing, Idx
<1>3. KnownReserved
  <2> SUFFICES ASSUME NEW i \in Slots
               PROVE  /\ \A t \in Threads : Filling(t, i) => Reserved(i) = loc[t].v
                      /\ (\A t \in Threads : ~Filling(t, i)) => Reserved(i) = cell[i].v
    BY DEF KnownReserved
  <2> DEFINE F == {t \in Threads : Filling(t, i)}
             c == CHOOSE t \in F : TRUE
  <2>1. Reserved(i) = IF F # {} THEN loc[c].v ELSE cell[i].v
    BY DEF Reserved
  <2>2. F # {} => c \in F
    OBVIOUS
  <2> HIDE DEF c
  <2>3. \A t, u \in F : t = u
    BY <1>2 DEF Tidy, Apart
  <2> QED BY <2>1, <2>2, <2>3
<1>4. KnownItems
  <2>1. ASSUME NEW k \in 1 .. top - bottom
        PROVE  ValueAt(bottom + k - 1) = Reserved((bottom + k - 1) % N)
    <3> DEFINE p == bottom + k - 1
    <3>1. p \in Nat /\ p < top /\ top - p <= N
      BY <1>1
    <3>2. CASE p = top - 1
      BY <3>2 DEF ValueAt
    <3>3. CASE p # top - 1
      <4>1. p % N \in Slots
        BY <1>1, <3>1, SlotOf
      <4>2. top - 1 \in Nat /\ (top - 1) - p < N /\ p - (top - 1) < N
        BY <1>1, <3>1
      <4>3. p % N # (top - 1) % N
        BY <1>1, <3>1, <3>3, <4>2, ModDistinct
      <4>4. \A t \in Threads : ~Filling(t, p % N)
        BY <1>2, <4>3
      <4>5. Reserved(p % N) = cell[p % N].v
        BY <1>3, <4>1, <4>4 DEF KnownReserved
      <4> QED BY <3>3, <4>5 DEF ValueAt
    <3> QED BY <3>2, <3>3
  <2> QED BY <2>1 DEF KnownItems, Items
<1> QED BY <1>3, <1>4

AbstractHolds == Disciplined => Abstract

\* A disciplined array always stands for a sequence.
LEMMA AbstractInv == Spec => [](IndexInv /\ OpInv /\ AbstractHolds)
<1>1. IndexInv /\ OpInv /\ QueueHolds /\ StackHolds => AbstractHolds
  BY EitherUse, StackTidy, QueueTidy, TidyAbstract
     DEF AbstractHolds, QueueHolds, StackHolds, Context, StackContext
<1> QED BY QueueInvHolds, StackInvHolds, <1>1, PTL

-------------------------------------------------------------------------------
(* The steps of the sequence *)

\* The state of the client of t.
Seen(t) ==
  CASE At(t, "idle") -> [st |-> "idle", op |-> "none", res |-> Undef]
    [] loc[t].pc \in Pending -> [st |-> "pending", op |-> loc[t].op, res |-> Undef]
    [] OTHER -> [st |-> "done", op |-> loc[t].op, res |-> Result(t)]

SameReserved == \A i \in Slots : Reserved(i)' = Reserved(i)

\* An operation that waits for its element will get the same value.
SameWait(u) == Waiting(loc[u]) => \A i \in Slots : i = loc[u].idx => Reserved(i)' = Reserved(i)

\* t takes a step of a disciplined use.
Stepping(t) ==
  /\ OpInv /\ Disciplined /\ Abstract /\ Abstract' /\ use' = use /\ Others(t)

\* Moving on keeps the values the elements have or will have.
LEMMA ReservedKept ==
  ASSUME NEW t \in Threads, Stepping(t), Storing(loc[t])' <=> Storing(loc[t]),
         Storing(loc[t]) => loc'[t].idx = loc[t].idx /\ loc'[t].v = loc[t].v,
         \A i \in Slots : cell'[i].v = cell[i].v
  PROVE  SameReserved
<1> SUFFICES ASSUME NEW i \in Slots PROVE Reserved(i)' = Reserved(i)
  BY DEF SameReserved
<1>1. Slots' = Slots
  BY DEF Stepping, Slots, N
<1>2. \A u \in Threads : (Filling(u, i)' <=> Filling(u, i)) /\ (Filling(u, i) => loc'[u].v = loc[u].v)
  BY DEF Stepping, Others, Filling, Storing, Idx
<1>3. CASE \E u \in Threads : Filling(u, i)
  BY <1>1, <1>2, <1>3 DEF Stepping, Abstract, KnownReserved
<1>4. CASE \A u \in Threads : ~Filling(u, i)
  BY <1>1, <1>2, <1>4 DEF Stepping, Abstract, KnownReserved
<1> QED BY <1>3, <1>4

\* Storing a value keeps them, too.
LEMMA ReservedStored ==
  ASSUME NEW t \in Threads, Stepping(t), Storing(loc[t]), ~Storing(loc[t])',
         \A i \in Slots : cell'[i].v = IF i = loc[t].idx THEN loc[t].v ELSE cell[i].v
  PROVE  SameReserved
<1> SUFFICES ASSUME NEW i \in Slots PROVE Reserved(i)' = Reserved(i)
  BY DEF SameReserved
<1>1. Slots' = Slots
  BY DEF Stepping, Slots, N
<1>2. \A u \in Threads : u # t => ~Storing(loc[u])
  BY DEF Stepping, Abstract, Tidy, Apart
<1>3. \A u \in Threads : ~Filling(u, i)' /\ (u # t => ~Filling(u, i))
  BY <1>2 DEF Stepping, Others, Filling, Storing
<1>4. Filling(t, i) <=> i = loc[t].idx
  BY DEF Filling, Storing, Idx
<1>5. Reserved(i)' = cell'[i].v
  BY <1>1, <1>3 DEF Stepping, Abstract, KnownReserved
<1>6. CASE i = loc[t].idx
  BY <1>4, <1>5, <1>6 DEF Stepping, Abstract, KnownReserved
<1>7. CASE i # loc[t].idx
  BY <1>3, <1>4, <1>5, <1>7 DEF Stepping, Abstract, KnownReserved
<1> QED BY <1>6, <1>7

\* Reserving an element for a value changes what it will have.
LEMMA ReservedAdded ==
  ASSUME NEW t \in Threads, Stepping(t), loc[t].pc \in {"pushReserve", "enqReserve"},
         Storing(loc[t])', loc'[t].v = loc[t].v, cell' = cell, NEW j \in Slots
  PROVE  Reserved(j)' = IF j = loc'[t].idx THEN loc[t].v ELSE Reserved(j)
<1>1. Slots' = Slots
  BY DEF Stepping, Slots, N
<1>2. \A u \in Threads : u # t => ~Storing(loc[u])
  BY DEF Stepping, Abstract, Tidy, Apart
<1>3. \A u \in Threads : ~Filling(u, j) /\ (u # t => ~Filling(u, j)')
  BY <1>2 DEF Stepping, Others, Filling, Storing
<1>4. Filling(t, j)' <=> j = loc'[t].idx
  BY DEF Filling, Storing, Idx
<1>5. Reserved(j) = cell[j].v
  BY <1>3 DEF Stepping, Abstract, KnownReserved
<1>6. CASE j = loc'[t].idx
  BY <1>1, <1>4, <1>6 DEF Stepping, Abstract, KnownReserved
<1>7. CASE j # loc'[t].idx
  BY <1>1, <1>3, <1>4, <1>5, <1>7 DEF Stepping, Abstract, KnownReserved
<1> QED BY <1>6, <1>7

\* A client whose operation stays where it is, or moves on with what it has.
LEMMA SeenKept ==
  ASSUME NEW t \in Threads, Stepping(t), NEW u \in Threads,
         loc'[u].op = loc[u].op, loc'[u].v = loc[u].v, loc'[u].idx = loc[u].idx,
         loc'[u].pc = "idle" <=> loc[u].pc = "idle", loc'[u].pc \in Pending <=> loc[u].pc \in Pending,
         SameWait(u)
  PROVE  Seen(u)' = Seen(u)
<1>1. Handles(loc[u])
  BY DEF Stepping, Abstract, Tidy
<1>2. Adds' = Adds /\ Pending' = Pending
  BY DEF Adds, Pending
<1>3. CASE loc[u].pc = "idle" \/ loc[u].pc \in Pending
  BY <1>2, <1>3 DEF Seen, At
<1>4. CASE loc[u].pc # "idle" /\ loc[u].pc \notin Pending
  <2> DEFINE i == loc[u].idx
  <2>1. CASE Waiting(loc[u])
    <3>1. PICK j \in Slots : j = i /\ Reserved(j)' = Reserved(j)
      BY <1>1, <2>1 DEF Handles, SameWait
    <3>2. Reserved(loc[u].idx)' = Reserved(i)
      BY <3>1
    <3> HIDE DEF i
    <3>3. Result(u)' = Result(u)
      BY <1>2, <3>2 DEF Result, Idx, i
    <3> QED BY <1>2, <1>4, <3>3 DEF Seen, At
  <2>2. CASE ~Waiting(loc[u])
    <3>1. Result(u)' = Result(u)
      BY <1>1, <1>2, <1>4, <2>2 DEF Result, Idx, Handles
    <3> QED BY <1>2, <1>4, <3>1 DEF Seen, At
  <2> QED BY <2>1, <2>2
<1> QED BY <1>3, <1>4

\* Only the client of t changes.
LEMMA ClientStep ==
  ASSUME NEW t \in Threads, Stepping(t), NEW c, Seen(t)' = c,
         \A u \in Threads : u # t => SameWait(u)
  PROVE  Client' = [Client EXCEPT ![t] = c] /\ Client[t] = Seen(t)
<1>1. Client = [u \in Threads |-> Seen(u)] /\ Client' = [u \in Threads |-> Seen(u)']
  BY DEF Client, Seen
<1>2. \A u \in Threads : u # t => Seen(u)' = Seen(u)
  BY SeenKept DEF Stepping, Others
<1> HIDE DEF Seen
<1> QED BY <1>1, <1>2

\* A step that leaves the sequence alone.
LEMMA ItemsKept ==
  ASSUME NEW t \in Threads, Stepping(t), UNCHANGED <<top, bottom>>, SameReserved
  PROVE  Items' = Items
<1>1. /\ N' = N /\ N \in Nat \ {0} /\ Slots = 0 .. N - 1
      /\ top \in Nat /\ bottom \in Nat /\ bottom <= top
  BY DEF Stepping, Abstract, Tidy, Spanned, N
<1>2. \A k \in 1 .. top - bottom : Reserved((bottom + k - 1) % N)' = Reserved((bottom + k - 1) % N)
  <2> TAKE k \in 1 .. top - bottom
  <2>1. bottom + k - 1 \in Nat
    BY <1>1
  <2>2. (bottom + k - 1) % N \in Slots
    BY <1>1, <2>1, SlotOf
  <2>3. PICK i \in Slots : i = (bottom + k - 1) % N
    BY <2>2
  <2>4. Reserved(i)' = Reserved(i)
    BY DEF SameReserved
  <2>5. i = (bottom' + k - 1) % N'
    BY <1>1, <2>3
  <2> QED BY <2>3, <2>4, <2>5
<1> QED BY <1>1, <1>2 DEF Stepping, Abstract, KnownItems

\* A step that leaves the clients alone as well.
LEMMA QuietAbstract ==
  ASSUME NEW t \in Threads, Stepping(t), UNCHANGED <<top, bottom>>, SameReserved, Seen(t)' = Seen(t)
  PROVE  UNCHANGED <<Items, Client>>
<1>1. \A u \in Threads : SameWait(u)
  BY DEF SameWait, SameReserved
<1>2. Client' = [Client EXCEPT ![t] = Seen(t)] /\ Client[t] = Seen(t)
  BY <1>1, ClientStep
<1>3. Client' = Client
  BY <1>2 DEF Client
<1> QED BY <1>3, ItemsKept

\* Moving on inside an operation.
LEMMA QuietGo ==
  ASSUME NEW t \in Threads, Stepping(t), UNCHANGED <<top, bottom>>, NEW p, Go(t, p),
         loc[t].pc # "idle", p # "idle", p \in Pending <=> loc[t].pc \in Pending,
         \/ /\ p \in {"pushWrite", "enqWrite"} <=> Storing(loc[t])
            /\ p \notin {"pushClaim", "enqCheck"}
            /\ \A i \in Slots : cell'[i].v = cell[i].v
         \/ /\ Storing(loc[t]) /\ p \in {"pushMark", "enqMark"}
            /\ \A i \in Slots : cell'[i].v = IF i = loc[t].idx THEN loc[t].v ELSE cell[i].v
  PROVE  UNCHANGED <<Items, Client>>
<1>1. loc'[t].pc = p /\ loc'[t].op = loc[t].op /\ loc'[t].v = loc[t].v /\ loc'[t].idx = loc[t].idx
  BY Moved DEF Stepping, OpInv, Alone
<1>2. SameReserved
  <2>1. CASE /\ p \in {"pushWrite", "enqWrite"} <=> Storing(loc[t])
             /\ p \notin {"pushClaim", "enqCheck"}
             /\ \A i \in Slots : cell'[i].v = cell[i].v
    <3>1. Storing(loc[t])' <=> Storing(loc[t])
      BY <1>1, <2>1 DEF Storing
    <3> QED BY <1>1, <2>1, <3>1, ReservedKept
  <2>2. CASE /\ Storing(loc[t]) /\ p \in {"pushMark", "enqMark"}
             /\ \A i \in Slots : cell'[i].v = IF i = loc[t].idx THEN loc[t].v ELSE cell[i].v
    <3>1. ~Storing(loc[t])'
      BY <1>1, <2>2 DEF Storing
    <3> QED BY <2>2, <3>1, ReservedStored
  <2> QED BY <2>1, <2>2
<1>3. SameWait(t)
  BY <1>2 DEF SameWait, SameReserved
<1>4. Seen(t)' = Seen(t)
  BY <1>1, <1>3, SeenKept
<1> QED BY <1>2, <1>4, QuietAbstract

\* Taking and releasing an index is no step of the sequence.
LEMMA TagQuiet ==
  ASSUME NEW t \in Threads, Stepping(t), LockTop(t) \/ LockBottom(t) \/ UnlockTop(t) \/ UnlockBottom(t)
  PROVE  UNCHANGED <<Items, Client>>
<1>1. UNCHANGED <<top, bottom, cell>>
  BY DEF LockTop, LockBottom, UnlockTop, UnlockBottom
<1>2. CASE LockTop(t) \/ LockBottom(t)
  <2>1. loc[t].pc = "lock" /\ Go(t, Start(loc[t].op))
    BY <1>2 DEF LockTop, LockBottom, At
  <2> DEFINE p == Start(loc[t].op)
  <2>2. p \in {"pushReserve", "popReserve", "enqReserve", "deqReserve"}
    BY DEF Start
  <2> HIDE DEF p
  <2>3. Go(t, p)
    BY <2>1 DEF p
  <2> QED BY <1>1, <2>1, <2>2, <2>3, QuietGo DEF Pending, Storing
<1>3. CASE UnlockTop(t) \/ UnlockBottom(t)
  <2>1. PICK p \in {"reset", "done", "deqLateCopy"} : loc[t].pc = "unlock" /\ Go(t, p)
    BY <1>3 DEF UnlockTop, UnlockBottom, At
  <2>2. p = "done"
    <3>1. loc'[t].pc = p
      BY <2>1, Moved DEF Stepping, OpInv
    <3> QED BY <2>1, <3>1 DEF Stepping, Abstract, Tidy, Handles
  <2> QED BY <1>1, <2>1, <2>2, QuietGo DEF Pending, Storing
<1> QED BY <1>2, <1>3

\* The tag of an element does not show.
LEMMA MarkQuiet ==
  ASSUME NEW t \in Threads, Stepping(t),
         \/ PushClaim(t) \/ PushMark(t) \/ PopClaim(t) \/ PopMark(t)
         \/ EnqCheck(t) \/ EnqMark(t) \/ DeqClaim(t) \/ DeqMark(t)
  PROVE  UNCHANGED <<Items, Client>>
<1>1. UNCHANGED <<top, bottom>>
  BY DEF PushClaim, PushMark, PopClaim, PopMark, EnqCheck, EnqMark, DeqClaim, DeqMark, shared
<1>2. cell \in [Slots -> [fe : {"FULL", "EMPTY", "BUSY"}, v : Value \cup {Undef}]]
  BY DEF Stepping, Abstract, Tidy, Spanned
<1>3. (\E f : SetFE(loc[t].idx, f)) \/ UNCHANGED cell
  <2>1. CASE PushClaim(t) \/ PushMark(t) \/ PopClaim(t) \/ PopMark(t)
    BY <2>1 DEF PushClaim, PushMark, PopClaim, PopMark, Idx
  <2>2. CASE EnqCheck(t) \/ EnqMark(t) \/ DeqClaim(t) \/ DeqMark(t)
    BY <2>2 DEF EnqCheck, EnqMark, DeqClaim, DeqMark, Idx, shared
  <2> QED BY <2>1, <2>2
<1>4. \A i \in Slots : cell'[i].v = cell[i].v
  <2> DEFINE x == loc[t].idx
  <2>1. ASSUME NEW f, cell' = [cell EXCEPT ![x].fe = f], NEW i \in Slots
        PROVE  cell'[i].v = cell[i].v
    <3> HIDE DEF x
    <3>1. CASE i = x
      BY <1>2, <2>1, <3>1
    <3>2. CASE i # x
      BY <1>2, <2>1, <3>2
    <3> QED BY <3>1, <3>2
  <2> QED BY <1>3, <2>1 DEF SetFE
<1>5. ~QueueFull
  BY DEF Stepping, Abstract, Tidy, Spanned, QueueFull
<1>6. \E p : /\ Go(t, p) /\ loc[t].pc \notin Pending \cup {"idle"} /\ p \notin Pending \cup {"idle"}
             /\ p \in {"pushWrite", "enqWrite"} <=> Storing(loc[t])
             /\ p \notin {"pushClaim", "enqCheck"}
  <2>1. CASE PushClaim(t) \/ PushMark(t) \/ PopClaim(t) \/ PopMark(t)
    BY <2>1 DEF PushClaim, PushMark, PopClaim, PopMark, At, Pending, Storing
  <2>2. CASE EnqCheck(t) \/ EnqMark(t) \/ DeqClaim(t) \/ DeqMark(t)
    BY <1>5, <2>2 DEF EnqCheck, EnqMark, DeqClaim, DeqMark, At, Pending, Storing
  <2> QED BY <2>1, <2>2
<1> QED BY <1>1, <1>4, <1>6, QuietGo

\* An add has taken effect before its value is stored.
LEMMA WriteQuiet ==
  ASSUME NEW t \in Threads, Stepping(t), PushWrite(t) \/ EnqWrite(t)
  PROVE  UNCHANGED <<Items, Client>>
<1>1. ~AllocFails(loc[t].v)
  BY DEF Stepping, Disciplined, AllocFails
<1>2. PICK p \in {"pushMark", "enqMark"} :
        /\ Go(t, p) /\ loc[t].pc \in {"pushWrite", "enqWrite"} /\ UNCHANGED <<top, bottom>>
        /\ cell' = [cell EXCEPT ![loc[t].idx].v = loc[t].v]
  BY <1>1 DEF PushWrite, EnqWrite, At, Idx
<1>3. cell \in [Slots -> [fe : {"FULL", "EMPTY", "BUSY"}, v : Value \cup {Undef}]]
  BY DEF Stepping, Abstract, Tidy, Spanned
<1>4. \A i \in Slots : cell'[i].v = IF i = loc[t].idx THEN loc[t].v ELSE cell[i].v
  BY <1>2, <1>3
<1> QED BY <1>2, <1>4, QuietGo DEF Storing, Pending

\* A removal has taken effect before its value is copied.
LEMMA CopyQuiet ==
  ASSUME NEW t \in Threads, Stepping(t), PopCopy(t) \/ DeqCopy(t)
  PROVE  UNCHANGED <<Items, Client>>
<1> DEFINE i == loc[t].idx
           x == cell[i].v
<1>1. /\ loc[t].pc \in {"popCopy", "deqCopy"} /\ UNCHANGED <<top, bottom, cell>>
      /\ \E p \in {"popMark", "deqMark"} : GoVal(t, p, x)
  <2>1. ~AllocFails(cell[loc[t].idx].v)
    BY DEF Stepping, Disciplined, AllocFails
  <2> QED BY <2>1 DEF PopCopy, DeqCopy, At, Idx, shared
<1>2. loc[t].op \in {"pop", "dequeue"} /\ loc[t].v = Undef /\ i \in Slots
  BY <1>1 DEF Stepping, OpInv, Belongs, Abstract, Tidy, Handles, Waiting, Adds
<1>3. \A u \in Threads : ~Filling(u, i)
  BY <1>1 DEF Stepping, Abstract, Tidy, Apart, Filling, Storing, Idx
<1>4. Reserved(i) = x
  BY <1>2, <1>3 DEF Stepping, Abstract, KnownReserved
<1> HIDE DEF x
<1>5. /\ loc'[t].pc \in {"popMark", "deqMark"} /\ loc'[t].op = loc[t].op /\ loc'[t].v = x
      /\ loc'[t].idx = i
  BY <1>1, Moved DEF Stepping, OpInv, Alone
<1>6. SameReserved
  BY <1>1, <1>5, ReservedKept DEF Storing
<1>7. i >= 0 /\ ~(i < 0)
  BY <1>2 DEF Stepping, Abstract, Tidy, Spanned
<1> HIDE DEF i
<1>8. Reserved(i)' = x
  <2>1. PICK j \in Slots : j = i
    BY <1>2
  <2>2. Reserved(j)' = Reserved(j) /\ i' = j
    BY <1>5, <1>6, <2>1 DEF SameReserved, i
  <2> QED BY <1>4, <2>1, <2>2
<1>9. Result(t) = x
  BY <1>2, <1>4, <1>7 DEF Result, Idx, Adds, i
<1>10. Result(t)' = x
  BY <1>2, <1>5, <1>7, <1>8 DEF Result, Idx, Adds, i
<1>11. Seen(t)' = Seen(t)
  BY <1>1, <1>5, <1>9, <1>10 DEF Seen, At, Pending
<1> QED BY <1>1, <1>6, <1>11, QuietAbstract

\* A sequence written out, and what the operations make of it.
LEMMA Listed ==
  ASSUME NEW n \in Nat, NEW f, f = [k \in 1 .. n |-> f[k]]
  PROVE  /\ n = 0 <=> f = <<>>
         /\ \A v : Append(f, v) = [k \in 1 .. n + 1 |-> IF k = n + 1 THEN v ELSE f[k]]
         /\ n > 0 => /\ Head(f) = f[1] /\ Tail(f) = [k \in 1 .. n - 1 |-> f[k + 1]]
                     /\ Sequence!Last(f) = f[n]
<1>1. Len(f) = n /\ (n = 0 <=> f = <<>>)
  OBVIOUS
<1>2. \A v : Append(f, v) = [k \in 1 .. n + 1 |-> IF k = n + 1 THEN v ELSE f[k]]
  BY <1>1
<1>3. n > 0 => Head(f) = f[1] /\ Tail(f) = [k \in 1 .. n - 1 |-> f[k + 1]]
  BY <1>1
<1>4. n > 0 => Sequence!Last(f) = f[n]
  BY <1>1 DEF Sequence!Last
<1> QED BY <1>1, <1>2, <1>3, <1>4

\* The sequence of a tidy array.
LEMMA ItemsListed ==
  ASSUME Abstract
  PROVE  /\ N \in Nat \ {0} /\ Slots = 0 .. N - 1 /\ top \in Nat /\ bottom \in Nat /\ top - bottom \in Nat
         /\ top - bottom <= N /\ Items = [k \in 1 .. top - bottom |-> Items[k]]
         /\ \A k \in 1 .. top - bottom : Items[k] = Reserved((bottom + k - 1) % N)
<1>1. /\ N \in Nat \ {0} /\ Slots = 0 .. N - 1 /\ top \in Nat /\ bottom \in Nat /\ bottom <= top
      /\ top - bottom <= N
  BY DEF Abstract, Tidy, Spanned
<1>2. Items = [k \in 1 .. top - bottom |-> Reserved((bottom + k - 1) % N)]
  BY DEF Abstract, KnownItems
<1> QED BY <1>1, <1>2

\* The state of a client with two fields replaced.
LEMMA ClientFields ==
  ASSUME NEW b, NEW c, b = [f \in {"st", "op", "res"} |-> b[f]], c = [f \in {"st", "op", "res"} |-> c[f]]
  PROVE  /\ c.op = b.op => [b EXCEPT !.st = c.st, !.res = c.res] = c
         /\ c.res = b.res => [b EXCEPT !.st = c.st, !.op = c.op] = c
<1> DEFINE F == {"st", "op", "res"}
<1>1. c.op = b.op => \A f \in F : [b EXCEPT !.st = c.st, !.res = c.res][f] = c[f]
  OBVIOUS
<1>2. c.res = b.res => \A f \in F : [b EXCEPT !.st = c.st, !.op = c.op][f] = c[f]
  OBVIOUS
<1> QED BY <1>1, <1>2

\* A call reaches the sequence when it takes effect.
LEMMA CallSequence ==
  ASSUME NEW t \in Threads, Stepping(t), NEW o \in UNION Kinds, Call(t, o)
  PROVE  Sequence!Call(t)
<1>1. PICK v \in IF o \in Adds THEN use.values ELSE {Undef} :
        loc' = [loc EXCEPT ![t] = [Idle EXCEPT !.pc = "lock", !.op = o, !.v = v]]
  BY DEF Call
<1>2. loc[t].pc = "idle" /\ UNCHANGED <<top, bottom, cell>>
  BY DEF Call, At, shared
<1> DEFINE m == [Idle EXCEPT !.pc = "lock", !.op = o, !.v = v]
<1>3. m.pc = "lock" /\ m.op = o
  BY DEF Idle
<1> HIDE DEF m
<1>4. loc'[t] = m
  BY <1>1 DEF Stepping, OpInv, Shaped, m
<1>5. SameReserved
  BY <1>2, <1>3, <1>4, ReservedKept DEF Storing
<1>6. /\ Seen(t) = [st |-> "idle", op |-> "none", res |-> Undef]
      /\ Seen(t)' = [st |-> "pending", op |-> o, res |-> Undef]
  BY <1>2, <1>3, <1>4 DEF Seen, At, Pending
<1>7. \A u \in Threads : SameWait(u)
  BY <1>5 DEF SameWait, SameReserved
<1> HIDE DEF Seen
<1> DEFINE c == [st |-> "pending", op |-> o, res |-> Undef]
<1>8. Seen(t)' = c
  BY <1>6
<1>9. [Sequence!Quiet EXCEPT !.st = "pending", !.op = o] = c
  <2> DEFINE b == Sequence!Quiet
  <2>1. b.res = Undef /\ b = [f \in {"st", "op", "res"} |-> b[f]]
    BY DEF Sequence!Quiet
  <2>2. c.st = "pending" /\ c.op = o /\ c.res = Undef /\ c = [f \in {"st", "op", "res"} |-> c[f]]
    OBVIOUS
  <2> HIDE DEF b, c
  <2>3. [b EXCEPT !.st = "pending", !.op = o] = c
    BY <2>1, <2>2, ClientFields
  <2> QED BY <2>3 DEF b
<1> HIDE DEF c
<1>10. Client' = [Client EXCEPT ![t] = c] /\ Client[t].st = "idle"
  BY <1>6, <1>7, <1>8, ClientStep
<1>11. Items' = Items
  BY <1>2, <1>5, ItemsKept
<1> QED BY <1>9, <1>10, <1>11 DEF Sequence!Call

\* A call returns with the result it had when it took effect.
LEMMA FinishSequence ==
  ASSUME NEW t \in Threads, Stepping(t), Finish(t)
  PROVE  Sequence!Return(t)
<1>1. loc[t].pc = "done" /\ UNCHANGED <<top, bottom, cell>> /\ loc'[t] = Idle
  BY DEF Finish, At, shared, Stepping, OpInv, Shaped
<1>2. SameReserved
  BY <1>1, IdleFields, ReservedKept DEF Storing
<1>3. Seen(t).st = "done" /\ Seen(t)' = Sequence!Quiet
  BY <1>1, IdleFields DEF Seen, At, Pending, Sequence!Quiet
<1>4. \A u \in Threads : SameWait(u)
  BY <1>2 DEF SameWait, SameReserved
<1> HIDE DEF Seen
<1>5. Client' = [Client EXCEPT ![t] = Sequence!Quiet] /\ Client[t].st = "done"
  BY <1>3, <1>4, ClientStep
<1>6. Items' = Items
  BY <1>1, <1>2, ItemsKept
<1> QED BY <1>5, <1>6 DEF Sequence!Return

\* A pending operation of the sequence takes effect.
LEMMA TakesEffect ==
  ASSUME NEW t \in Threads, Stepping(t), loc[t].pc \in Pending, loc'[t].pc \notin Pending \cup {"idle"},
         loc'[t].op = loc[t].op, NEW r, Result(t)' = r, \A u \in Threads : u # t => SameWait(u)
  PROVE  Sequence!Done(t, loc[t].op, r)
<1>1. loc[t].pc # "idle" /\ Pending' = Pending
  BY DEF Pending
<1> DEFINE b == [st |-> "pending", op |-> loc[t].op, res |-> Undef]
           c == [st |-> "done", op |-> loc[t].op, res |-> r]
<1>2. Seen(t) = b /\ Seen(t)' = c
  BY <1>1 DEF Seen, At
<1>3. b.st = "pending" /\ b.op = loc[t].op /\ [b EXCEPT !.st = "done", !.res = r] = c
  <2>1. b.st = "pending" /\ b.op = loc[t].op /\ b = [f \in {"st", "op", "res"} |-> b[f]]
    OBVIOUS
  <2>2. c.st = "done" /\ c.op = loc[t].op /\ c.res = r /\ c = [f \in {"st", "op", "res"} |-> c[f]]
    OBVIOUS
  <2> HIDE DEF b, c
  <2>3. c.op = b.op
    BY <2>1, <2>2
  <2>4. [b EXCEPT !.st = c.st, !.res = c.res] = c
    <3>1. b = [f \in {"st", "op", "res"} |-> b[f]] /\ c = [f \in {"st", "op", "res"} |-> c[f]]
      BY <2>1, <2>2
    <3> HIDE <2>1, <2>2
    <3> QED BY <2>3, <3>1, ClientFields
  <2> QED BY <2>1, <2>2, <2>4
<1> HIDE DEF b, c, Seen
<1>4. Client' = [Client EXCEPT ![t] = c] /\ Client[t] = b
  BY <1>2, ClientStep
<1> DEFINE K == Client
<1>5. K = [u \in Threads |-> K[u]]
  BY DEF Client
<1>6. Client' = [K EXCEPT ![t].st = "done", ![t].res = r]
  <2> HIDE DEF K
  <2>1. [K EXCEPT ![t].st = "done", ![t].res = r] = [K EXCEPT ![t] = [K[t] EXCEPT !.st = "done", !.res = r]]
    BY <1>5
  <2>2. K[t] = b
    BY <1>4 DEF K
  <2> QED BY <1>3, <1>4, <2>1, <2>2 DEF K
<1> QED BY <1>3, <1>4, <1>6 DEF Sequence!Done

\* The sequence after a step of t.
LEMMA NextItems ==
  ASSUME NEW t \in Threads, Stepping(t)
  PROVE  /\ N' = N /\ Slots' = Slots /\ top' \in Nat /\ bottom' \in Nat /\ top' - bottom' \in Nat
         /\ top' - bottom' <= N /\ Items' = [k \in 1 .. top' - bottom' |-> Items'[k]]
         /\ \A k \in 1 .. top' - bottom', i \in Slots : i = (bottom' + k - 1) % N => Items'[k] = Reserved(i)'
<1>1. /\ N' = N /\ Slots' = Slots /\ N \in Nat \ {0} /\ top' \in Nat /\ bottom' \in Nat /\ bottom' <= top'
      /\ top' - bottom' <= N
  BY DEF Stepping, Abstract, Tidy, Spanned, N, Slots
<1>2. Items' = [k \in 1 .. top' - bottom' |-> Reserved((bottom + k - 1) % N)']
  BY DEF Stepping, Abstract, KnownItems
<1>3. ASSUME NEW k \in 1 .. top' - bottom', NEW i \in Slots, i = (bottom' + k - 1) % N
      PROVE  Items'[k] = Reserved(i)'
  <2>1. i = (bottom' + k - 1) % N'
    BY <1>1, <1>3
  <2> QED BY <1>2, <2>1
<1>4. Items' = [k \in 1 .. top' - bottom' |-> Items'[k]]
  BY <1>2
<1> QED BY <1>1, <1>3, <1>4

\* An add takes effect when it reserves its position.
LEMMA AddSequence ==
  ASSUME NEW t \in Threads, Stepping(t), PushReserve(t) \/ EnqReserve(t)
  PROVE  Sequence!Add(t, "push") \/ Sequence!Add(t, "enqueue")
<1> DEFINE x == top % N
           v == loc[t].v
           n == top - bottom
<1>1. /\ N \in Nat \ {0} /\ Slots = 0 .. N - 1 /\ top \in Nat /\ bottom \in Nat /\ n \in Nat
      /\ Items = [k \in 1 .. n |-> Items[k]]
      /\ \A k \in 1 .. n : Items[k] = Reserved((bottom + k - 1) % N)
  BY ItemsListed DEF Stepping
<1>2. top' = top + 1 /\ UNCHANGED <<bottom, cell>>
  BY DEF PushReserve, EnqReserve
<1>3. /\ n < N /\ top' - bottom' = n + 1 /\ Items' = [k \in 1 .. n + 1 |-> Items'[k]]
      /\ \A k \in 1 .. n + 1, i \in Slots : i = (bottom + k - 1) % N => Items'[k] = Reserved(i)'
  <2>1. top' - bottom' = n + 1
    BY <1>1, <1>2
  <2> QED BY <1>1, <1>2, <2>1, NextItems
<1>4. /\ loc[t].pc \in {"pushReserve", "enqReserve"} /\ loc[t].op \in {"push", "enqueue"} /\ v \in Value
      /\ loc[t].pc = "pushReserve" => ~StackFull(top) /\ top < N
  BY DEF PushReserve, EnqReserve, At, Stepping, OpInv, Belongs, Abstract, Tidy, Handles, Spanned, Adds
<1>5. x \in Slots /\ (loc[t].pc = "pushReserve" => x = top)
  <2>1. loc[t].pc = "pushReserve" => top \in 0 .. N - 1
    BY <1>1, <1>4
  <2> QED BY <1>1, <2>1, SlotOf, ModSmall
<1>6. \E p \in {"pushClaim", "enqCheck"} : GoIdx(t, p, x)
  BY <1>4, <1>5 DEF PushReserve, EnqReserve, At
<1> HIDE DEF x, v, n
<1>7. /\ loc'[t].pc \in {"pushClaim", "enqCheck"} /\ loc'[t].op = loc[t].op /\ loc'[t].v = v
      /\ loc'[t].idx = x
  BY <1>6, Moved DEF Stepping, OpInv, Alone, v
<1>8. \A j \in Slots : Reserved(j)' = IF j = x THEN v ELSE Reserved(j)
  BY <1>2, <1>4, <1>7, ReservedAdded DEF Storing, v
<1>9. \A k \in 1 .. n : Items'[k] = Items[k]
  <2> TAKE k \in 1 .. n
  <2> DEFINE p == bottom + k - 1
  <2>1. p \in Nat /\ p # top /\ top - p < N /\ p - top < N
    <3>1. /\ k \in Nat /\ 1 <= k /\ k <= n /\ top = bottom + n /\ n \in Nat /\ n < N
          /\ top \in Nat /\ bottom \in Nat /\ N \in Nat
      BY <1>1, <1>3 DEF n
    <3>2. p \in Nat /\ p < top /\ top - p <= n
      BY <3>1
    <3> HIDE DEF p
    <3> QED BY <3>1, <3>2
  <2>2. p % N \in Slots /\ p % N # x
    BY <1>1, <2>1, SlotOf, ModDistinct DEF x
  <2>3. PICK j \in Slots : j = p % N
    BY <2>2
  <2>4. Items[k] = Reserved(j)
    BY <1>1, <2>3
  <2>5. k \in 1 .. n + 1
    BY <1>1
  <2>6. Items'[k] = Reserved(j)'
    BY <1>3, <2>3, <2>5
  <2>7. j # x
    BY <2>2, <2>3
  <2>8. Reserved(j)' = Reserved(j)
    BY <1>8, <2>7
  <2> QED BY <2>4, <2>6, <2>8
<1>10. Items'[n + 1] = v
  <2>1. x = (bottom + (n + 1) - 1) % N /\ n + 1 \in 1 .. n + 1
    <3>1. bottom + (n + 1) - 1 = top
      BY <1>1 DEF n
    <3>2. n + 1 \in 1 .. n + 1
      BY <1>1
    <3> QED BY <3>1, <3>2 DEF x
  <2>2. PICK j \in Slots : j = x
    BY <1>5
  <2> QED BY <1>3, <1>8, <2>1, <2>2
<1>11. Items' = Append(Items, v)
  <2>1. Append(Items, v) = [k \in 1 .. n + 1 |-> IF k = n + 1 THEN v ELSE Items[k]]
    BY <1>1, Listed
  <2>2. \A k \in 1 .. n + 1 : k = n + 1 \/ k \in 1 .. n
    BY <1>1
  <2> QED BY <1>3, <1>9, <1>10, <2>1, <2>2
<1>12. Result(t)' = v
  BY <1>4, <1>7 DEF Result, Adds
<1>13. \A u \in Threads : u # t => SameWait(u)
  BY <1>4, <1>8 DEF SameWait, Stepping, Abstract, Tidy, Apart, x
<1>14. Sequence!Done(t, loc[t].op, v)
  BY <1>4, <1>7, <1>12, <1>13, TakesEffect DEF Pending
<1> QED BY <1>4, <1>11, <1>14 DEF Sequence!Add

\* What a removal has when it has reserved element x.
LEMMA ResultReserved ==
  ASSUME NEW t \in Threads, Stepping(t), SameReserved, NEW x \in Slots,
         loc'[t].op \notin Adds, loc'[t].idx = x, loc'[t].v = Undef
  PROVE  Result(t)' = Reserved(x)
<1>1. Reserved(x)' = Reserved(x) /\ x >= 0 /\ ~(x < 0)
  BY DEF SameReserved, Stepping, Abstract, Tidy, Spanned
<1>2. Result(t)' = Reserved(x)'
  BY <1>1 DEF Result, Idx, Adds
<1> QED BY <1>1, <1>2

\* A pop takes the last value when it moves STACKTOP, or finds the stack empty.
LEMMA PopSequence ==
  ASSUME NEW t \in Threads, Stepping(t), PopReserve(t)
  PROVE  Sequence!Pop(t)
<1>1. /\ loc[t].pc = "popReserve" /\ loc[t].op = "pop" /\ loc[t].v = Undef
      /\ bottom = 0 /\ top < N /\ top \in Nat /\ UNCHANGED <<bottom, cell>>
      /\ N \in Nat \ {0} /\ Slots = 0 .. N - 1
  <2>1. loc[t].pc = "popReserve" /\ loc[t].op = "pop" /\ "push" \in use.ops
    BY UseKinds DEF PopReserve, At, Stepping, OpInv, Belongs, Kinds
  <2> QED BY <2>1 DEF PopReserve, Stepping, Abstract, Tidy, Handles, Spanned, Adds, Pending
<1>2. \E p \in {"popClaim", "unlock"}, x \in Int : GoIdx(t, p, x)
  BY <1>1 DEF PopReserve
<1>3. /\ loc'[t].pc \in {"popClaim", "unlock"} /\ loc'[t].op = "pop" /\ loc'[t].v = Undef
      /\ loc'[t].op \notin Adds
  BY <1>1, <1>2, Moved DEF Stepping, OpInv, Alone, Adds
<1>4. SameReserved
  BY <1>1, <1>3, ReservedKept DEF Storing
<1>5. \A u \in Threads : SameWait(u)
  BY <1>4 DEF SameWait, SameReserved
<1>6. \A r : Result(t)' = r => Sequence!Done(t, "pop", r)
  BY <1>1, <1>3, <1>5, TakesEffect DEF Pending
<1>7. /\ Items = [k \in 1 .. top |-> Items[k]]
      /\ \A k \in 1 .. top : Items[k] = Reserved((k - 1) % N)
  <2>1. top - bottom = top /\ \A k \in 1 .. top : bottom + k - 1 = k - 1
    BY <1>1
  <2> QED BY <2>1, ItemsListed DEF Stepping
<1>8. CASE top > 0
  <2>1. GoIdx(t, "popClaim", top - 1) /\ top' = top - 1 /\ bottom' = 0
    BY <1>1, <1>8 DEF PopReserve
  <2>2. loc'[t].idx = top - 1 /\ top - 1 \in Slots
    BY <1>1, <1>8, <2>1, Moved DEF Stepping, OpInv
  <2>3. Result(t)' = Reserved(top - 1)
    <3>1. PICK x \in Slots : x = top - 1
      BY <2>2
    <3> QED BY <1>3, <1>4, <2>2, <3>1, ResultReserved
  <2>4. Items[top] = Reserved(top - 1)
    <3>1. (top - 1) % N = top - 1
      BY <1>1, <2>2, ModSmall
    <3>2. top \in 1 .. top
      BY <1>1, <1>8
    <3>3. Items[top] = Reserved((top - 1) % N)
      BY <1>7, <3>2
    <3> QED BY <3>1, <3>3
  <2>5. /\ Items # <<>> /\ Sequence!Last(Items) = Items[top]
        /\ Sequence!Front(Items) = [k \in 1 .. top - 1 |-> Items[k]]
    <3> DEFINE f == Items
               n == top
    <3>1. n \in Nat /\ n > 0 /\ f = [k \in 1 .. n |-> f[k]]
      BY <1>1, <1>7, <1>8
    <3> HIDE DEF f, n
    <3>2. f # <<>>
      BY <3>1, Listed
    <3>3. Sequence!Last(f) = f[n]
      BY <3>1, Listed
    <3>4. Len(f) = n
      BY <3>1
    <3>5. Sequence!Front(f) = [k \in 1 .. n - 1 |-> f[k]]
      BY <3>4 DEF Sequence!Front
    <3> QED BY <3>2, <3>3, <3>5, Zenon DEF f, n
  <2>6. top' - bottom' = top - 1 /\ bottom' = 0
    BY <1>1, <2>1
  <2>7. /\ Items' = [k \in 1 .. top - 1 |-> Items'[k]]
        /\ \A k \in 1 .. top - 1, i \in Slots : i = (k - 1) % N => Items'[k] = Reserved(i)'
    <3>1. \A k \in 1 .. top - 1 : bottom' + k - 1 = k - 1
      BY <2>6
    <3> QED BY <2>6, <3>1, NextItems
  <2>8. \A k \in 1 .. top - 1 : Items'[k] = Items[k]
    <3> TAKE k \in 1 .. top - 1
    <3>1. k - 1 \in Nat /\ k \in 1 .. top
      BY <1>1
    <3>2. PICK i \in Slots : i = (k - 1) % N
      BY <1>1, <3>1, SlotOf
    <3>3. Items'[k] = Reserved(i)' /\ Items[k] = Reserved(i)
      BY <1>7, <2>7, <3>1, <3>2
    <3> QED BY <1>4, <3>3 DEF SameReserved
  <2>9. Items' = Sequence!Front(Items)
    BY <2>5, <2>7, <2>8
  <2>10. Sequence!Done(t, "pop", Sequence!Last(Items))
    BY <1>6, <2>3, <2>4, <2>5
  <2> QED BY <2>5, <2>9, <2>10 DEF Sequence!Pop
<1>9. CASE top = 0
  <2>1. GoIdx(t, "unlock", -1) /\ top' = top /\ bottom' = bottom
    BY <1>1, <1>9 DEF PopReserve, Stepping, Disciplined
  <2>2. loc'[t].idx = -1
    BY <2>1, Moved DEF Stepping, OpInv
  <2>3. Result(t)' = Undef
    BY <1>3, <2>2 DEF Result, Idx
  <2>4. Items = <<>>
    BY <1>7, <1>9, Listed
  <2>5. Items' = Items
    BY <1>4, <2>1, ItemsKept
  <2> QED BY <1>6, <2>3, <2>4, <2>5 DEF Sequence!Pop
<1> QED BY <1>1, <1>8, <1>9

\* A dequeue takes the first value when it moves Q_BOTTOM, or finds the queue empty.
LEMMA DequeueSequence ==
  ASSUME NEW t \in Threads, Stepping(t), DeqReserve(t)
  PROVE  Sequence!Dequeue(t)
<1> DEFINE n == top - bottom
           x == bottom % N
<1>1. /\ loc[t].pc = "deqReserve" /\ loc[t].op = "dequeue" /\ loc[t].v = Undef
      /\ UNCHANGED <<top, cell>> /\ Build = "O1"
  BY DEF DeqReserve, At, Stepping, OpInv, Belongs, Abstract, Tidy, Handles, Adds, Pending, Disciplined
<1>2. /\ N \in Nat \ {0} /\ Slots = 0 .. N - 1 /\ top \in Nat /\ bottom \in Nat /\ n \in Nat
      /\ Items = [k \in 1 .. n |-> Items[k]]
      /\ \A k \in 1 .. n : Items[k] = Reserved((bottom + k - 1) % N)
  BY ItemsListed DEF Stepping
<1>3. x \in Slots /\ x \in Int
  BY <1>2, SlotOf
<1>4. QueueEmpty <=> n = 0
  BY <1>2 DEF QueueEmpty
<1> HIDE DEF x
<1>5. \E p \in {"deqClaim", "unlock"}, y \in Int : GoIdx(t, p, y)
  BY <1>1, <1>2, <1>3 DEF DeqReserve, x
<1>6. /\ loc'[t].pc \in {"deqClaim", "unlock"} /\ loc'[t].op = "dequeue" /\ loc'[t].v = Undef
      /\ loc'[t].op \notin Adds
  BY <1>1, <1>5, Moved DEF Stepping, OpInv, Alone, Adds
<1>7. SameReserved
  BY <1>1, <1>6, ReservedKept DEF Storing
<1>8. \A u \in Threads : SameWait(u)
  BY <1>7 DEF SameWait, SameReserved
<1>9. \A r : Result(t)' = r => Sequence!Done(t, "dequeue", r)
  BY <1>1, <1>6, <1>8, TakesEffect DEF Pending
<1>10. CASE ~QueueEmpty
  <2>1. GoIdx(t, "deqClaim", x) /\ bottom' = bottom + 1 /\ n > 0
    BY <1>2, <1>4, <1>10 DEF DeqReserve, x
  <2>2. loc'[t].idx = x
    BY <2>1, Moved DEF Stepping, OpInv
  <2>3. Result(t)' = Reserved(x)
    BY <1>3, <1>6, <1>7, <2>2, ResultReserved
  <2>4. Items[1] = Reserved(x)
    <3>1. 1 \in 1 .. n /\ bottom + 1 - 1 = bottom
      BY <1>2, <2>1
    <3> QED BY <1>2, <3>1 DEF x
  <2>5. /\ Items # <<>> /\ Head(Items) = Items[1]
        /\ Tail(Items) = [k \in 1 .. n - 1 |-> Items[k + 1]]
    <3> DEFINE f == Items
    <3>1. n \in Nat /\ n > 0 /\ f = [k \in 1 .. n |-> f[k]]
      BY <1>2, <2>1
    <3> HIDE DEF f, n
    <3>2. f # <<>> /\ Head(f) = f[1] /\ Tail(f) = [k \in 1 .. n - 1 |-> f[k + 1]]
      BY <3>1, Listed
    <3> QED BY <3>2, Zenon DEF f
  <2>6. top' - bottom' = n - 1
    BY <1>1, <1>2, <2>1
  <2>7. /\ Items' = [k \in 1 .. n - 1 |-> Items'[k]]
        /\ \A k \in 1 .. n - 1, i \in Slots : i = (bottom + k) % N => Items'[k] = Reserved(i)'
    <3>1. \A k \in 1 .. n - 1 : bottom' + k - 1 = bottom + k
      BY <1>2, <2>1
    <3> QED BY <2>6, <3>1, NextItems
  <2>8. \A k \in 1 .. n - 1 : Items'[k] = Items[k + 1]
    <3> TAKE k \in 1 .. n - 1
    <3>1. bottom + k \in Nat /\ k + 1 \in 1 .. n /\ bottom + (k + 1) - 1 = bottom + k
      BY <1>2
    <3>2. PICK i \in Slots : i = (bottom + k) % N
      BY <1>2, <3>1, SlotOf
    <3>3. Items'[k] = Reserved(i)'
      BY <2>7, <3>2
    <3>4. Items[k + 1] = Reserved(i)
      BY <1>2, <3>1, <3>2
    <3> QED BY <1>7, <3>3, <3>4 DEF SameReserved
  <2>9. Items' = Tail(Items)
    BY <2>5, <2>7, <2>8
  <2>10. Sequence!Done(t, "dequeue", Head(Items))
    BY <1>9, <2>3, <2>4, <2>5
  <2> QED BY <2>5, <2>9, <2>10 DEF Sequence!Dequeue
<1>11. CASE QueueEmpty
  <2>1. GoIdx(t, "unlock", -1 - top) /\ bottom' = top /\ top = bottom
    BY <1>1, <1>2, <1>4, <1>11 DEF DeqReserve
  <2>2. loc'[t].idx = -1 - top /\ -1 - top < 0
    BY <1>2, <2>1, Moved DEF Stepping, OpInv
  <2>3. Result(t)' = Undef
    BY <1>6, <2>2 DEF Result, Idx
  <2>4. Items = <<>>
    BY <1>2, <1>4, <1>11, Listed
  <2>5. Items' = Items
    BY <1>1, <1>7, <2>1, ItemsKept
  <2> QED BY <1>9, <2>3, <2>4, <2>5 DEF Sequence!Dequeue
<1> QED BY <1>10, <1>11

\* Initially nothing is in the sequence and no client has called.
LEMMA InitSequence ==
  ASSUME Init, Abstract
  PROVE  Sequence!Init
<1>1. /\ Items = [k \in 1 .. top - bottom |-> Items[k]] /\ top - bottom = 0
  BY ItemsListed DEF Init
<1>2. Items = <<>>
  BY <1>1, Listed
<1>3. \A t \in Threads : At(t, "idle")
  BY IdleFields DEF Init, At
<1> DEFINE rec == [st |-> "idle", op |-> "none", res |-> Undef]
<1>4. \A t \in Threads : Seen(t) = rec
  BY <1>3 DEF Seen, At, Pending
<1>5. Client = [t \in Threads |-> Seen(t)]
  BY DEF Client, Seen
<1> HIDE DEF rec
<1>6. Client = [t \in Threads |-> rec]
  BY <1>4, <1>5
<1>7. Client = [t \in Threads |-> [st |-> "idle", op |-> "none", res |-> Undef]]
  BY <1>6 DEF rec
<1> QED BY <1>2, <1>7 DEF Sequence!Init, Sequence!Quiet

\* A step moves one thread on.
LEMMA StepAlone ==
  ASSUME OpInv, NEW t \in Threads, Step(t) \/ \E o \in UNION Kinds : Call(t, o)
  PROVE  Others(t)
<1>1. ASSUME \/ Fail(t)
             \/ \E p : Go(t, p) \/ \E x : GoIdx(t, p, x) \/ GoVal(t, p, x)
      PROVE  Others(t)
  BY <1>1, Moved DEF OpInv, Alone, Others
<1>2. ASSUME NEW l, loc' = [loc EXCEPT ![t] = l]
      PROVE  Others(t)
  BY <1>2 DEF OpInv, Shaped, Others
<1>3. CASE Finish(t) \/ \E o \in UNION Kinds : Call(t, o)
  BY <1>2, <1>3 DEF Finish, Call
<1>4. CASE LockTop(t) \/ LockBottom(t) \/ UnlockTop(t) \/ UnlockBottom(t) \/ Reset(t)
  BY <1>1, <1>4 DEF LockTop, LockBottom, UnlockTop, UnlockBottom, Reset
<1>5. CASE PushReserve(t) \/ PushClaim(t) \/ PushWrite(t) \/ PushMark(t)
  BY <1>1, <1>5 DEF PushReserve, PushClaim, PushWrite, PushMark
<1>6. CASE PopReserve(t) \/ PopClaim(t) \/ PopCopy(t) \/ PopMark(t)
  BY <1>1, <1>6 DEF PopReserve, PopClaim, PopCopy, PopMark
<1>7. CASE EnqReserve(t) \/ EnqCheck(t) \/ EnqWrite(t) \/ EnqMark(t)
  BY <1>1, <1>7 DEF EnqReserve, EnqCheck, EnqWrite, EnqMark
<1>8. CASE DeqReserve(t) \/ DeqReload(t) \/ DeqClaim(t) \/ DeqCopy(t) \/ DeqMark(t) \/ DeqLateCopy(t)
  BY <1>1, <1>8 DEF DeqReserve, DeqReload, DeqClaim, DeqCopy, DeqMark, DeqLateCopy
<1> QED BY <1>3, <1>4, <1>5, <1>6, <1>7, <1>8 DEF Step

\* Every step of a disciplined array is one of the sequence, or none.
LEMMA StepSequence ==
  ASSUME OpInv, AbstractHolds, AbstractHolds', [Next]_vars, Disciplined
  PROVE  Sequence!Next \/ UNCHANGED <<Items, Client>>
<1>1. use' = use /\ Abstract /\ Abstract'
  BY UseFixed DEF AbstractHolds, Disciplined, Build, N
<1>2. ASSUME NEW t \in Threads, Step(t) \/ \E o \in UNION Kinds : Call(t, o)
      PROVE  Sequence!Next \/ UNCHANGED <<Items, Client>>
  <2>1. Stepping(t)
    BY <1>1, <1>2, StepAlone DEF Stepping
  <2>2. ~Reset(t) /\ ~DeqReload(t) /\ ~DeqLateCopy(t)
    BY <1>1 DEF Abstract, Tidy, Handles, Reset, DeqReload, DeqLateCopy, At
  <2> QED BY <1>2, <2>1, <2>2, TagQuiet, MarkQuiet, WriteQuiet, CopyQuiet, CallSequence, FinishSequence,
             AddSequence, PopSequence, DequeueSequence DEF Step, Sequence!Next
<1>3. CASE UNCHANGED vars
  BY <1>3 DEF vars, shared, Items, ValueAt, Reserved, Filling, Client, Result, At, Idx, N, Pending, Adds
<1> QED BY <1>2, <1>3 DEF Next

\* reference.html:1182-1187: an array is a stack or a queue.  With any number of threads,
\* elements and values, every behaviour of a disciplined use is one of a LIFO or FIFO
\* sequence on which each operation happens at a single instant, also when the indices wrap
\* and when one thread removes what another is still storing.
THEOREM StackQueueLinearizable == Spec => Linearizable
<1>1. Init /\ AbstractHolds => (Disciplined => Sequence!Init)
  BY InitSequence DEF AbstractHolds
<1>2. OpInv /\ AbstractHolds /\ AbstractHolds' /\ [Next]_vars
      => [Disciplined => Sequence!Next]_<<Items, Client>>
  BY StepSequence
<1> QED BY AbstractInv, <1>1, <1>2, PTL DEF Spec, Linearizable
===============================================================================
