----------------------- MODULE EMSStackQueueRefinement ------------------------
(***************************************************************************)
(* The stack and the queue of primitives.cc implement SharedSequence.  An  *)
(* add takes effect when it increments STACKTOP, a removal when it moves   *)
(* its index, one on an empty array when it compares the indices.          *)
(***************************************************************************)
EXTENDS EMSStackQueue

\* t has reserved element i and not yet stored its value there.
Filling(t, i) ==
  loc[t].pc \in {"pushClaim", "pushWrite", "enqCheck", "enqWrite"} /\ Idx(t) = i

\* The value that element i has or is about to get, which a removal that has reserved it
\* will return.
Reserved(i) ==
  LET fillers == {t \in Threads : Filling(t, i)}
  IN  IF fillers # {} THEN loc[CHOOSE t \in fillers : TRUE].v ELSE cell[i].v

\* The value at position p of the sequence: only the last can be on its way.
ValueAt(p) == IF p = top - 1 THEN Reserved(p % N) ELSE cell[p % N].v

Items == [k \in 1 .. top - bottom |-> ValueAt(bottom + k - 1)]

Pending == {"lock", "pushReserve", "popReserve", "enqReserve", "deqReserve"}

Result(t) ==
  CASE loc[t].op \in Adds \/ Idx(t) < 0 -> loc[t].v
    [] OTHER -> IF loc[t].v # Undef THEN loc[t].v ELSE Reserved(Idx(t))

Client == [t \in Threads |->
  CASE At(t, "idle") -> [st |-> "idle", op |-> "none", res |-> Undef]
    [] loc[t].pc \in Pending -> [st |-> "pending", op |-> loc[t].op, res |-> Undef]
    [] OTHER -> [st |-> "done", op |-> loc[t].op, res |-> Result(t)]]

Sequence == INSTANCE SharedSequence WITH Ops <- UNION Kinds, items <- Items, client <- Client

\* In a disciplined use every behaviour of the array is one of a LIFO or FIFO sequence on
\* which each push, pop, enqueue and dequeue happens at a single instant between its call
\* and its return.
Linearizable ==
  (Disciplined => Sequence!Init) /\ [][Disciplined => Sequence!Next]_<<Items, Client>>
===============================================================================
