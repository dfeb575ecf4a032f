---------------------------- MODULE SharedSequence ----------------------------
(***************************************************************************)
(* What push, pop, enqueue and dequeue promise (src/Docs/reference.html,   *)
(* lines 1182-1187): one sequence of values, a LIFO or a FIFO, on which    *)
(* each operation takes effect in one step; removing from an empty one     *)
(* yields undefined.                                                       *)
(***************************************************************************)
EXTENDS Sequences, SequencesExt

CONSTANTS Threads, Value, Ops, Undef

VARIABLES
  items,   \* the values, oldest first
  client   \* client[t]: the operation t has called and its result

vars == <<items, client>>

Quiet == [st |-> "idle", op |-> "none", res |-> Undef]

Init == items = <<>> /\ client = [t \in Threads |-> Quiet]

\* The value argument is chosen when the operation takes effect.
Call(t) ==
  /\ client[t].st = "idle"
  /\ \E o \in Ops : client' = [client EXCEPT ![t] = [Quiet EXCEPT !.st = "pending", !.op = o]]
  /\ UNCHANGED items

Return(t) ==
  /\ client[t].st = "done"
  /\ client' = [client EXCEPT ![t] = Quiet]
  /\ UNCHANGED items

Done(t, o, r) ==
  /\ client[t].st = "pending" /\ client[t].op = o
  /\ client' = [client EXCEPT ![t].st = "done", ![t].res = r]

Add(t, o) ==
  \E v \in Value : Done(t, o, v) /\ items' = Append(items, v)

Pop(t) ==
  \/ items # <<>> /\ Done(t, "pop", Last(items)) /\ items' = Front(items)
  \/ items = <<>> /\ Done(t, "pop", Undef) /\ UNCHANGED items

Dequeue(t) ==
  \/ items # <<>> /\ Done(t, "dequeue", Head(items)) /\ items' = Tail(items)
  \/ items = <<>> /\ Done(t, "dequeue", Undef) /\ UNCHANGED items

Next == \E t \in Threads :
  \/ Call(t) \/ Return(t)
  \/ Add(t, "push") \/ Add(t, "enqueue")
  \/ Pop(t) \/ Dequeue(t)

Spec == Init /\ [][Next]_vars
===============================================================================
