----------------------------- MODULE MCStackQueue -----------------------------
(* EMSStackQueue on small instances: a, b numbers; s a string.               *)
EXTENDS EMSStackQueueRefinement, TLC

MCHeapValue == Value \cap {"s"}

Use(ops, values, n, build, heapFills) ==
  [ops |-> ops, values |-> values, n |-> n, build |-> build, heapFills |-> heapFills]
Stack(values, n, build, heapFills) == Use({"push", "pop"}, values, n, build, heapFills)
Queue(values, n, build, heapFills) == Use({"enqueue", "dequeue"}, values, n, build, heapFills)

\* Disciplined uses, and some that overflow, run out of heap or are compiled otherwise.
MCUses   == {Stack({"a", "s"}, 3, "O1", FALSE), Queue({"a", "b"}, 2, "O1", FALSE)}
              \cup {Stack({"a", "s"}, 1, "O2", TRUE), Queue({"s"}, 1, "O0", TRUE)}
LostUses == {Stack({"a"}, 2, "O2", FALSE)}

Symmetry == Permutations(Threads)
===============================================================================
