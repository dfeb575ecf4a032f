------------------------------- MODULE MCLoops --------------------------------
(* EMSLoops on short loops.                                                  *)
EXTENDS EMSLoops

For(from, to, kind, least) ==
  [start |-> from, end |-> to, sched |-> kind, minChunk |-> least]

\* Each kind of loop, then two that start with the counters the others left.
Loops5 == <<For(-2, 6, "guided", 1), For(1, 4, "dynamic", 2), For(1, 4, "static", 1),
            For(0, 7, "guided", 2), For(3, 3, "guided", 1)>>
===============================================================================
