-------------------------------- MODULE MCMap ---------------------------------
(* EMSMap on small tables: k a number, the others strings.                   *)
EXTENDS EMSMapRefinement, TLC

MCHash == [k \in Key |-> IF k = "k" THEN 0 ELSE N - 1]
MCHeapKey == Key \ {"k"}

Use(ops, alone, keys, fe, fills) ==
  [ops |-> ops, alone |-> alone, keys |-> keys, values |-> {"a"}, initFE |-> fe, heapFills |-> fills]

\* "a" stands for NaN, which is what EMSfaa makes of undefined and of NaN.
MCSum == [v \in Value |-> [a \in Value |-> "a"]]

\* EMScas is kept to serial sections and to elements that are never EMPTY.
MixedUses == {Use({"readFE", "writeEF"}, {}, {"s", "r"}, "EMPTY", FALSE),
              Use({"read", "readFF", "writeXF"}, {}, {"k"}, "FULL", FALSE),
              Use({"writeXF", "cas"}, {"cas"}, {"k", "s", "r"}, "FULL", TRUE),
              Use({"readRW", "releaseRW", "faa"}, {}, {"s"}, "FULL", FALSE),
              Use({"faa", "write", "writeXE", "setFull", "setEmpty"}, {"write", "setFull", "setEmpty"},
                  {"k", "s"}, "FULL", FALSE)}
CasUses   == {Use({"cas"}, {}, {"s"}, "FULL", FALSE)}

Symmetry == Permutations(Threads)
===============================================================================
