------------------------------ MODULE MCElement -------------------------------
(* EMSElement on small instances: named values and the arithmetic on them.   *)
EXTENDS EMSElementRefinement, TLC

\* v0, v1 integers; r, s strings; u undefined; j an object.
MCTypeOf == [v \in Value |->
  CASE v \in {"v0", "v1"} -> "INTEGER"
    [] v = "f" -> "FLOAT"
    [] v \in {"r", "s"} -> "STRING"
    [] v = "j" -> "JSON"
    [] v = "u" -> "UNDEFINED"]

\* Integers add modulo 2; NaN is f; strings absorb.
MCSum == [a \in Value |-> [b \in Value |->
  CASE "s" \in {a, b} -> "s"
    [] "r" \in {a, b} -> "r"
    [] {a, b} \cap {"u", "f", "j"} # {} -> IF "f" \in Value THEN "f" ELSE "v0"
    [] a = "v0" -> b
    [] b = "v0" -> a
    [] OTHER -> "v0"]]

\* The operations documented to ignore the tag.
Plain == {"read", "write"} \cup Setters
FEOps == {"readFE", "readFF", "writeEF", "writeXF", "writeXE", "faa", "cas"} \cup Plain
\* In the serial sections; writeXF is writeXE but for the state it leaves.
Serial == Plain \cup {"writeXF"}
RWOps == {"readRW", "releaseRW", "readFE", "writeEF"}

Symmetry == Permutations(Threads)
===============================================================================
