-------------------------------- MODULE MCArray --------------------------------
(* Instances of EMSArray for TLC. *)
EXTENDS EMSArray

CONSTANTS short, long, huge, giant

\* Strings of one block, of two, of three that take four, and of more than there are.
MCBytes == [x \in Texts |-> CASE x = short -> 4 [] x = long -> 5 [] x = huge -> 9 [] x = giant -> 17]

Program(lang, persist, unlink, attach, fill, ops, values, slots, lives, calls) ==
  [lang |-> lang, persist |-> persist, unlink |-> unlink, attach |-> attach, fill |-> fill,
   ops |-> ops, values |-> values,
   slots |-> slots, lives |-> lives, calls |-> calls]

Calls(x, y, z) == [p \in Processes |-> <<x, y, z>>[p + 1]]

\* Readers beside writers; a file that is used again, created or attached to; a heap that is used
\* up by writers, by the fill, and by the first string; arrays in shared memory.
MCUses ==
  {Program("js", TRUE, TRUE, FALSE, short, {"update", "inspect"}, {long, Number}, 3, 2, Calls(1, 1, 1)),
   Program("js", TRUE, FALSE, TRUE, short, {"update"}, {long}, 3, 2, Calls(1, 0, 1)),
   Program("py", TRUE, TRUE, TRUE, Number, {"update"}, {short}, 3, 2, Calls(0, 1, 0)),
   Program("py", TRUE, FALSE, FALSE, long, {"update"}, {short}, 2, 2, Calls(1, 0, 1)),
   Program("js", TRUE, TRUE, FALSE, Number, {"update"}, {short, long, huge}, 2, 1, Calls(2, 1, 0)),
   Program("py", TRUE, TRUE, FALSE, huge, {"update"}, {Number}, 2, 1, Calls(1, 1, 1)),
   Program("js", TRUE, TRUE, FALSE, giant, {"update"}, {Number}, 2, 1, Calls(1, 1, 1)),
   Program("py", TRUE, FALSE, TRUE, huge, {"update"}, {Number}, 3, 2, Calls(0, 1, 0)),
   Program("js", FALSE, TRUE, FALSE, Number, {"update"}, {short}, 3, 2, Calls(0, 1, 0)),
   Program("py", FALSE, TRUE, FALSE, short, {"inspect"}, {}, 3, 2, Calls(0, 1, 0))}
===============================================================================
