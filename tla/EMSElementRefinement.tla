------------------------- MODULE EMSElementRefinement -------------------------
(* EMSElement implements TaggedCell: an operation takes effect when it reads *)
(* or writes the data word under BUSY, a release when its compare-and-swap   *)
(* succeeds.                                                                 *)
EXTENDS EMSElement

\* t has taken effect but has not handed its result to the program.
Committed(t) ==
  loc[t].pc \in {"rStore", "wCheck", "wStore", "fStore", "cStore", "done"}

\* The tag a thread found when it made the element BUSY.
FoundFE(t) == IF Op(t) \in Waiters THEN InitialFE(Op(t)) ELSE Mem(t).fe

AbsFE ==
  IF tag.fe # "BUSY" \/ leaked THEN tag.fe
  ELSE LET t == CHOOSE u \in Threads : Owns(u)
       IN  IF Committed(t) THEN FinalFE(Op(t)) ELSE FoundFE(t)

AbsReaders == {t \in holders : ~(At(t, "rData") /\ Op(t) = "readRW")}

AbsClient == [t \in Threads |->
  [st  |-> IF loc[t].pc \in {"idle", "aborted"} THEN loc[t].pc
           ELSE IF Committed(t) THEN "done" ELSE "pending",
   op  |-> Op(t), arg |-> loc[t].arg, old |-> loc[t].old,
   res |-> IF ~Committed(t) THEN NoRet
           ELSE IF loc[t].pc \in {"wCheck", "wStore"} THEN Ok(TypeOf[loc[t].arg], loc[t].arg)
           ELSE loc[t].ret]]

Cell == INSTANCE TaggedCell
          WITH fe <- AbsFE, value <- data, lost <- freed, readers <- AbsReaders,
               client <- AbsClient

\* Each operation of EMSElement appears to its callers as one atomic step, in
\* the tag state the reference requires, with the result of that step.
Atomic == Cell!Spec
===============================================================================
