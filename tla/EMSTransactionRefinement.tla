------------------------ MODULE EMSTransactionRefinement -----------------------
(* EMSTransaction implements AtomicCells: a transaction takes effect when tmEnd  *)
(* is called, before the first element is given back.                           *)
EXTENDS EMSTransaction

\* A cell shows the value its holder has saved, until that transaction commits.
Hidden(t, e) ==
  {i \in Held(t) : /\ loc[t].todo[i] = [e |-> e, readOnly |-> FALSE]
                   /\ ~(Ending(t) /\ loc[t].commit)}

Store ==
  [e \in Elements |->
     IF \E t \in Threads : Hidden(t, e) # {}
     THEN LET t == CHOOSE t \in Threads : Hidden(t, e) # {}
          IN  loc[t].orig[CHOOSE i \in Hidden(t, e) : TRUE]
     ELSE data[e]]

Client ==
  [t \in Threads |->
     LET cells == {loc[t].todo[i].e : i \in DOMAIN loc[t].todo}
         closed == Ending(t) \/ At(t, "observed")
     IN  [state |-> IF At(t, "idle") THEN "idle" ELSE IF closed THEN "closed" ELSE "open",
          cells |-> cells,
          writable |-> {loc[t].todo[i].e : i \in {j \in DOMAIN loc[t].todo : ~loc[t].todo[j].readOnly}},
          seen |-> IF closed
                   THEN [e \in cells |-> loc[t].orig[CHOOSE i \in DOMAIN loc[t].todo : loc[t].todo[i].e = e]]
                   ELSE <<>>]]

Cells == INSTANCE AtomicCells
  WITH Clients <- Threads, Cells <- Elements, store <- Store, client <- Client

\* Transactions are serializable together with readFF: each takes effect at one instant,
\* the values it has read one after the other are those of that instant, and an
\* aborted one leaves nothing behind although its stores were made in place and are
\* undone one at a time.
Serializable == Cells!Spec
===============================================================================
