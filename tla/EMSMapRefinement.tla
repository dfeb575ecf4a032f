--------------------------- MODULE EMSMapRefinement ---------------------------
(***************************************************************************)
(* A mapped array implements KeyedCells.  A key becomes known when its     *)
(* entry is placed; an operation takes effect when it acts on the element, *)
(* one on a missing key when its lookup ends.                              *)
(***************************************************************************)
EXTENDS EMSMap

Placed(k) == {i \in Slots : mapKey[i] = k}

\* The keys that have an entry.
Known == {k \in Key : Placed(k) # {}}

Cells == [k \in Key |->
  IF Placed(k) = {} THEN [fe |-> use.initFE, rw |-> 0, v |-> Undef]
                    ELSE data[CHOOSE i \in Placed(k) : TRUE]]

Client == [t \in Threads |->
  CASE At(t, "idle") -> [st |-> "idle"]
    [] loc[t].pc \in {"unmap", "done"} -> [st |-> "done", ok |-> loc[t].ok, ret |-> loc[t].ret]
    [] OTHER -> [st |-> "pending", op |-> Op(t), key |-> loc[t].key, arg |-> loc[t].arg,
                 old |-> loc[t].old]]

Cell == INSTANCE KeyedCells WITH cell <- Cells, known <- Known,
                                 client <- Client

\* Every behaviour of a mapped array is one of a cell per key: no insertion race,
\* collision or full table makes an operation miss a key that has a place, act on
\* the element of another key or act twice.
Keyed == Cell!Spec
===============================================================================
