------------------------------ MODULE KeyedCells ------------------------------
(***************************************************************************)
(* What a mapped array promises: a tagged cell for every key, on which     *)
(* each operation takes effect in one step.  A key is unknown until an     *)
(* operation that may change its cell is called with it; only then may the *)
(* array turn out to have no room for it.                                  *)
(***************************************************************************)
EXTENDS Naturals

CONSTANTS Threads, Key, Value, Undef, Ops, RWMax, Sum

VARIABLES
  cell,    \* cell[k]: full/empty state, number of readers and value of key k
  known,   \* the keys that have been given a place
  client   \* client[t]: the operation t has called and its result

vars == <<cell, known, client>>

Quiet == [st |-> "idle"]

Init ==
  /\ \E f \in {"FULL", "EMPTY"} : cell = [k \in Key |-> [fe |-> f, rw |-> 0, v |-> Undef]]
  /\ known = {}
  /\ client = [t \in Threads |-> Quiet]

Call(t) ==
  /\ client[t].st = "idle"
  /\ \E o \in Ops, k \in Key, a, b \in Value :
       client' = [client EXCEPT ![t] = [st |-> "pending", op |-> o, key |-> k, arg |-> a, old |-> b]]
  /\ UNCHANGED <<cell, known>>

Return(t) ==
  /\ client[t].st = "done"
  /\ client' = [client EXCEPT ![t] = Quiet]
  /\ UNCHANGED <<cell, known>>

Done(t, ok, v) == client' = [client EXCEPT ![t] = [st |-> "done", ok |-> ok, ret |-> v]]

Pending(t, ops) == client[t].st = "pending" /\ client[t].op \in ops

\* The operations that leave an unknown key unknown.
Passive == {"read", "releaseRW", "setFull", "setEmpty"}

\* Any other gives its key a place.
Allocate(t) ==
  /\ Pending(t, Ops \ Passive)
  /\ known' = known \cup {client[t].key}
  /\ UNCHANGED <<cell, client>>

\* There is no place left for a new key; or a key is missing whose tag is to be changed.
Fail(t) ==
  /\ Pending(t, Ops \ {"read"}) /\ client[t].key \notin known
  /\ Done(t, FALSE, Undef)
  /\ UNCHANGED <<cell, known>>

\* The value of an unknown key is undefined.
Absent(t) ==
  /\ Pending(t, {"read", "cas"}) /\ client[t].key \notin known
  /\ client[t].op = "cas" => client[t].old # Undef
  /\ Done(t, TRUE, Undef)
  /\ UNCHANGED <<cell, known>>

Acts(t, ops) == Pending(t, ops) /\ client[t].key \in known

Become(t, c) == cell' = [cell EXCEPT ![client[t].key] = c]

Here(t) == cell[client[t].key]

Read(t) ==
  /\ Acts(t, {"read", "readFF"}) /\ (client[t].op = "readFF" => Here(t).fe = "FULL")
  /\ Done(t, TRUE, Here(t).v)
  /\ UNCHANGED <<cell, known>>

Take(t) ==
  /\ Acts(t, {"readFE"}) /\ Here(t).fe = "FULL"
  /\ Become(t, [Here(t) EXCEPT !.fe = "EMPTY"])
  /\ Done(t, TRUE, Here(t).v)
  /\ UNCHANGED known

Share(t) ==
  /\ Acts(t, {"readRW"}) /\ Here(t).fe \in {"FULL", "RW_LOCK"} /\ Here(t).rw < RWMax
  /\ Become(t, [Here(t) EXCEPT !.fe = "RW_LOCK", !.rw = @ + 1])
  /\ Done(t, TRUE, Here(t).v)
  /\ UNCHANGED known

\* A lock is given back, or there is none.
Release(t) ==
  /\ Acts(t, {"releaseRW"})
  /\ \/ /\ Here(t).fe = "RW_LOCK" /\ Here(t).rw > 0
        /\ Become(t, [Here(t) EXCEPT !.rw = @ - 1, !.fe = IF Here(t).rw = 1 THEN "FULL" ELSE @])
        /\ Done(t, TRUE, Undef)
     \/ /\ Here(t).fe # "RW_LOCK" \/ Here(t).rw = 0
        /\ Done(t, FALSE, Undef) /\ UNCHANGED cell
  /\ UNCHANGED known

\* A plain write leaves the tag; the others leave the cell FULL or EMPTY, without readers.
Write(t) ==
  /\ Acts(t, {"write", "writeXF", "writeXE", "writeEF"})
  /\ client[t].op = "writeEF" => Here(t).fe = "EMPTY"
  /\ Become(t, CASE client[t].op = "write" -> [Here(t) EXCEPT !.v = client[t].arg]
                 [] client[t].op = "writeXE" -> [fe |-> "EMPTY", rw |-> 0, v |-> client[t].arg]
                 [] OTHER -> [fe |-> "FULL", rw |-> 0, v |-> client[t].arg])
  /\ Done(t, TRUE, Undef)
  /\ UNCHANGED known

Add(t) ==
  /\ Acts(t, {"faa"}) /\ Here(t).fe = "FULL"
  /\ Become(t, [Here(t) EXCEPT !.v = Sum[Here(t).v][client[t].arg]])
  /\ Done(t, TRUE, Here(t).v)
  /\ UNCHANGED known

Swap(t) ==
  /\ Acts(t, {"cas"}) /\ Here(t).fe = "FULL"
  /\ Become(t, [fe |-> "FULL", rw |-> 0,
                v |-> IF Here(t).v = client[t].old THEN client[t].arg ELSE Here(t).v])
  /\ Done(t, TRUE, Here(t).v)
  /\ UNCHANGED known

SetTag(t) ==
  /\ Acts(t, {"setFull", "setEmpty"})
  /\ Become(t, [Here(t) EXCEPT !.fe = IF client[t].op = "setFull" THEN "FULL" ELSE "EMPTY"])
  /\ Done(t, TRUE, Undef)
  /\ UNCHANGED known

Next == \E t \in Threads :
  \/ Call(t) \/ Return(t) \/ Allocate(t) \/ Fail(t) \/ Absent(t)
  \/ Read(t) \/ Take(t) \/ Share(t) \/ Release(t) \/ Write(t) \/ Add(t) \/ Swap(t) \/ SetTag(t)

Spec == Init /\ [][Next]_vars
===============================================================================
