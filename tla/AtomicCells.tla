------------------------------ MODULE AtomicCells -----------------------------
(***************************************************************************)
(* What transactions promise: each one reads its cells and, if it commits, *)
(* stores into the ones it did not declare read-only, all in one step; an  *)
(* aborted one has no effect.                                              *)
(***************************************************************************)
CONSTANTS Clients, Cells, Value, Zero

VARIABLES
  store,   \* store[c]: the value of cell c
  client   \* client[t]: whether t is in a transaction, its cells and what it has read

vars == <<store, client>>

Idle == [state |-> "idle", cells |-> {}, writable |-> {}, seen |-> <<>>]

Init ==
  /\ store = [c \in Cells |-> Zero]
  /\ client = [t \in Clients |-> Idle]

Begin(t) ==
  /\ client[t].state = "idle"
  /\ UNCHANGED store
  /\ \E C \in SUBSET Cells : \E W \in SUBSET C :
       client' = [client EXCEPT ![t] =
                    [state |-> "open", cells |-> C, writable |-> W, seen |-> <<>>]]

\* The transaction happens.
Execute(t) ==
  /\ client[t].state = "open"
  /\ client' = [client EXCEPT ![t].state = "closed",
                              ![t].seen = [c \in client[t].cells |-> store[c]]]
  /\ store' \in [Cells -> Value]
  /\ \A c \in Cells \ client[t].writable : store'[c] = store[c]

End(t) ==
  /\ client[t].state = "closed"
  /\ client' = [client EXCEPT ![t] = Idle]
  /\ UNCHANGED store

\* A cell is read outside of any transaction.
Observe(t) ==
  /\ client[t].state = "idle"
  /\ \E c \in Cells :
       client' = [client EXCEPT ![t] = [state |-> "closed", cells |-> {c}, writable |-> {},
                                        seen |-> [x \in {c} |-> store[x]]]]
  /\ UNCHANGED store

Next == \E t \in Clients : Begin(t) \/ Execute(t) \/ End(t) \/ Observe(t)

Spec == Init /\ [][Next]_vars
===============================================================================
