----------------------------- MODULE MCTransaction -----------------------------
(* Instances of EMSTransaction for TLC. *)
EXTENDS EMSTransactionRefinement, TLC

CONSTANTS t1, t2, t3

E(a, k, text, n) == [arr |-> a, key |-> k, isText |-> text, rank |-> n]

\* Two elements of one array and one of another; index 10 comes before index 9 as a text.
A9 == E("A", 9, FALSE, 2)
A10 == E("A", 10, FALSE, 1)
B0 == E("B", 0, FALSE, 0)
MCElements == {A9, A10, B0}

RW(e) == [e |-> e, flag |-> "absent"]
RO(e) == [e |-> e, flag |-> "true"]
NotRO(e) == [e |-> e, flag |-> "false"]

Same(a, b) == [t \in Threads |-> [A |-> a, B |-> b]]

Each(a, b, c) == (t1 :> a) @@ (t2 :> b) @@ (t3 :> c)

\* Requests that would form a cycle if they were taken in the order they are given in.
MCUses ==
  {[lang |-> "js", number |-> Same(0, 1),
    requests |-> Each({<<RW(A10), RW(A9)>>, <<RO(A10)>>}, {<<RW(B0), RO(A10)>>},
                      {<<RO(A9), NotRO(B0)>>, <<RO(A10), RO(B0)>>})],
   [lang |-> "py", number |-> Same(2, 1),
    requests |-> Each({<<RW(A9), RW(A10), RO(B0)>>}, {<<NotRO(A10), RW(B0)>>}, {<<RW(B0), RW(A9)>>})]}

\* The keys of two elements of a mapped array.
Left == E("A", 0, TRUE, 1)
Right == E("A", 1, TRUE, 2)
TextElements == {Left, Right}

TextUses ==
  {[lang |-> "js", number |-> Same(0, 1),
    requests |-> [t \in Threads |-> {<<RW(Left), RW(Right)>>, <<RW(Right), RW(Left)>>}]]}
===============================================================================
