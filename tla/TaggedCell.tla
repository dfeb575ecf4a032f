------------------------------ MODULE TaggedCell ------------------------------
(***************************************************************************)
(* What one EMS element promises its callers (src/Docs/reference.html,     *)
(* lines 713-748 and 833-846): each operation takes effect in one step, in *)
(* a state its tag allows, between its call and its return.                *)
(***************************************************************************)
EXTENDS Naturals

CONSTANTS Threads, Value, TypeOf, Sum, RWMax, Ops, InitFE, HeapFills

VARIABLES
  fe,       \* "FULL", "EMPTY", "RW_LOCK", or "BUSY" after a call that failed
  value,    \* the value stored
  lost,     \* the string stored is gone: a write freed it and found no space
  readers,  \* the threads holding the readers-writer lock
  client    \* client[t]: the operation t has called and its result

vars == <<fe, value, lost, readers, client>>

AnyValue == CHOOSE v \in Value : TRUE
NoRes    == [ok |-> FALSE, type |-> "UNDEFINED", v |-> AnyValue]
Result(v) == [ok |-> TRUE, type |-> TypeOf[v], v |-> v]
Quiet    == [st |-> "idle", op |-> "read", arg |-> AnyValue, old |-> AnyValue, res |-> NoRes]

Init ==
  /\ fe \in InitFE
  /\ value \in Value
  /\ lost = FALSE
  /\ readers = {}
  /\ client = [t \in Threads |-> Quiet]

Call(t) ==
  /\ client[t].st = "idle"
  /\ \E o \in Ops, a, b \in Value :
        client' = [client EXCEPT ![t] = [st |-> "pending", op |-> o, arg |-> a, old |-> b,
                                           res |-> NoRes]]
  /\ UNCHANGED <<fe, value, lost, readers>>

Return(t) ==
  /\ client[t].st = "done"
  /\ client' = [client EXCEPT ![t] = Quiet]
  /\ UNCHANGED <<fe, value, lost, readers>>

Pending(t, o) == client[t].st = "pending" /\ client[t].op = o
Done(t, r)    == client' = [client EXCEPT ![t].st = "done", ![t].res = r]

HeapTypes == {"STRING", "JSON"}

\* What a read may return: of a lost string, any text.
Contents == {v \in Value : v = value \/ (lost /\ TypeOf[v] = TypeOf[value])}

ReadFE(t) ==
  /\ Pending(t, "readFE") /\ fe = "FULL"
  /\ fe' = "EMPTY"
  /\ \E v \in Contents : Done(t, Result(v))
  /\ UNCHANGED <<value, lost, readers>>

ReadFF(t) ==
  /\ Pending(t, "readFF") /\ fe = "FULL"
  /\ \E v \in Contents : Done(t, Result(v))
  /\ UNCHANGED <<fe, value, lost, readers>>

\* Each of the threads in S can be one of RWMax readers.
Fit(S) == \E place \in [S -> 1 .. RWMax] : \A a, b \in S : a # b => place[a] # place[b]

ReadRW(t) ==
  /\ Pending(t, "readRW") /\ fe \in {"FULL", "RW_LOCK"}
  /\ Fit(readers \cup {t})
  /\ fe' = "RW_LOCK"
  /\ readers' = readers \cup {t}
  /\ \E v \in Contents : Done(t, Result(v))
  /\ UNCHANGED <<value, lost>>

ReleaseRW(t) ==
  /\ Pending(t, "releaseRW") /\ fe = "RW_LOCK" /\ t \in readers
  /\ readers' = readers \ {t}
  /\ fe' = IF readers' = {} THEN "FULL" ELSE "RW_LOCK"
  /\ Done(t, [ok |-> TRUE, type |-> "INTEGER", v |-> AnyValue])
  /\ UNCHANGED <<value, lost>>

\* A write in state `from` that leaves `to`.
Write(t, o, from, to) ==
  /\ Pending(t, o) /\ fe \in from
  /\ fe' = to
  /\ value' = client[t].arg
  /\ lost' = FALSE
  /\ Done(t, Result(client[t].arg))
  /\ UNCHANGED readers

\* The operations that neither honour nor, setTag apart, modify the tag.
Read(t) ==
  /\ Pending(t, "read")
  /\ \E v \in Contents : Done(t, Result(v))
  /\ UNCHANGED <<fe, value, lost, readers>>

SetTag(t, o, to) ==
  /\ Pending(t, o)
  /\ fe' = to
  /\ Done(t, [ok |-> TRUE, type |-> "BOOLEAN", v |-> AnyValue])
  /\ UNCHANGED <<value, lost, readers>>

\* An operation that finds no space returns an error and leaves the element, unless
\* it ignores the tag, BUSY.  For the result of faa and the copy cas returns:
Fail(t, o) ==
  /\ HeapFills /\ Pending(t, o) /\ fe = "FULL"
  /\ fe' = "BUSY"
  /\ Done(t, NoRes)
  /\ UNCHANGED <<value, lost, readers>>

\* For the new string of a write or cas, which has already freed the old one:
FailFreed(t, o, from, to) ==
  /\ HeapFills /\ TypeOf[client[t].arg] \in HeapTypes
  /\ Pending(t, o) /\ fe \in from
  /\ fe' = to
  /\ lost' = (lost \/ TypeOf[value] \in HeapTypes)
  /\ Done(t, NoRes)
  /\ UNCHANGED <<value, readers>>

\* To replace a lost string is to free it again, of which the caller may die.
Die(t, o, from, to) ==
  /\ lost /\ Pending(t, o) /\ fe \in from
  /\ fe' = to
  /\ client' = [client EXCEPT ![t].st = "aborted"]
  /\ UNCHANGED <<value, lost, readers>>

FailReplacing(t, o, from, to) == FailFreed(t, o, from, to) \/ Die(t, o, from, to)

Faa(t) ==
  /\ Pending(t, "faa") /\ fe = "FULL"
  /\ \E v, w \in Contents : value' = Sum[w][client[t].arg] /\ Done(t, Result(v))
  /\ lost' \in {lost, FALSE}
  /\ UNCHANGED <<fe, readers>>

\* Two undefined values are equal whatever their data words.
Matches(t, v) ==
  v = client[t].old \/ (TypeOf[v] = "UNDEFINED" /\ TypeOf[client[t].old] = "UNDEFINED")

Cas(t) ==
  /\ Pending(t, "cas") /\ fe = "FULL"
  /\ \E v \in Contents :
        /\ IF Matches(t, v) THEN value' = client[t].arg /\ lost' = FALSE
                            ELSE UNCHANGED <<value, lost>>
        /\ Done(t, Result(v))
  /\ UNCHANGED <<fe, readers>>

Next == \E t \in Threads :
  \/ Call(t) \/ Return(t)
  \/ ReadFE(t) \/ ReadFF(t) \/ ReadRW(t) \/ ReleaseRW(t)
  \/ Write(t, "writeEF", {"EMPTY"}, "FULL")
  \/ Write(t, "writeXF", {"FULL", "EMPTY"}, "FULL")
  \/ Write(t, "writeXE", {"FULL", "EMPTY"}, "EMPTY")
  \/ Write(t, "write", {fe}, fe)
  \/ Faa(t) \/ Cas(t) \/ Read(t)
  \/ SetTag(t, "setFull", "FULL") \/ SetTag(t, "setEmpty", "EMPTY")
  \/ Fail(t, "faa") \/ Fail(t, "cas") \/ Die(t, "faa", {"FULL"}, "BUSY")
  \/ FailReplacing(t, "writeEF", {"EMPTY"}, "BUSY")
  \/ \E o \in {"writeXF", "writeXE"} : FailReplacing(t, o, {"FULL", "EMPTY"}, "BUSY")
  \/ (\E v \in Contents : Matches(t, v)) /\ FailReplacing(t, "cas", {"FULL"}, "BUSY")
  \/ FailReplacing(t, "write", {fe}, fe)

Spec == Init /\ [][Next]_vars
===============================================================================
