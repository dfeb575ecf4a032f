------------------------------- MODULE EMSAlloc -------------------------------
(***************************************************************************)
(* The heap of an EMS array: the buddy allocator of src/src/ems_alloc.cc   *)
(* under the mutex of emsMutexMem_alloc and emsMutexMem_free               *)
(* (src/src/ems.cc).                                                       *)
(*                                                                         *)
(* A round of a loop over the tree is one step.  Offsets and lengths are   *)
(* counted in blocks of EMS_MEM_BLOCKSZ bytes.  The caller starts a call   *)
(* with Call and takes its result when it has returned.                    *)
(***************************************************************************)
EXTENDS Integers, FiniteSets

CONSTANTS
  Processes,
  BlockSize,   \* EMS_MEM_BLOCKSZ
  HeapSize     \* bytes asked for when the array is created

\* bound: no heap and no string takes so many blocks (8 GB with the blocks of the code, which
\* counts them in 64 bits).
MaxBlocks == 2 ^ 28

ASSUME AllocAssumption ==
  BlockSize \in Nat \ {0} /\ HeapSize \in Nat /\ HeapSize \div BlockSize < MaxBlocks

VARIABLES
  tree,    \* tree[n]: the state of node n
  mutex,   \* EMS_ARR_MEM_MUTEX
  call,    \* call[p]: the call of the allocator process p is in
  live     \* the blocks that are allocated (history)

allocVars == <<tree, mutex, call, live>>

-------------------------------------------------------------------------------
(* The tree *)

Bits == 0 .. 28   \* exponents of the powers of two up to MaxBlocks

\* What the proofs use of powers of two, for the few exponents there are.
ASSUME PowersOfTwo ==
  /\ 2 ^ 0 = 1
  /\ \A n \in Bits : 2 ^ n \in Nat \ {0} /\ 2 ^ (n + 1) = 2 * 2 ^ n
  /\ \A m, n \in Bits : m + n \in Bits => 2 ^ (m + n) = 2 ^ m * 2 ^ n

\* The smallest power of two that is not less than x.
emsNextPow2(x) == 2 ^ (CHOOSE n \in Bits : 2 ^ n >= x /\ \A m \in Bits : 2 ^ m >= x => n <= m)

\* The heap has more blocks than were asked for.
Level == CHOOSE n \in Bits : 2 ^ n = emsNextPow2(HeapSize \div BlockSize + 1)

Nodes == 0 .. 2 ^ (Level + 1) - 2

Parent(n) == (n + 1) \div 2 - 1
Buddy(n) == IF n % 2 = 1 THEN n + 1 ELSE n - 1
Children(n) == {2 * n + 1, 2 * n + 2}

\* The level of a node and the number of blocks it stands for.
Depth == [n \in Nodes |-> CHOOSE d \in 0 .. Level : 2 ^ d - 1 <= n /\ n < 2 ^ (d + 1) - 1]
Length(n) == 2 ^ (Level - Depth[n])

EMS_index_offset(n) == (n + 1 - 2 ^ Depth[n]) * Length(n)

\* Blocks for a number of bytes.
Size(bytes) == emsNextPow2((bytes + BlockSize - 1) \div BlockSize)

-------------------------------------------------------------------------------
(* Calls *)

NoCall == [pc |-> "none", size |-> 0, offset |-> 0, node |-> 0]

\* emsMutexMem_alloc of a number of bytes is called.
CallAlloc(p, bytes) ==
  call' = [call EXCEPT ![p] = [NoCall EXCEPT !.pc = "lockAlloc", !.size = Size(bytes)]]

\* emsMutexMem_free of an offset is called.
CallFree(p, offset) ==
  call' = [call EXCEPT ![p] = [NoCall EXCEPT !.pc = "lockFree", !.offset = offset]]

In(p, pc) == call[p].pc = pc
Node(p) == call[p].node
Go(p, pc, n) == call' = [call EXCEPT ![p].pc = pc, ![p].node = n]
Mark(n, s) == tree' = [tree EXCEPT ![n] = s]

Reset == tree = [n \in Nodes |-> "UNUSED"] /\ mutex = "FULL" /\ live = {}

\* Mutant of Lock: nobody waits for the mutex.
LockNot(p) ==
  /\ call[p].pc \in {"lockAlloc", "lockFree"}
  /\ mutex' = "FULL"
  /\ Go(p, IF In(p, "lockAlloc") THEN "seek" ELSE "find", 0)
  /\ UNCHANGED <<tree, live>>

\* The mutex is acquired.  A request for more blocks than there are fails.
Lock(p) ==
  /\ call[p].pc \in {"lockAlloc", "lockFree"}
  /\ mutex = "EMPTY"
  /\ mutex' = "FULL"
  /\ Go(p, IF In(p, "lockFree") THEN "find" ELSE IF call[p].size > Length(0) THEN "fail" ELSE "seek", 0)
  /\ UNCHANGED <<tree, live>>

\* Mutant of Unlock: emsMutexMem_free keeps the mutex.
UnlockNot(p) ==
  /\ In(p, "unlock") \/ In(p, "fail")
  /\ mutex' = IF call[p].size = 0 THEN mutex ELSE "EMPTY"
  /\ call' = [call EXCEPT ![p].pc = IF In(p, "fail") THEN "failed" ELSE "returned"]
  /\ UNCHANGED <<tree, live>>

Unlock(p) ==
  /\ In(p, "unlock") \/ In(p, "fail")
  /\ mutex' = "EMPTY"
  /\ call' = [call EXCEPT ![p].pc = IF In(p, "fail") THEN "failed" ELSE "returned"]
  /\ UNCHANGED <<tree, live>>

-------------------------------------------------------------------------------
(* emsMem_alloc *)

\* The node has the size and is unused.
SeekTake(p) ==
  /\ In(p, "seek") /\ Length(Node(p)) = call[p].size /\ tree[Node(p)] = "UNUSED"
  /\ Mark(Node(p), "USED")
  /\ live' = live \cup {[offset |-> EMS_index_offset(Node(p)), size |-> call[p].size]}
  /\ call' = [call EXCEPT ![p].pc = "mark", ![p].offset = EMS_index_offset(Node(p))]
  /\ UNCHANGED mutex

\* A node that is unused is split first.
SeekDown(p) ==
  /\ In(p, "seek") /\ Length(Node(p)) > call[p].size
  /\ tree[Node(p)] \in {"UNUSED", "SPLIT"}
  /\ tree' = IF tree[Node(p)] = "UNUSED"
             THEN [n \in Nodes |-> IF n = Node(p) THEN "SPLIT"
                                   ELSE IF n \in Children(Node(p)) THEN "UNUSED" ELSE tree[n]]
             ELSE tree
  /\ Go(p, "seek", 2 * Node(p) + 1)
  /\ UNCHANGED <<mutex, live>>

\* After a left child comes its buddy, after a right one what comes after the parent.
Onward(p, n) ==
  IF n = 0 THEN Go(p, "fail", 0) ELSE IF n % 2 = 1 THEN Go(p, "seek", n + 1) ELSE Go(p, "climb", Parent(n))

\* The node has no room: on to the next.
SeekOn(p) ==
  /\ In(p, "seek")
  /\ IF Length(Node(p)) = call[p].size THEN tree[Node(p)] # "UNUSED"
                                       ELSE tree[Node(p)] \in {"USED", "FULL"}
  /\ Onward(p, Node(p))
  /\ UNCHANGED <<tree, mutex, live>>

\* A round of the walk towards the root.
Climb(p) ==
  /\ In(p, "climb")
  /\ Onward(p, Node(p))
  /\ UNCHANGED <<tree, mutex, live>>

\* A round of EMS_mark_parent.
MarkParent(p) ==
  /\ In(p, "mark")
  /\ IF Buddy(Node(p)) > 0 /\ tree[Buddy(Node(p))] \in {"USED", "FULL"}
     THEN Mark(Parent(Node(p)), "FULL") /\ Go(p, "mark", Parent(Node(p)))
     ELSE UNCHANGED tree /\ Go(p, "unlock", 0)
  /\ UNCHANGED <<mutex, live>>

-------------------------------------------------------------------------------
(* emsMem_free *)

\* Down to the block.
FindDown(p) ==
  /\ In(p, "find") /\ tree[Node(p)] \in {"SPLIT", "FULL"}
  /\ LET right == 2 * Node(p) + 2
     IN  Go(p, "find", IF call[p].offset < EMS_index_offset(right) THEN right - 1 ELSE right)
  /\ UNCHANGED <<tree, mutex, live>>

Found(p) ==
  /\ In(p, "find") /\ tree[Node(p)] = "USED" /\ call[p].offset = EMS_index_offset(Node(p))
  /\ live' = {b \in live : b.offset # call[p].offset}
  /\ Go(p, "combine", Node(p))
  /\ UNCHANGED <<tree, mutex>>

\* EMS_combine: as long as the buddy is unused the pair becomes one node.
Combine(p) ==
  /\ In(p, "combine")
  /\ IF Buddy(Node(p)) < 0 \/ tree[Buddy(Node(p))] # "UNUSED"
     THEN Mark(Node(p), "UNUSED") /\ Go(p, "refresh", Parent(Node(p)))
     ELSE UNCHANGED tree /\ Go(p, "combine", Parent(Node(p)))
  /\ UNCHANGED <<mutex, live>>

\* Mutant of Refresh: ancestors that were full stay full.
RefreshNot(p) ==
  /\ In(p, "refresh")
  /\ Go(p, "unlock", 0)
  /\ UNCHANGED <<tree, mutex, live>>

\* The ancestors that were full have room again.
Refresh(p) ==
  /\ In(p, "refresh")
  /\ IF Node(p) >= 0 /\ tree[Node(p)] = "FULL"
     THEN Mark(Node(p), "SPLIT") /\ Go(p, "refresh", Parent(Node(p)))
     ELSE UNCHANGED tree /\ Go(p, "unlock", 0)
  /\ UNCHANGED <<mutex, live>>

AllocStep(p) ==
  \/ Lock(p) \/ Unlock(p) \/ SeekTake(p) \/ SeekDown(p) \/ SeekOn(p) \/ Climb(p) \/ MarkParent(p)
  \/ FindDown(p) \/ Found(p) \/ Combine(p) \/ Refresh(p)

-------------------------------------------------------------------------------
(* Properties *)

Overlap(b, c) == b.offset < c.offset + c.size /\ c.offset < b.offset + b.size

\* The pairs of nodes of which the first stands for more blocks, those of the second among them.
Above ==
  {r \in Nodes \X Nodes :
     /\ Length(r[1]) > Length(r[2])
     /\ EMS_index_offset(r[1]) <= EMS_index_offset(r[2])
     /\ EMS_index_offset(r[2]) < EMS_index_offset(r[1]) + Length(r[1])}

\* The nodes in use: those below nodes that are split, and the root.
Reached == {n \in Nodes : \A m \in Nodes : <<m, n>> \in Above => tree[m] \in {"SPLIT", "FULL"}}

\* The assertions of emsMem_free: a block that is freed is in use, from its first byte on.
FreesLiveBlock ==
  \A p \in Processes : In(p, "find") =>
    /\ call[p].offset < Length(0) /\ tree[Node(p)] # "UNUSED"
    /\ tree[Node(p)] = "USED" => call[p].offset = EMS_index_offset(Node(p))

\* No assertion of emsMem_free fails, and whenever no call is inside the allocator its tree
\* tells the truth: its used nodes are the blocks that were handed out and not freed, no two of
\* which overlap; a node is marked full exactly if there is no room below it; and no two halves
\* of a node are both free, so that neighbours that were freed one after the other make one
\* large block again.
TreeTrue ==
  /\ FreesLiveBlock
  /\ mutex = "EMPTY" =>
       /\ live = {[offset |-> EMS_index_offset(n), size |-> Length(n)] :
                    n \in {m \in Reached : tree[m] = "USED"}}
       /\ \A b, c \in live : Overlap(b, c) => b = c
       /\ \A n \in Reached : tree[n] \in {"SPLIT", "FULL"} =>
            /\ tree[n] = "FULL" <=> \A m \in Children(n) : tree[m] \in {"USED", "FULL"}
            /\ \E m \in Children(n) : tree[m] # "UNUSED"

\* emsMem_alloc walks over the tree and back: it returns -1 only if every aligned run of
\* as many blocks as it needs has a block in it that is in use.
FailsOnlyIfFull ==
  \A p \in Processes : In(p, "fail") =>
    LET size == call[p].size
    IN  \A n \in Nodes : Length(n) = size =>
          \E b \in live : Overlap(b, [offset |-> EMS_index_offset(n), size |-> size])
===============================================================================
