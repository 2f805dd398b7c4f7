------------------------------ MODULE GcProps ------------------------------
(***************************************************************************)
(* What the heap of GcAlloc must satisfy.                                  *)
(***************************************************************************)
EXTENDS GcAlloc

MarkBits == {"reserved", "inuse"}
Critical == {"walk", "take", "dofree", "back", "merge", "clear", "clearwrite",
             "scan", "scanwrite", "sweep", "unlock"}
Places == Critical \cup {"idle", "lock", "zero", "manage"}
Flags == [owner : Cogs \cup {Free, Hub, None}, bits : SUBSET MarkBits]
Reqs == [pages : 0 .. MaxRequest, bits : SUBSET {"reserved"}]

\* Every header word, local and pointer of GcAlloc stays in its range.
TypeOK ==
  /\ size \in [Pages -> 0 .. NPages]
  /\ prev \in [Pages -> 0 .. NPages]
  /\ link \in [0 .. NPages -> 0 .. NPages]
  /\ owner \in [Pages -> Cogs \cup {Free, Hub, None}]
  /\ bits \in [Pages -> SUBSET MarkBits]
  /\ lock \in Cogs \cup {None}
  /\ pc \in [Cogs -> Places]
  /\ op \in [Cogs -> {"none", "alloc", "retry", "free", "collect"}]
  /\ req \in [Cogs -> Reqs]
  /\ ptr \in [Cogs -> 0 .. NPages + 1]
  /\ last \in [Cogs -> 0 .. NPages]
  /\ nxt \in [Cogs -> 0 .. NPages + 1]
  /\ scan \in [Cogs -> 0 .. NCells + 1]
  /\ word \in [Cogs -> Flags]
  /\ hub \in [Cells -> 0 .. NPages]
  /\ reg \in [Cogs -> SUBSET Pages]
  /\ stale \in [Cogs -> SUBSET Pages]
  /\ mine \in [Cogs -> SUBSET Pages]

-----------------------------------------------------------------------------
(* The shape of the heap.                                                  *)

\* The free blocks, but for the one that a _gc_dofree under way has marked
\* free and not linked yet.
FreeBlocks ==
  {p \in Pages : owner[p] = Free
     /\ \A c \in Cogs : pc[c] \in {"back", "merge"} => ptr[c] # p}

\* No free block strictly between p and q (q = 0: none above p).
Consecutive(p, q) ==
  \A f \in FreeBlocks : f > p => (q # 0 /\ f >= q)

\* The blocks cut the heap into consecutive pieces without gap or overlap,
\* and prev leads from each block but the first to the one below it.
HeapTiling ==
  /\ 1 \in Blocks /\ prev[1] = 0
  /\ \A p \in Blocks :
       /\ size[p] >= 1
       /\ NextBlock(p) \in Blocks \cup {NPages + 1}
       /\ \A q \in Blocks : q > p => q >= NextBlock(p)
  /\ \A p \in Blocks \ {1} : prev[p] \in Blocks /\ NextBlock(prev[p]) = p

\* The free list holds exactly the free blocks, in address order.
FreeListExact ==
  \A p \in FreeBlocks \cup {0} :
    /\ link[p] \in FreeBlocks \cup {0}
    /\ link[p] # 0 => link[p] > p
    /\ Consecutive(p, link[p])

\* Free neighbours are always merged.
NoAdjacentFree ==
  \A p \in FreeBlocks : NextBlock(p) \notin FreeBlocks

\* An allocation fails only when no free block is large enough.
AllocFailureHonest ==
  \A c \in Cogs : pc[c] = "unlock" /\ op[c] = "retry" /\ ptr[c] = 0
    => \A p \in FreeBlocks : size[p] < req[c].pages

\* _gc_doalloc zeroes, outside the lock, a block that is the caller's and has
\* the size it asked for.
ZeroesOwnBlock ==
  \A c \in Cogs : pc[c] = "zero" =>
    /\ Allocated(ptr[c]) /\ ptr[c] \in reg[c]
    /\ size[ptr[c]] = req[c].pages

\* A block obtained from _gc_alloc and neither freed nor handed to the
\* collector is never freed or given to somebody else.
ReservedSurvives ==
  \A c \in Cogs : \A p \in mine[c] :
    /\ Allocated(p) /\ "reserved" \in bits[p]
    /\ \A d \in Cogs \ {c} : p \notin mine[d]

Rooted(c, p) == p \in reg[c] \/ \E a \in Cells : hub[a] = p

\* A block that a register or a hub cell points to is allocated.
ReferencedStaysAllocated ==
  \A p \in Pages : (\E c \in Cogs : Rooted(c, p)) => Allocated(p)

\* When a collection ends, nothing is left that the cog could have collected.
CollectComplete ==
  \A c \in Cogs : pc[c] = "unlock" /\ op[c] = "collect" =>
    \A p \in Blocks : Allocated(p) /\ ~ Rooted(c, p) => "reserved" \in bits[p]

-----------------------------------------------------------------------------
(* The allocator implements Heap.                                          *)

InUse == {p \in Pages : Allocated(p)}
Referenced == {p \in Pages : \E c \in Cogs : Rooted(c, p)}
Reserved == {p \in Pages : \E c \in Cogs : p \in mine[c]}

H == INSTANCE Heap WITH
  extents <- [p \in InUse |-> size[p]],
  refs <- Referenced,
  reserved <- Reserved

\* Every step of the runtime hands out a block, takes one back that nobody
\* refers to, copies pointers, or is invisible to the program.
ImplementsHeap == H!Spec

-----------------------------------------------------------------------------
\* A cog keeps executing; the lock promises progress to no particular cog.
Fairness == \A c \in Cogs :
  WF_vars(\/ Unlock(c) \/ Zero(c) \/ Walk(c) \/ TakeBlock(c) \/ TakeNone(c)
          \/ FreeMark(c) \/ FreeBack(c) \/ FreeMerge(c)
          \/ ClearRead(c) \/ ClearWrite(c) \/ ScanRead(c) \/ ScanWrite(c)
          \/ MarkCog(c) \/ Sweep(c))
FairSpec == Spec /\ Fairness

\* Every call lets go of the lock: the walks over the heap end.
LockReleased == lock # None ~> lock = None
=============================================================================
