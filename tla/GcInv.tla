------------------------------- MODULE GcInv -------------------------------
(***************************************************************************)
(* The inductive invariant of GcAlloc, for programs that use the heap in a *)
(* disciplined way.  GcAllocProofs and GcHeapProofs prove it.              *)
(***************************************************************************)
EXTENDS GcProps

\* The program runs on one cog, whose stack lies above all the cells.
Sole == \E c \in Cogs : Cogs = {c} /\ ScanTop[c] = NCells

\* The cogs that hand blocks to the collector after all.
Managers == {c \in Cogs : "manage" \in Calls[c]}

\* Every page lies inside the heap and no register keeps a dead pointer.  A
\* program on several cogs lets only blocks from _gc_alloc into hub memory, and
\* those are not for _gc_manage, which a cog calls for blocks that stay with
\* it; a program on one cog may do what it likes.
Disciplined ==
  /\ EndOffset % 16 # 0
  /\ ~ StaleRegs
  /\ \/ Sole
     \/ \A c \in Cogs : /\ "store" \notin Calls[c]
                        /\ c \in Managers => "store_reserved" \notin Calls[c]

\* The cog in the locked part of a call is the one that has the lock.
LockOk(c) == pc[c] \in Critical => lock = c

\* Which call a cog is in, by where it is.
CallOk(c) ==
  /\ pc[c] \in {"walk", "take", "zero"} => op[c] \in {"alloc", "retry"}
  /\ pc[c] \in {"clear", "clearwrite", "scan", "scanwrite", "sweep"}
       => op[c] \in {"alloc", "collect"}
  /\ pc[c] \in {"lock", "dofree", "back", "merge"} => op[c] \in {"alloc", "collect", "free"}
  /\ op[c] \in {"alloc", "retry"} => req[c].pages >= 1

\* Only allocated blocks carry marks.
MarkInv == \A p \in Pages : ~ Allocated(p) => bits[p] = {}

\* c has decided to give its block up and has not marked it free yet.
GivingUp(c) == op[c] = "free" /\ pc[c] \in {"lock", "dofree"}

NoReference(p) ==
  /\ \A c \in Cogs : p \notin reg[c] \cup mine[c]
  /\ \A a \in Cells : hub[a] # p

\* No collector but c's takes the block p for garbage, and c's knows when.
Private(c, p) == owner[p] = c /\ (c \in Managers \/ "reserved" \notin bits[p])
\* No collector takes the block p for garbage, and no _gc_manage changes that.
Shared(p) == owner[p] \notin Managers /\ "reserved" \in bits[p]

\* Every pointer the program holds leads to an allocated block: one that a
\* cog got from _gc_alloc and has not freed, or one that only the registers of
\* its owner point to.
MineInv == \A c \in Cogs : \A p \in mine[c] :
  /\ Allocated(p) /\ "reserved" \in bits[p]
  /\ owner[p] = c \/ (owner[p] = Hub /\ c \notin Managers) \/ Sole
  /\ \A d \in Cogs \ {c} : p \notin mine[d]
RegInv == \A c \in Cogs : \A p \in reg[c] :
  /\ Allocated(p)
  /\ \/ Private(c, p)
     \/ \E d \in Cogs \ Managers : p \in mine[d]
     \/ Sole
HubInv ==
  /\ \A a \in Cells : hub[a] # 0 =>
       \/ \E d \in Cogs \ Managers : hub[a] \in mine[d]
       \/ Sole /\ Allocated(hub[a])
  /\ \A c \in Cogs : stale[c] = {}

\* A block that a cog is giving up is still allocated, nobody else knows it,
\* and no other cog's collector takes it for garbage.
GiveInv == \A c \in Cogs : GivingUp(c) =>
  /\ Allocated(ptr[c]) /\ NoReference(ptr[c])
  /\ Private(c, ptr[c]) \/ Shared(ptr[c]) \/ Sole
  /\ \A d \in Cogs \ {c} : GivingUp(d) => ptr[d] # ptr[c]

\* What a cog's pointers stand for in _gc_tryalloc and after it,
AllocOk(c) ==
  /\ pc[c] = "idle" \/ (pc[c] = "lock" /\ op[c] = "alloc") => ptr[c] = 0
  /\ pc[c] = "walk" => ptr[c] \in FreeBlocks \cup {0}
  /\ pc[c] = "take" => /\ ptr[c] \in FreeBlocks \cup {0}
                       /\ last[c] \in FreeBlocks \cup {0}
                       /\ link[last[c]] = ptr[c]
                       /\ ptr[c] # 0 => req[c].pages <= size[ptr[c]]
  /\ pc[c] = "zero" \/ (pc[c] = "unlock" /\ op[c] \in {"alloc", "retry"} /\ ptr[c] # 0)
       => ptr[c] \in reg[c] /\ size[ptr[c]] = req[c].pages

\* in _gc_dofree,
FreeOk(c) ==
  /\ pc[c] = "dofree" =>
       /\ Allocated(ptr[c]) /\ NoReference(ptr[c])
       /\ \A d \in Cogs \ {c} : GivingUp(d) => ptr[d] # ptr[c]
  /\ pc[c] \in {"back", "merge"} => ptr[c] \in Pages /\ owner[ptr[c]] = Free
  /\ pc[c] = "back" => /\ last[c] \in Blocks /\ last[c] <= ptr[c]
                       /\ \A f \in FreeBlocks : f < last[c] \/ f > ptr[c]
  /\ pc[c] = "merge" => /\ last[c] \in FreeBlocks \cup {0} /\ last[c] < ptr[c]
                        /\ \A f \in FreeBlocks : f <= last[c] \/ f > ptr[c]

\* The flags word that c has read is still that of its block, but for marks
\* that an unlocked _gc_manage may have changed since.
WordOk(c) ==
  \/ word[c] = FlagsOf(ptr[c])
  \/ /\ ~ Sole /\ word[c].owner = owner[ptr[c]] /\ owner[ptr[c]] \in Managers
     /\ "reserved" \in word[c].bits

\* in _gc_manage and in _gc_docollect,
Sweeping(c) ==
  pc[c] = "sweep" \/ (pc[c] \in {"dofree", "back", "merge"} /\ op[c] # "free")
CollectOk(c) ==
  /\ pc[c] = "manage" => c \in Managers /\ ptr[c] \in mine[c] /\ WordOk(c)
  /\ pc[c] \in {"clear", "clearwrite"} => ptr[c] \in Blocks
  /\ pc[c] = "clearwrite" => WordOk(c)
  /\ pc[c] \in {"scan", "scanwrite"} => scan[c] >= 1
  /\ pc[c] = "scanwrite" =>
       /\ Allocated(ptr[c]) /\ word[c] = FlagsOf(ptr[c])
       /\ Shared(ptr[c]) \/ Sole
  /\ pc[c] = "sweep" => nxt[c] \in Blocks
  /\ Sweeping(c) => \A p \in reg[c] : bits[p] \cap {"inuse", "reserved"} # {}

\* and, if there is only one cog, in the scan of the hub, which has marked what
\* the cells before the next one point to, or is about to mark it.
SoleOk(c) ==
  /\ Sole /\ pc[c] \in {"scan", "scanwrite"} =>
       \A a \in Cells : a < scan[c] /\ hub[a] # 0 =>
         "inuse" \in bits[hub[a]] \/ (pc[c] = "scanwrite" /\ ptr[c] = hub[a])
  /\ Sole /\ Sweeping(c) =>
       \A a \in Cells : hub[a] # 0 => bits[hub[a]] \cap {"inuse", "reserved"} # {}

CogOk(c) == LockOk(c) /\ CallOk(c) /\ AllocOk(c) /\ FreeOk(c) /\ CollectOk(c) /\ SoleOk(c)

\* What every step of the runtime preserves.
HeapInv == /\ TypeOK
           /\ MarkInv /\ HeapTiling /\ FreeListExact
           /\ MineInv /\ RegInv /\ HubInv /\ GiveInv
           /\ \A c \in Cogs : CogOk(c)

-----------------------------------------------------------------------------
(* What follows from it.                                                   *)

\* The first-fit loop has passed only blocks that are too small.
SearchOk(c) ==
  /\ pc[c] = "walk" => \A f \in FreeBlocks : f <= ptr[c] => size[f] < req[c].pages
  /\ pc[c] = "take" =>
       \A f \in FreeBlocks : ptr[c] = 0 \/ f < ptr[c] => size[f] < req[c].pages
  /\ pc[c] = "unlock" /\ op[c] = "retry" /\ ptr[c] = 0 =>
       \A f \in FreeBlocks : size[f] < req[c].pages

\* Below the place that a collection has reached, nothing is marked in use
\* while it clears, and while it sweeps nothing is left that it can collect;
\* in between only blocks with a reference are marked.
Kept(c, p) == Allocated(p) => Rooted(c, p) \/ "reserved" \in bits[p]
RootMarks(c) == \A p \in Blocks : "inuse" \in bits[p] => Rooted(c, p)
ClearOk(c) ==
  pc[c] \in {"clear", "clearwrite"} =>
    \A p \in Blocks : p < ptr[c] => "inuse" \notin bits[p]
SweepOk(c) ==
  /\ pc[c] \in {"scan", "scanwrite"} \/ Sweeping(c) => RootMarks(c)
  /\ pc[c] = "scanwrite" => Rooted(c, ptr[c])
  /\ pc[c] = "sweep" => \A p \in Blocks : p < nxt[c] => Kept(c, p)
  /\ pc[c] \in {"dofree", "back", "merge"} /\ op[c] # "free" =>
       \A p \in Blocks : p < ptr[c] => Kept(c, p)
  /\ pc[c] = "unlock" /\ op[c] = "collect" => \A p \in Blocks : Kept(c, p)

\* All of it together.
IInv == /\ HeapInv
        /\ NoAdjacentFree
        /\ \A c \in Cogs : SearchOk(c)
        /\ Sole => \A c \in Cogs : ClearOk(c) /\ SweepOk(c)
=============================================================================
