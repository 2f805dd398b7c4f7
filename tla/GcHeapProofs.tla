---------------------------- MODULE GcHeapProofs ----------------------------
(***************************************************************************)
(* For every number of cogs, size of heap and number of hub cells, and a   *)
(* disciplined program (GcInv): free neighbours are merged, an allocation  *)
(* fails only when it must, a collection on one cog leaves no garbage, and *)
(* what the program sees is the abstract heap of Heap.tla.                 *)
(***************************************************************************)
EXTENDS GcAllocProofs

-----------------------------------------------------------------------------
(* The free list: merged neighbours, and a search that misses nothing.     *)

\* A step of cog c that neither takes a block off the free list nor puts one
\* on it.
OffList(c) ==
  \/ AllocCall(c) \/ FreeCall(c) \/ CollectCall(c) \/ Lock(c) \/ Unlock(c) \/ Zero(c)
  \/ Walk(c) \/ TakeNone(c) \/ FreeMark(c) \/ FreeBack(c)
  \/ ClearRead(c) \/ ClearWrite(c) \/ ScanRead(c) \/ ScanWrite(c) \/ MarkCog(c) \/ Sweep(c)
  \/ ManageRead(c) \/ ManageWrite(c) \/ Store(c) \/ Load(c) \/ Drop(c)

\* Such a step leaves the free blocks and their sizes as they are.
LEMMA SameFree ==
  ASSUME Disciplined, HeapInv, NEW c \in Cogs, OffList(c)
  PROVE  FreeBlocks' = FreeBlocks /\ \A f \in FreeBlocks : size'[f] = size[f]
<1>a. TypeOK /\ CogOk(c)
  BY DEF HeapInv
<1>1. CASE \/ AllocCall(c) \/ FreeCall(c) \/ CollectCall(c) \/ Lock(c) \/ Unlock(c)
           \/ Walk(c) \/ TakeNone(c)
  <2>1. UNCHANGED heap /\ pc[c] \notin {"back", "merge"} /\ pc'[c] \notin {"back", "merge"}
    BY <1>1, <1>a DEF AllocCall, FreeCall, CollectCall, Lock, Unlock, Walk, TakeNone, Goto, TypeOK
  <2>2. \A d \in Cogs \ {c} : pc'[d] = pc[d] /\ ptr'[d] = ptr[d]
    BY <1>1, <1>a DEF AllocCall, FreeCall, CollectCall, Lock, Unlock, Walk, TakeNone,
       Goto, TypeOK, locals
  <2> QED
    BY <2>1, <2>2 DEF heap, FreeBlocks
<1>2. CASE \/ ClearRead(c) \/ ScanRead(c) \/ Sweep(c) \/ ManageRead(c)
           \/ Store(c) \/ Load(c) \/ Drop(c)
  <2>1. UNCHANGED heap /\ pc[c] \notin {"back", "merge"} /\ pc'[c] \notin {"back", "merge"}
    BY <1>2, <1>a DEF ClearRead, ScanRead, Sweep, AfterSweep, ManageRead, Store, Load, Drop, MayMove,
       Goto, TypeOK
  <2>2. \A d \in Cogs \ {c} : pc'[d] = pc[d] /\ ptr'[d] = ptr[d]
    BY <1>2, <1>a DEF ClearRead, ScanRead, Sweep, AfterSweep, ManageRead, Store, Load, Drop, MayMove,
       Goto, TypeOK, locals
  <2> QED
    BY <2>1, <2>2 DEF heap, FreeBlocks
<1>3. CASE ClearWrite(c) \/ ScanWrite(c) \/ MarkCog(c) \/ ManageWrite(c)
  <2>1. \A q \in Pages : owner'[q] = Free <=> owner[q] = Free
    <3>1. CASE ClearWrite(c) \/ ManageWrite(c)
      BY <1>a, <3>1 DEF ClearWrite, ManageWrite, SetFlags, FlagsOf, CogOk, CollectOk, WordOk, TypeOK
    <3>2. CASE ScanWrite(c)
      <4>1. /\ owner' = [owner EXCEPT ![ptr[c]] = Hub] /\ Allocated(ptr[c])
        BY <1>a, <3>2 DEF ScanWrite, SetFlags, CogOk, CollectOk
      <4> QED
        BY <1>a, <4>1, GcAssumption DEF Allocated, TypeOK, Hub, Free
    <3>3. CASE MarkCog(c)
      BY <3>3 DEF MarkCog
    <3> QED
      BY <1>3, <3>1, <3>2, <3>3
  <2>2. size' = size /\ pc[c] \notin {"back", "merge"} /\ pc'[c] \notin {"back", "merge"}
    BY <1>3, <1>a DEF ClearWrite, ScanWrite, MarkCog, ManageWrite, Goto, TypeOK
  <2>3. \A d \in Cogs \ {c} : pc'[d] = pc[d] /\ ptr'[d] = ptr[d]
    BY <1>3, <1>a DEF ClearWrite, ScanWrite, MarkCog, ManageWrite, Goto, TypeOK
  <2> QED
    BY <2>1, <2>2, <2>3 DEF FreeBlocks
<1>4. CASE FreeBack(c)
  <2>1. /\ UNCHANGED heap /\ ptr' = ptr
        /\ pc[c] \in {"back", "merge"} /\ pc'[c] \in {"back", "merge"}
        /\ \A d \in Cogs \ {c} : pc'[d] = pc[d]
    BY <1>4, <1>a DEF FreeBack, Goto, TypeOK
  <2> QED
    BY <2>1 DEF heap, FreeBlocks
<1>5. CASE FreeMark(c)
  <2>1. /\ size' = size /\ ptr' = ptr /\ pc[c] = "dofree" /\ pc'[c] = "back"
        /\ \A d \in Cogs \ {c} : pc'[d] = pc[d]
        /\ owner' = [owner EXCEPT ![ptr[c]] = Free]
    BY <1>5, <1>a DEF FreeMark, SetFlags, Goto, TypeOK
  <2>2. Allocated(ptr[c])
    BY <1>a, <2>1 DEF CogOk, FreeOk
  <2>3. /\ ptr[c] \in Pages /\ owner[ptr[c]] # Free
        /\ \A q \in Pages \ {ptr[c]} : owner'[q] = owner[q]
    BY <1>a, <2>1, <2>2, GcAssumption DEF Allocated, TypeOK, Hub, Free
  <2> QED
    BY <2>1, <2>3 DEF FreeBlocks
<1>6. CASE Zero(c)
  <2>1. UNCHANGED <<owner, bits>> /\ pc[c] \notin {"back", "merge"} /\ pc'[c] \notin {"back", "merge"}
    BY <1>a, <1>6, ZeroKeeps DEF Zero, Goto, TypeOK
  <2>2. \A d \in Cogs \ {c} : pc'[d] = pc[d] /\ ptr'[d] = ptr[d]
    BY <1>a, <1>6 DEF Zero, Goto, TypeOK
  <2>3. \A f \in FreeBlocks : size'[f] = size[f]
    BY <1>6, ZeroKeeps, Links
  <2> QED
    BY <2>1, <2>2, <2>3 DEF FreeBlocks
<1> QED
  BY <1>1, <1>2, <1>3, <1>4, <1>5, <1>6 DEF OffList

\* What c holds in its locals is its own.
LEMMA OthersKeep ==
  ASSUME TypeOK, NEW c \in Cogs, OffList(c) \/ TakeBlock(c) \/ FreeMerge(c),
         NEW d \in Cogs \ {c}
  PROVE  pc'[d] = pc[d] /\ op'[d] = op[d] /\ req'[d] = req[d] /\ ptr'[d] = ptr[d]
<1>1. CASE \/ AllocCall(c) \/ FreeCall(c) \/ CollectCall(c) \/ Lock(c) \/ Unlock(c) \/ Zero(c)
           \/ Walk(c) \/ TakeNone(c) \/ TakeBlock(c)
  BY <1>1 DEF AllocCall, FreeCall, CollectCall, Lock, Unlock, Zero, Walk, TakeNone, TakeBlock,
     Goto, TypeOK, locals
<1>2. CASE \/ ClearRead(c) \/ ScanRead(c) \/ Sweep(c) \/ ManageRead(c)
           \/ Store(c) \/ Load(c) \/ Drop(c)
  BY <1>2 DEF ClearRead, ScanRead, Sweep, AfterSweep, ManageRead, Store, Load, Drop, MayMove,
     Goto, TypeOK, locals
<1>3. CASE \/ ClearWrite(c) \/ ScanWrite(c) \/ MarkCog(c) \/ ManageWrite(c)
           \/ FreeMark(c) \/ FreeBack(c) \/ FreeMerge(c)
  BY <1>3 DEF ClearWrite, ScanWrite, MarkCog, ManageWrite, FreeMark, FreeBack, FreeMerge, AfterSweep,
     Goto, TypeOK
<1> QED
  BY <1>1, <1>2, <1>3 DEF OffList

\* Every step keeps free neighbours merged: a block that is freed looks to
\* both sides, and a block that is cut leaves its rest beside a block in use.
LEMMA MergedStep ==
  ASSUME Disciplined, HeapInv, NoAdjacentFree, [Next]_vars
  PROVE  NoAdjacentFree'
<1>1. ASSUME FreeBlocks' = FreeBlocks, \A f \in FreeBlocks : size'[f] = size[f] PROVE NoAdjacentFree'
  BY <1>1 DEF NoAdjacentFree, NextBlock
<1>2. CASE UNCHANGED vars
  BY <1>1, <1>2 DEF vars, heap, locals, FreeBlocks
<1>3. ASSUME NEW c \in Cogs, OffList(c) PROVE NoAdjacentFree'
  BY <1>1, <1>3, SameFree
<1>4. ASSUME NEW c \in Cogs, TakeBlock(c) \/ FreeMerge(c) PROVE NoAdjacentFree'
  BY <1>4, TakeBlockStep, FreeMergeStep
<1> QED
  BY <1>2, <1>3, <1>4 DEF Next, OffList

\* The search for a block goes up the free list one block at a time, and
\* while it lasts nobody else changes the list.
LEMMA SearchStep ==
  ASSUME Disciplined, HeapInv, \A d \in Cogs : SearchOk(d), [Next]_vars, NEW d \in Cogs
  PROVE  SearchOk(d)'
<1>a. TypeOK
  BY DEF HeapInv
<1>1. ASSUME FreeBlocks' = FreeBlocks, \A f \in FreeBlocks : size'[f] = size[f],
             pc'[d] = pc[d], op'[d] = op[d], req'[d] = req[d], ptr'[d] = ptr[d]
      PROVE  SearchOk(d)'
  BY <1>1 DEF SearchOk
<1>2. CASE UNCHANGED vars
  BY <1>1, <1>2 DEF vars, heap, locals, FreeBlocks
<1>3. ASSUME NEW c \in Cogs \ {d}, OffList(c) PROVE SearchOk(d)'
  BY <1>a, <1>1, <1>3, SameFree, OthersKeep
<1>4. ASSUME NEW c \in Cogs \ {d}, TakeBlock(c) \/ FreeMerge(c) PROVE SearchOk(d)'
  <2>1. pc[d] \notin Critical
    <3>1. pc[c] \in Critical
      BY <1>4 DEF TakeBlock, FreeMerge, Critical
    <3> QED
      BY <3>1, Alone
  <2>2. pc'[d] = pc[d]
    BY <1>a, <1>4, OthersKeep
  <2> QED
    BY <2>1, <2>2 DEF SearchOk, Critical
<1>5. ASSUME TakeBlock(d) PROVE SearchOk(d)'
  BY <1>a, <1>5 DEF TakeBlock, Goto, SearchOk, TypeOK, locals
<1>6. ASSUME FreeMerge(d) PROVE SearchOk(d)'
  <2>1. pc[d] = "merge"
    BY <1>6 DEF FreeMerge
  <2>2. /\ pc'[d] \in {"walk", "sweep", "unlock"}
        /\ pc'[d] = "walk" => ptr'[d] = 0
        /\ op'[d] = "retry" => pc'[d] # "unlock"
    <3>1. op[d] \in {"alloc", "collect", "free"}
      BY <2>1 DEF HeapInv, CogOk, CallOk
    <3> QED
      BY <1>a, <1>6, <3>1 DEF FreeMerge, AfterSweep, Goto, TypeOK
  <2>3. HeapInv'
    BY <1>6, FreeMergeStep
  <2>4. \A f \in FreeBlocks' : f \in Int /\ f > 0
    BY PageFacts DEF FreeBlocks, Pages
  <2> QED
    BY <2>2, <2>4 DEF SearchOk
<1>7. ASSUME Walk(d) PROVE SearchOk(d)'
  <2>1. FreeBlocks' = FreeBlocks /\ \A f \in FreeBlocks : size'[f] = size[f]
    BY <1>7, SameFree DEF OffList
  <2>2. PICK p : p = link[ptr[d]]
    OBVIOUS
  <2>3. /\ pc[d] = "walk" /\ ptr'[d] = p /\ pc'[d] \in {"walk", "take"} /\ req' = req
        /\ pc'[d] = "walk" <=> p # 0 /\ InHeap(p) /\ TooSmall(d, p)
    BY <1>a, <1>7, <2>2 DEF Walk, Goto, TypeOK
  <2>4. ptr[d] \in FreeBlocks \cup {0}
    BY <2>3 DEF HeapInv, CogOk, AllocOk
  <2>5. /\ p \in FreeBlocks \cup {0} /\ p \in Int /\ ptr[d] \in Int
        /\ p # 0 => p > ptr[d]
        /\ \A g \in FreeBlocks : g \in Int /\ (g > ptr[d] => p # 0 /\ g >= p)
    BY <2>2, <2>4, Links
  <2>6. \A f \in FreeBlocks : f <= ptr[d] => size[f] < req[d].pages
    BY <2>3 DEF SearchOk
  <2>7. \A f \in FreeBlocks : (p = 0 \/ f < p) => size[f] < req[d].pages
    BY <2>5, <2>6
  <2>8. pc'[d] = "walk" => size[p] < req[d].pages
    <3>1. p # 0 => size[p] \in Int
      <4>1. p # 0 => p \in Pages
        BY <2>5 DEF FreeBlocks
      <4> QED
        BY <1>a, <4>1, PageFacts DEF TypeOK
    <3>2. req[d].pages \in Int
      <4>1. req[d] \in Reqs
        BY <1>a DEF TypeOK
      <4> QED
        BY <1>a, <4>1, RecordFacts
    <3> QED
      BY <2>3, <3>1, <3>2 DEF TooSmall
  <2>9. pc'[d] = "walk" => \A f \in FreeBlocks : f <= p => size[f] < req[d].pages
    BY <2>3, <2>5, <2>7, <2>8
  <2> QED
    BY <2>1, <2>3, <2>7, <2>9 DEF SearchOk
<1>8. ASSUME TakeNone(d) PROVE SearchOk(d)'
  <2>1. FreeBlocks' = FreeBlocks /\ \A f \in FreeBlocks : size'[f] = size[f]
    BY <1>8, SameFree DEF OffList
  <2>2. /\ pc[d] = "take" /\ ptr[d] = 0 /\ pc'[d] \in {"clear", "unlock"} /\ req' = req
    BY <1>a, <1>8 DEF TakeNone, Goto, TypeOK
  <2>3. \A f \in FreeBlocks : size[f] < req[d].pages
    BY <2>2 DEF SearchOk
  <2> QED
    BY <2>1, <2>2, <2>3 DEF SearchOk
<1>9. ASSUME Lock(d) \/ Sweep(d) PROVE SearchOk(d)'
  <2>1. /\ pc'[d] \in {"walk", "dofree", "clear", "sweep", "unlock"}
        /\ pc'[d] = "walk" => ptr'[d] = 0
        /\ pc'[d] = "unlock" => op'[d] # "retry"
    <3>1. CASE Lock(d)
      <4>1. op[d] = "alloc" => ptr[d] = 0
        BY <3>1 DEF Lock, HeapInv, CogOk, AllocOk
      <4> QED
        BY <1>a, <3>1, <4>1 DEF Lock, Goto, TypeOK
    <3>2. CASE Sweep(d)
      <4>1. pc[d] = "sweep" /\ op[d] \in {"alloc", "collect"}
        BY <3>2 DEF Sweep, HeapInv, CogOk, CallOk
      <4> QED
        BY <1>a, <3>2, <4>1 DEF Sweep, AfterSweep, Goto, TypeOK
    <3> QED
      BY <1>9, <3>1, <3>2
  <2>2. \A f \in FreeBlocks' : f \in Int /\ f > 0
    BY PageFacts DEF FreeBlocks, Pages
  <2> QED
    BY <2>1, <2>2 DEF SearchOk
<1>10. ASSUME \/ AllocCall(d) \/ FreeCall(d) \/ CollectCall(d) \/ Unlock(d) \/ Zero(d)
              \/ FreeMark(d) \/ FreeBack(d) \/ ClearRead(d) \/ ClearWrite(d)
              \/ ScanRead(d) \/ ScanWrite(d) \/ MarkCog(d) \/ ManageRead(d) \/ ManageWrite(d)
              \/ Store(d) \/ Load(d) \/ Drop(d)
       PROVE  SearchOk(d)'
  <2>1. pc'[d] \notin {"walk", "take", "unlock"}
    BY <1>a, <1>10 DEF AllocCall, FreeCall, CollectCall, Unlock, Zero, FreeMark, FreeBack,
       ClearRead, ClearWrite, ScanRead, ScanWrite, MarkCog, ManageRead, ManageWrite,
       Store, Load, Drop, MayMove, Goto, TypeOK
  <2> QED
    BY <2>1 DEF SearchOk
<1> QED
  BY <1>2, <1>3, <1>4, <1>5, <1>6, <1>7, <1>8, <1>9, <1>10 DEF Next, OffList

-----------------------------------------------------------------------------
(* Collections on one cog.                                                 *)

\* A step at whose end c is in no part of a collection that says anything.
LEMMA NotCollecting ==
  ASSUME NEW c \in Cogs,
         pc'[c] \notin {"clear", "clearwrite", "scan", "scanwrite", "sweep"},
         pc'[c] \in {"dofree", "back", "merge"} => op'[c] = "free",
         pc'[c] = "unlock" => op'[c] # "collect"
  PROVE  ClearOk(c)' /\ SweepOk(c)'
BY DEF ClearOk, SweepOk, Sweeping

\* The steps that clear and set marks: marks are gone below the block that is
\* cleared next, and the scan marks only what a cell or a register points to.
LEMMA MarkingStep ==
  ASSUME Disciplined, HeapInv, Sole, NEW c \in Cogs, ClearOk(c), SweepOk(c),
         ClearRead(c) \/ ClearWrite(c) \/ ScanRead(c) \/ ScanWrite(c) \/ MarkCog(c)
  PROVE  ClearOk(c)' /\ SweepOk(c)'
<1>a. TypeOK /\ CogOk(c) /\ HubInv
  BY DEF HeapInv
<1>1. CASE ClearRead(c)
  <2>1. /\ pc[c] = "clear" /\ pc'[c] = "clearwrite" /\ ptr' = ptr /\ bits' = bits
        /\ Blocks' = Blocks
    BY <1>a, <1>1 DEF ClearRead, heap, Goto, TypeOK, Blocks
  <2> QED
    BY <2>1 DEF ClearOk, SweepOk, Sweeping
<1>2. CASE ClearWrite(c)
  <2>1. PICK p : p = ptr[c]
    OBVIOUS
  <2>2. pc[c] = "clearwrite" /\ p \in Blocks /\ word[c] = FlagsOf(p)
    BY <1>a, <1>2, <2>1 DEF ClearWrite, CogOk, CollectOk, WordOk
  <2>3. p \in Pages
    BY <2>2 DEF Blocks
  <2>4. /\ owner' = owner /\ bits' = [bits EXCEPT ![p] = bits[p] \ {"inuse"}]
        /\ reg' = reg /\ hub' = hub
    BY <1>a, <1>2, <2>1, <2>2, <2>3 DEF ClearWrite, SetFlags, FlagsOf, TypeOK, refs
  <2>5. Blocks' = Blocks
    BY <2>4 DEF Blocks
  <2>6. \A q \in Blocks : q \in Int /\ (q > p => q >= NextBlock(p)) /\ p \in Int
                          /\ NextBlock(p) \in Int /\ q <= NPages
    BY <2>2, Tiles
  <2>7. \A q \in Blocks : q < NextBlock(p) => "inuse" \notin bits'[q]
    <3> SUFFICES ASSUME NEW q \in Blocks, q < NextBlock(p) PROVE "inuse" \notin bits'[q]
      OBVIOUS
    <3>1. q < p \/ q = p
      BY <2>6
    <3>2. q \in Pages
      BY DEF Blocks
    <3>3. CASE q = p
      BY <1>a, <2>4, <3>2, <3>3 DEF TypeOK
    <3>4. CASE q < p /\ q # p
      <4>1. "inuse" \notin bits[q]
        BY <2>1, <2>2, <3>4 DEF ClearOk
      <4> QED
        BY <1>a, <2>4, <3>2, <3>4, <4>1 DEF TypeOK
    <3>5. q < p => q # p
      BY <2>6
    <3> QED
      BY <3>1, <3>3, <3>4, <3>5
  <2>8. CASE InHeap(NextBlock(p))
    <3>1. pc'[c] = "clear" /\ ptr'[c] = NextBlock(p)
      BY <1>a, <1>2, <2>1, <2>8 DEF ClearWrite, Goto, TypeOK
    <3> QED
      BY <2>5, <2>7, <3>1 DEF ClearOk, SweepOk, Sweeping
  <2>9. CASE ~ InHeap(NextBlock(p))
    <3>1. pc'[c] = "scan"
      BY <1>a, <1>2, <2>1, <2>9 DEF ClearWrite, Goto, TypeOK
    <3>2. NextBlock(p) = NPages + 1
      BY <2>2, <2>9, Tiles, PageFacts DEF Blocks
    <3>3. \A q \in Blocks : q < NextBlock(p)
      BY <2>6, <3>2, PageFacts
    <3>4. RootMarks(c)'
      BY <2>5, <2>7, <3>3 DEF RootMarks
    <3> QED
      BY <3>1, <3>4 DEF ClearOk, SweepOk, Sweeping
  <2> QED
    BY <2>8, <2>9
<1>3. CASE ScanRead(c)
  <2>1. /\ pc[c] = "scan" /\ pc'[c] \in {"scan", "scanwrite"} /\ UNCHANGED heap /\ UNCHANGED refs
        /\ pc'[c] = "scanwrite" => ptr'[c] = hub[scan[c]]
    BY <1>a, <1>3 DEF ScanRead, Goto, TypeOK
  <2>2. scan[c] \in Cells
    <3>1. scan[c] >= 1 /\ scan[c] <= ScanTop[c]
      BY <1>a, <1>3 DEF ScanRead, CogOk, CollectOk
    <3>2. ScanTop[c] \in 0 .. NCells /\ scan[c] \in 0 .. NCells + 1 /\ NCells \in Nat
      BY <1>a, GcAssumption DEF TypeOK
    <3> QED
      BY <3>1, <3>2 DEF Cells
  <2>3. RootMarks(c)'
    BY <2>1 DEF SweepOk, RootMarks, Rooted, Blocks, heap, refs
  <2>4. pc'[c] = "scanwrite" => Rooted(c, ptr[c])'
    BY <2>1, <2>2 DEF Rooted, refs
  <2> QED
    BY <2>1, <2>3, <2>4 DEF ClearOk, SweepOk, Sweeping
<1>4. CASE ScanWrite(c)
  <2>1. PICK p : p = ptr[c]
    OBVIOUS
  <2>2. /\ pc[c] = "scanwrite" /\ Allocated(p) /\ word[c] = FlagsOf(p) /\ Rooted(c, p)
        /\ RootMarks(c)
    BY <1>a, <1>4, <2>1 DEF ScanWrite, CogOk, CollectOk, SweepOk
  <2>3. p \in Pages /\ p \in Blocks
    BY <2>2, GcAssumption DEF Allocated, Blocks, Hub, None
  <2>4. /\ owner' = [owner EXCEPT ![p] = Hub] /\ bits' = [bits EXCEPT ![p] = @ \cup {"inuse"}]
        /\ UNCHANGED refs /\ pc'[c] = "scan"
    BY <1>a, <1>4, <2>1, <2>2 DEF ScanWrite, SetFlags, FlagsOf, Goto, TypeOK
  <2>5. Blocks' = Blocks
    BY <1>a, <2>3, <2>4 DEF Blocks, TypeOK, Hub, None
  <2>6. \A q \in Blocks : q # p => bits'[q] = bits[q]
    BY <1>a, <2>4 DEF TypeOK, Blocks
  <2>7. RootMarks(c)'
    BY <2>2, <2>4, <2>5, <2>6 DEF RootMarks, Rooted, refs
  <2> QED
    BY <2>4, <2>7 DEF ClearOk, SweepOk, Sweeping
<1>5. CASE MarkCog(c)
  <2>1. stale[c] = {}
    BY <1>a DEF HubInv
  <2>2. /\ pc[c] = "scan" /\ pc'[c] = "sweep" /\ nxt'[c] = 1 /\ owner' = owner /\ UNCHANGED refs
        /\ \A p \in Pages : bits'[p] = bits[p] \/ p \in reg[c]
    BY <1>a, <1>5, <2>1 DEF MarkCog, Goto, TypeOK
  <2>3. Blocks' = Blocks
    BY <2>2 DEF Blocks
  <2>4. RootMarks(c)'
    BY <2>2, <2>3 DEF SweepOk, RootMarks, Rooted, refs, Blocks
  <2>5. \A p \in Blocks : ~ (p < 1)
    BY Tiles
  <2> QED
    BY <2>2, <2>3, <2>4, <2>5 DEF ClearOk, SweepOk, Sweeping
<1> QED
  BY <1>1, <1>2, <1>3, <1>4, <1>5

\* The steps that sweep: what the sweep has passed is free or has a reference.
LEMMA SweepingStep ==
  ASSUME Disciplined, HeapInv, Sole, NEW c \in Cogs, SweepOk(c), pc[c] # "sweep" => op[c] # "free",
         Sweep(c) \/ FreeMark(c) \/ FreeBack(c) \/ FreeMerge(c)
  PROVE  ClearOk(c)' /\ SweepOk(c)'
<1>a. TypeOK /\ CogOk(c)
  BY DEF HeapInv
<1>b. Cogs = {c}
  BY DEF Sole
<1>c. op[c] # "free"
  BY <1>a DEF CogOk, CallOk
<1>d. RootMarks(c)
  BY <1>c DEF SweepOk, Sweeping, Sweep, FreeMark, FreeBack, FreeMerge
<1>1. CASE Sweep(c)
  <2>1. PICK p : p = nxt[c]
    OBVIOUS
  <2>2. /\ pc[c] = "sweep" /\ p \in Blocks /\ p \in Pages /\ UNCHANGED heap /\ UNCHANGED refs
        /\ \A q \in Blocks : q < p => Kept(c, q)
    BY <1>a, <1>1, <2>1 DEF Sweep, CogOk, CollectOk, Blocks, SweepOk
  <2>3. /\ Blocks' = Blocks /\ RootMarks(c)'
        /\ \A q : Kept(c, q) => Kept(c, q)'
    BY <1>d, <2>2 DEF heap, refs, Blocks, RootMarks, Rooted, Kept, Allocated
  <2>4. \A q \in Blocks : q \in Int /\ (q > p => q >= NextBlock(p)) /\ p \in Int
                          /\ NextBlock(p) \in Int /\ q <= NPages
    BY <2>2, Tiles
  <2>5. CASE Collectable(c, p)
    <3>1. pc'[c] = "dofree" /\ ptr'[c] = p
      BY <1>a, <1>1, <2>1, <2>5 DEF Sweep, Goto, TypeOK
    <3>2. \A q \in Blocks' : q < p => Kept(c, q)'
      BY <2>2, <2>3
    <3> QED
      BY <2>3, <3>1, <3>2 DEF ClearOk, SweepOk, Sweeping
  <2>6. CASE ~ Collectable(c, p)
    <3>1. Kept(c, p)
      <4>1. Allocated(p) => owner[p] \in {c, Hub}
        BY <1>b DEF Allocated
      <4>2. Allocated(p) => bits[p] \cap {"inuse", "reserved"} # {}
        BY <2>6, <4>1 DEF Collectable
      <4> QED
        BY <1>d, <2>2, <4>2 DEF Kept, RootMarks
    <3>2. \A q \in Blocks : q < NextBlock(p) => Kept(c, q)
      <4> SUFFICES ASSUME NEW q \in Blocks, q < NextBlock(p) PROVE Kept(c, q)
        OBVIOUS
      <4>1. q < p \/ q = p
        BY <2>4
      <4> QED
        BY <2>2, <3>1, <4>1
    <3>3. CASE InHeap(NextBlock(p))
      <4>1. pc'[c] = "sweep" /\ nxt'[c] = NextBlock(p)
        BY <1>a, <1>1, <2>1, <2>2, <2>6, <3>3 DEF Sweep, Goto, TypeOK
      <4> QED
        BY <2>3, <3>2, <4>1 DEF ClearOk, SweepOk, Sweeping
    <3>4. CASE ~ InHeap(NextBlock(p))
      <4>1. pc'[c] \in {"walk", "unlock"}
        BY <1>a, <1>1, <2>1, <2>6, <3>4 DEF Sweep, AfterSweep, Goto, TypeOK
      <4>2. NextBlock(p) = NPages + 1
        BY <2>2, <3>4, Tiles, PageFacts DEF Blocks
      <4>3. \A q \in Blocks : q < NextBlock(p)
        BY <2>4, <4>2, PageFacts
      <4>4. \A q \in Blocks' : Kept(c, q)'
        BY <2>3, <3>2, <4>3
      <4> QED
        BY <4>1, <4>4 DEF ClearOk, SweepOk, Sweeping
    <3> QED
      BY <3>3, <3>4
  <2> QED
    BY <2>5, <2>6
<1>2. CASE FreeMark(c)
  <2>1. PICK p : p = ptr[c]
    OBVIOUS
  <2>2. /\ pc[c] = "dofree" /\ Allocated(p) /\ p \in Pages /\ pc'[c] = "back" /\ ptr' = ptr
        /\ owner' = [owner EXCEPT ![p] = Free] /\ bits' = [bits EXCEPT ![p] = {}]
        /\ UNCHANGED refs /\ \A q \in Blocks : q < p => Kept(c, q)
    BY <1>a, <1>2, <1>c, <2>1 DEF FreeMark, SetFlags, Goto, CogOk, FreeOk, Allocated, TypeOK, SweepOk
  <2>3. p \in Blocks
    BY <2>2, GcAssumption DEF Allocated, Blocks, Hub, None
  <2>4. /\ \A q \in Pages \ {p} : owner'[q] = owner[q] /\ bits'[q] = bits[q]
        /\ owner'[p] = Free /\ bits'[p] = {}
    BY <1>a, <2>2 DEF TypeOK
  <2>5. Blocks' = Blocks
    BY <2>3, <2>4 DEF Blocks, Free, None
  <2>6. RootMarks(c)'
    BY <1>d, <2>2, <2>4, <2>5 DEF RootMarks, Rooted, refs, Blocks
  <2>7. \A q \in Blocks : q < p => Kept(c, q)'
    <3> SUFFICES ASSUME NEW q \in Blocks, q < p PROVE Kept(c, q)'
      OBVIOUS
    <3>1. q \in Pages \ {p}
      <4>1. q \in Pages /\ q \in Int /\ p \in Int
        BY <2>3, Tiles
      <4> QED
        BY <4>1
    <3>2. Kept(c, q)
      BY <2>2
    <3> QED
      BY <2>2, <2>4, <3>1, <3>2 DEF Kept, Rooted, refs, Allocated
  <2> QED
    BY <2>1, <2>2, <2>5, <2>6, <2>7 DEF ClearOk, SweepOk, Sweeping
<1>3. CASE FreeBack(c)
  <2>1. /\ pc[c] = "back" /\ pc'[c] \in {"back", "merge"} /\ ptr' = ptr /\ op' = op
        /\ UNCHANGED heap /\ UNCHANGED refs
    BY <1>a, <1>3 DEF FreeBack, Goto, TypeOK
  <2>2. /\ Blocks' = Blocks /\ RootMarks(c)'
        /\ \A q : Kept(c, q) => Kept(c, q)'
    BY <1>d, <2>1 DEF heap, refs, Blocks, RootMarks, Rooted, Kept, Allocated
  <2>3. \A q \in Blocks : q < ptr[c] => Kept(c, q)
    BY <1>c, <2>1 DEF SweepOk
  <2> QED
    BY <2>1, <2>2, <2>3 DEF ClearOk, SweepOk, Sweeping
<1>4. CASE FreeMerge(c)
  <2>1. SameInUse /\ Passed(c)
    BY <1>4, FreeMergeStep
  <2>2. /\ pc[c] = "merge" /\ pc'[c] \in {"sweep", "walk", "unlock"} /\ UNCHANGED refs
        /\ \A q \in Blocks : q < ptr[c] => Kept(c, q)
    BY <1>a, <1>4, <1>c DEF FreeMerge, AfterSweep, Goto, TypeOK, SweepOk
  <2>3. \A q \in Pages : owner'[q] \in {owner[q], None} /\ bits'[q] \in {bits[q], {}}
    BY <1>4 DEF FreeMerge
  <2>4. Blocks' \subseteq Blocks
    BY <2>3 DEF Blocks
  <2>5. RootMarks(c)'
    BY <1>d, <2>2, <2>3, <2>4 DEF RootMarks, Rooted, refs, Blocks
  <2>6. ASSUME NEW q \in Blocks', q < ptr[c] PROVE Kept(c, q)'
    <3>1. Kept(c, q) /\ q \in Blocks
      BY <2>2, <2>4, <2>6
    <3>2. Allocated(q)' => Allocated(q) /\ owner'[q] # None
      BY <2>1, GcAssumption DEF SameInUse, Allocated, Hub, None
    <3>3. owner'[q] # None => bits'[q] = bits[q]
      BY <1>4, <3>1 DEF FreeMerge, Blocks
    <3> QED
      BY <2>2, <3>1, <3>2, <3>3 DEF Kept, Rooted, refs
  <2>7. ASSUME NEW q \in Blocks', ~ Allocated(q) PROVE Kept(c, q)'
    BY <2>1, <2>7 DEF SameInUse, Kept
  <2>8. pc'[c] = "sweep" => \A q \in Blocks' : q < nxt'[c] => Kept(c, q)'
    BY <2>1, <2>6, <2>7 DEF Passed
  <2>9. pc'[c] = "unlock" /\ op'[c] = "collect" => \A q \in Blocks' : Kept(c, q)'
    BY <2>1, <2>6, <2>7 DEF Passed
  <2> QED
    BY <2>2, <2>5, <2>8, <2>9 DEF ClearOk, SweepOk, Sweeping
<1> QED
  BY <1>1, <1>2, <1>3, <1>4

\* What a collection has done so far stays done, whatever the one cog does.
LEMMA CollectStep ==
  ASSUME Disciplined, HeapInv, Sole, NEW c \in Cogs, ClearOk(c), SweepOk(c), [Next]_vars
  PROVE  ClearOk(c)' /\ SweepOk(c)'
<1>a. TypeOK /\ CogOk(c)
  BY DEF HeapInv
<1>1. CASE UNCHANGED vars
  BY <1>1 DEF vars, heap, locals, refs, ClearOk, SweepOk, Sweeping, RootMarks, Kept, Rooted,
     Blocks, Allocated
<1>2. CASE ClearRead(c) \/ ClearWrite(c) \/ ScanRead(c) \/ ScanWrite(c) \/ MarkCog(c)
  BY <1>2, MarkingStep
<1>3. CASE Sweep(c) \/ FreeMark(c) \/ FreeBack(c) \/ FreeMerge(c)
  <2>1. CASE pc[c] # "sweep" /\ op[c] = "free"
    <3>1. FreeMark(c) \/ FreeBack(c) \/ FreeMerge(c)
      BY <1>3, <2>1 DEF Sweep
    <3>2. pc'[c] \in {"back", "merge", "unlock"} /\ op'[c] = "free"
      BY <1>a, <2>1, <3>1 DEF FreeMark, FreeBack, FreeMerge, Goto, TypeOK
    <3> QED
      BY <3>2, NotCollecting
  <2>2. CASE ~ (pc[c] # "sweep" /\ op[c] = "free")
    BY <1>3, <2>2, SweepingStep
  <2> QED
    BY <2>1, <2>2
<1>4. CASE Lock(c) \/ TakeNone(c)
  <2>1. \/ pc'[c] = "clear" /\ ptr'[c] = 1
        \/ pc'[c] = "walk"
        \/ pc'[c] = "dofree" /\ op'[c] = "free"
        \/ pc'[c] = "unlock" /\ op'[c] # "collect"
    <3>1. CASE Lock(c)
      BY <1>a, <3>1 DEF Lock, Goto, TypeOK
    <3>2. CASE TakeNone(c)
      <4>1. op[c] \in {"alloc", "retry"}
        BY <1>a, <3>2 DEF TakeNone, CogOk, CallOk
      <4> QED
        BY <1>a, <3>2, <4>1 DEF TakeNone, Goto, TypeOK
    <3> QED
      BY <1>4, <3>1, <3>2
  <2>2. \A p \in Blocks' : ~ (p < 1)
    BY PageFacts DEF Blocks, Pages
  <2>3. CASE pc'[c] = "clear" /\ ptr'[c] = 1
    BY <2>2, <2>3 DEF ClearOk, SweepOk, Sweeping
  <2> QED
    BY <2>1, <2>3, NotCollecting
<1>5. CASE \/ AllocCall(c) \/ FreeCall(c) \/ CollectCall(c) \/ Unlock(c) \/ Zero(c)
           \/ Walk(c) \/ TakeBlock(c) \/ ManageRead(c) \/ ManageWrite(c)
           \/ Store(c) \/ Load(c) \/ Drop(c)
  <2>1. /\ pc'[c] \notin {"clear", "clearwrite", "scan", "scanwrite", "sweep",
                          "dofree", "back", "merge"}
        /\ pc'[c] = "unlock" => op'[c] # "collect"
    <3>1. CASE TakeBlock(c)
      BY <1>a, <3>1 DEF TakeBlock, Goto, TypeOK, CogOk, CallOk
    <3>2. CASE \/ AllocCall(c) \/ FreeCall(c) \/ CollectCall(c) \/ Unlock(c) \/ Zero(c)
               \/ Walk(c) \/ ManageRead(c) \/ ManageWrite(c)
               \/ Store(c) \/ Load(c) \/ Drop(c)
      BY <1>a, <3>2 DEF AllocCall, FreeCall, CollectCall, Unlock, Zero, Walk, ManageRead,
         ManageWrite, Store, Load, Drop, MayMove, Goto, TypeOK
    <3> QED
      BY <1>5, <3>1, <3>2
  <2> QED
    BY <2>1, NotCollecting
<1>6. \A d \in Cogs : d = c
  BY NotSole
<1> QED
  BY <1>1, <1>2, <1>3, <1>4, <1>5, <1>6 DEF Next

-----------------------------------------------------------------------------
(* Theorems about the list and the collector.                              *)

\* The whole invariant: the heap is in order, the free list is merged, a
\* search has missed nothing and a collection on one cog nothing either.
THEOREM AllInOrder == ASSUME Disciplined PROVE Spec => []IInv
<1>1. ASSUME Init PROVE IInv
  <2>1. HeapInv
    BY <1>1, InitOk
  <2>2. \A c \in Cogs : pc[c] = "idle"
    BY <1>1 DEF Init
  <2>3. NoAdjacentFree
    <3>1. \A p \in FreeBlocks : p = 1
      BY <1>1 DEF Init, FreeBlocks, Free, None
    <3>2. size[1] = NPages
      BY <1>1, PageFacts DEF Init, Pages
    <3>3. NextBlock(1) # 1
      BY <3>2, PageFacts DEF NextBlock
    <3> QED
      BY <3>1, <3>3 DEF NoAdjacentFree
  <2>4. \A c \in Cogs : SearchOk(c) /\ ClearOk(c) /\ SweepOk(c)
    BY <2>2 DEF SearchOk, ClearOk, SweepOk, Sweeping
  <2> QED
    BY <2>1, <2>3, <2>4 DEF IInv
<1>2. ASSUME IInv, [Next]_vars PROVE IInv'
  <2>1. HeapInv'
    BY <1>2, StepOk DEF IInv
  <2>2. NoAdjacentFree'
    BY <1>2, MergedStep DEF IInv
  <2>3. \A c \in Cogs : SearchOk(c)'
    BY <1>2, SearchStep DEF IInv
  <2>4. Sole => \A c \in Cogs : ClearOk(c)' /\ SweepOk(c)'
    BY <1>2, CollectStep DEF IInv
  <2>5. Sole' <=> Sole
    BY DEF Sole
  <2> QED
    BY <2>1, <2>2, <2>3, <2>4, <2>5 DEF IInv
<1> QED
  BY <1>1, <1>2, PTL DEF Spec

\* _gc_dofree leaves no two free blocks side by side, and no other step
\* brings two together.
THEOREM NeighboursMerged == ASSUME Disciplined PROVE Spec => []NoAdjacentFree
<1>1. IInv => NoAdjacentFree
  BY DEF IInv
<1> QED
  BY <1>1, AllInOrder, PTL

\* On any number of cogs: when _gc_doalloc gives up after its collection, no
\* free block would have been large enough.
THEOREM FailuresHonest == ASSUME Disciplined PROVE Spec => []AllocFailureHonest
<1>1. IInv => AllocFailureHonest
  BY DEF IInv, SearchOk, AllocFailureHonest
<1> QED
  BY <1>1, AllInOrder, PTL

\* On one cog, _gc_collect leaves no block that is neither reserved nor
\* pointed to by a register or a hub cell.
THEOREM CollectionComplete == ASSUME Disciplined, Sole PROVE Spec => []CollectComplete
<1>1. IInv => CollectComplete
  BY DEF IInv, SweepOk, Kept, CollectComplete
<1> QED
  BY <1>1, AllInOrder, PTL

-----------------------------------------------------------------------------
(* The abstract heap.                                                      *)

Extents == [p \in InUse |-> size[p]]

\* Steps that keep the blocks in use keep the extents.
LEMMA SameExtents == ASSUME SameInUse PROVE Extents' = Extents
<1>1. InUse' = InUse
  BY DEF SameInUse, InUse, Allocated
<1>2. \A p \in InUse : size'[p] = size[p]
  BY DEF SameInUse, InUse
<1> QED
  BY <1>1, <1>2 DEF Extents

\* A step that keeps the extents, the references and the reserved blocks is
\* a stutter of the abstract heap.
LEMMA Stutter == ASSUME SameInUse, UNCHANGED refs PROVE UNCHANGED H!vars
<1>1. Extents' = Extents
  BY SameExtents
<1>2. Referenced' = Referenced /\ Reserved' = Reserved
  BY DEF refs, Referenced, Reserved, Rooted
<1> QED
  BY <1>1, <1>2 DEF H!vars, Extents

\* The heap as _gc_ptrs leaves it has no block in use.
LEMMA InitMaps == ASSUME Init PROVE H!Init
<1>1. InUse = {}
  BY GcAssumption DEF Init, InUse, Allocated, Free, None, Hub
<1>2. Referenced = {} /\ Reserved = {}
  BY GcAssumption DEF Init, Referenced, Reserved, Rooted, Pages
<1> QED
  BY <1>1, <1>2 DEF H!Init

\* The program only ever copies pointers it has.
LEMMA ProgramMaps ==
  ASSUME Disciplined, HeapInv, NEW c \in Cogs, FreeCall(c) \/ Store(c) \/ Load(c) \/ Drop(c)
  PROVE  H!Program
<1>a. TypeOK
  BY DEF HeapInv
<1>1. UNCHANGED heap
  BY DEF FreeCall, Store, Load, Drop
<1>2. Extents' = Extents
  BY <1>1, SameExtents DEF SameInUse, heap, Allocated
<1>b. \/ \E q : /\ reg' = [reg EXCEPT ![c] = @ \ {q}] /\ mine' = [mine EXCEPT ![c] = @ \ {q}]
                /\ hub' = hub
      \/ \E a \in Cells, q \in reg[c] \cup {0} :
            hub' = [hub EXCEPT ![a] = q] /\ reg' = reg /\ mine' = mine
      \/ \E a \in Cells : /\ hub[a] # 0 /\ reg' = [reg EXCEPT ![c] = @ \cup {hub[a]}]
                          /\ hub' = hub /\ mine' = mine
      \/ \E q : reg' = [reg EXCEPT ![c] = @ \ {q}] /\ hub' = hub /\ mine' = mine
      \/ reg' = reg /\ hub' = hub /\ mine' = mine
  <2>1. CASE FreeCall(c)
    BY <2>1 DEF FreeCall
  <2>2. CASE Store(c)
    BY <2>2 DEF Store
  <2>3. CASE Load(c)
    BY <2>3 DEF Load
  <2>4. CASE Drop(c)
    BY <2>4 DEF Drop
  <2> QED
    BY <2>1, <2>2, <2>3, <2>4
<1>c. /\ reg \in [Cogs -> SUBSET Pages] /\ mine \in [Cogs -> SUBSET Pages]
      /\ hub \in [Cells -> 0 .. NPages]
  BY <1>a DEF TypeOK
<1>d. \A d \in Cogs : mine'[d] \subseteq mine[d]
  <2>1. CASE \E q : mine' = [mine EXCEPT ![c] = @ \ {q}]
    BY <1>c, <2>1
  <2> QED
    BY <1>b, <2>1
<1>e. \A d \in Cogs : \A p \in reg'[d] : p \in reg[d] \/ \E a \in Cells : hub[a] # 0 /\ p = hub[a]
  <2>1. CASE \E q : reg' = [reg EXCEPT ![c] = @ \ {q}]
    BY <1>c, <2>1
  <2>2. CASE \E a \in Cells : hub[a] # 0 /\ reg' = [reg EXCEPT ![c] = @ \cup {hub[a]}]
    BY <1>c, <2>2
  <2> QED
    BY <1>b, <2>1, <2>2
<1>f. \A a \in Cells : hub'[a] = hub[a] \/ hub'[a] \in reg[c] \cup {0}
  <2>1. CASE \E a \in Cells, q \in reg[c] \cup {0} : hub' = [hub EXCEPT ![a] = q]
    BY <1>c, <2>1
  <2> QED
    BY <1>b, <2>1
<1>3. Reserved' \subseteq Reserved
  BY <1>d DEF Reserved
<1>4. ASSUME NEW d \in Cogs, NEW p \in Pages, p \in reg'[d] PROVE p \in Referenced
  BY <1>4, <1>e DEF Referenced, Rooted
<1>5. ASSUME NEW a \in Cells, NEW p \in Pages, hub'[a] = p PROVE p \in Referenced
  <2>1. p # 0
    BY PageFacts DEF Pages
  <2> QED
    BY <1>5, <1>f, <2>1 DEF Referenced, Rooted
<1>6. Referenced' \subseteq Referenced
  BY <1>4, <1>5 DEF Referenced, Rooted
<1> QED
  BY <1>2, <1>3, <1>6 DEF H!Program, Extents

\* A block that the program hands to the collector is no longer reserved.
LEMMA ManageMaps ==
  ASSUME Disciplined, HeapInv, NEW c \in Cogs, ManageWrite(c)
  PROVE  H!Program
<1>a. TypeOK /\ CogOk(c)
  BY DEF HeapInv
<1>1. word[c].owner = owner[ptr[c]]
  BY <1>a DEF ManageWrite, CogOk, CollectOk, WordOk, FlagsOf
<1>2. owner' = owner /\ UNCHANGED <<size, hub, reg>>
  BY <1>a, <1>1 DEF ManageWrite, SetFlags, FlagsOf, TypeOK
<1>3. Extents' = Extents
  BY <1>2, SameExtents DEF SameInUse, Allocated
<1>4. Referenced' = Referenced
  BY <1>2 DEF Referenced, Rooted
<1>5. \A d \in Cogs : mine'[d] \subseteq mine[d]
  BY <1>a DEF ManageWrite, TypeOK
<1>6. Reserved' \subseteq Reserved
  BY <1>5 DEF Reserved
<1> QED
  BY <1>3, <1>4, <1>6 DEF H!Program, Extents

\* _gc_tryalloc hands out an extent that overlaps no other one.
LEMMA AllocMaps ==
  ASSUME Disciplined, HeapInv, NEW c \in Cogs, TakeBlock(c)
  PROVE  \E p, n \in 1 .. NPages : H!Alloc(p, n)
<1>a. TypeOK
  BY DEF HeapInv
<1>1. PICK p : p = ptr[c]
  OBVIOUS
<1>2. /\ HeapInv'
      /\ \A q : Allocated(q)' <=> Allocated(q) \/ q = p
      /\ \A q : Allocated(q) => q # p /\ size'[q] = size[q]
  BY <1>1, TakeBlockStep
<1>3. PICK n : n = size'[p]
  OBVIOUS
<1>4. \A q : Allocated(q)' => q \in Blocks' /\ q \in Pages
  BY GcAssumption DEF Allocated, Blocks, Hub, None
<1>5. \A q \in Blocks' : /\ q \in Int /\ 1 <= q /\ size'[q] \in Int /\ size'[q] >= 1
                          /\ q + size'[q] <= NPages + 1
                          /\ \A r \in Blocks' : r > q => r >= q + size'[q]
  <2>1. \A q \in Blocks' : q \in Int /\ 1 <= q /\ q <= NPages /\ q \in Pages
    BY PageFacts DEF Blocks, Pages
  <2>2. \A q \in Blocks' : size'[q] \in Int /\ size'[q] >= 1
    BY <1>2, <2>1, PageFacts DEF HeapInv, TypeOK, HeapTiling
  <2>3. \A q \in Blocks' : /\ q + size'[q] \in Blocks' \cup {NPages + 1}
                           /\ \A r \in Blocks' : r > q => r >= q + size'[q]
    BY <1>2 DEF HeapInv, HeapTiling, NextBlock
  <2> QED
    BY <2>1, <2>2, <2>3, PageFacts
<1>6. /\ p \in 1 .. NPages /\ n \in 1 .. NPages /\ p + n <= NPages + 1 /\ p \in Blocks'
  BY <1>2, <1>3, <1>4, <1>5, PageFacts
<1>7. InUse' = InUse \cup {p}
  BY <1>2 DEF InUse, Allocated
<1>8. Extents' = [q \in InUse \cup {p} |-> IF q = p THEN n ELSE Extents[q]]
  <2>1. \A q \in InUse : Extents[q] = size[q] /\ size'[q] = size[q] /\ q # p
    BY <1>2 DEF Extents, InUse
  <2>2. Extents' = [q \in InUse' |-> size'[q]]
    BY DEF Extents
  <2> QED
    BY <1>3, <1>7, <2>1, <2>2
<1>9. \A q \in InUse : ~ (p < q + Extents[q] /\ q < p + n)
  <2> SUFFICES ASSUME NEW q \in InUse PROVE ~ (p < q + Extents[q] /\ q < p + n)
    OBVIOUS
  <2>1. Allocated(q)' /\ q # p /\ Extents[q] = size'[q]
    BY <1>2 DEF InUse, Extents
  <2>2. q \in Blocks'
    BY <1>4, <2>1
  <2> QED
    BY <1>3, <1>5, <1>6, <2>1, <2>2
<1>10. /\ hub' = hub /\ reg' = [reg EXCEPT ![c] = @ \cup {p}]
       /\ mine' \in {mine, [mine EXCEPT ![c] = @ \cup {p}]}
  BY <1>1 DEF TakeBlock
<1>11. Referenced' = Referenced \cup {p}
  <2>1. \A q : (\E d \in Cogs : q \in reg'[d]) <=> (\E d \in Cogs : q \in reg[d]) \/ q = p
    BY <1>a, <1>10 DEF TypeOK
  <2> QED
    BY <1>6, <1>10, <2>1 DEF Referenced, Rooted, Pages
<1>12. Reserved' \in {Reserved, Reserved \cup {p}}
  <2>1. CASE mine' = mine
    BY <2>1 DEF Reserved
  <2>2. CASE mine' = [mine EXCEPT ![c] = @ \cup {p}]
    <3>1. \A q : (\E d \in Cogs : q \in mine'[d]) <=> (\E d \in Cogs : q \in mine[d]) \/ q = p
      BY <1>a, <2>2 DEF TypeOK
    <3> QED
      BY <1>6, <3>1 DEF Reserved, Pages
  <2> QED
    BY <1>10, <2>1, <2>2
<1>13. DOMAIN Extents = InUse
  BY DEF Extents
<1>14. H!Alloc(p, n)
  <2>1. n >= 1 /\ p + n <= NPages + 1
    BY <1>6, PageFacts
  <2>2. \A q \in H!Used : ~ H!Overlap(p, n, q, Extents[q])
    BY <1>9, <1>13 DEF H!Used, H!Overlap, Extents
  <2>3. Extents' = [q \in H!Used \cup {p} |-> IF q = p THEN n ELSE Extents[q]]
    BY <1>8, <1>13 DEF H!Used, Extents
  <2> QED
    BY <1>11, <1>12, <2>1, <2>2, <2>3 DEF H!Alloc, Extents
<1> QED
  BY <1>6, <1>14

\* _gc_dofree takes back an extent that nobody refers to any more.
LEMMA FreeMaps ==
  ASSUME Disciplined, HeapInv, NEW c \in Cogs, FreeMark(c)
  PROVE  \E p \in H!Used : H!Reclaim(p)
<1>a. TypeOK
  BY DEF HeapInv
<1>1. PICK p : p = ptr[c]
  OBVIOUS
<1>2. Allocated(p) /\ NoReference(p) /\ p \in Pages
  BY <1>1 DEF FreeMark, HeapInv, CogOk, FreeOk, Allocated
<1>3. owner' = [owner EXCEPT ![p] = Free] /\ UNCHANGED <<size, refs>>
  BY <1>1 DEF FreeMark, SetFlags
<1>4. InUse' = InUse \ {p}
  BY <1>a, <1>2, <1>3, GcAssumption DEF InUse, Allocated, TypeOK, Free, Hub
<1>5. Extents' = [q \in InUse \ {p} |-> Extents[q]]
  BY <1>3, <1>4 DEF Extents
<1>6. p \in InUse \ (Referenced \cup Reserved)
  BY <1>2 DEF InUse, NoReference, Referenced, Reserved, Rooted
<1>7. Referenced' = Referenced /\ Reserved' = Reserved
  BY <1>3 DEF refs, Referenced, Reserved, Rooted
<1>8. DOMAIN Extents = InUse
  BY DEF Extents
<1>9. H!Reclaim(p) /\ p \in H!Used
  BY <1>5, <1>6, <1>7, <1>8 DEF H!Reclaim, H!Used, Extents
<1> QED
  BY <1>9

\* Every other step of the allocator and of the collector is invisible.
LEMMA StutterMaps ==
  ASSUME Disciplined, HeapInv, NEW c \in Cogs,
         \/ AllocCall(c) \/ CollectCall(c) \/ Lock(c) \/ Unlock(c) \/ Zero(c)
         \/ Walk(c) \/ TakeNone(c) \/ FreeBack(c) \/ FreeMerge(c)
         \/ ClearRead(c) \/ ClearWrite(c) \/ ScanRead(c) \/ ScanWrite(c)
         \/ MarkCog(c) \/ Sweep(c) \/ ManageRead(c)
  PROVE  UNCHANGED H!vars
<1>a. TypeOK /\ CogOk(c)
  BY DEF HeapInv
<1>1. UNCHANGED refs
  BY DEF AllocCall, CollectCall, Lock, Unlock, Zero, Walk, TakeNone, FreeBack, FreeMerge,
     ClearRead, ClearWrite, ScanRead, ScanWrite, MarkCog, Sweep, ManageRead
<1>2. SameInUse
  <2>1. CASE FreeMerge(c)
    BY <2>1, FreeMergeStep
  <2>2. CASE ClearWrite(c)
    <3>1. owner' = owner /\ size' = size
      BY <1>a, <2>2 DEF ClearWrite, SetFlags, FlagsOf, CogOk, CollectOk, WordOk, TypeOK
    <3> QED
      BY <3>1 DEF SameInUse, Allocated
  <2>3. CASE ScanWrite(c)
    <3>1. /\ owner' = [owner EXCEPT ![ptr[c]] = Hub] /\ size' = size
          /\ Allocated(ptr[c])
      BY <1>a, <2>3 DEF ScanWrite, SetFlags, CogOk, CollectOk
    <3> QED
      BY <1>a, <3>1 DEF SameInUse, Allocated, TypeOK
  <2>4. CASE MarkCog(c)
    BY <2>4 DEF MarkCog, SameInUse, Allocated
  <2>5. CASE UNCHANGED heap
    BY <2>5 DEF heap, SameInUse, Allocated
  <2>6. CASE Zero(c)
    <3>1. owner' = owner /\ \A q \in Blocks : size'[q] = size[q]
      BY <2>6, ZeroKeeps
    <3>2. \A q : Allocated(q) => q \in Blocks
      BY GcAssumption DEF Allocated, Blocks, Hub, None
    <3> QED
      BY <3>1, <3>2 DEF SameInUse, Allocated
  <2>7. \/ FreeMerge(c) \/ ClearWrite(c) \/ ScanWrite(c) \/ MarkCog(c) \/ Zero(c)
        \/ UNCHANGED heap
    BY DEF AllocCall, CollectCall, Lock, Unlock, Walk, TakeNone, FreeBack,
       ClearRead, ScanRead, Sweep, ManageRead
  <2> QED
    BY <2>1, <2>2, <2>3, <2>4, <2>5, <2>6, <2>7
<1> QED
  BY <1>1, <1>2, Stutter

\* Every step of the runtime is a step of the abstract heap, or invisible.
LEMMA StepMaps == ASSUME Disciplined, HeapInv, [Next]_vars PROVE [H!Next]_(H!vars)
<1>1. CASE UNCHANGED vars
  BY <1>1, Stutter DEF vars, heap, SameInUse, Allocated
<1>2. ASSUME NEW c \in Cogs, FreeCall(c) \/ Store(c) \/ Load(c) \/ Drop(c) PROVE H!Next
  BY <1>2, ProgramMaps DEF H!Next
<1>3. ASSUME NEW c \in Cogs, TakeBlock(c) PROVE H!Next
  BY <1>3, AllocMaps DEF H!Next
<1>4. ASSUME NEW c \in Cogs, FreeMark(c) PROVE H!Next
  BY <1>4, FreeMaps DEF H!Next
<1>5. ASSUME NEW c \in Cogs,
             \/ AllocCall(c) \/ CollectCall(c) \/ Lock(c) \/ Unlock(c) \/ Zero(c)
             \/ Walk(c) \/ TakeNone(c) \/ FreeBack(c) \/ FreeMerge(c)
             \/ ClearRead(c) \/ ClearWrite(c) \/ ScanRead(c) \/ ScanWrite(c)
             \/ MarkCog(c) \/ Sweep(c) \/ ManageRead(c)
      PROVE  UNCHANGED H!vars
  BY <1>5, StutterMaps
<1>6. ASSUME NEW c \in Cogs, ManageWrite(c) PROVE H!Next
  BY <1>6, ManageMaps DEF H!Next
<1> QED
  BY <1>1, <1>2, <1>3, <1>4, <1>5, <1>6 DEF Next

\* Whatever the interleaving, a disciplined program on any number of cogs
\* cannot tell gcalloc.spin from the abstract heap: no allocation overlaps
\* another one, and nothing that can still be reached is taken back.
THEOREM HeapImplemented == ASSUME Disciplined PROVE Spec => ImplementsHeap
<1>1. Init => H!Init
  BY InitMaps
<1>2. HeapInv /\ [Next]_vars => [H!Next]_(H!vars)
  BY StepMaps
<1>3. Spec => []HeapInv
  BY HeapInOrder
<1> QED
  BY <1>1, <1>2, <1>3, PTL DEF Spec, ImplementsHeap, H!Spec
=============================================================================
