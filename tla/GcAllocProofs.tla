--------------------------- MODULE GcAllocProofs ---------------------------
(***************************************************************************)
(* For every number of cogs, size of heap and number of hub cells: a       *)
(* disciplined program (GcInv) keeps the heap in order.                    *)
(***************************************************************************)
EXTENDS GcInv, TLAPS

\* A step that changes neither the blocks in use nor their sizes.
SameInUse == \A q : /\ Allocated(q)' <=> Allocated(q)
                    /\ Allocated(q) => size'[q] = size[q]

\* The sweep, when it goes on or ends, has passed no block in use that was not
\* below the one it has freed.
Passed(c) == \A q : Allocated(q) =>
  /\ pc'[c] = "sweep" /\ q < nxt'[c] => q < ptr[c]
  /\ pc'[c] = "unlock" /\ op'[c] = "collect" => q < ptr[c]

\* Header offsets of a heap whose length leaves a rest smaller than a page.
LEMMA PageFacts == ASSUME Disciplined
  PROVE /\ NPages \in Nat /\ NPages >= 1
        /\ \A p \in Pages : InHeap(p)
        /\ ~ InHeap(NPages + 1)
<1>1. EndOffset \in Int
  BY GcAssumption DEF EndOffset
<1>2. /\ EndOffset \div 16 \in Int /\ EndOffset % 16 \in 0 .. 15
      /\ EndOffset = 16 * (EndOffset \div 16) + (EndOffset % 16)
  BY <1>1
<1>3. NPages \in Int /\ NPages >= 1
  BY <1>2, GcAssumption DEF NPages
<1> QED
  BY <1>1, <1>2, <1>3 DEF NPages, Pages, InHeap, Disciplined

\* The records the locals hold.
LEMMA RecordFacts == ASSUME TypeOK
  PROVE /\ NoWord \in Flags /\ NoReq \in Reqs
        /\ \A p \in Pages : FlagsOf(p) \in Flags
        /\ \A n \in 1 .. MaxRequest, b \in SUBSET {"reserved"} : [pages |-> n, bits |-> b] \in Reqs
        /\ \A r \in Reqs : r.pages \in 0 .. MaxRequest /\ r.bits \in SUBSET {"reserved"}
        /\ \A f \in Flags : f.owner \in Cogs \cup {Free, Hub, None} /\ f.bits \in SUBSET MarkBits
<1>1. NoReq \in Reqs
  BY GcAssumption DEF NoReq, Reqs
<1>2. NoWord \in Flags
  BY DEF NoWord, Flags
<1> QED
  BY <1>1, <1>2, GcAssumption DEF TypeOK, Flags, Reqs, FlagsOf

\* Two cogs are more than one.
LEMMA NotSole == ASSUME NEW c \in Cogs, NEW d \in Cogs \ {c} PROVE ~ Sole
BY DEF Sole

\* A block that a cog without _gc_manage has from _gc_alloc is safe from every
\* collector; one that only its owner knows is safe from the others.
LEMMA MineShared ==
  ASSUME HeapInv, NEW d \in Cogs \ Managers, NEW p \in mine[d]
  PROVE  Allocated(p) /\ (Shared(p) \/ Sole)
BY GcAssumption DEF HeapInv, MineInv, Shared, Managers

\* Only its own cog has a block that is for _gc_manage.
LEMMA MineManaged ==
  ASSUME HeapInv, NEW c \in Managers, NEW p \in mine[c]
  PROVE  /\ Allocated(p) /\ "reserved" \in bits[p]
         /\ owner[p] = c \/ Sole
         /\ \A d \in Cogs \ {c} : p \notin mine[d] /\ p \notin reg[d]
         /\ \A a \in Cells : hub[a] = p => Sole
<1>1. c \in Cogs /\ \A d \in Cogs \ {c} : ~ Sole
  BY NotSole DEF Managers
<1>2. /\ Allocated(p) /\ "reserved" \in bits[p]
      /\ owner[p] = c \/ Sole
      /\ \A d \in Cogs \ {c} : p \notin mine[d]
  BY <1>1 DEF HeapInv, MineInv
<1>3. \A d \in Cogs \ {c} : p \notin reg[d]
  BY <1>1, <1>2 DEF HeapInv, RegInv, Private
<1>4. p # 0
  BY <1>2, PageFacts DEF Allocated, Pages
<1> QED
  BY <1>1, <1>2, <1>3, <1>4 DEF HeapInv, HubInv

\* What keeps others' collectors off a block depends on its flags word alone.
LEMMA GuardKept ==
  ASSUME NEW d \in Cogs, ptr'[d] = ptr[d],
         owner'[ptr[d]] = owner[ptr[d]], bits'[ptr[d]] = bits[ptr[d]],
         Private(d, ptr[d]) \/ Shared(ptr[d]) \/ Sole
  PROVE  (Private(d, ptr[d]) \/ Shared(ptr[d]) \/ Sole)'
BY DEF Private, Shared, Sole

\* A step of c that leaves the headers of all blocks alone disturbs no other
\* cog, whatever it writes inside a block.
LEMMA QuietWords ==
  ASSUME HeapInv, NEW c \in Cogs, TypeOK', UNCHANGED <<owner, bits>>,
         \A p \in Blocks : size'[p] = size[p] /\ prev'[p] = prev[p],
         \A f \in FreeBlocks \cup {0} : link'[f] = link[f],
         \A d \in Cogs \ {c} :
           /\ pc'[d] = pc[d] /\ op'[d] = op[d] /\ req'[d] = req[d] /\ ptr'[d] = ptr[d]
           /\ last'[d] = last[d] /\ nxt'[d] = nxt[d] /\ scan'[d] = scan[d]
           /\ word'[d] = word[d] /\ reg'[d] = reg[d] /\ mine'[d] = mine[d],
         FreeBlocks' = FreeBlocks,
         \A p \in Pages : NoReference(p) => NoReference(p)',
         GivingUp(c)' =>
           \/ GivingUp(c) /\ ptr'[c] = ptr[c]
           \/ /\ Allocated(ptr'[c]) /\ NoReference(ptr[c])'
              /\ Private(c, ptr'[c]) \/ Shared(ptr'[c]) \/ Sole
              /\ \A d \in Cogs \ {c} :
                   GivingUp(d) \/ pc[d] = "dofree" => ptr[d] # ptr'[c],
         lock' = lock \/ {lock, lock'} \subseteq {c, None},
         MineInv', RegInv', HubInv', CogOk(c)'
  PROVE  HeapInv'
<1> USE GcAssumption DEF HeapInv
<1>a. /\ Blocks' = Blocks
      /\ \A p : /\ Allocated(p)' <=> Allocated(p) /\ FlagsOf(p)' = FlagsOf(p)
                /\ Shared(p)' <=> Shared(p)
                /\ \A d \in Cogs : Private(d, p)' <=> Private(d, p)
      /\ \A p : Allocated(p) => p \in Blocks
  BY DEF Blocks, Allocated, FlagsOf, Shared, Private, None, Hub
<1>1. MarkInv' /\ HeapTiling'
  <2>1. MarkInv'
    BY DEF MarkInv, Allocated
  <2>2. \A p \in Blocks : NextBlock(p)' = NextBlock(p)
    BY DEF NextBlock
  <2>3. 1 \in Blocks' /\ prev'[1] = 0
    BY <1>a DEF HeapTiling
  <2>4. ASSUME NEW p \in Blocks'
        PROVE  /\ size'[p] >= 1
               /\ NextBlock(p)' \in Blocks' \cup {NPages + 1}
               /\ \A q \in Blocks' : q > p => q >= NextBlock(p)'
    BY <1>a, <2>2 DEF HeapTiling
  <2>5. ASSUME NEW p \in Blocks' \ {1} PROVE prev'[p] \in Blocks' /\ NextBlock(prev[p])' = p
    <3>1. p \in Blocks /\ prev[p] \in Blocks /\ NextBlock(prev[p]) = p /\ prev'[p] = prev[p]
      BY <1>a DEF HeapTiling
    <3>2. size'[prev'[p]] = size[prev[p]]
      BY <3>1
    <3> QED
      BY <1>a, <3>1, <3>2 DEF NextBlock
  <2> QED
    BY <2>1, <2>3, <2>4, <2>5 DEF HeapTiling
<1>2. FreeListExact'
  BY DEF FreeListExact, Consecutive
<1>3. \A d \in Cogs \ {c} : (GivingUp(d)' <=> GivingUp(d)) /\ ptr'[d] = ptr[d]
  BY DEF GivingUp
<1>4. GiveInv'
  <2> SUFFICES ASSUME NEW d \in Cogs, GivingUp(d)'
               PROVE  /\ Allocated(ptr'[d]) /\ NoReference(ptr[d])'
                      /\ Private(d, ptr'[d]) \/ Shared(ptr'[d]) \/ Sole
                      /\ \A e \in Cogs \ {d} : GivingUp(e)' => ptr'[e] # ptr'[d]
    BY DEF GiveInv, Allocated, Private, Shared
  <2>1. \A p : NoReference(p) /\ p \in Pages => NoReference(p)'
    OBVIOUS
  <2>2. CASE d # c
    BY <1>3, <2>1, <2>2 DEF GiveInv, Allocated
  <2>3. CASE d = c
    BY <1>3, <2>1, <2>3 DEF GiveInv, Allocated
  <2> QED
    BY <2>2, <2>3
<1>5. ASSUME NEW d \in Cogs \ {c} PROVE CogOk(d)'
  <2>1. LockOk(d)' /\ CallOk(d)'
    BY DEF CogOk, LockOk, CallOk
  <2>2. AllocOk(d)'
    <3>1. ptr[d] \in reg[d] => ptr[d] \in Blocks
      BY <1>a DEF RegInv
    <3>2. FreeBlocks \subseteq Blocks
      BY DEF FreeBlocks, Blocks, Free, None
    <3>3. AllocOk(d)
      BY DEF CogOk
    <3>4. pc[d] = "take" => link'[last[d]] = link[last[d]] /\ (ptr[d] # 0 => size'[ptr[d]] = size[ptr[d]])
      BY <3>2, <3>3 DEF AllocOk
    <3> QED
      BY <3>1, <3>3, <3>4 DEF AllocOk
  <2>3. FreeOk(d)'
    <3>1. pc'[d] = "dofree" =>
            /\ Allocated(ptr'[d]) /\ NoReference(ptr[d])'
            /\ \A e \in Cogs \ {d} : GivingUp(e)' => ptr'[e] # ptr'[d]
      BY <1>3 DEF CogOk, FreeOk, Allocated
    <3> QED
      BY <3>1 DEF CogOk, FreeOk, Allocated, Blocks
  <2>4. CollectOk(d)'
    <3>1. CollectOk(d)
      BY DEF CogOk
    <3>2. WordOk(d) => WordOk(d)'
      BY DEF WordOk, FlagsOf
    <3>3. pc[d] = "scanwrite" => (Allocated(ptr[d]) /\ word[d] = FlagsOf(ptr[d]) /\ (Shared(ptr[d]) \/ Sole))'
      BY <3>1 DEF CollectOk, Allocated, FlagsOf, Shared
    <3> QED
      BY <1>a, <3>1, <3>2, <3>3 DEF CollectOk, Sweeping
  <2>5. SoleOk(d)'
    BY NotSole DEF CogOk, SoleOk
  <2> QED
    BY <2>1, <2>2, <2>3, <2>4, <2>5 DEF CogOk
<1> QED
  BY <1>1, <1>2, <1>4, <1>5

\* A step of c that leaves the heap alone disturbs no other cog.
LEMMA Quiet ==
  ASSUME HeapInv, NEW c \in Cogs, TypeOK', UNCHANGED heap,
         \A d \in Cogs \ {c} :
           /\ pc'[d] = pc[d] /\ op'[d] = op[d] /\ req'[d] = req[d] /\ ptr'[d] = ptr[d]
           /\ last'[d] = last[d] /\ nxt'[d] = nxt[d] /\ scan'[d] = scan[d]
           /\ word'[d] = word[d] /\ reg'[d] = reg[d] /\ mine'[d] = mine[d],
         FreeBlocks' = FreeBlocks,
         \A p \in Pages : NoReference(p) => NoReference(p)',
         GivingUp(c)' =>
           \/ GivingUp(c) /\ ptr'[c] = ptr[c]
           \/ /\ Allocated(ptr'[c]) /\ NoReference(ptr[c])'
              /\ Private(c, ptr'[c]) \/ Shared(ptr'[c]) \/ Sole
              /\ \A d \in Cogs \ {c} :
                   GivingUp(d) \/ pc[d] = "dofree" => ptr[d] # ptr'[c],
         lock' = lock \/ {lock, lock'} \subseteq {c, None},
         MineInv', RegInv', HubInv', CogOk(c)'
  PROVE  HeapInv'
<1>1. /\ UNCHANGED <<owner, bits>>
      /\ \A p \in Blocks : size'[p] = size[p] /\ prev'[p] = prev[p]
      /\ \A f \in FreeBlocks \cup {0} : link'[f] = link[f]
  BY DEF heap
<1> QED
  BY <1>1, QuietWords

\* A call to _gc_doalloc touches nothing but its own locals.
LEMMA AllocCallStep == ASSUME Disciplined, HeapInv, NEW c \in Cogs, AllocCall(c) PROVE HeapInv'
<1>a. TypeOK
  BY DEF HeapInv
<1>b. CogOk(c)
  BY DEF HeapInv
<1>c. MineInv /\ RegInv /\ HubInv /\ GiveInv
  BY DEF HeapInv
<1>1. TypeOK'
  <2>1. req' \in [Cogs -> Reqs]
    <3>1. req \in [Cogs -> Reqs]
      BY <1>a DEF TypeOK
    <3>2. PICK n \in 1 .. MaxRequest, b \in SUBSET {"reserved"} :
             req' = [req EXCEPT ![c] = [pages |-> n, bits |-> b]]
      BY DEF AllocCall
    <3>3. [pages |-> n, bits |-> b] \in Reqs
      BY <1>a, RecordFacts
    <3> QED
      BY <3>1, <3>2, <3>3
  <2>2. pc' \in [Cogs -> Places]
    BY <1>a DEF AllocCall, TypeOK, Goto, Places, Critical
  <2> QED
    BY <1>a, <2>1, <2>2 DEF AllocCall, TypeOK, heap, locals, refs
<1>2. /\ UNCHANGED heap
      /\ \A d \in Cogs \ {c} :
           /\ pc'[d] = pc[d] /\ op'[d] = op[d] /\ req'[d] = req[d] /\ ptr'[d] = ptr[d]
           /\ last'[d] = last[d] /\ nxt'[d] = nxt[d] /\ scan'[d] = scan[d]
           /\ word'[d] = word[d] /\ reg'[d] = reg[d] /\ mine'[d] = mine[d]
  BY <1>a DEF AllocCall, TypeOK, heap, locals, refs, Goto
<1>3. FreeBlocks' = FreeBlocks
  BY <1>a DEF AllocCall, TypeOK, heap, locals, Goto, FreeBlocks
<1>4. \A p \in Pages : NoReference(p) => NoReference(p)'
  BY <1>a DEF AllocCall, TypeOK, refs, NoReference
<1>5. GivingUp(c)' => GivingUp(c) /\ ptr'[c] = ptr[c]
  BY <1>a DEF AllocCall, TypeOK, locals, Goto, GivingUp
<1>6. lock' = lock \/ {lock, lock'} \subseteq {c, None}
  BY <1>b DEF AllocCall, CogOk, LockOk, Critical
<1>7. MineInv' /\ RegInv' /\ HubInv'
  BY <1>a, <1>c DEF AllocCall, TypeOK, heap, refs, MineInv, RegInv, HubInv, Allocated, Private, Shared
<1>8. CogOk(c)'
  <2>1. LockOk(c)' /\ CallOk(c)'
    BY <1>a, <1>b DEF AllocCall, CogOk, TypeOK, heap, locals, refs, Goto, LockOk, CallOk, Critical
  <2>2. AllocOk(c)'
    BY <1>a, <1>b, <1>3 DEF AllocCall, CogOk, TypeOK, heap, locals, refs, Goto, AllocOk
  <2>3. FreeOk(c)'
    BY <1>a, <1>b, <1>3, <1>4 DEF AllocCall, CogOk, TypeOK, heap, locals, refs, Goto, FreeOk, GivingUp, Allocated, Blocks
  <2>4. CollectOk(c)'
    BY <1>a, <1>b DEF AllocCall, CogOk, TypeOK, heap, locals, refs, Goto, CollectOk, Sweeping, WordOk, FlagsOf, Shared, Blocks, Allocated
  <2>5. SoleOk(c)'
    BY <1>a, <1>b DEF AllocCall, CogOk, TypeOK, heap, locals, refs, Goto, SoleOk, Sweeping
  <2> QED
    BY <2>1, <2>2, <2>3, <2>4, <2>5 DEF CogOk
<1> QED
  BY <1>1, <1>2, <1>3, <1>4, <1>5, <1>6, <1>7, <1>8, Quiet

\* _gc_free takes over a block that nobody else knows.
LEMMA FreeCallStep == ASSUME Disciplined, HeapInv, NEW c \in Cogs, FreeCall(c) PROVE HeapInv'
<1>a. TypeOK
  BY DEF HeapInv
<1>b. CogOk(c)
  BY DEF HeapInv
<1>c. MineInv /\ RegInv /\ HubInv /\ GiveInv
  BY DEF HeapInv
<1>d. PICK p \in reg[c] \cup mine[c] :
        /\ \A d \in Cogs \ {c} : p \notin reg[d] \cup mine[d]
        /\ \A a \in Cells : hub[a] # p
        /\ reg' = [reg EXCEPT ![c] = @ \ {p}]
        /\ mine' = [mine EXCEPT ![c] = @ \ {p}]
        /\ UNCHANGED stale
        /\ ptr' = [ptr EXCEPT ![c] = p]
        /\ op' = [op EXCEPT ![c] = "free"]
        /\ pc' = [pc EXCEPT ![c] = "lock"]
  <2>1. \A p \in reg[c] \cup mine[c] : IsValidPtr(p)
    BY <1>c, PageFacts, GcAssumption DEF MineInv, RegInv, IsValidPtr, Allocated, None, Hub
  <2> QED
    BY <2>1 DEF FreeCall, Goto, Disciplined
<1>e. pc[c] = "idle" /\ UNCHANGED <<heap, lock, req, last, nxt, scan, word, hub>>
  BY DEF FreeCall
<1>f. p \in Pages /\ p \in 0 .. NPages + 1 /\ Allocated(p)
  BY <1>c, PageFacts DEF MineInv, RegInv, Allocated, Pages
<1>g. Private(c, p) \/ Shared(p) \/ Sole
  <2>1. CASE p \in mine[c]
    <3>1. "reserved" \in bits[p] /\ (owner[p] = c \/ (owner[p] = Hub /\ c \notin Managers) \/ Sole)
      BY <1>c, <2>1 DEF MineInv
    <3>2. Hub \notin Managers
      BY GcAssumption DEF Managers
    <3> QED
      BY <3>1, <3>2 DEF Private, Shared
  <2>2. CASE p \notin mine[c]
    BY <1>c, <1>d, <2>2 DEF RegInv, Managers
  <2> QED
    BY <2>1, <2>2
<1>h. /\ \A d \in Cogs : reg'[d] = reg[d] \ {p} /\ mine'[d] = mine[d] \ {p}
      /\ ptr'[c] = p /\ op'[c] = "free" /\ pc'[c] = "lock"
  BY <1>a, <1>d DEF TypeOK
<1>1. TypeOK'
  <2>1. reg' \in [Cogs -> SUBSET Pages]
    BY <1>a, <1>d DEF TypeOK
  <2>2. mine' \in [Cogs -> SUBSET Pages]
    BY <1>a, <1>d DEF TypeOK
  <2>3. ptr' \in [Cogs -> 0 .. NPages + 1]
    BY <1>a, <1>d, <1>f DEF TypeOK
  <2>4. op' \in [Cogs -> {"none", "alloc", "retry", "free", "collect"}]
    BY <1>a, <1>d DEF TypeOK
  <2>5. pc' \in [Cogs -> Places]
    BY <1>a, <1>d DEF TypeOK, Places
  <2> QED
    BY <1>a, <1>d, <1>e, <2>1, <2>2, <2>3, <2>4, <2>5 DEF TypeOK, heap
<1>2. /\ UNCHANGED heap
      /\ \A d \in Cogs \ {c} :
           /\ pc'[d] = pc[d] /\ op'[d] = op[d] /\ req'[d] = req[d] /\ ptr'[d] = ptr[d]
           /\ last'[d] = last[d] /\ nxt'[d] = nxt[d] /\ scan'[d] = scan[d]
           /\ word'[d] = word[d] /\ reg'[d] = reg[d] /\ mine'[d] = mine[d]
  BY <1>a, <1>d, <1>e DEF TypeOK
<1>3. FreeBlocks' = FreeBlocks
  BY <1>a, <1>d, <1>e DEF TypeOK, heap, FreeBlocks
<1>4. \A q \in Pages : NoReference(q) => NoReference(q)'
  BY <1>e, <1>h DEF NoReference
<1>5. /\ Allocated(ptr'[c]) /\ NoReference(ptr[c])'
      /\ Private(c, ptr'[c]) \/ Shared(ptr'[c]) \/ Sole
      /\ \A d \in Cogs \ {c} : GivingUp(d) \/ pc[d] = "dofree" => ptr[d] # ptr'[c]
  <2>1. NoReference(p)'
    BY <1>d, <1>e, <1>h DEF NoReference
  <2>2. ~ NoReference(p)
    BY DEF NoReference
  <2>3. \A d \in Cogs \ {c} : GivingUp(d) \/ pc[d] = "dofree" => NoReference(ptr[d])
    BY <1>c DEF GiveInv, HeapInv, CogOk, FreeOk
  <2>4. NoReference(ptr[c])'
    BY <1>h, <2>1 DEF NoReference
  <2> QED
    BY <1>f, <1>g, <1>h, <2>2, <2>3, <2>4
<1>6. lock' = lock \/ {lock, lock'} \subseteq {c, None}
  BY <1>e
<1>7. MineInv' /\ RegInv' /\ HubInv'
  <2>1. MineInv'
    BY <1>c, <1>e, <1>h DEF MineInv, heap, Allocated
  <2>2. RegInv'
    <3>1. \A d \in Cogs : \A q \in reg'[d] : q # p /\ q \in reg[d]
      BY <1>d, <1>h
    <3> QED
      BY <1>c, <1>e, <1>h, <3>1 DEF RegInv, heap, Allocated, Private
  <2>3. HubInv'
    BY <1>c, <1>d, <1>e, <1>h DEF HubInv, heap, Allocated
  <2> QED
    BY <2>1, <2>2, <2>3
<1>8. CogOk(c)'
  <2>1. LockOk(c)' /\ CallOk(c)'
    BY <1>h DEF LockOk, CallOk, Critical
  <2>2. AllocOk(c)'
    BY <1>h DEF AllocOk
  <2>3. FreeOk(c)'
    BY <1>h DEF FreeOk
  <2>4. CollectOk(c)'
    BY <1>h DEF CollectOk, Sweeping
  <2>5. SoleOk(c)'
    BY <1>a, <1>b DEF FreeCall, CogOk, TypeOK, heap, locals, refs, Goto, SoleOk, Sweeping
  <2> QED
    BY <2>1, <2>2, <2>3, <2>4, <2>5 DEF CogOk
<1> QED
  BY <1>1, <1>2, <1>3, <1>4, <1>5, <1>6, <1>7, <1>8, Quiet

\* A call to _gc_collect touches nothing.
LEMMA CollectCallStep == ASSUME Disciplined, HeapInv, NEW c \in Cogs, CollectCall(c) PROVE HeapInv'
<1>a. TypeOK
  BY DEF HeapInv
<1>b. CogOk(c)
  BY DEF HeapInv
<1>c. MineInv /\ RegInv /\ HubInv /\ GiveInv
  BY DEF HeapInv
<1>1. TypeOK'
  BY <1>a, PageFacts DEF CollectCall, TypeOK, heap, locals, refs, Goto, Places, Critical
<1>2. /\ UNCHANGED heap
      /\ \A d \in Cogs \ {c} :
           /\ pc'[d] = pc[d] /\ op'[d] = op[d] /\ req'[d] = req[d] /\ ptr'[d] = ptr[d]
           /\ last'[d] = last[d] /\ nxt'[d] = nxt[d] /\ scan'[d] = scan[d]
           /\ word'[d] = word[d] /\ reg'[d] = reg[d] /\ mine'[d] = mine[d]
  BY <1>a DEF CollectCall, TypeOK, heap, locals, refs, Goto
<1>3. FreeBlocks' = FreeBlocks
  BY <1>a DEF CollectCall, TypeOK, heap, locals, Goto, FreeBlocks
<1>4. \A p \in Pages : NoReference(p) => NoReference(p)'
  BY <1>a DEF CollectCall, TypeOK, refs, NoReference
<1>5. GivingUp(c)' => GivingUp(c) /\ ptr'[c] = ptr[c]
  BY <1>a DEF CollectCall, TypeOK, locals, Goto, GivingUp
<1>6. lock' = lock \/ {lock, lock'} \subseteq {c, None}
  BY <1>b DEF CollectCall, CogOk, LockOk, Critical
<1>7. MineInv' /\ RegInv' /\ HubInv'
  BY <1>a, <1>c DEF CollectCall, TypeOK, heap, refs, MineInv, RegInv, HubInv, Allocated, Private, Shared
<1>8. CogOk(c)'
  <2>1. LockOk(c)' /\ CallOk(c)'
    BY <1>a, <1>b DEF CollectCall, CogOk, TypeOK, heap, locals, refs, Goto, LockOk, CallOk, Critical
  <2>2. AllocOk(c)'
    BY <1>a, <1>b, <1>3 DEF CollectCall, CogOk, TypeOK, heap, locals, refs, Goto, AllocOk
  <2>3. FreeOk(c)'
    BY <1>a, <1>b, <1>3, <1>4 DEF CollectCall, CogOk, TypeOK, heap, locals, refs, Goto, FreeOk, GivingUp, Allocated, Blocks
  <2>4. CollectOk(c)'
    BY <1>a, <1>b DEF CollectCall, CogOk, TypeOK, heap, locals, refs, Goto, CollectOk, Sweeping, WordOk, FlagsOf, Shared, Blocks, Allocated
  <2>5. SoleOk(c)'
    BY <1>a, <1>b DEF CollectCall, CogOk, TypeOK, heap, locals, refs, Goto, SoleOk, Sweeping
  <2> QED
    BY <2>1, <2>2, <2>3, <2>4, <2>5 DEF CogOk
<1> QED
  BY <1>1, <1>2, <1>3, <1>4, <1>5, <1>6, <1>7, <1>8, Quiet

\* _lockmem lets one cog in.
LEMMA LockStep == ASSUME Disciplined, HeapInv, NEW c \in Cogs, Lock(c) PROVE HeapInv'
<1>a. TypeOK
  BY DEF HeapInv
<1>b. CogOk(c)
  BY DEF HeapInv
<1>c. MineInv /\ RegInv /\ HubInv /\ GiveInv
  BY DEF HeapInv
<1>1. TypeOK'
  <2>1. ptr' \in [Cogs -> 0 .. NPages + 1]
    BY <1>a, PageFacts, RecordFacts DEF Lock, TypeOK, locals, MayLock
  <2>2. pc' \in [Cogs -> Places]
    BY <1>a DEF Lock, TypeOK, Goto, Places, Critical, MayLock
  <2>3. lock' \in Cogs \cup {None}
    BY <1>a, PageFacts, RecordFacts DEF Lock, TypeOK, locals, MayLock
  <2> QED
    BY <1>a, <2>1, <2>2, <2>3 DEF Lock, TypeOK, heap, locals, refs, MayLock
<1>2. /\ UNCHANGED heap
      /\ \A d \in Cogs \ {c} :
           /\ pc'[d] = pc[d] /\ op'[d] = op[d] /\ req'[d] = req[d] /\ ptr'[d] = ptr[d]
           /\ last'[d] = last[d] /\ nxt'[d] = nxt[d] /\ scan'[d] = scan[d]
           /\ word'[d] = word[d] /\ reg'[d] = reg[d] /\ mine'[d] = mine[d]
  BY <1>a DEF Lock, TypeOK, heap, locals, refs, Goto, MayLock
<1>3. FreeBlocks' = FreeBlocks
  BY <1>a DEF Lock, TypeOK, heap, locals, Goto, FreeBlocks, MayLock
<1>4. \A p \in Pages : NoReference(p) => NoReference(p)'
  BY <1>a DEF Lock, TypeOK, refs, NoReference, MayLock
<1>5. GivingUp(c)' => GivingUp(c) /\ ptr'[c] = ptr[c]
  BY <1>a DEF Lock, TypeOK, locals, Goto, GivingUp, MayLock
<1>6. lock' = lock \/ {lock, lock'} \subseteq {c, None}
  BY <1>b DEF Lock, CogOk, LockOk, Critical, MayLock
<1>7. MineInv' /\ RegInv' /\ HubInv'
  BY <1>a, <1>c DEF Lock, TypeOK, heap, refs, MineInv, RegInv, HubInv, Allocated, Private, Shared, MayLock
<1>8. CogOk(c)'
  <2>1. LockOk(c)' /\ CallOk(c)'
    BY <1>a, <1>b DEF Lock, CogOk, TypeOK, heap, locals, refs, Goto, LockOk, CallOk, Critical, MayLock
  <2>2. AllocOk(c)'
    <3>1. /\ pc'[c] \in {"walk", "dofree", "clear"}
          /\ pc'[c] = "walk" => ptr'[c] = ptr[c] /\ op[c] = "alloc"
      BY <1>a DEF Lock, TypeOK, Goto
    <3> QED
      BY <1>b, <3>1 DEF Lock, CogOk, AllocOk
  <2>3. FreeOk(c)'
    <3>1. pc'[c] \notin {"back", "merge"}
      BY <1>a DEF Lock, TypeOK, Goto
    <3>2. CASE pc'[c] = "dofree"
      <4>1. GivingUp(c) /\ ptr' = ptr
        BY <1>a, <3>2 DEF Lock, TypeOK, Goto, GivingUp
      <4>2. \A d \in Cogs \ {c} : GivingUp(d)' => GivingUp(d)
        BY <1>2 DEF GivingUp
      <4> QED
        BY <1>2, <1>4, <1>c, <3>1, <4>1, <4>2 DEF GiveInv, FreeOk, heap, Allocated
    <3> QED
      BY <3>1, <3>2 DEF FreeOk
  <2>4. CollectOk(c)'
    <3>1. pc'[c] \in {"walk", "dofree", "clear"} /\ (pc'[c] = "dofree" => op'[c] = "free")
      BY <1>a DEF Lock, TypeOK, Goto
    <3>2. pc'[c] = "clear" => ptr'[c] = 1
      BY <1>a DEF Lock, TypeOK, Goto
    <3>3. 1 \in Blocks'
      BY <1>2 DEF HeapInv, HeapTiling, heap, Blocks
    <3> QED
      BY <3>1, <3>2, <3>3 DEF CollectOk, Sweeping
  <2>5. SoleOk(c)'
    BY <1>a, <1>b DEF Lock, CogOk, TypeOK, heap, locals, refs, Goto, SoleOk, Sweeping, MayLock
  <2> QED
    BY <2>1, <2>2, <2>3, <2>4, <2>5 DEF CogOk
<1> QED
  BY <1>1, <1>2, <1>3, <1>4, <1>5, <1>6, <1>7, <1>8, Quiet

\* _unlockmem lets it out, with a block of the size it asked for or without.
LEMMA UnlockStep == ASSUME Disciplined, HeapInv, NEW c \in Cogs, Unlock(c) PROVE HeapInv'
<1>a. TypeOK
  BY DEF HeapInv
<1>b. CogOk(c)
  BY DEF HeapInv
<1>c. MineInv /\ RegInv /\ HubInv /\ GiveInv
  BY DEF HeapInv
<1>1. TypeOK'
  <2>1. last' \in [Cogs -> 0 .. NPages] /\ nxt' \in [Cogs -> 0 .. NPages + 1]
    <3>1. 0 \in 0 .. NPages /\ 0 \in 0 .. NPages + 1
      BY PageFacts
    <3> QED
      BY <1>a, <3>1 DEF Unlock, TypeOK
  <2>2. ptr' \in [Cogs -> 0 .. NPages + 1]
    <3>1. 0 \in 0 .. NPages + 1
      BY PageFacts
    <3> QED
      BY <1>a, <3>1 DEF Unlock, TypeOK
  <2>3. scan' \in [Cogs -> 0 .. NCells + 1]
    <3>1. 0 \in 0 .. NCells + 1
      BY GcAssumption
    <3> QED
      BY <1>a, <3>1 DEF Unlock, TypeOK
  <2>4. word' \in [Cogs -> Flags] /\ req' \in [Cogs -> Reqs]
    <3>1. NoWord \in Flags /\ NoReq \in Reqs
      BY <1>a, RecordFacts
    <3>2. word' \in [Cogs -> Flags]
      BY <1>a, <3>1 DEF Unlock, TypeOK
    <3>3. req' \in [Cogs -> Reqs]
      BY <1>a, <3>1 DEF Unlock, TypeOK
    <3> QED
      BY <3>2, <3>3
  <2>5. pc' \in [Cogs -> Places]
    <3>1. pc \in [Cogs -> Places] /\ {"zero", "idle"} \subseteq Places
      BY <1>a DEF TypeOK, Places, Critical
    <3> QED
      BY <3>1 DEF Unlock, Goto
  <2>6. op' \in [Cogs -> {"none", "alloc", "retry", "free", "collect"}]
    BY <1>a DEF Unlock, TypeOK
  <2> QED
    BY <1>a, <2>1, <2>2, <2>3, <2>4, <2>5, <2>6 DEF Unlock, TypeOK, heap, refs
<1>2. /\ UNCHANGED heap
      /\ \A d \in Cogs \ {c} :
           /\ pc'[d] = pc[d] /\ op'[d] = op[d] /\ req'[d] = req[d] /\ ptr'[d] = ptr[d]
           /\ last'[d] = last[d] /\ nxt'[d] = nxt[d] /\ scan'[d] = scan[d]
           /\ word'[d] = word[d] /\ reg'[d] = reg[d] /\ mine'[d] = mine[d]
  BY <1>a DEF Unlock, TypeOK, heap, locals, refs, Goto
<1>3. FreeBlocks' = FreeBlocks
  BY <1>a DEF Unlock, TypeOK, heap, locals, Goto, FreeBlocks
<1>4. \A p \in Pages : NoReference(p) => NoReference(p)'
  BY <1>a DEF Unlock, TypeOK, refs, NoReference
<1>5. GivingUp(c)' => GivingUp(c) /\ ptr'[c] = ptr[c]
  BY <1>a DEF Unlock, TypeOK, locals, Goto, GivingUp
<1>6. lock' = lock \/ {lock, lock'} \subseteq {c, None}
  BY <1>b DEF Unlock, CogOk, LockOk, Critical
<1>7. MineInv' /\ RegInv' /\ HubInv'
  BY <1>a, <1>c DEF Unlock, TypeOK, heap, refs, MineInv, RegInv, HubInv, Allocated, Private, Shared
<1>8. CogOk(c)'
  <2>1. LockOk(c)' /\ CallOk(c)'
    BY <1>a, <1>b DEF Unlock, CogOk, TypeOK, heap, locals, refs, Goto, LockOk, CallOk, Critical
  <2>2. AllocOk(c)'
    BY <1>a, <1>b, <1>3 DEF Unlock, CogOk, TypeOK, heap, locals, refs, Goto, AllocOk
  <2>3. FreeOk(c)'
    BY <1>a, <1>b, <1>3, <1>4 DEF Unlock, CogOk, TypeOK, heap, locals, refs, Goto, FreeOk, GivingUp, Allocated, Blocks
  <2>4. CollectOk(c)'
    BY <1>a, <1>b DEF Unlock, CogOk, TypeOK, heap, locals, refs, Goto, CollectOk, Sweeping, WordOk, FlagsOf, Shared, Blocks, Allocated
  <2>5. SoleOk(c)'
    BY <1>a, <1>b DEF Unlock, CogOk, TypeOK, heap, locals, refs, Goto, SoleOk, Sweeping
  <2> QED
    BY <2>1, <2>2, <2>3, <2>4, <2>5 DEF CogOk
<1> QED
  BY <1>1, <1>2, <1>3, <1>4, <1>5, <1>6, <1>7, <1>8, Quiet

\* The first-fit loop stays on the free list.
LEMMA WalkStep == ASSUME Disciplined, HeapInv, NEW c \in Cogs, Walk(c) PROVE HeapInv'
<1>a. TypeOK
  BY DEF HeapInv
<1>b. CogOk(c)
  BY DEF HeapInv
<1>c. MineInv /\ RegInv /\ HubInv /\ GiveInv
  BY DEF HeapInv
<1>e. /\ ptr[c] \in 0 .. NPages /\ link[ptr[c]] \in 0 .. NPages
      /\ ptr[c] \in FreeBlocks \cup {0} /\ link[ptr[c]] \in FreeBlocks \cup {0}
  <2>1. ptr[c] \in FreeBlocks \cup {0}
    BY <1>b DEF Walk, CogOk, AllocOk
  <2>2. link[ptr[c]] \in FreeBlocks \cup {0}
    BY <2>1 DEF HeapInv, FreeListExact
  <2>3. FreeBlocks \cup {0} \subseteq 0 .. NPages
    BY PageFacts DEF FreeBlocks, Pages
  <2> QED
    BY <2>1, <2>2, <2>3
<1>1. TypeOK'
  <2>1. last' \in [Cogs -> 0 .. NPages]
    BY <1>a, <1>e DEF Walk, TypeOK
  <2>2. ptr' \in [Cogs -> 0 .. NPages + 1]
    <3>1. link[ptr[c]] \in 0 .. NPages + 1
      BY <1>e, PageFacts
    <3> QED
      BY <1>a, <3>1 DEF Walk, TypeOK
  <2>3. pc' \in [Cogs -> Places]
    BY <1>a DEF Walk, TypeOK, Goto, Places, Critical
  <2> QED
    BY <1>a, <2>1, <2>2, <2>3 DEF Walk, TypeOK, heap, refs
<1>2. /\ UNCHANGED heap
      /\ \A d \in Cogs \ {c} :
           /\ pc'[d] = pc[d] /\ op'[d] = op[d] /\ req'[d] = req[d] /\ ptr'[d] = ptr[d]
           /\ last'[d] = last[d] /\ nxt'[d] = nxt[d] /\ scan'[d] = scan[d]
           /\ word'[d] = word[d] /\ reg'[d] = reg[d] /\ mine'[d] = mine[d]
  BY <1>a DEF Walk, TypeOK, heap, locals, refs, Goto, TooSmall
<1>3. FreeBlocks' = FreeBlocks
  BY <1>a DEF Walk, TypeOK, heap, locals, Goto, FreeBlocks, TooSmall
<1>4. \A p \in Pages : NoReference(p) => NoReference(p)'
  BY <1>a DEF Walk, TypeOK, refs, NoReference, TooSmall
<1>5. GivingUp(c)' => GivingUp(c) /\ ptr'[c] = ptr[c]
  BY <1>a DEF Walk, TypeOK, locals, Goto, GivingUp, TooSmall
<1>6. lock' = lock \/ {lock, lock'} \subseteq {c, None}
  BY <1>b DEF Walk, CogOk, LockOk, Critical, TooSmall
<1>7. MineInv' /\ RegInv' /\ HubInv'
  BY <1>a, <1>c DEF Walk, TypeOK, heap, refs, MineInv, RegInv, HubInv, Allocated, Private, Shared, TooSmall
<1>8. CogOk(c)'
  <2>1. LockOk(c)' /\ CallOk(c)'
    BY <1>a, <1>b DEF Walk, CogOk, TypeOK, heap, locals, refs, Goto, LockOk, CallOk, Critical, TooSmall
  <2>2. AllocOk(c)'
    <3>1. /\ last'[c] = ptr[c] /\ ptr'[c] = link[ptr[c]]
          /\ UNCHANGED <<link, size, req>>
          /\ pc'[c] \in {"walk", "take"}
      BY <1>a DEF Walk, TypeOK, heap, Goto
    <3>2. pc'[c] = "take" /\ ptr'[c] # 0 /\ InHeap(link[ptr[c]]) => ~ TooSmall(c, link[ptr[c]])
      BY <1>a DEF Walk, TypeOK, Goto
    <3>3. ptr'[c] # 0 => ptr'[c] \in Pages
      BY <1>e, <3>1 DEF FreeBlocks
    <3>4. pc'[c] = "take" /\ ptr'[c] # 0 => req[c].pages <= size[ptr'[c]]
      <4>1. req[c].pages \in Int
        <5>1. req[c] \in Reqs
          BY <1>a DEF TypeOK
        <5> QED
          BY <1>a, <5>1, RecordFacts
      <4>2. ptr'[c] # 0 => size[ptr'[c]] \in Int
        BY <1>a, <3>3, PageFacts DEF TypeOK
      <4> QED
        BY <3>1, <3>2, <3>3, <4>1, <4>2, PageFacts DEF TooSmall
    <3> QED
      BY <1>e, <1>3, <3>1, <3>4 DEF AllocOk
  <2>3. FreeOk(c)'
    BY <1>a, <1>b, <1>3, <1>4 DEF Walk, CogOk, TypeOK, heap, locals, refs, Goto, FreeOk, GivingUp, Allocated, Blocks, TooSmall
  <2>4. CollectOk(c)'
    BY <1>a, <1>b DEF Walk, CogOk, TypeOK, heap, locals, refs, Goto, CollectOk, Sweeping, WordOk, FlagsOf, Shared, Blocks, Allocated, TooSmall
  <2>5. SoleOk(c)'
    BY <1>a, <1>b DEF Walk, CogOk, TypeOK, heap, locals, refs, Goto, SoleOk, Sweeping, TooSmall
  <2> QED
    BY <2>1, <2>2, <2>3, <2>4, <2>5 DEF CogOk
<1> QED
  BY <1>1, <1>2, <1>3, <1>4, <1>5, <1>6, <1>7, <1>8, Quiet

\* An unsuccessful walk starts a collection, or gives up.
LEMMA TakeNoneStep == ASSUME Disciplined, HeapInv, NEW c \in Cogs, TakeNone(c) PROVE HeapInv'
<1>a. TypeOK
  BY DEF HeapInv
<1>b. CogOk(c)
  BY DEF HeapInv
<1>c. MineInv /\ RegInv /\ HubInv /\ GiveInv
  BY DEF HeapInv
<1>1. TypeOK'
  <2>1. ptr' \in [Cogs -> 0 .. NPages + 1]
    <3>1. 1 \in 0 .. NPages + 1
      BY PageFacts
    <3> QED
      BY <1>a, <3>1 DEF TakeNone, TypeOK
  <2>2. pc' \in [Cogs -> Places]
    <3>1. pc \in [Cogs -> Places]
      BY <1>a DEF TypeOK
    <3>2. {"clear", "unlock"} \subseteq Places
      BY DEF Places, Critical
    <3> QED
      BY <3>1, <3>2 DEF TakeNone, Goto
  <2> QED
    BY <1>a, <2>1, <2>2 DEF TakeNone, TypeOK, heap, refs
<1>2. /\ UNCHANGED heap
      /\ \A d \in Cogs \ {c} :
           /\ pc'[d] = pc[d] /\ op'[d] = op[d] /\ req'[d] = req[d] /\ ptr'[d] = ptr[d]
           /\ last'[d] = last[d] /\ nxt'[d] = nxt[d] /\ scan'[d] = scan[d]
           /\ word'[d] = word[d] /\ reg'[d] = reg[d] /\ mine'[d] = mine[d]
  BY <1>a DEF TakeNone, TypeOK, heap, locals, refs, Goto
<1>3. FreeBlocks' = FreeBlocks
  BY <1>a DEF TakeNone, TypeOK, heap, locals, Goto, FreeBlocks
<1>4. \A p \in Pages : NoReference(p) => NoReference(p)'
  BY <1>a DEF TakeNone, TypeOK, refs, NoReference
<1>5. GivingUp(c)' => GivingUp(c) /\ ptr'[c] = ptr[c]
  BY <1>a DEF TakeNone, TypeOK, locals, Goto, GivingUp
<1>6. lock' = lock \/ {lock, lock'} \subseteq {c, None}
  BY <1>b DEF TakeNone, CogOk, LockOk, Critical
<1>7. MineInv' /\ RegInv' /\ HubInv'
  BY <1>a, <1>c DEF TakeNone, TypeOK, heap, refs, MineInv, RegInv, HubInv, Allocated, Private, Shared
<1>8. CogOk(c)'
  <2>1. LockOk(c)' /\ CallOk(c)'
    BY <1>a, <1>b DEF TakeNone, CogOk, TypeOK, heap, locals, refs, Goto, LockOk, CallOk, Critical
  <2>2. AllocOk(c)'
    BY <1>a, <1>b, <1>3 DEF TakeNone, CogOk, TypeOK, heap, locals, refs, Goto, AllocOk
  <2>3. FreeOk(c)'
    BY <1>a, <1>b, <1>3, <1>4 DEF TakeNone, CogOk, TypeOK, heap, locals, refs, Goto, FreeOk, GivingUp, Allocated, Blocks
  <2>4. CollectOk(c)'
    <3>1. pc'[c] \in {"unlock", "clear"} /\ (pc'[c] = "clear" => ptr'[c] = 1)
      BY <1>a DEF TakeNone, TypeOK, Goto
    <3>2. 1 \in Blocks'
      BY <1>2 DEF HeapInv, HeapTiling, heap, Blocks
    <3> QED
      BY <3>1, <3>2 DEF CollectOk, Sweeping
  <2>5. SoleOk(c)'
    BY <1>a, <1>b DEF TakeNone, CogOk, TypeOK, heap, locals, refs, Goto, SoleOk, Sweeping
  <2> QED
    BY <2>1, <2>2, <2>3, <2>4, <2>5 DEF CogOk
<1> QED
  BY <1>1, <1>2, <1>3, <1>4, <1>5, <1>6, <1>7, <1>8, Quiet

\* The walk back over the prev words ends at the nearest free block below,
\* or at the anchor.
LEMMA FreeBackStep == ASSUME Disciplined, HeapInv, NEW c \in Cogs, FreeBack(c) PROVE HeapInv'
<1>a. TypeOK
  BY DEF HeapInv
<1>b. CogOk(c)
  BY DEF HeapInv
<1>c. MineInv /\ RegInv /\ HubInv /\ GiveInv
  BY DEF HeapInv
<1>d. PICK f : f = prev[last[c]]
  OBVIOUS
<1>e. /\ last' = [last EXCEPT ![c] = f]
      /\ pc' = [pc EXCEPT ![c] = IF f = 0 \/ IsFree(f) THEN "merge" ELSE "back"]
      /\ pc[c] = "back"
      /\ UNCHANGED <<heap, lock, op, req, ptr, nxt, scan, word, refs>>
  BY <1>d DEF FreeBack, Goto, EndsBack
<1>f. /\ last[c] \in Blocks /\ last[c] <= ptr[c] /\ ptr[c] \in Pages
      /\ \A g \in FreeBlocks : g < last[c] \/ g > ptr[c]
  BY <1>b, <1>e DEF CogOk, FreeOk
<1>g. (f = 0 /\ last[c] = 1) \/ (f \in Blocks /\ f < last[c] /\ \A g \in Blocks : g > f => g >= last[c])
  <2>1. CASE last[c] = 1
    BY <1>d, <2>1 DEF HeapInv, HeapTiling
  <2>2. CASE last[c] # 1
    <3>1. f \in Blocks /\ NextBlock(f) = last[c]
      BY <1>d, <1>f, <2>2 DEF HeapInv, HeapTiling
    <3>2. f \in Pages /\ size[f] \in Int /\ size[f] >= 1
      BY <1>a, <3>1, PageFacts DEF HeapInv, HeapTiling, Blocks, TypeOK
    <3> QED
      BY <3>1, <3>2, PageFacts DEF HeapInv, HeapTiling, NextBlock, Pages
  <2> QED
    BY <2>1, <2>2
<1>h. f \in 0 .. NPages /\ last[c] \in Pages
  BY <1>f, <1>g, PageFacts DEF Blocks, Pages
<1>1. TypeOK'
  <2>1. last' \in [Cogs -> 0 .. NPages]
    BY <1>a, <1>e, <1>h DEF TypeOK
  <2>2. pc' \in [Cogs -> Places]
    BY <1>a, <1>e DEF TypeOK, Places, Critical
  <2> QED
    BY <1>a, <1>e, <2>1, <2>2 DEF TypeOK, heap, refs
<1>2. /\ UNCHANGED heap
      /\ \A d \in Cogs \ {c} :
           /\ pc'[d] = pc[d] /\ op'[d] = op[d] /\ req'[d] = req[d] /\ ptr'[d] = ptr[d]
           /\ last'[d] = last[d] /\ nxt'[d] = nxt[d] /\ scan'[d] = scan[d]
           /\ word'[d] = word[d] /\ reg'[d] = reg[d] /\ mine'[d] = mine[d]
  BY <1>a DEF FreeBack, TypeOK, heap, locals, refs, Goto, EndsBack, IsFree
<1>3. FreeBlocks' = FreeBlocks
  BY <1>a DEF FreeBack, TypeOK, heap, locals, Goto, FreeBlocks, EndsBack, IsFree
<1>4. \A p \in Pages : NoReference(p) => NoReference(p)'
  BY <1>a DEF FreeBack, TypeOK, refs, NoReference, EndsBack, IsFree
<1>5. GivingUp(c)' => GivingUp(c) /\ ptr'[c] = ptr[c]
  BY <1>a DEF FreeBack, TypeOK, locals, Goto, GivingUp, EndsBack, IsFree
<1>6. lock' = lock \/ {lock, lock'} \subseteq {c, None}
  BY <1>b DEF FreeBack, CogOk, LockOk, Critical, EndsBack, IsFree
<1>7. MineInv' /\ RegInv' /\ HubInv'
  BY <1>a, <1>c DEF FreeBack, TypeOK, heap, refs, MineInv, RegInv, HubInv, Allocated, Private, Shared, EndsBack, IsFree
<1>8. CogOk(c)'
  <2>1. LockOk(c)' /\ CallOk(c)'
    BY <1>a, <1>b DEF FreeBack, CogOk, TypeOK, heap, locals, refs, Goto, LockOk, CallOk, Critical, EndsBack, IsFree
  <2>2. AllocOk(c)'
    BY <1>a, <1>b, <1>3 DEF FreeBack, CogOk, TypeOK, heap, locals, refs, Goto, AllocOk, EndsBack, IsFree
  <2>3. FreeOk(c)'
    <3>1. CASE f = 0 \/ IsFree(f)
      <4>1. pc'[c] = "merge" /\ last'[c] = f
        BY <1>a, <1>e, <3>1 DEF TypeOK
      <4>2. f < ptr[c]
        BY <1>f, <1>g, <1>h, PageFacts DEF Pages
      <4>3. f \in FreeBlocks \cup {0}
        <5>1. \A d \in Cogs : pc[d] \in {"back", "merge"} => d = c
          BY <1>e DEF HeapInv, CogOk, LockOk, Critical
        <5> QED
          BY <3>1, <4>2, <5>1, <1>h, <1>f, PageFacts DEF FreeBlocks, IsFree, Pages
      <4>4. \A g \in FreeBlocks : g <= f \/ g > ptr[c]
        <5> SUFFICES ASSUME NEW g \in FreeBlocks, ~ g > ptr[c] PROVE g <= f
          OBVIOUS
        <5>1. g \in Blocks /\ g \in Pages /\ g < last[c] /\ g >= 1
          BY <1>f, PageFacts DEF FreeBlocks, Blocks, Pages, Free, None
        <5> QED
          BY <1>g, <5>1, <1>h, PageFacts DEF Pages
      <4> QED
        BY <1>3, <1>e, <1>f, <4>1, <4>2, <4>3, <4>4, <1>b DEF FreeOk, CogOk, heap
    <3>2. CASE ~ (f = 0 \/ IsFree(f))
      <4>1. pc'[c] = "back" /\ last'[c] = f /\ ptr'[c] = ptr[c]
        BY <1>a, <1>e, <3>2 DEF TypeOK
      <4>2. f \in Blocks /\ f <= ptr[c] /\ f \notin FreeBlocks
        <5>1. f \in Blocks /\ f \in Pages /\ f <= ptr[c]
          BY <1>f, <1>g, <1>h, <3>2, PageFacts DEF Pages
        <5>2. owner[f] # Free
          BY <3>2, <5>1, GcAssumption DEF IsFree, HeapInv, MarkInv, Allocated, Free, Hub
        <5> QED
          BY <5>1, <5>2 DEF FreeBlocks
      <4>3. \A g \in FreeBlocks : g < f \/ g > ptr[c]
        <5> SUFFICES ASSUME NEW g \in FreeBlocks, ~ g > ptr[c] PROVE g < f
          OBVIOUS
        <5>1. g \in Blocks /\ g \in Pages /\ g < last[c] /\ g # f
          BY <1>f, <4>2, PageFacts DEF FreeBlocks, Blocks, Pages, Free, None
        <5> QED
          BY <1>g, <3>2, <5>1, <1>h, PageFacts DEF Pages
      <4>4. UNCHANGED <<owner, size>> /\ Blocks' = Blocks
        BY <1>e DEF heap, Blocks
      <4> QED
        BY <1>3, <1>f, <4>1, <4>2, <4>3, <4>4, <1>b, <1>e DEF FreeOk, CogOk
    <3> QED
      BY <3>1, <3>2
  <2>4. CollectOk(c)'
    BY <1>a, <1>b DEF FreeBack, CogOk, TypeOK, heap, locals, refs, Goto, CollectOk, Sweeping, WordOk, FlagsOf, Shared, Blocks, Allocated, EndsBack, IsFree
  <2>5. SoleOk(c)'
    BY <1>a, <1>b DEF FreeBack, CogOk, TypeOK, heap, locals, refs, Goto, SoleOk, Sweeping
  <2> QED
    BY <2>1, <2>2, <2>3, <2>4, <2>5 DEF CogOk
<1> QED
  BY <1>1, <1>2, <1>3, <1>4, <1>5, <1>6, <1>7, <1>8, Quiet

\* Reading a flags word to clear its mark.
LEMMA ClearReadStep == ASSUME Disciplined, HeapInv, NEW c \in Cogs, ClearRead(c) PROVE HeapInv'
<1>a. TypeOK
  BY DEF HeapInv
<1>b. CogOk(c)
  BY DEF HeapInv
<1>c. MineInv /\ RegInv /\ HubInv /\ GiveInv
  BY DEF HeapInv
<1>1. TypeOK'
  <2>1. ptr[c] \in Pages
    BY <1>b DEF ClearRead, CogOk, CollectOk, Sweeping, Blocks
  <2>2. word' \in [Cogs -> Flags]
    BY <1>a, <2>1, RecordFacts DEF ClearRead, TypeOK
  <2>3. pc' \in [Cogs -> Places]
    BY <1>a DEF ClearRead, TypeOK, Goto, Places, Critical
  <2> QED
    BY <1>a, <2>1, <2>2, <2>3 DEF ClearRead, TypeOK, heap, locals, refs
<1>2. /\ UNCHANGED heap
      /\ \A d \in Cogs \ {c} :
           /\ pc'[d] = pc[d] /\ op'[d] = op[d] /\ req'[d] = req[d] /\ ptr'[d] = ptr[d]
           /\ last'[d] = last[d] /\ nxt'[d] = nxt[d] /\ scan'[d] = scan[d]
           /\ word'[d] = word[d] /\ reg'[d] = reg[d] /\ mine'[d] = mine[d]
  BY <1>a DEF ClearRead, TypeOK, heap, locals, refs, Goto
<1>3. FreeBlocks' = FreeBlocks
  BY <1>a DEF ClearRead, TypeOK, heap, locals, Goto, FreeBlocks
<1>4. \A p \in Pages : NoReference(p) => NoReference(p)'
  BY <1>a DEF ClearRead, TypeOK, refs, NoReference
<1>5. GivingUp(c)' => GivingUp(c) /\ ptr'[c] = ptr[c]
  BY <1>a DEF ClearRead, TypeOK, locals, Goto, GivingUp
<1>6. lock' = lock \/ {lock, lock'} \subseteq {c, None}
  BY <1>b DEF ClearRead, CogOk, LockOk, Critical
<1>7. MineInv' /\ RegInv' /\ HubInv'
  BY <1>a, <1>c DEF ClearRead, TypeOK, heap, refs, MineInv, RegInv, HubInv, Allocated, Private, Shared
<1>8. CogOk(c)'
  <2>1. LockOk(c)' /\ CallOk(c)'
    BY <1>a, <1>b DEF ClearRead, CogOk, TypeOK, heap, locals, refs, Goto, LockOk, CallOk, Critical
  <2>2. AllocOk(c)'
    BY <1>a, <1>b, <1>3 DEF ClearRead, CogOk, TypeOK, heap, locals, refs, Goto, AllocOk
  <2>3. FreeOk(c)'
    BY <1>a, <1>b, <1>3, <1>4 DEF ClearRead, CogOk, TypeOK, heap, locals, refs, Goto, FreeOk, GivingUp, Allocated, Blocks
  <2>4. CollectOk(c)'
    BY <1>a, <1>b DEF ClearRead, CogOk, TypeOK, heap, locals, refs, Goto, CollectOk, Sweeping, WordOk, FlagsOf, Shared, Blocks, Allocated
  <2>5. SoleOk(c)'
    BY <1>a, <1>b DEF ClearRead, CogOk, TypeOK, heap, locals, refs, Goto, SoleOk, Sweeping
  <2> QED
    BY <2>1, <2>2, <2>3, <2>4, <2>5 DEF CogOk
<1> QED
  BY <1>1, <1>2, <1>3, <1>4, <1>5, <1>6, <1>7, <1>8, Quiet

\* _gc_markhub comes upon allocated blocks only: hub memory holds nothing else.
LEMMA ScanReadStep == ASSUME Disciplined, HeapInv, NEW c \in Cogs, ScanRead(c) PROVE HeapInv'
<1>a. TypeOK
  BY DEF HeapInv
<1>b. CogOk(c)
  BY DEF HeapInv
<1>c. MineInv /\ RegInv /\ HubInv /\ GiveInv
  BY DEF HeapInv
<1>e. PICK p : p = hub[scan[c]]
  OBVIOUS
<1>f. scan[c] \in Cells
  BY <1>a, <1>b, GcAssumption DEF ScanRead, CogOk, CollectOk, Sweeping, TypeOK, Cells
<1>g. /\ scan' = [scan EXCEPT ![c] = @ + 1] /\ pc[c] = "scan"
      /\ UNCHANGED <<size, prev, link, owner, bits, lock, op, req, last, nxt, refs>>
  BY DEF ScanRead, heap
<1>h. \/ /\ p \in Pages /\ owner[p] # None /\ ~ IsFree(p)
         /\ ptr' = [ptr EXCEPT ![c] = p] /\ word' = [word EXCEPT ![c] = FlagsOf(p)]
         /\ pc' = [pc EXCEPT ![c] = "scanwrite"]
      \/ UNCHANGED <<ptr, word, pc>>
  BY <1>e DEF ScanRead, Goto, IsValidPtr
<1>1. TypeOK'
  <2>1. scan' \in [Cogs -> 0 .. NCells + 1]
    <3>1. scan \in [Cogs -> 0 .. NCells + 1]
      BY <1>a DEF TypeOK
    <3> QED
      BY <1>f, <1>g, <3>1, GcAssumption DEF Cells
  <2>2. ptr' \in [Cogs -> 0 .. NPages + 1]
    <3>1. p \in Pages => p \in 0 .. NPages + 1
      BY PageFacts DEF Pages
    <3> QED
      BY <1>a, <1>h, <3>1 DEF TypeOK
  <2>3. word' \in [Cogs -> Flags]
    <3>1. p \in Pages => FlagsOf(p) \in Flags
      BY <1>a, RecordFacts
    <3> QED
      BY <1>a, <1>h, <3>1 DEF TypeOK
  <2>4. pc' \in [Cogs -> Places]
    BY <1>a, <1>h DEF TypeOK, Places, Critical
  <2> QED
    BY <1>a, <1>g, <2>1, <2>2, <2>3, <2>4 DEF TypeOK, refs
<1>2. /\ UNCHANGED heap
      /\ \A d \in Cogs \ {c} :
           /\ pc'[d] = pc[d] /\ op'[d] = op[d] /\ req'[d] = req[d] /\ ptr'[d] = ptr[d]
           /\ last'[d] = last[d] /\ nxt'[d] = nxt[d] /\ scan'[d] = scan[d]
           /\ word'[d] = word[d] /\ reg'[d] = reg[d] /\ mine'[d] = mine[d]
  BY <1>a, <1>g, <1>h DEF TypeOK, heap, refs
<1>3. FreeBlocks' = FreeBlocks
  BY <1>a, <1>g, <1>h DEF TypeOK, FreeBlocks
<1>4. \A q \in Pages : NoReference(q) => NoReference(q)'
  BY <1>g DEF refs, NoReference
<1>5. GivingUp(c)' => GivingUp(c) /\ ptr'[c] = ptr[c]
  BY <1>a, <1>g, <1>h DEF TypeOK, GivingUp
<1>6. lock' = lock \/ {lock, lock'} \subseteq {c, None}
  BY <1>g
<1>7. MineInv' /\ RegInv' /\ HubInv'
  BY <1>c, <1>g DEF refs, MineInv, RegInv, HubInv, Allocated, Private, Shared
<1>8. CogOk(c)'
  <2>1. LockOk(c)' /\ CallOk(c)'
    BY <1>a, <1>b, <1>g, <1>h DEF CogOk, TypeOK, LockOk, CallOk, Critical
  <2>2. AllocOk(c)'
    BY <1>a, <1>g, <1>h DEF TypeOK, AllocOk
  <2>3. FreeOk(c)'
    BY <1>a, <1>g, <1>h DEF TypeOK, FreeOk
  <2>4. CollectOk(c)'
    <3>1. CASE UNCHANGED <<ptr, word, pc>>
      <4>1. scan'[c] >= 1
        BY <1>a, <1>f, <1>g, GcAssumption DEF TypeOK, Cells
      <4> QED
        BY <1>g, <3>1, <4>1 DEF CollectOk, Sweeping
    <3>2. CASE /\ p \in Pages /\ owner[p] # None /\ ~ IsFree(p)
               /\ ptr' = [ptr EXCEPT ![c] = p] /\ word' = [word EXCEPT ![c] = FlagsOf(p)]
               /\ pc' = [pc EXCEPT ![c] = "scanwrite"]
      <4>1. ptr'[c] = p /\ word'[c] = FlagsOf(p) /\ pc'[c] = "scanwrite"
        BY <1>a, <3>2 DEF TypeOK
      <4>2. FlagsOf(p)' = FlagsOf(p)
        BY <1>g DEF FlagsOf
      <4>3. Allocated(p) /\ (Shared(p) \/ Sole)
        <5>1. p # 0
          BY <3>2, PageFacts DEF Pages
        <5> QED
          BY <1>c, <1>e, <1>f, <5>1, MineShared DEF HubInv
      <4>4. (word[c] = FlagsOf(ptr[c]))'
        BY <4>1, <1>g DEF FlagsOf
      <4>5. scan'[c] >= 1
        BY <1>a, <1>f, <1>g, GcAssumption DEF TypeOK, Cells
      <4> QED
        BY <1>g, <4>1, <4>3, <4>4, <4>5 DEF CollectOk, Sweeping, Allocated, Shared
    <3> QED
      BY <1>h, <3>1, <3>2
  <2>5. SoleOk(c)'
    <3>1. /\ scan'[c] = scan[c] + 1 /\ scan[c] \in Nat /\ bits' = bits /\ hub' = hub
          /\ pc[c] = "scan" /\ pc'[c] \in {"scan", "scanwrite"}
          /\ pc'[c] = "scanwrite" => ptr'[c] = p
      BY <1>a, <1>f, <1>g, <1>h, GcAssumption DEF TypeOK, refs, Cells
    <3>2. ASSUME Sole, NEW a \in Cells, a < scan'[c], hub[a] # 0
          PROVE  "inuse" \in bits[hub[a]] \/ (pc'[c] = "scanwrite" /\ ptr'[c] = hub[a])
      <4>1. CASE a < scan[c]
        BY <1>b, <3>1, <3>2, <4>1 DEF CogOk, SoleOk
      <4>2. CASE a = scan[c]
        <5>1. Allocated(p)
          BY <1>c, <1>e, <3>2, <4>2 DEF HubInv, MineInv
        <5>2. IsValidPtr(p) /\ ~ IsFree(p)
          BY <5>1, PageFacts, GcAssumption DEF IsValidPtr, IsFree, Allocated, Hub, Free, None
        <5>3. ptr' = [ptr EXCEPT ![c] = p] /\ pc' = [pc EXCEPT ![c] = "scanwrite"]
          BY <1>e, <5>2 DEF ScanRead, Goto
        <5> QED
          BY <1>a, <1>e, <4>2, <5>3 DEF TypeOK
      <4>3. a \in Int
        BY DEF Cells
      <4> QED
        BY <3>1, <3>2, <4>1, <4>2, <4>3
    <3> QED
      BY <3>1, <3>2 DEF SoleOk, Sweeping
  <2> QED
    BY <2>1, <2>2, <2>3, <2>4, <2>5 DEF CogOk
<1> QED
  BY <1>1, <1>2, <1>3, <1>4, <1>5, <1>6, <1>7, <1>8, Quiet

\* The sweep frees only blocks that no pointer leads to.
LEMMA SweepStep == ASSUME Disciplined, HeapInv, NEW c \in Cogs, Sweep(c) PROVE HeapInv'
<1>a. TypeOK
  BY DEF HeapInv
<1>b. CogOk(c)
  BY DEF HeapInv
<1>c. MineInv /\ RegInv /\ HubInv /\ GiveInv
  BY DEF HeapInv
<1>d. PICK p : p = nxt[c]
  OBVIOUS
<1>e. /\ pc[c] = "sweep" /\ nxt' = [nxt EXCEPT ![c] = NextBlock(p)]
      /\ UNCHANGED <<heap, lock, req, last, scan, word, refs>>
  BY <1>d DEF Sweep
<1>f. /\ p \in Blocks /\ p \in Pages
      /\ NextBlock(p) \in Blocks \cup {NPages + 1} /\ NextBlock(p) \in 1 .. NPages + 1
  <2>1. p \in Blocks
    BY <1>b, <1>d, <1>e DEF CogOk, CollectOk, Sweeping
  <2>2. NextBlock(p) \in Blocks \cup {NPages + 1}
    BY <2>1 DEF HeapInv, HeapTiling
  <2> QED
    BY <2>1, <2>2, PageFacts DEF Blocks, Pages
<1>g. op[c] \in {"alloc", "collect"}
  BY <1>b, <1>e DEF CogOk, CallOk
<1>h. \/ /\ Collectable(c, p) /\ UNCHANGED op
         /\ ptr' = [ptr EXCEPT ![c] = p] /\ pc' = [pc EXCEPT ![c] = "dofree"]
      \/ NextBlock(p) \in Blocks /\ UNCHANGED <<ptr, pc, op>>
      \/ /\ op' = [op EXCEPT ![c] = "retry"] /\ ptr' = [ptr EXCEPT ![c] = 0]
         /\ pc' = [pc EXCEPT ![c] = "walk"] /\ op[c] = "alloc"
      \/ UNCHANGED <<op, ptr>> /\ pc' = [pc EXCEPT ![c] = "unlock"] /\ op[c] = "collect"
  BY <1>d, <1>f, <1>g, PageFacts DEF Sweep, AfterSweep, Goto, Blocks
<1>1. TypeOK'
  <2>1. nxt' \in [Cogs -> 0 .. NPages + 1]
    <3>1. NextBlock(p) \in 0 .. NPages + 1
      BY <1>f, PageFacts
    <3> QED
      BY <1>a, <1>e, <3>1 DEF TypeOK
  <2>2. ptr' \in [Cogs -> 0 .. NPages + 1]
    <3>1. p \in 0 .. NPages + 1 /\ 0 \in 0 .. NPages + 1
      BY <1>f, PageFacts DEF Pages
    <3> QED
      BY <1>a, <1>h, <3>1 DEF TypeOK
  <2>3. pc' \in [Cogs -> Places]
    BY <1>a, <1>h DEF TypeOK, Places, Critical
  <2>4. op' \in [Cogs -> {"none", "alloc", "retry", "free", "collect"}]
    BY <1>a, <1>h DEF TypeOK
  <2> QED
    BY <1>a, <1>e, <2>1, <2>2, <2>3, <2>4 DEF TypeOK, heap, refs
<1>2. /\ UNCHANGED heap
      /\ \A d \in Cogs \ {c} :
           /\ pc'[d] = pc[d] /\ op'[d] = op[d] /\ req'[d] = req[d] /\ ptr'[d] = ptr[d]
           /\ last'[d] = last[d] /\ nxt'[d] = nxt[d] /\ scan'[d] = scan[d]
           /\ word'[d] = word[d] /\ reg'[d] = reg[d] /\ mine'[d] = mine[d]
  BY <1>a, <1>e, <1>h DEF TypeOK, refs
<1>3. FreeBlocks' = FreeBlocks
  <2>1. \A d \in Cogs : pc[d] \in {"back", "merge"} <=> pc'[d] \in {"back", "merge"}
    BY <1>a, <1>e, <1>h DEF TypeOK
  <2>2. \A d \in Cogs : pc[d] \in {"back", "merge"} => ptr'[d] = ptr[d]
    BY <1>a, <1>e, <1>h DEF TypeOK
  <2> QED
    BY <1>e, <2>1, <2>2 DEF heap, FreeBlocks
<1>4. \A q \in Pages : NoReference(q) => NoReference(q)'
  BY <1>e DEF refs, NoReference
<1>5. GivingUp(c)' => GivingUp(c) /\ ptr'[c] = ptr[c]
  <2>1. op'[c] # "free"
    BY <1>a, <1>g, <1>h DEF TypeOK
  <2> QED
    BY <2>1 DEF GivingUp
<1>6. lock' = lock \/ {lock, lock'} \subseteq {c, None}
  BY <1>e
<1>7. MineInv' /\ RegInv' /\ HubInv'
  BY <1>c, <1>e DEF heap, refs, MineInv, RegInv, HubInv, Allocated, Private, Shared
<1>8. CogOk(c)'
  <2>1. LockOk(c)' /\ CallOk(c)'
    <3>1. /\ pc'[c] \in {"dofree", "sweep", "walk", "unlock"}
          /\ op'[c] \in {"alloc", "collect", "retry"}
          /\ pc'[c] \in {"dofree", "sweep"} => op'[c] = op[c]
          /\ pc'[c] = "walk" => op'[c] = "retry"
          /\ op[c] = "collect" => op'[c] = "collect"
      BY <1>a, <1>e, <1>g, <1>h DEF TypeOK
    <3>2. op'[c] \in {"alloc", "retry"} => req[c].pages >= 1
      BY <1>b, <1>g, <3>1 DEF CogOk, CallOk
    <3> QED
      BY <1>b, <1>e, <1>g, <3>1, <3>2 DEF CogOk, LockOk, CallOk, Critical
  <2>2. AllocOk(c)'
    <3>1. /\ pc'[c] \in {"dofree", "sweep", "walk", "unlock"}
          /\ pc'[c] = "walk" => ptr'[c] = 0
          /\ pc'[c] = "unlock" => op'[c] = "collect"
      BY <1>a, <1>e, <1>h DEF TypeOK
    <3> QED
      BY <3>1 DEF AllocOk
  <2>3. FreeOk(c)'
    <3>1. CASE pc'[c] = "dofree"
      <4>1. Collectable(c, p) /\ ptr'[c] = p
        BY <1>a, <1>e, <1>h, <3>1 DEF TypeOK
      <4>2. Allocated(p) /\ "reserved" \notin bits[p] /\ "inuse" \notin bits[p] /\ owner[p] \in {c, Hub}
        BY <1>f, <4>1 DEF Collectable, Allocated
      <4>3. NoReference(p)
        <5>1. \A d \in Cogs : p \notin mine[d]
          BY <1>c, <4>2 DEF MineInv
        <5>2. p \notin reg[c]
          BY <1>b, <1>e, <4>2 DEF CogOk, CollectOk, Sweeping
        <5>3. \A d \in Cogs : p \notin reg[d]
          BY <1>c, <4>2, <5>1, <5>2, NotSole, GcAssumption DEF RegInv, Private
        <5>4. \A a \in Cells : hub[a] # p
          <6>1. p # 0
            BY <1>f, PageFacts DEF Pages
          <6> QED
            BY <1>b, <1>c, <1>e, <4>2, <5>1, <6>1 DEF HubInv, CogOk, SoleOk, Sweeping
        <5> QED
          BY <5>1, <5>3, <5>4 DEF NoReference
      <4>4. \A d \in Cogs \ {c} : GivingUp(d) => ptr[d] # p
        BY <1>c, <4>2, NotSole, GcAssumption DEF GiveInv, Private, Shared
      <4>5. \A d \in Cogs \ {c} : GivingUp(d)' => GivingUp(d) /\ ptr'[d] = ptr[d]
        BY <1>2 DEF GivingUp
      <4> QED
        BY <1>2, <1>4, <1>f, <3>1, <4>1, <4>2, <4>3, <4>4, <4>5 DEF FreeOk, Allocated, heap
    <3>2. CASE pc'[c] # "dofree"
      <4>1. pc'[c] \in {"sweep", "walk", "unlock"}
        BY <1>a, <1>e, <1>h, <3>2 DEF TypeOK
      <4> QED
        BY <4>1 DEF FreeOk
    <3> QED
      BY <3>1, <3>2
  <2>4. CollectOk(c)'
    <3>1. /\ pc'[c] \in {"dofree", "sweep", "walk", "unlock"}
          /\ pc'[c] = "sweep" => NextBlock(p) \in Blocks
          /\ nxt'[c] = NextBlock(p)
      BY <1>a, <1>e, <1>h DEF TypeOK
    <3>2. \A q \in reg[c] : bits[q] \cap {"inuse", "reserved"} # {}
      BY <1>b, <1>e DEF CogOk, CollectOk, Sweeping
    <3>3. Blocks' = Blocks /\ reg' = reg /\ bits' = bits
      BY <1>e DEF heap, refs, Blocks
    <3> QED
      BY <3>1, <3>2, <3>3 DEF CollectOk, Sweeping
  <2>5. SoleOk(c)'
    <3>1. /\ pc'[c] \in {"dofree", "sweep", "walk", "unlock"}
          /\ bits' = bits /\ hub' = hub
      BY <1>a, <1>e, <1>h DEF TypeOK, heap, refs
    <3> QED
      BY <1>b, <1>e, <3>1 DEF CogOk, SoleOk, Sweeping
  <2> QED
    BY <2>1, <2>2, <2>3, <2>4, <2>5 DEF CogOk
<1> QED
  BY <1>1, <1>2, <1>3, <1>4, <1>5, <1>6, <1>7, <1>8, Quiet

\* Only pointers to reserved blocks get into hub memory.
LEMMA StoreStep == ASSUME Disciplined, HeapInv, NEW c \in Cogs, Store(c) PROVE HeapInv'
<1>a. TypeOK
  BY DEF HeapInv
<1>b. CogOk(c)
  BY DEF HeapInv
<1>c. MineInv /\ RegInv /\ HubInv /\ GiveInv
  BY DEF HeapInv
<1>e. PICK a \in Cells, p \in reg[c] \cup {0} :
        /\ (c \notin Managers /\ p \in mine[c]) \/ p = 0 \/ Sole
        /\ hub' = [hub EXCEPT ![a] = p]
        /\ UNCHANGED <<owner, bits, reg, stale, mine>>
  BY DEF Store, Disciplined, heap
<1>f. pc[c] = "idle" /\ UNCHANGED pc
  BY DEF Store, MayMove
<1>1. TypeOK'
  <2>1. p \in 0 .. NPages
    BY <1>a, PageFacts DEF TypeOK, Pages
  <2>2. hub' \in [Cells -> 0 .. NPages]
    BY <1>a, <1>e, <2>1 DEF TypeOK
  <2> QED
    BY <1>a, <1>e, <2>2 DEF Store, TypeOK, heap, locals
<1>2. /\ UNCHANGED heap
      /\ \A d \in Cogs \ {c} :
           /\ pc'[d] = pc[d] /\ op'[d] = op[d] /\ req'[d] = req[d] /\ ptr'[d] = ptr[d]
           /\ last'[d] = last[d] /\ nxt'[d] = nxt[d] /\ scan'[d] = scan[d]
           /\ word'[d] = word[d] /\ reg'[d] = reg[d] /\ mine'[d] = mine[d]
  BY <1>a DEF Store, TypeOK, heap, locals, refs, Goto, MayMove
<1>3. FreeBlocks' = FreeBlocks
  BY <1>a DEF Store, TypeOK, heap, locals, Goto, FreeBlocks, MayMove
<1>4. \A q \in Pages : NoReference(q) => NoReference(q)'
  <2>1. \A b \in Cells : hub'[b] = hub[b] \/ hub'[b] \in reg[c] \cup {0}
    BY <1>a, <1>e DEF TypeOK
  <2> QED
    BY <1>e, <2>1, PageFacts DEF NoReference, Pages
<1>5. GivingUp(c)' => GivingUp(c) /\ ptr'[c] = ptr[c]
  BY <1>a DEF Store, TypeOK, locals, Goto, GivingUp, MayMove
<1>6. lock' = lock \/ {lock, lock'} \subseteq {c, None}
  BY <1>b DEF Store, CogOk, LockOk, Critical, MayMove
<1>7. MineInv' /\ RegInv' /\ HubInv'
  <2>1. MineInv' /\ RegInv'
    BY <1>c, <1>e DEF MineInv, RegInv, Allocated, Private
  <2>2. \A b \in Cells : \/ hub'[b] = hub[b] \/ hub'[b] = 0
                         \/ c \notin Managers /\ hub'[b] \in mine[c]
                         \/ Sole /\ hub'[b] \in reg[c] \cup {0}
    BY <1>a, <1>e DEF TypeOK
  <2>3. \A q \in reg[c] : Allocated(q)
    BY <1>c DEF RegInv
  <2>4. ASSUME NEW b \in Cells, hub'[b] # 0
        PROVE  (\E d \in Cogs \ Managers : hub'[b] \in mine'[d]) \/ (Sole /\ Allocated(hub[b])')
    <3>1. CASE hub'[b] = hub[b]
      <4>1. Allocated(hub[b])' <=> Allocated(hub[b])
        BY <1>e, <3>1 DEF Allocated
      <4> QED
        BY <1>c, <1>e, <2>4, <3>1, <4>1 DEF HubInv
    <3>2. CASE c \notin Managers /\ hub'[b] \in mine[c]
      BY <1>e, <3>2
    <3>3. CASE Sole /\ hub'[b] \in reg[c]
      BY <1>e, <2>3, <3>3 DEF Allocated
    <3> QED
      BY <2>2, <2>4, <3>1, <3>2, <3>3
  <2>5. HubInv'
    BY <1>c, <1>e, <2>4 DEF HubInv
  <2> QED
    BY <2>1, <2>5
<1>8. CogOk(c)'
  <2>1. LockOk(c)' /\ CallOk(c)'
    BY <1>a, <1>b DEF Store, CogOk, TypeOK, heap, locals, refs, Goto, LockOk, CallOk, Critical, MayMove
  <2>2. AllocOk(c)'
    BY <1>a, <1>b, <1>3 DEF Store, CogOk, TypeOK, heap, locals, refs, Goto, AllocOk, MayMove
  <2>3. FreeOk(c)'
    BY <1>a, <1>b, <1>3, <1>4 DEF Store, CogOk, TypeOK, heap, locals, refs, Goto, FreeOk, GivingUp, Allocated, Blocks, MayMove
  <2>4. CollectOk(c)'
    BY <1>a, <1>b DEF Store, CogOk, TypeOK, heap, locals, refs, Goto, CollectOk, Sweeping, WordOk, FlagsOf, Shared, Blocks, Allocated, MayMove
  <2>5. SoleOk(c)'
    BY <1>f DEF SoleOk, Sweeping
  <2> QED
    BY <2>1, <2>2, <2>3, <2>4, <2>5 DEF CogOk
<1> QED
  BY <1>1, <1>2, <1>3, <1>4, <1>5, <1>6, <1>7, <1>8, Quiet

\* A pointer from hub memory leads to a reserved block.
LEMMA LoadStep == ASSUME Disciplined, HeapInv, NEW c \in Cogs, Load(c) PROVE HeapInv'
<1>a. TypeOK
  BY DEF HeapInv
<1>b. CogOk(c)
  BY DEF HeapInv
<1>c. MineInv /\ RegInv /\ HubInv /\ GiveInv
  BY DEF HeapInv
<1>1. TypeOK'
  <2>1. reg' \in [Cogs -> SUBSET Pages]
    BY <1>a DEF Load, TypeOK, Pages, MayMove
  <2> QED
    BY <1>a, <2>1 DEF Load, TypeOK, heap, locals, refs, MayMove
<1>2. /\ UNCHANGED heap
      /\ \A d \in Cogs \ {c} :
           /\ pc'[d] = pc[d] /\ op'[d] = op[d] /\ req'[d] = req[d] /\ ptr'[d] = ptr[d]
           /\ last'[d] = last[d] /\ nxt'[d] = nxt[d] /\ scan'[d] = scan[d]
           /\ word'[d] = word[d] /\ reg'[d] = reg[d] /\ mine'[d] = mine[d]
  BY <1>a DEF Load, TypeOK, heap, locals, refs, Goto, MayMove
<1>3. FreeBlocks' = FreeBlocks
  BY <1>a DEF Load, TypeOK, heap, locals, Goto, FreeBlocks, MayMove
<1>4. \A p \in Pages : NoReference(p) => NoReference(p)'
  BY <1>a DEF Load, TypeOK, refs, NoReference, MayMove
<1>5. GivingUp(c)' => GivingUp(c) /\ ptr'[c] = ptr[c]
  BY <1>a DEF Load, TypeOK, locals, Goto, GivingUp, MayMove
<1>6. lock' = lock \/ {lock, lock'} \subseteq {c, None}
  BY <1>b DEF Load, CogOk, LockOk, Critical, MayMove
<1>7. MineInv' /\ RegInv' /\ HubInv'
  <2>1. MineInv'
    BY <1>a, <1>c DEF Load, TypeOK, heap, refs, MineInv, Allocated, MayMove
  <2>2. RegInv'
    <3>1. PICK a \in Cells : hub[a] # 0 /\ reg' = [reg EXCEPT ![c] = @ \cup {hub[a]}]
      BY DEF Load
    <3>2. reg \in [Cogs -> SUBSET Pages] /\ mine' = mine /\ owner' = owner /\ bits' = bits /\ size' = size
      BY <1>a DEF TypeOK, Load, heap
    <3>3. (\E d \in Cogs \ Managers : hub[a] \in mine[d]) \/ (Sole /\ Allocated(hub[a]))
      BY <1>c, <3>1 DEF HubInv
    <3>4. Allocated(hub[a])
      BY <3>3, MineShared
    <3>5. \A p : Allocated(p) <=> Allocated(p)'
      BY <3>2 DEF Allocated
    <3>6. \A d \in Cogs : \A p \in reg'[d] : p \in reg[d] \/ p = hub[a]
      BY <3>1, <3>2
    <3> QED
      BY <1>c, <3>2, <3>3, <3>4, <3>5, <3>6 DEF RegInv, Private
  <2>3. HubInv'
    BY <1>a, <1>c DEF Load, TypeOK, heap, refs, HubInv, Allocated, MayMove
  <2> QED
    BY <2>1, <2>2, <2>3
<1>8. CogOk(c)'
  <2>1. LockOk(c)' /\ CallOk(c)'
    BY <1>a, <1>b DEF Load, CogOk, TypeOK, heap, locals, refs, Goto, LockOk, CallOk, Critical, MayMove
  <2>2. AllocOk(c)'
    BY <1>a, <1>b, <1>3 DEF Load, CogOk, TypeOK, heap, locals, refs, Goto, AllocOk, MayMove
  <2>3. FreeOk(c)'
    BY <1>a, <1>b, <1>3, <1>4 DEF Load, CogOk, TypeOK, heap, locals, refs, Goto, FreeOk, GivingUp, Allocated, Blocks, MayMove
  <2>4. CollectOk(c)'
    BY <1>a, <1>b DEF Load, CogOk, TypeOK, heap, locals, refs, Goto, CollectOk, Sweeping, WordOk, FlagsOf, Shared, Blocks, Allocated, MayMove
  <2>5. SoleOk(c)'
    BY DEF Load, MayMove, SoleOk, Sweeping
  <2> QED
    BY <2>1, <2>2, <2>3, <2>4, <2>5 DEF CogOk
<1> QED
  BY <1>1, <1>2, <1>3, <1>4, <1>5, <1>6, <1>7, <1>8, Quiet

\* Forgetting a pointer.
LEMMA DropStep == ASSUME Disciplined, HeapInv, NEW c \in Cogs, Drop(c) PROVE HeapInv'
<1>a. TypeOK
  BY DEF HeapInv
<1>b. CogOk(c)
  BY DEF HeapInv
<1>c. MineInv /\ RegInv /\ HubInv /\ GiveInv
  BY DEF HeapInv
<1>e. PICK p \in reg[c] :
        /\ reg' = [reg EXCEPT ![c] = @ \ {p}]
        /\ UNCHANGED <<owner, bits, hub, stale, mine>>
  BY <1>c DEF Drop, HubInv, heap
<1>1. TypeOK'
  <2>1. reg' \in [Cogs -> SUBSET Pages]
    BY <1>a, <1>e DEF TypeOK
  <2> QED
    BY <1>a, <1>e, <2>1 DEF Drop, TypeOK, heap, locals
<1>2. /\ UNCHANGED heap
      /\ \A d \in Cogs \ {c} :
           /\ pc'[d] = pc[d] /\ op'[d] = op[d] /\ req'[d] = req[d] /\ ptr'[d] = ptr[d]
           /\ last'[d] = last[d] /\ nxt'[d] = nxt[d] /\ scan'[d] = scan[d]
           /\ word'[d] = word[d] /\ reg'[d] = reg[d] /\ mine'[d] = mine[d]
  BY <1>a DEF Drop, TypeOK, heap, locals, refs, Goto, MayMove
<1>3. FreeBlocks' = FreeBlocks
  BY <1>a DEF Drop, TypeOK, heap, locals, Goto, FreeBlocks, MayMove
<1>4. \A q \in Pages : NoReference(q) => NoReference(q)'
  BY <1>a, <1>e DEF TypeOK, NoReference
<1>5. GivingUp(c)' => GivingUp(c) /\ ptr'[c] = ptr[c]
  BY <1>a DEF Drop, TypeOK, locals, Goto, GivingUp, MayMove
<1>6. lock' = lock \/ {lock, lock'} \subseteq {c, None}
  BY <1>b DEF Drop, CogOk, LockOk, Critical, MayMove
<1>7. MineInv' /\ RegInv' /\ HubInv'
  <2>1. MineInv' /\ HubInv'
    BY <1>c, <1>e DEF MineInv, HubInv, Allocated
  <2>2. \A d \in Cogs : reg'[d] \subseteq reg[d]
    BY <1>a, <1>e DEF TypeOK
  <2>3. RegInv'
    BY <1>c, <1>e, <2>2 DEF RegInv, Allocated, Private
  <2> QED
    BY <2>1, <2>3
<1>8. CogOk(c)'
  <2>1. LockOk(c)' /\ CallOk(c)'
    BY <1>a, <1>b DEF Drop, CogOk, TypeOK, heap, locals, refs, Goto, LockOk, CallOk, Critical, MayMove
  <2>2. AllocOk(c)'
    BY <1>a, <1>b, <1>3 DEF Drop, CogOk, TypeOK, heap, locals, refs, Goto, AllocOk, MayMove
  <2>3. FreeOk(c)'
    BY <1>a, <1>b, <1>3, <1>4 DEF Drop, CogOk, TypeOK, heap, locals, refs, Goto, FreeOk, GivingUp, Allocated, Blocks, MayMove
  <2>4. CollectOk(c)'
    BY <1>a, <1>b DEF Drop, CogOk, TypeOK, heap, locals, refs, Goto, CollectOk, Sweeping, WordOk, FlagsOf, Shared, Blocks, Allocated, MayMove
  <2>5. SoleOk(c)'
    BY DEF Drop, MayMove, SoleOk, Sweeping
  <2> QED
    BY <2>1, <2>2, <2>3, <2>4, <2>5 DEF CogOk
<1> QED
  BY <1>1, <1>2, <1>3, <1>4, <1>5, <1>6, <1>7, <1>8, Quiet

\* _gc_manage reads the flags of a block that is its caller's.
LEMMA ManageReadStep == ASSUME Disciplined, HeapInv, NEW c \in Cogs, ManageRead(c) PROVE HeapInv'
<1>a. TypeOK
  BY DEF HeapInv
<1>b. CogOk(c)
  BY DEF HeapInv
<1>c. MineInv /\ RegInv /\ HubInv /\ GiveInv
  BY DEF HeapInv
<1>d. PICK p \in mine[c] : /\ ptr' = [ptr EXCEPT ![c] = p]
                           /\ word' = [word EXCEPT ![c] = FlagsOf(p)]
  BY DEF ManageRead
<1>e. /\ pc[c] = "idle" /\ pc' = [pc EXCEPT ![c] = "manage"] /\ c \in Managers
      /\ UNCHANGED <<heap, lock, op, req, last, nxt, scan, refs>>
  BY DEF ManageRead, Goto, Managers
<1>f. p \in Pages /\ p \in 0 .. NPages + 1 /\ FlagsOf(p) \in Flags
  <2>1. p \in Pages
    BY <1>a DEF TypeOK
  <2> QED
    BY <1>a, <2>1, RecordFacts, PageFacts DEF Pages
<1>g. ptr'[c] = p /\ word'[c] = FlagsOf(p) /\ pc'[c] = "manage"
  BY <1>a, <1>d, <1>e DEF TypeOK
<1>1. TypeOK'
  <2>1. ptr' \in [Cogs -> 0 .. NPages + 1] /\ word' \in [Cogs -> Flags]
    BY <1>a, <1>d, <1>f DEF TypeOK
  <2>2. pc' \in [Cogs -> Places]
    BY <1>a, <1>e DEF TypeOK, Places
  <2> QED
    BY <1>a, <1>e, <2>1, <2>2 DEF TypeOK, heap, refs
<1>2. /\ UNCHANGED heap
      /\ \A d \in Cogs \ {c} :
           /\ pc'[d] = pc[d] /\ op'[d] = op[d] /\ req'[d] = req[d] /\ ptr'[d] = ptr[d]
           /\ last'[d] = last[d] /\ nxt'[d] = nxt[d] /\ scan'[d] = scan[d]
           /\ word'[d] = word[d] /\ reg'[d] = reg[d] /\ mine'[d] = mine[d]
  BY <1>a, <1>d, <1>e DEF TypeOK, refs
<1>3. FreeBlocks' = FreeBlocks
  BY <1>a, <1>d, <1>e DEF TypeOK, heap, FreeBlocks
<1>4. \A q \in Pages : NoReference(q) => NoReference(q)'
  BY <1>e DEF refs, NoReference
<1>5. ~ GivingUp(c)'
  BY <1>g DEF GivingUp
<1>6. MineInv' /\ RegInv' /\ HubInv'
  BY <1>c, <1>e DEF heap, refs, MineInv, RegInv, HubInv, Allocated, Private, Shared
<1>7. CogOk(c)'
  <2>1. LockOk(c)' /\ CallOk(c)'
    BY <1>b, <1>e, <1>g DEF CogOk, LockOk, CallOk, Critical
  <2>2. AllocOk(c)' /\ FreeOk(c)' /\ SoleOk(c)'
    BY <1>g DEF AllocOk, FreeOk, SoleOk, Sweeping
  <2>3. CollectOk(c)'
    <3>1. WordOk(c)'
      BY <1>e, <1>g DEF heap, FlagsOf, WordOk
    <3>2. p \in mine'[c]
      BY <1>d, <1>e DEF refs
    <3> QED
      BY <1>e, <1>g, <3>1, <3>2 DEF CollectOk, Sweeping
  <2> QED
    BY <2>1, <2>2, <2>3 DEF CogOk
<1> QED
  BY <1>1, <1>2, <1>3, <1>4, <1>5, <1>6, <1>7, <1>e, Quiet

\* _gc_manage takes the mark off its block and hands it to the collector.  A
\* mark in use that a collection has set or cleared since may be lost or come
\* back; with one cog nothing comes between the read and the write.
LEMMA ManageWriteStep == ASSUME Disciplined, HeapInv, NEW c \in Cogs, ManageWrite(c) PROVE HeapInv'
<1>a. TypeOK /\ MineInv /\ RegInv /\ HubInv /\ GiveInv
  BY DEF HeapInv
<1>b. CogOk(c)
  BY DEF HeapInv
<1>d. PICK p : p = ptr[c]
  OBVIOUS
<1>e. /\ pc[c] = "manage" /\ c \in Managers /\ p \in mine[c] /\ p \in Pages
      /\ Allocated(p) /\ "reserved" \in bits[p]
  BY <1>a, <1>b, <1>d DEF ManageWrite, CogOk, CollectOk, MineInv, Allocated
<1>o. /\ word[c].owner = owner[p] /\ word[c] \in Flags
      /\ Sole => word[c].bits = bits[p]
  BY <1>a, <1>b, <1>d, <1>e DEF CogOk, CollectOk, WordOk, FlagsOf, TypeOK
<1>f. /\ owner' = owner /\ bits' = [bits EXCEPT ![p] = word[c].bits \ {"reserved"}]
      /\ mine' = [mine EXCEPT ![c] = @ \ {p}] /\ ptr' = [ptr EXCEPT ![c] = 0]
      /\ word' = [word EXCEPT ![c] = NoWord] /\ pc' = [pc EXCEPT ![c] = "idle"]
      /\ UNCHANGED <<size, prev, link, lock, op, req, last, nxt, scan, hub, reg, stale>>
  BY <1>a, <1>d, <1>e, <1>o DEF ManageWrite, SetFlags, Goto, TypeOK
\* Nobody else knows the block, unless there is nobody else.
<1>g. \A d \in Cogs \ {c} :
        /\ owner[p] = c /\ ~ Sole
        /\ p \notin mine[d] /\ p \notin reg[d]
        /\ \A a \in Cells : hub[a] # p
  BY <1>e, MineManaged, NotSole
<1>h. /\ pc'[c] = "idle" /\ ptr'[c] = 0 /\ mine'[c] = mine[c] \ {p}
      /\ \A q \in Pages \ {p} : bits'[q] = bits[q]
      /\ \A q : Allocated(q)' <=> Allocated(q)
      /\ \A d \in Cogs \ {c} : /\ pc'[d] = pc[d] /\ ptr'[d] = ptr[d] /\ word'[d] = word[d]
                               /\ mine'[d] = mine[d]
      /\ \A d \in Cogs : mine'[d] \subseteq mine[d]
  BY <1>a, <1>e, <1>f DEF TypeOK, Allocated
<1>1. TypeOK'
  <2>1. bits' \in [Pages -> SUBSET MarkBits] /\ mine' \in [Cogs -> SUBSET Pages]
    <3>1. word[c].bits \in SUBSET MarkBits
      BY <1>a, <1>o, RecordFacts
    <3> QED
      BY <1>a, <1>f, <3>1 DEF TypeOK
  <2>2. ptr' \in [Cogs -> 0 .. NPages + 1]
    <3>1. 0 \in 0 .. NPages + 1
      BY PageFacts
    <3> QED
      BY <1>a, <1>f, <3>1 DEF TypeOK
  <2>3. word' \in [Cogs -> Flags]
    <3>1. NoWord \in Flags
      BY <1>a, RecordFacts
    <3> QED
      BY <1>a, <1>f, <3>1 DEF TypeOK
  <2>4. pc' \in [Cogs -> Places]
    BY <1>a, <1>f DEF TypeOK, Places
  <2> QED
    BY <1>a, <1>f, <2>1, <2>2, <2>3, <2>4 DEF TypeOK
<1>2. MarkInv'
  BY <1>e, <1>h DEF HeapInv, MarkInv
<1>3. Blocks' = Blocks /\ FreeBlocks' = FreeBlocks
  <2>1. \A q : \A d \in Cogs : (pc'[d] \in {"back", "merge"} /\ ptr'[d] = q)
                           <=> (pc[d] \in {"back", "merge"} /\ ptr[d] = q)
    BY <1>e, <1>h
  <2> QED
    BY <1>f, <2>1 DEF Blocks, FreeBlocks
<1>4. HeapTiling'
  BY <1>3, <1>f DEF HeapInv, HeapTiling, NextBlock
<1>5. FreeListExact'
  BY <1>3, <1>f DEF HeapInv, FreeListExact, Consecutive
<1>6. MineInv'
  <2>1. ASSUME NEW d \in Cogs, NEW q \in mine'[d]
        PROVE  q \in mine[d] /\ q \in Pages \ {p}
    <3>1. q \in mine[d] /\ q \in Pages
      BY <1>a, <1>h DEF TypeOK
    <3> QED
      BY <1>g, <1>h, <3>1
  <2> QED
    BY <1>a, <1>f, <1>h, <2>1 DEF MineInv
<1>7. RegInv' /\ HubInv'
  <2>1. ASSUME NEW d \in Cogs, NEW q \in reg[d]
        PROVE  /\ Allocated(q)'
               /\ Private(d, q)' \/ (\E e \in Cogs \ Managers : q \in mine'[e]) \/ Sole
    <3>1. q \in Pages /\ Allocated(q)
      BY <1>a DEF RegInv, Allocated
    <3>2. CASE q = p /\ d # c
      BY <1>g, <3>2
    <3>3. CASE q = p /\ d = c
      BY <1>e, <1>f, <1>h, <3>1, <3>3, MineManaged DEF Private
    <3>4. CASE q # p
      BY <1>a, <1>e, <1>f, <1>h, <3>1, <3>4 DEF RegInv, Private
    <3> QED
      BY <1>h, <3>1, <3>2, <3>3, <3>4
  <2>2. RegInv'
    BY <1>f, <2>1 DEF RegInv
  <2>3. ASSUME NEW a \in Cells, hub[a] # 0
        PROVE  (\E d \in Cogs \ Managers : hub[a] \in mine'[d]) \/ (Sole /\ Allocated(hub[a])')
    BY <1>a, <1>e, <1>f, <1>h, <2>3 DEF HubInv, Allocated
  <2>4. HubInv'
    <3>1. \A a \in Cells : Allocated(hub[a])' <=> Allocated(hub[a])
      BY <1>f DEF Allocated
    <3> QED
      BY <1>a, <1>f, <1>h, <2>3, <3>1 DEF HubInv
  <2> QED
    BY <2>2, <2>4
<1>n. \A q : NoReference(q) => NoReference(q)' /\ q # p
  BY <1>e, <1>f, <1>h DEF NoReference
<1>k. \A d \in Cogs : GivingUp(d)' => d # c /\ GivingUp(d) /\ ptr'[d] = ptr[d]
  BY <1>f, <1>h DEF GivingUp
<1>8. GiveInv'
  <2> SUFFICES ASSUME NEW d \in Cogs, GivingUp(d)'
               PROVE  /\ Allocated(ptr[d])' /\ NoReference(ptr[d])'
                      /\ (Private(d, ptr[d]) \/ Shared(ptr[d]) \/ Sole)'
                      /\ \A e \in Cogs \ {d} : GivingUp(e)' => ptr'[e] # ptr'[d]
    BY DEF GiveInv
  <2>1. PICK q : q = ptr[d]
    OBVIOUS
  <2>2. /\ Allocated(q) /\ NoReference(q) /\ q \in Pages
        /\ Private(d, q) \/ Shared(q) \/ Sole
        /\ d # c /\ ptr'[d] = q
    BY <1>a, <1>k, <2>1 DEF GiveInv, Allocated
  <2>3. q # p /\ bits'[q] = bits[q]
    BY <1>h, <1>n, <2>2
  <2>4. \A e \in Cogs \ {d} : GivingUp(e)' => ptr'[e] # ptr'[d]
    BY <1>a, <1>k DEF GiveInv
  <2>5. Allocated(ptr[d])' /\ NoReference(ptr[d])'
    BY <1>f, <1>n, <2>2 DEF Allocated, NoReference
  <2>6. (Private(d, ptr[d]) \/ Shared(ptr[d]) \/ Sole)'
    BY <1>f, <2>2, <2>3 DEF Private, Shared, Sole
  <2> QED
    BY <2>4, <2>5, <2>6
<1>9. ASSUME NEW d \in Cogs PROVE CogOk(d)'
  <2>1. CASE d = c
    BY <1>b, <1>e, <1>f, <1>h, <2>1
    DEF CogOk, LockOk, CallOk, AllocOk, FreeOk, CollectOk, SoleOk, Sweeping, Critical
  <2>2. CASE d # c
    <3>a. CogOk(d) /\ ~ Sole
      BY <1>g, <2>2 DEF HeapInv
    <3>1. LockOk(d)' /\ CallOk(d)'
      BY <1>f, <1>h, <2>2, <3>a DEF CogOk, LockOk, CallOk
    <3>2. AllocOk(d)'
      BY <1>f, <1>h, <1>3, <2>2, <3>a DEF CogOk, AllocOk
    <3>3. FreeOk(d)'
      <4>1. pc[d] = "dofree" => (Allocated(ptr[d]) /\ NoReference(ptr[d]))'
        BY <1>f, <1>h, <1>n, <2>2, <3>a DEF CogOk, FreeOk, Allocated, NoReference
      <4>2. pc[d] = "dofree" => \A e \in Cogs \ {d} : GivingUp(e)' => ptr'[e] # ptr'[d]
        BY <1>k, <1>h, <2>2, <3>a DEF CogOk, FreeOk
      <4> QED
        BY <1>f, <1>h, <1>3, <2>2, <3>a, <4>1, <4>2 DEF CogOk, FreeOk
    <3>4. CollectOk(d)'
      <4>1. pc[d] \in {"manage", "clearwrite"} => WordOk(d)'
        <5>1. pc[d] \in {"manage", "clearwrite"} => WordOk(d) /\ ptr[d] \in Pages
          BY <1>a, <2>2, <3>a DEF CogOk, CollectOk, Blocks, TypeOK
        <5>2. CASE ptr[d] # p
          BY <1>f, <1>h, <2>2, <3>a, <5>1, <5>2 DEF WordOk, FlagsOf, Sole
        <5>3. CASE ptr[d] = p
          <6>1. owner'[p] = c /\ ptr'[d] = p /\ word'[d] = word[d]
            BY <1>f, <1>g, <1>h, <2>2, <5>3
          <6>2. WordOk(d) => word[d].owner = c /\ "reserved" \in word[d].bits
            BY <1>e, <1>g, <2>2, <5>3 DEF WordOk, FlagsOf
          <6> QED
            BY <1>e, <3>a, <5>1, <6>1, <6>2 DEF WordOk, Sole
        <5> QED
          BY <5>2, <5>3
      <4>2. pc[d] = "scanwrite" =>
              (Allocated(ptr[d]) /\ word[d] = FlagsOf(ptr[d]) /\ (Shared(ptr[d]) \/ Sole))'
        <5>1. pc[d] = "scanwrite" =>
                /\ Allocated(ptr[d]) /\ word[d] = FlagsOf(ptr[d]) /\ Shared(ptr[d])
                /\ ptr[d] # p /\ ptr[d] \in Pages
          BY <1>e, <1>g, <2>2, <3>a DEF CogOk, CollectOk, Shared, Allocated
        <5> QED
          BY <1>f, <1>h, <2>2, <5>1 DEF Shared, FlagsOf, Allocated
      <4>3. Sweeping(d) => \A q \in reg[d] : bits'[q] = bits[q]
        BY <1>a, <1>g, <1>h, <2>2 DEF TypeOK
      <4> QED
        BY <1>f, <1>h, <1>3, <2>2, <3>a, <4>1, <4>2, <4>3 DEF CogOk, CollectOk, Sweeping
    <3>5. SoleOk(d)'
      BY <3>a DEF SoleOk, Sole
    <3> QED
      BY <3>1, <3>2, <3>3, <3>4, <3>5 DEF CogOk
  <2> QED
    BY <2>1, <2>2
<1> QED
  BY <1>1, <1>2, <1>4, <1>5, <1>6, <1>7, <1>8, <1>9 DEF HeapInv

\* The lock keeps every other cog out of the locked parts.
LEMMA Alone ==
  ASSUME HeapInv, NEW c \in Cogs, pc[c] \in Critical
  PROVE  /\ lock = c
         /\ \A d \in Cogs \ {c} : pc[d] \notin Critical
BY DEF HeapInv, CogOk, LockOk

\* A step of a collection that changes marks only.
LEMMA Marking ==
  ASSUME Disciplined, HeapInv, NEW c \in Cogs, TypeOK',
         pc[c] \in {"clearwrite", "scanwrite", "scan"},
         pc'[c] \in {"clear", "scan", "sweep"},
         UNCHANGED <<size, prev, link, lock, op, req, refs>>,
         \A d \in Cogs \ {c} : pc'[d] = pc[d] /\ ptr'[d] = ptr[d] /\ word'[d] = word[d],
         \A p \in Pages :
           /\ "reserved" \in bits[p] => "reserved" \in bits'[p]
           /\ "reserved" \in bits'[p] => "reserved" \in bits[p] \/ owner[p] \in Managers
           /\ \/ owner'[p] = owner[p]
              \/ owner'[p] = Hub /\ Allocated(p) /\ (Shared(p) \/ Sole)
           /\ ~ Allocated(p) => bits'[p] = {},
         CogOk(c)'
  PROVE  HeapInv'
<1>a. TypeOK /\ MineInv /\ RegInv /\ HubInv /\ GiveInv
  BY DEF HeapInv
<1>b. \A d \in Cogs \ {c} : pc[d] \notin Critical
  BY Alone DEF Critical
<1>c. \A p : Allocated(p)' <=> Allocated(p)
  BY GcAssumption DEF Allocated, Hub
<1>1. MarkInv'
  BY <1>c DEF MarkInv
<1>2. Blocks' = Blocks /\ FreeBlocks' = FreeBlocks
  <2>1. \A p \in Pages : (owner'[p] = None <=> owner[p] = None) /\ (owner'[p] = Free <=> owner[p] = Free)
    BY <1>c, GcAssumption DEF Allocated, Hub, Free, None
  <2>2. \A d \in Cogs : pc[d] \notin {"back", "merge"} /\ pc'[d] \notin {"back", "merge"}
    BY <1>b DEF Critical
  <2> QED
    BY <2>1, <2>2 DEF Blocks, FreeBlocks
<1>3. HeapTiling'
  BY <1>2 DEF HeapInv, HeapTiling, NextBlock
<1>4. FreeListExact'
  BY <1>2 DEF HeapInv, FreeListExact, Consecutive
<1>p. Hub \notin Managers
  BY GcAssumption DEF Managers
<1>d. \A p \in Pages : /\ Shared(p) => Shared(p)'
                       /\ \A d \in Cogs : Private(d, p) => Private(d, p)' \/ Sole
  <2>1. \A p \in Pages : Shared(p) => Shared(p)'
    BY <1>p DEF Shared
  <2>2. ASSUME NEW p \in Pages, NEW d \in Cogs, Private(d, p), ~ Sole PROVE Private(d, p)'
    <3>1. ~ Shared(p)
      BY <2>2 DEF Private, Shared
    <3> QED
      BY <2>2, <3>1 DEF Private
  <2> QED
    BY <2>1, <2>2
<1>5. MineInv'
  <2>1. mine' = mine
    BY DEF refs
  <2>2. ASSUME NEW d \in Cogs, NEW p \in mine[d]
        PROVE  /\ Allocated(p)' /\ "reserved" \in bits'[p]
               /\ owner'[p] = d \/ (owner'[p] = Hub /\ d \notin Managers) \/ Sole
    <3>1. /\ p \in Pages /\ Allocated(p) /\ "reserved" \in bits[p]
          /\ owner[p] = d \/ (owner[p] = Hub /\ d \notin Managers) \/ Sole
      BY <1>a DEF MineInv, Allocated
    <3> QED
      BY <1>c, <3>1 DEF Shared
  <2> QED
    BY <1>a, <2>1, <2>2 DEF MineInv, Allocated
<1>6. RegInv'
  <2> SUFFICES ASSUME NEW d \in Cogs, NEW p \in reg[d]
               PROVE  /\ Allocated(p)'
                      /\ \/ Private(d, p)'
                         \/ (\E e \in Cogs \ Managers : p \in mine[e]) \/ Sole
    BY DEF RegInv, refs, Private, Allocated
  <2>1. p \in Pages /\ Allocated(p)'
    BY <1>a, <1>c DEF RegInv, Allocated
  <2> QED
    BY <1>a, <1>d, <2>1 DEF RegInv
<1>7. HubInv'
  BY <1>a, <1>c DEF HubInv, refs, Allocated
<1>8. GiveInv'
  <2>1. \A d \in Cogs : GivingUp(d)' => d # c /\ GivingUp(d) /\ ptr'[d] = ptr[d]
    BY DEF GivingUp
  <2>2. \A p : NoReference(p)' <=> NoReference(p)
    BY DEF NoReference, refs
  <2> SUFFICES ASSUME NEW d \in Cogs, GivingUp(d)'
               PROVE  /\ Allocated(ptr[d])' /\ NoReference(ptr[d])'
                      /\ (Private(d, ptr[d]) \/ Shared(ptr[d]) \/ Sole)'
                      /\ \A e \in Cogs \ {d} : GivingUp(e)' => ptr'[e] # ptr'[d]
    BY DEF GiveInv
  <2>3. /\ Allocated(ptr[d]) /\ NoReference(ptr[d]) /\ ptr[d] \in Pages
        /\ Private(d, ptr[d]) \/ Shared(ptr[d]) \/ Sole
    BY <1>a, <2>1 DEF GiveInv, Allocated
  <2>4. Allocated(ptr[d])' /\ NoReference(ptr[d])'
    <3>1. Allocated(ptr[d])'
      BY <1>c, <2>1, <2>3 DEF Allocated
    <3>2. NoReference(ptr[d])'
      BY <2>1, <2>3 DEF NoReference, refs
    <3> QED
      BY <3>1, <3>2
  <2>5. \A e \in Cogs \ {d} : GivingUp(e)' => ptr'[e] # ptr'[d]
    BY <1>a, <2>1 DEF GiveInv
  <2>6. (Private(d, ptr[d]) \/ Shared(ptr[d]) \/ Sole)'
    <3>1. PICK q : q = ptr[d]
      OBVIOUS
    <3>2. Private(d, q)' \/ Shared(q)' \/ Sole
      BY <1>d, <2>3, <3>1
    <3>3. ptr'[d] = q
      BY <2>1, <3>1
    <3>4. owner'[q] = owner'[ptr'[d]] /\ bits'[q] = bits'[ptr'[d]]
      BY <3>3
    <3> QED
      BY <3>2, <3>4 DEF Private, Shared, Sole
  <2> QED
    BY <2>4, <2>5, <2>6
<1>9. ASSUME NEW d \in Cogs \ {c} PROVE CogOk(d)'
  <2>1. pc'[d] \notin Critical
    BY <1>b
  <2>2. CallOk(d)' /\ LockOk(d)'
    BY <2>1 DEF HeapInv, CogOk, CallOk, LockOk, Critical
  <2>3. AllocOk(d)'
    BY <2>1 DEF HeapInv, CogOk, AllocOk, Critical, refs
  <2>4. FreeOk(d)' /\ CollectOk(d)'
    <3>1. pc[d] = "manage" => d \in Managers /\ ptr[d] \in mine[d] /\ WordOk(d)
      BY DEF HeapInv, CogOk, CollectOk
    <3>2. ASSUME pc[d] = "manage" PROVE WordOk(d)'
      <4>1. /\ ptr[d] \in Pages /\ "reserved" \in bits[ptr[d]]
            /\ owner[ptr[d]] = d /\ d \in Managers /\ ~ Sole
        BY <3>1, <3>2, MineManaged, NotSole DEF Allocated
      <4>2. owner'[ptr[d]] = d
        BY <4>1 DEF Shared
      <4>3. word[d].owner = d /\ "reserved" \in word[d].bits
        BY <3>1, <3>2, <4>1 DEF WordOk, FlagsOf
      <4> QED
        BY <4>1, <4>2, <4>3 DEF WordOk, Sole
    <3> QED
      BY <2>1, <3>1, <3>2 DEF FreeOk, CollectOk, Sweeping, Critical, refs
  <2>5. SoleOk(d)'
    BY NotSole DEF HeapInv, CogOk, SoleOk
  <2> QED
    BY <2>2, <2>3, <2>4, <2>5 DEF CogOk
<1> QED
  BY <1>1, <1>3, <1>4, <1>5, <1>6, <1>7, <1>8, <1>9 DEF HeapInv

\* Writing a flags word back, its mark cleared.
LEMMA ClearWriteStep == ASSUME Disciplined, HeapInv, NEW c \in Cogs, ClearWrite(c) PROVE HeapInv'
<1>a. TypeOK
  BY DEF HeapInv
<1>b. CogOk(c)
  BY DEF HeapInv
<1>d. PICK p : p = ptr[c]
  OBVIOUS
<1>e. /\ pc[c] = "clearwrite" /\ p \in Blocks /\ p \in Pages
      /\ NextBlock(p) \in Blocks \cup {NPages + 1}
  BY <1>b, <1>d DEF ClearWrite, CogOk, CollectOk, Sweeping, Blocks, HeapInv, HeapTiling
<1>o. /\ word[c].owner = owner[p] /\ word[c] \in Flags
      /\ \/ word[c].bits = bits[p]
         \/ owner[p] \in Managers /\ "reserved" \in word[c].bits
  BY <1>a, <1>b, <1>d, <1>e DEF CogOk, CollectOk, WordOk, FlagsOf, TypeOK
<1>f. owner' = owner /\ bits' = [bits EXCEPT ![p] = word[c].bits \ {"inuse"}]
  BY <1>a, <1>d, <1>e, <1>o DEF ClearWrite, SetFlags, TypeOK
<1>g. \/ /\ NextBlock(p) \in Blocks
         /\ ptr' = [ptr EXCEPT ![c] = NextBlock(p)] /\ pc' = [pc EXCEPT ![c] = "clear"]
      \/ ptr' = [ptr EXCEPT ![c] = 0] /\ pc' = [pc EXCEPT ![c] = "scan"]
  BY <1>d, <1>e, PageFacts DEF ClearWrite, Goto, Blocks
<1>h. /\ scan' = [scan EXCEPT ![c] = 1] /\ word' = [word EXCEPT ![c] = NoWord]
      /\ UNCHANGED <<size, prev, link, lock, op, req, last, nxt, refs>>
  BY DEF ClearWrite
<1>1. TypeOK'
  <2>1. bits' \in [Pages -> SUBSET MarkBits]
    <3>1. word[c].bits \in SUBSET MarkBits
      BY <1>a, <1>o, RecordFacts
    <3> QED
      BY <1>a, <1>f, <3>1 DEF TypeOK
  <2>2. ptr' \in [Cogs -> 0 .. NPages + 1]
    <3>1. Blocks \cup {0} \subseteq 0 .. NPages + 1
      BY PageFacts DEF Blocks, Pages
    <3>2. ptr \in [Cogs -> 0 .. NPages + 1]
      BY <1>a DEF TypeOK
    <3> QED
      BY <1>g, <3>1, <3>2
  <2>3. pc' \in [Cogs -> Places]
    BY <1>a, <1>g DEF TypeOK, Places, Critical
  <2>4. scan' \in [Cogs -> 0 .. NCells + 1]
    BY <1>a, <1>h, GcAssumption DEF TypeOK
  <2>5. word' \in [Cogs -> Flags]
    <3>1. NoWord \in Flags
      BY <1>a, RecordFacts
    <3> QED
      BY <1>a, <1>h, <3>1 DEF TypeOK
  <2> QED
    BY <1>a, <1>f, <1>h, <2>1, <2>2, <2>3, <2>4, <2>5 DEF TypeOK, refs
<1>2. /\ pc'[c] \in {"clear", "scan"}
      /\ pc'[c] = "clear" => ptr'[c] \in Blocks
      /\ scan'[c] = 1 /\ op' = op /\ Blocks' = Blocks
      /\ \A d \in Cogs \ {c} : pc'[d] = pc[d] /\ ptr'[d] = ptr[d] /\ word'[d] = word[d]
  BY <1>a, <1>f, <1>g, <1>h DEF TypeOK, Blocks
<1>3. CogOk(c)'
  <2>1. LockOk(c)' /\ CallOk(c)'
    BY <1>b, <1>e, <1>h, <1>2 DEF CogOk, LockOk, CallOk, Critical
  <2>2. SoleOk(c)'
    <3>1. \A a \in Cells : a \in Int /\ a >= 1
      BY DEF Cells
    <3> QED
      BY <1>2, <3>1 DEF SoleOk, Sweeping
  <2> QED
    BY <1>2, <2>1, <2>2 DEF CogOk, AllocOk, FreeOk, CollectOk, Sweeping
<1>4. \A q \in Pages :
        /\ "reserved" \in bits[q] => "reserved" \in bits'[q]
        /\ "reserved" \in bits'[q] => "reserved" \in bits[q] \/ owner[q] \in Managers
        /\ ~ Allocated(q) => bits'[q] = {}
  <2>1. \A q \in Pages : bits'[q] = IF q = p THEN word[c].bits \ {"inuse"} ELSE bits[q]
    BY <1>a, <1>f DEF TypeOK
  <2>2. "reserved" \in bits[p] => "reserved" \in word[c].bits
    BY <1>o
  <2>3. ~ Allocated(p) => word[c].bits = {}
    <3>1. owner[p] \in Managers => Allocated(p)
      BY <1>e DEF Managers, Allocated
    <3> QED
      BY <1>e, <1>o, <3>1 DEF HeapInv, MarkInv
  <2> QED
    BY <1>o, <2>1, <2>2, <2>3 DEF HeapInv, MarkInv
<1> QED
  BY <1>1, <1>2, <1>3, <1>4, <1>e, <1>f, <1>h, Marking

\* _gc_markhub takes over reserved blocks only.
LEMMA ScanWriteStep == ASSUME Disciplined, HeapInv, NEW c \in Cogs, ScanWrite(c) PROVE HeapInv'
<1>a. TypeOK
  BY DEF HeapInv
<1>b. CogOk(c)
  BY DEF HeapInv
<1>d. PICK p : p = ptr[c]
  OBVIOUS
<1>e. /\ pc[c] = "scanwrite" /\ Allocated(p) /\ p \in Pages /\ word[c] = FlagsOf(p)
      /\ Shared(p) \/ Sole
  BY <1>b, <1>d DEF ScanWrite, CogOk, CollectOk, Sweeping, Allocated
<1>f. /\ owner' = [owner EXCEPT ![p] = Hub]
      /\ bits' = [bits EXCEPT ![p] = @ \cup {"inuse"}]
  BY <1>a, <1>d, <1>e DEF ScanWrite, SetFlags, FlagsOf, TypeOK
<1>h. /\ pc' = [pc EXCEPT ![c] = "scan"] /\ ptr' = [ptr EXCEPT ![c] = 0]
      /\ word' = [word EXCEPT ![c] = NoWord]
      /\ UNCHANGED <<size, prev, link, lock, op, req, last, nxt, scan, refs>>
  BY DEF ScanWrite, Goto
<1>i. scan[c] >= 1
  BY <1>b, <1>e DEF CogOk, CollectOk, Sweeping
<1>1. TypeOK'
  <2>1. bits' \in [Pages -> SUBSET MarkBits]
    BY <1>a, <1>f DEF TypeOK, MarkBits
  <2>2. owner' \in [Pages -> Cogs \cup {Free, Hub, None}]
    BY <1>a, <1>f DEF TypeOK
  <2>3. ptr' \in [Cogs -> 0 .. NPages + 1]
    <3>1. 0 \in 0 .. NPages + 1
      BY PageFacts
    <3> QED
      BY <1>a, <1>h, <3>1 DEF TypeOK
  <2>4. pc' \in [Cogs -> Places]
    BY <1>a, <1>h DEF TypeOK, Places, Critical
  <2>5. word' \in [Cogs -> Flags]
    <3>1. NoWord \in Flags
      BY <1>a, RecordFacts
    <3> QED
      BY <1>a, <1>h, <3>1 DEF TypeOK
  <2> QED
    BY <1>a, <1>h, <2>1, <2>2, <2>3, <2>4, <2>5 DEF TypeOK, refs
<1>2. /\ pc'[c] = "scan" /\ scan' = scan /\ op' = op /\ lock' = lock
      /\ \A d \in Cogs \ {c} : pc'[d] = pc[d] /\ ptr'[d] = ptr[d] /\ word'[d] = word[d]
  BY <1>a, <1>h DEF TypeOK
<1>3. CogOk(c)'
  <2>1. LockOk(c)' /\ CallOk(c)'
    BY <1>b, <1>e, <1>h, <1>2 DEF CogOk, LockOk, CallOk, Critical
  <2>2. SoleOk(c)'
    <3>1. \A q \in Pages : "inuse" \in bits[q] \/ q = p => "inuse" \in bits'[q]
      BY <1>a, <1>f DEF TypeOK
    <3>2. \A a \in Cells : Sole /\ hub[a] # 0 => hub[a] \in Pages
      BY DEF HeapInv, HubInv, MineInv, Allocated
    <3>3. \A a \in Cells : Sole /\ a < scan[c] /\ hub[a] # 0 => "inuse" \in bits[hub[a]] \/ hub[a] = p
      BY <1>b, <1>d, <1>e DEF CogOk, SoleOk
    <3>4. hub' = hub
      BY <1>h DEF refs
    <3> QED
      BY <1>2, <3>1, <3>2, <3>3, <3>4 DEF SoleOk, Sweeping
  <2> QED
    BY <1>2, <1>i, <2>1, <2>2 DEF CogOk, AllocOk, FreeOk, CollectOk, Sweeping
<1>4. \A q \in Pages :
        /\ "reserved" \in bits'[q] <=> "reserved" \in bits[q]
        /\ \/ owner'[q] = owner[q]
           \/ owner'[q] = Hub /\ Allocated(q) /\ (Shared(q) \/ Sole)
        /\ ~ Allocated(q) => bits'[q] = {}
  BY <1>a, <1>e, <1>f DEF HeapInv, MarkInv, TypeOK
<1> QED
  BY <1>1, <1>2, <1>3, <1>4, <1>e, <1>h, Marking

\* After _gc_markcog every block the cog's registers point to carries a mark.
LEMMA MarkCogStep == ASSUME Disciplined, HeapInv, NEW c \in Cogs, MarkCog(c) PROVE HeapInv'
<1>a. TypeOK
  BY DEF HeapInv
<1>b. CogOk(c)
  BY DEF HeapInv
<1>d. \A p \in reg[c] : p \in Pages /\ Allocated(p) /\ IsValidPtr(p)
  BY PageFacts, GcAssumption DEF HeapInv, RegInv, Allocated, IsValidPtr, None, Hub
<1>e. /\ pc[c] = "scan"
      /\ \A p \in Pages : bits'[p] = IF p \in reg[c] THEN bits[p] \cup {"inuse"} ELSE bits[p]
      /\ bits' \in [Pages -> SUBSET MarkBits]
  <2>1. stale[c] = {}
    BY DEF HeapInv, HubInv
  <2>2. bits' = [p \in Pages |-> IF p \in reg[c] THEN bits[p] \cup {"inuse"} ELSE bits[p]]
    BY <1>d, <2>1 DEF MarkCog
  <2>3. bits \in [Pages -> SUBSET MarkBits] /\ "inuse" \in MarkBits
    BY <1>a DEF TypeOK, MarkBits
  <2> QED
    BY <2>2, <2>3 DEF MarkCog
<1>h. /\ pc' = [pc EXCEPT ![c] = "sweep"] /\ nxt' = [nxt EXCEPT ![c] = 1]
      /\ scan' = [scan EXCEPT ![c] = 0]
      /\ UNCHANGED <<size, prev, link, owner, lock, op, req, ptr, last, word, refs>>
  BY DEF MarkCog, Goto
<1>1. TypeOK'
  <2>1. nxt' \in [Cogs -> 0 .. NPages + 1]
    <3>1. 1 \in 0 .. NPages + 1
      BY PageFacts
    <3> QED
      BY <1>a, <1>h, <3>1 DEF TypeOK
  <2>2. scan' \in [Cogs -> 0 .. NCells + 1]
    BY <1>a, <1>h, GcAssumption DEF TypeOK
  <2>3. pc' \in [Cogs -> Places]
    BY <1>a, <1>h DEF TypeOK, Places, Critical
  <2> QED
    BY <1>a, <1>e, <1>h, <2>1, <2>2, <2>3 DEF TypeOK, refs
<1>2. /\ pc'[c] = "sweep" /\ nxt'[c] = 1 /\ op' = op /\ lock' = lock /\ Blocks' = Blocks
      /\ 1 \in Blocks
      /\ \A d \in Cogs \ {c} : pc'[d] = pc[d] /\ ptr'[d] = ptr[d] /\ word'[d] = word[d]
  BY <1>a, <1>h DEF TypeOK, Blocks, HeapInv, HeapTiling
<1>3. CogOk(c)'
  <2>1. LockOk(c)' /\ CallOk(c)'
    BY <1>b, <1>e, <1>h, <1>2 DEF CogOk, LockOk, CallOk, Critical
  <2>2. \A p \in reg'[c] : bits'[p] \cap {"inuse", "reserved"} # {}
    BY <1>d, <1>e, <1>h DEF refs
  <2>3. SoleOk(c)'
    <3>1. Sole => \A a \in Cells : a < scan[c]
      <4>1. Sole => ScanTop[c] = NCells
        BY DEF Sole
      <4> QED
        BY <1>a, <4>1, GcAssumption DEF MarkCog, TypeOK, Cells
    <3>2. Sole => \A a \in Cells : hub[a] # 0 => hub[a] \in Pages /\ "inuse" \in bits[hub[a]]
      BY <1>b, <1>e, <3>1 DEF CogOk, SoleOk, HeapInv, HubInv, MineInv, Allocated
    <3>3. \A q \in Pages : "inuse" \in bits[q] => "inuse" \in bits'[q]
      BY <1>e
    <3>4. hub' = hub
      BY <1>h DEF refs
    <3> QED
      BY <1>2, <3>2, <3>3, <3>4 DEF SoleOk, Sweeping
  <2> QED
    BY <1>2, <2>1, <2>2, <2>3 DEF CogOk, AllocOk, FreeOk, CollectOk, Sweeping
<1>4. \A q \in Pages :
        /\ "reserved" \in bits'[q] <=> "reserved" \in bits[q]
        /\ ~ Allocated(q) => bits'[q] = {}
  BY <1>a, <1>d, <1>e DEF HeapInv, MarkInv
<1> QED
  BY <1>1, <1>2, <1>3, <1>4, <1>e, <1>h, Marking

\* The numbers of a tiled heap.
LEMMA Tiles ==
  ASSUME Disciplined, HeapInv
  PROVE  /\ \A p \in Blocks :
              /\ p \in Int /\ 1 <= p /\ p <= NPages /\ p \in Pages
              /\ size[p] \in Int /\ size[p] >= 1
              /\ NextBlock(p) \in Int /\ p < NextBlock(p) /\ NextBlock(p) <= NPages + 1
              /\ NextBlock(p) \in Blocks \cup {NPages + 1}
              /\ \A q \in Blocks : q > p => q >= NextBlock(p)
         /\ \A p, q \in Blocks : NextBlock(p) = NextBlock(q) => p = q
<1>1. \A p \in Blocks : p \in Int /\ 1 <= p /\ p <= NPages /\ p \in Pages
  BY PageFacts DEF Blocks, Pages
<1>2. \A p \in Blocks : size[p] \in Int /\ size[p] >= 1
  BY <1>1, PageFacts DEF HeapInv, TypeOK, HeapTiling
<1>3. \A p \in Blocks : NextBlock(p) \in Int /\ p < NextBlock(p)
  BY <1>1, <1>2 DEF NextBlock
<1>4. \A p \in Blocks : /\ NextBlock(p) \in Blocks \cup {NPages + 1}
                        /\ \A q \in Blocks : q > p => q >= NextBlock(p)
  BY DEF HeapInv, HeapTiling
<1>5. \A p \in Blocks : NextBlock(p) <= NPages + 1
  BY <1>1, <1>4, PageFacts
<1>6. \A p, q \in Blocks : NextBlock(p) = NextBlock(q) => p = q
  BY <1>1, <1>3, <1>4
<1> QED
  BY <1>1, <1>2, <1>3, <1>4, <1>5, <1>6

\* The free list of a tiled heap.
LEMMA Links ==
  ASSUME Disciplined, HeapInv
  PROVE  /\ FreeBlocks \subseteq Blocks
         /\ \A p \in Blocks : owner[p] = Free =>
              p \in FreeBlocks \/ \E c \in Cogs : pc[c] \in {"back", "merge"} /\ ptr[c] = p
         /\ \A f \in FreeBlocks \cup {0} :
              /\ f \in Int /\ 0 <= f /\ f <= NPages
              /\ link[f] \in FreeBlocks \cup {0} /\ link[f] \in Int
              /\ link[f] # 0 => link[f] > f
              /\ \A g \in FreeBlocks : g > f => link[f] # 0 /\ g >= link[f]
         /\ \A f, h \in FreeBlocks \cup {0} : link[f] = link[h] /\ link[f] # 0 => f = h
<1>1. FreeBlocks \subseteq Blocks
  BY DEF FreeBlocks, Blocks, Free, None
<1>2. \A f \in FreeBlocks \cup {0} : f \in Int /\ 0 <= f /\ f <= NPages
  BY <1>1, Tiles, PageFacts
<1>3. \A f \in FreeBlocks \cup {0} :
        /\ link[f] \in FreeBlocks \cup {0} /\ link[f] \in Int
        /\ link[f] # 0 => link[f] > f
        /\ \A g \in FreeBlocks : g > f => link[f] # 0 /\ g >= link[f]
  BY <1>2 DEF HeapInv, FreeListExact, Consecutive
<1>4. \A f, h \in FreeBlocks \cup {0} : link[f] = link[h] /\ link[f] # 0 => f = h
  <2> SUFFICES ASSUME NEW f \in FreeBlocks \cup {0}, NEW h \in FreeBlocks \cup {0},
                      link[f] = link[h], link[f] # 0, f < h
               PROVE  FALSE
    BY <1>2
  <2>1. h \in FreeBlocks
    BY <1>2
  <2> QED
    BY <1>2, <1>3, <2>1
<1>5. \A p \in Blocks : owner[p] = Free =>
        p \in FreeBlocks \/ \E c \in Cogs : pc[c] \in {"back", "merge"} /\ ptr[c] = p
  BY DEF FreeBlocks, Blocks
<1> QED
  BY <1>1, <1>2, <1>3, <1>4, <1>5

\* longfill stays within the block that was handed out: no header lies there.
LEMMA ZeroKeeps ==
  ASSUME Disciplined, HeapInv, NEW c \in Cogs, Zero(c)
  PROVE  /\ UNCHANGED <<owner, bits>>
         /\ \A p \in Blocks : size'[p] = size[p] /\ prev'[p] = prev[p]
         /\ \A f \in FreeBlocks \cup {0} : link'[f] = link[f]
<1>a. TypeOK
  BY DEF HeapInv
<1>b. CogOk(c)
  BY DEF HeapInv
<1>c. MineInv /\ RegInv /\ HubInv /\ GiveInv
  BY DEF HeapInv
<1> DEFINE Inside(q) == ptr[c] < q /\ q < ptr[c] + req[c].pages
<1>d. /\ ptr[c] \in Blocks /\ NextBlock(ptr[c]) = ptr[c] + req[c].pages
  <2>1. ptr[c] \in reg[c] /\ size[ptr[c]] = req[c].pages
    BY <1>b DEF Zero, CogOk, AllocOk
  <2>2. Allocated(ptr[c])
    BY <1>c, <2>1 DEF RegInv
  <2> QED
    BY <2>1, <2>2, GcAssumption DEF Allocated, Blocks, NextBlock, None, Hub
<1>e. \A q \in Blocks : ~ Inside(q)
  BY <1>d, Tiles
<1>f. /\ size' = [q \in Pages |-> IF Inside(q) THEN 0 ELSE size[q]]
      /\ prev' = [q \in Pages |-> IF Inside(q) THEN 0 ELSE prev[q]]
      /\ link' = [q \in 0 .. NPages |-> IF Inside(q) THEN 0 ELSE link[q]]
      /\ owner' = [q \in Pages |-> IF Inside(q) THEN None ELSE owner[q]]
      /\ bits' = [q \in Pages |-> IF Inside(q) THEN {} ELSE bits[q]]
  BY <1>a DEF Zero, TypeOK
<1> HIDE DEF Inside
<1>g. \A q \in Pages : Inside(q) => owner[q] = None /\ bits[q] = {}
  <2>1. \A q \in Pages : Inside(q) => owner[q] = None
    BY <1>e DEF Blocks
  <2>2. \A q \in Pages : owner[q] = None => ~ Allocated(q)
    BY GcAssumption DEF Allocated, None, Hub
  <2> QED
    BY <2>1, <2>2 DEF HeapInv, MarkInv
<1>1. owner' = owner /\ bits' = bits
  <2>1. /\ owner' = [q \in Pages |-> owner[q]]
        /\ bits' = [q \in Pages |-> bits[q]]
    BY <1>f, <1>g
  <2> QED
    BY <1>a, <2>1 DEF TypeOK
<1>2. \A p \in Blocks : size'[p] = size[p] /\ prev'[p] = prev[p]
  BY <1>e, <1>f DEF Blocks
<1>3. \A f \in FreeBlocks : link'[f] = link[f]
  <2>1. FreeBlocks \subseteq 0 .. NPages
    BY PageFacts DEF FreeBlocks, Pages
  <2>2. FreeBlocks \subseteq Blocks
    BY DEF FreeBlocks, Blocks, Free, None
  <2> QED
    BY <1>e, <1>f, <2>1, <2>2
<1>4. link'[0] = link[0]
  <2>1. ~ Inside(0)
    BY <1>d, Tiles DEF Inside
  <2>2. 0 \in 0 .. NPages
    BY PageFacts
  <2> QED
    BY <1>f, <2>1, <2>2
<1> QED
  BY <1>1, <1>2, <1>3, <1>4

\* Zeroing a block touches no header.
LEMMA ZeroStep == ASSUME Disciplined, HeapInv, NEW c \in Cogs, Zero(c) PROVE HeapInv'
<1>a. TypeOK
  BY DEF HeapInv
<1>b. CogOk(c)
  BY DEF HeapInv
<1>c. MineInv /\ RegInv /\ HubInv /\ GiveInv
  BY DEF HeapInv
<1>h. /\ UNCHANGED <<owner, bits>>
      /\ \A p \in Blocks : size'[p] = size[p] /\ prev'[p] = prev[p]
      /\ \A f \in FreeBlocks \cup {0} : link'[f] = link[f]
  BY ZeroKeeps
<1>1. TypeOK'
  <2>1. /\ size' \in [Pages -> 0 .. NPages] /\ prev' \in [Pages -> 0 .. NPages]
        /\ link' \in [0 .. NPages -> 0 .. NPages]
    BY <1>a, PageFacts DEF Zero, TypeOK
  <2>2. req' \in [Cogs -> Reqs] /\ ptr' \in [Cogs -> 0 .. NPages + 1]
    BY <1>a, PageFacts, RecordFacts DEF Zero, TypeOK
  <2>3. pc' \in [Cogs -> Places]
    BY <1>a DEF Zero, TypeOK, Goto, Places, Critical
  <2>4. op' \in [Cogs -> {"none", "alloc", "retry", "free", "collect"}]
    BY <1>a DEF Zero, TypeOK
  <2>5. UNCHANGED <<owner, bits, lock, last, nxt, scan, word, hub, reg, stale, mine>>
    BY <1>h DEF Zero, refs
  <2> QED
    BY <1>a, <2>1, <2>2, <2>3, <2>4, <2>5 DEF TypeOK
<1>2. \A d \in Cogs \ {c} :
           /\ pc'[d] = pc[d] /\ op'[d] = op[d] /\ req'[d] = req[d] /\ ptr'[d] = ptr[d]
           /\ last'[d] = last[d] /\ nxt'[d] = nxt[d] /\ scan'[d] = scan[d]
           /\ word'[d] = word[d] /\ reg'[d] = reg[d] /\ mine'[d] = mine[d]
  BY <1>a DEF Zero, TypeOK, refs, Goto
<1>9. pc[c] = "zero" /\ pc'[c] = "idle" /\ op'[c] = "none" /\ ptr'[c] = 0
  BY <1>a DEF Zero, TypeOK, Goto
<1>3. FreeBlocks' = FreeBlocks
  <2>1. \A q : \A d \in Cogs : (pc'[d] \in {"back", "merge"} /\ ptr'[d] = q)
                           <=> (pc[d] \in {"back", "merge"} /\ ptr[d] = q)
    BY <1>2, <1>9
  <2> QED
    BY <1>h, <2>1 DEF FreeBlocks
<1>4. \A p \in Pages : NoReference(p) => NoReference(p)'
  BY DEF Zero, refs, NoReference
<1>5. ~ GivingUp(c)'
  BY <1>9 DEF GivingUp
<1>6. lock' = lock
  BY DEF Zero
<1>7. MineInv' /\ RegInv' /\ HubInv'
  <2>1. UNCHANGED <<hub, reg, stale, mine, owner, bits>>
    BY <1>h DEF Zero, refs
  <2> QED
    BY <1>c, <2>1 DEF MineInv, RegInv, HubInv, Allocated, Private
<1>8. CogOk(c)'
  <2>1. LockOk(c)' /\ CallOk(c)'
    BY <1>9 DEF LockOk, CallOk, Critical
  <2>2. AllocOk(c)' /\ FreeOk(c)'
    BY <1>9 DEF AllocOk, FreeOk
  <2>3. CollectOk(c)' /\ SoleOk(c)'
    BY <1>9 DEF CollectOk, SoleOk, Sweeping
  <2> QED
    BY <2>1, <2>2, <2>3 DEF CogOk
<1> QED
  BY <1>1, <1>2, <1>3, <1>4, <1>5, <1>6, <1>7, <1>8, <1>h, QuietWords

\* A step of the cog that holds the lock disturbs no cog outside it, if it
\* leaves the sizes of referenced blocks alone.
LEMMA Locked ==
  ASSUME HeapInv, NEW c \in Cogs, pc[c] \in Critical, TypeOK', lock' = lock,
         \A d \in Cogs \ {c} :
           /\ pc'[d] = pc[d] /\ op'[d] = op[d] /\ req'[d] = req[d] /\ ptr'[d] = ptr[d]
           /\ word'[d] = word[d] /\ reg'[d] = reg[d] /\ mine'[d] = mine[d]
           /\ \A p \in reg[d] : size'[p] = size[p]
           /\ \A p \in mine[d] : owner'[p] = owner[p] /\ bits'[p] = bits[p],
         MarkInv', HeapTiling', FreeListExact',
         MineInv', RegInv', HubInv', GiveInv', CogOk(c)'
  PROVE  HeapInv'
<1>1. ASSUME NEW d \in Cogs \ {c} PROVE CogOk(d)'
  <2>1. pc'[d] \notin Critical
    BY Alone
  <2>2. CallOk(d)' /\ LockOk(d)'
    BY <2>1 DEF HeapInv, CogOk, CallOk, LockOk, Critical
  <2>3. AllocOk(d)'
    BY <2>1 DEF HeapInv, CogOk, AllocOk, Critical
  <2>4. FreeOk(d)' /\ CollectOk(d)'
    <3>1. pc[d] = "manage" => d \in Managers /\ ptr[d] \in mine[d] /\ WordOk(d)
      BY DEF HeapInv, CogOk, CollectOk
    <3>2. pc[d] = "manage" => WordOk(d)'
      BY <3>1 DEF WordOk, FlagsOf
    <3> QED
      BY <2>1, <3>1, <3>2 DEF FreeOk, CollectOk, Sweeping, Critical
  <2>5. SoleOk(d)'
    BY NotSole DEF HeapInv, CogOk, SoleOk
  <2> QED
    BY <2>2, <2>3, <2>4, <2>5 DEF CogOk
<1> QED
  BY <1>1 DEF HeapInv

\* _gc_dofree marks its block free before it is on the list.
LEMMA FreeMarkStep == ASSUME Disciplined, HeapInv, NEW c \in Cogs, FreeMark(c) PROVE HeapInv'
<1>a. TypeOK /\ MineInv /\ RegInv /\ HubInv /\ GiveInv
  BY DEF HeapInv
<1>b. CogOk(c)
  BY DEF HeapInv
<1>d. PICK p : p = ptr[c]
  OBVIOUS
<1>e. /\ pc[c] = "dofree" /\ Allocated(p) /\ p \in Pages /\ NoReference(p)
      /\ \A d \in Cogs \ {c} : GivingUp(d) => ptr[d] # p
  BY <1>b, <1>d DEF FreeMark, CogOk, FreeOk, Allocated
<1>f. /\ owner' = [owner EXCEPT ![p] = Free] /\ bits' = [bits EXCEPT ![p] = {}]
      /\ last' = [last EXCEPT ![c] = p] /\ pc' = [pc EXCEPT ![c] = "back"]
      /\ UNCHANGED <<size, prev, link, lock, op, req, ptr, nxt, scan, word, refs>>
  BY <1>d DEF FreeMark, SetFlags, Goto
<1>g. /\ pc'[c] = "back" /\ last'[c] = p
      /\ \A d \in Cogs \ {c} : pc'[d] = pc[d] /\ pc[d] \notin Critical
      /\ owner'[p] = Free /\ bits'[p] = {}
      /\ \A q \in Pages \ {p} : owner'[q] = owner[q] /\ bits'[q] = bits[q]
      /\ owner[p] \notin {Free, None}
  <2>1. \A d \in Cogs \ {c} : pc[d] \notin Critical
    BY <1>e, Alone DEF Critical
  <2> QED
    BY <1>a, <1>e, <1>f, <2>1, GcAssumption DEF TypeOK, Allocated, Hub, Free, None
<1>1. TypeOK'
  <2>1. last' \in [Cogs -> 0 .. NPages]
    <3>1. p \in 0 .. NPages
      BY <1>e, PageFacts DEF Pages
    <3> QED
      BY <1>a, <1>f, <3>1 DEF TypeOK
  <2>2. owner' \in [Pages -> Cogs \cup {Free, Hub, None}]
    BY <1>a, <1>f DEF TypeOK
  <2>3. bits' \in [Pages -> SUBSET MarkBits]
    BY <1>a, <1>f DEF TypeOK
  <2>4. pc' \in [Cogs -> Places]
    BY <1>a, <1>f DEF TypeOK, Places, Critical
  <2> QED
    BY <1>a, <1>f, <2>1, <2>2, <2>3, <2>4 DEF TypeOK, refs
<1>2. Blocks' = Blocks /\ p \in Blocks
  BY <1>e, <1>g DEF Blocks, Free, None
<1>3. FreeBlocks' = FreeBlocks /\ p \notin FreeBlocks
  <2>1. \A q \in Pages : (\A d \in Cogs : pc'[d] \in {"back", "merge"} => ptr'[d] # q) <=> q # p
    BY <1>d, <1>f, <1>g DEF Critical
  <2>2. \A d \in Cogs : pc[d] \notin {"back", "merge"}
    BY <1>e, <1>g DEF Critical
  <2> QED
    BY <1>g, <2>1, <2>2 DEF FreeBlocks
<1>4. MarkInv'
  BY <1>g, GcAssumption DEF HeapInv, MarkInv, Allocated
<1>5. HeapTiling'
  BY <1>2, <1>f DEF HeapInv, HeapTiling, NextBlock
<1>6. FreeListExact'
  BY <1>3, <1>f DEF HeapInv, FreeListExact, Consecutive
<1>7. MineInv'
  BY <1>a, <1>e, <1>f, <1>g DEF MineInv, NoReference, refs, Allocated
<1>8. RegInv'
  BY <1>a, <1>e, <1>f, <1>g DEF RegInv, NoReference, refs, Allocated, Private
<1>9. HubInv'
  BY <1>a, <1>e, <1>f, <1>g DEF HubInv, NoReference, refs, Allocated
<1>10. GiveInv'
  <2>1. \A d \in Cogs : GivingUp(d)' => d # c /\ GivingUp(d) /\ ptr'[d] = ptr[d] /\ ptr[d] # p
    BY <1>e, <1>f, <1>g DEF GivingUp
  <2>2. \A q : NoReference(q) => NoReference(q)'
    BY <1>f DEF NoReference, refs
  <2> SUFFICES ASSUME NEW d \in Cogs, GivingUp(d)'
               PROVE  /\ Allocated(ptr[d])' /\ NoReference(ptr[d])'
                      /\ (Private(d, ptr[d]) \/ Shared(ptr[d]) \/ Sole)'
                      /\ \A e \in Cogs \ {d} : GivingUp(e)' => ptr'[e] # ptr'[d]
    BY DEF GiveInv
  <2>3. /\ Allocated(ptr[d]) /\ NoReference(ptr[d]) /\ ptr[d] \in Pages \ {p}
        /\ Private(d, ptr[d]) \/ Shared(ptr[d]) \/ Sole
    BY <1>a, <2>1 DEF GiveInv, Allocated
  <2>4. Allocated(ptr[d])' /\ NoReference(ptr[d])'
    BY <1>g, <2>1, <2>2, <2>3 DEF Allocated, NoReference
  <2>5. \A e \in Cogs \ {d} : GivingUp(e)' => ptr'[e] # ptr'[d]
    BY <1>a, <2>1 DEF GiveInv
  <2>6. (Private(d, ptr[d]) \/ Shared(ptr[d]) \/ Sole)'
    BY <1>g, <2>1, <2>3, GuardKept
  <2> QED
    BY <2>4, <2>5, <2>6
<1>11. CogOk(c)'
  <2>1. LockOk(c)' /\ CallOk(c)' /\ AllocOk(c)'
    BY <1>b, <1>e, <1>f, <1>g DEF CogOk, LockOk, CallOk, AllocOk, Critical
  <2>2. FreeOk(c)'
    <3>1. \A g \in FreeBlocks : g < p \/ g > p
      BY <1>3, <1>e, PageFacts DEF FreeBlocks, Pages
    <3>2. p <= p
      BY <1>e, PageFacts DEF Pages
    <3> QED
      BY <1>2, <1>3, <1>d, <1>e, <1>f, <1>g, <3>1, <3>2 DEF FreeOk
  <2>3. CollectOk(c)'
    <3>1. op[c] # "free" => \A q \in reg[c] : bits[q] \cap {"inuse", "reserved"} # {}
      BY <1>b, <1>e DEF CogOk, CollectOk, Sweeping
    <3>2. \A q \in reg[c] : q \in Pages \ {p}
      BY <1>a, <1>e DEF TypeOK, NoReference
    <3> QED
      BY <1>f, <1>g, <3>1, <3>2 DEF CollectOk, Sweeping, refs
  <2>4. SoleOk(c)'
    <3>1. Sole /\ op[c] # "free" => \A a \in Cells : hub[a] # 0 => bits[hub[a]] \cap {"inuse", "reserved"} # {}
      BY <1>b, <1>e DEF CogOk, SoleOk, Sweeping
    <3>2. \A a \in Cells : Sole /\ hub[a] # 0 => hub[a] \in Pages \ {p}
      BY <1>a, <1>e DEF HubInv, MineInv, Allocated, NoReference
    <3> QED
      BY <1>f, <1>g, <3>1, <3>2 DEF SoleOk, Sweeping, refs
  <2> QED
    BY <2>1, <2>2, <2>3, <2>4 DEF CogOk
<1>12. \A d \in Cogs \ {c} :
         /\ pc'[d] = pc[d] /\ op'[d] = op[d] /\ req'[d] = req[d] /\ ptr'[d] = ptr[d]
         /\ word'[d] = word[d] /\ reg'[d] = reg[d] /\ mine'[d] = mine[d]
         /\ \A q \in reg[d] : size'[q] = size[q]
         /\ \A q \in mine[d] : owner'[q] = owner[q] /\ bits'[q] = bits[q]
  <2>1. \A d \in Cogs : \A q \in mine[d] : q \in Pages \ {p}
    BY <1>a, <1>e DEF TypeOK, NoReference
  <2> QED
    BY <1>f, <1>g, <2>1 DEF refs
<1> QED
  BY <1>1, <1>4, <1>5, <1>6, <1>7, <1>8, <1>9, <1>10, <1>11, <1>12, <1>e, <1>f, Locked DEF Critical

\* _gc_tryalloc cuts the block it found and takes it off the free list.
LEMMA TakeBlockStep ==
  ASSUME Disciplined, HeapInv, NEW c \in Cogs, TakeBlock(c)
  PROVE  /\ HeapInv'
         /\ \A q : Allocated(q)' <=> Allocated(q) \/ q = ptr[c]
         /\ \A q : Allocated(q) => q # ptr[c] /\ size'[q] = size[q]
         /\ NoAdjacentFree => NoAdjacentFree'
<1>a. TypeOK /\ MineInv /\ RegInv /\ HubInv /\ GiveInv
  BY DEF HeapInv
<1>b. CogOk(c)
  BY DEF HeapInv
<1>p. PICK p, n, before : p = ptr[c] /\ n = req[c].pages /\ before = last[c]
  OBVIOUS
<1>q. PICK split, rest, after :
        split \in BOOLEAN /\ (split <=> n < size[p]) /\ rest = p + n /\ after = NextBlock(p)
  <2>1. \E split \in BOOLEAN : split <=> n < size[p]
    BY n < size[p] \/ ~ (n < size[p])
  <2> QED
    BY <2>1
<1>c. /\ pc[c] = "take" /\ p \in FreeBlocks /\ p \in Blocks /\ p \in Pages /\ p # 0
      /\ before \in FreeBlocks \cup {0} /\ link[before] = p /\ before < p
      /\ op[c] \in {"alloc", "retry"} /\ lock = c
  <2>1. pc[c] = "take" /\ p # 0
    BY <1>p DEF TakeBlock
  <2>2. p \in FreeBlocks /\ before \in FreeBlocks \cup {0} /\ link[before] = p
    BY <1>b, <1>p, <2>1 DEF CogOk, AllocOk
  <2>3. op[c] \in {"alloc", "retry"} /\ lock = c
    BY <1>b, <2>1 DEF CogOk, CallOk, LockOk, Critical
  <2> QED
    BY <2>1, <2>2, <2>3, Links, Tiles
<1>d. /\ n \in Int /\ 1 <= n /\ n <= size[p] /\ n <= NPages /\ req[c].bits \in SUBSET {"reserved"}
      /\ size[p] \in Int /\ after = p + size[p] /\ p \in Int /\ 1 <= p
      /\ after \in Int /\ after <= NPages + 1 /\ after \in Blocks \cup {NPages + 1}
      /\ rest \in Int /\ p < rest
      /\ split => rest < after /\ rest \in Pages
      /\ ~ split => n = size[p]
  <2>1. req[c] \in Reqs
    BY <1>a DEF TypeOK
  <2>2. n \in Int /\ 1 <= n /\ n <= size[p] /\ req[c].bits \in SUBSET {"reserved"}
    BY <1>a, <1>b, <1>c, <1>p, <2>1, RecordFacts DEF CogOk, CallOk, AllocOk
  <2>3. /\ size[p] \in Int /\ after = p + size[p] /\ p \in Int /\ 1 <= p
        /\ after \in Int /\ after <= NPages + 1 /\ after \in Blocks \cup {NPages + 1}
    BY <1>c, <1>q, Tiles DEF NextBlock
  <2> QED
    BY <1>q, <2>2, <2>3, PageFacts DEF Pages
<1>e. /\ size' = IF split THEN [size EXCEPT ![p] = n, ![rest] = size[p] - n] ELSE size
      /\ prev' = [q \in Pages |->
           IF split /\ q = rest THEN p
           ELSE IF split /\ q = after /\ InHeap(after) THEN rest
           ELSE prev[q]]
      /\ link' = [q \in 0 .. NPages |->
           IF q = before THEN (IF split THEN rest ELSE link[p])
           ELSE IF split /\ q = rest THEN link[p]
           ELSE IF q = p THEN 0 ELSE link[q]]
      /\ owner' = [q \in Pages |->
           IF q = p THEN c ELSE IF split /\ q = rest THEN Free ELSE owner[q]]
      /\ bits' = [q \in Pages |->
           IF q = p THEN req[c].bits ELSE IF split /\ q = rest THEN {} ELSE bits[q]]
      /\ reg' = [reg EXCEPT ![c] = @ \cup {p}]
      /\ mine' = IF "reserved" \in req[c].bits
                 THEN [mine EXCEPT ![c] = @ \cup {p}] ELSE mine
  BY <1>p, <1>q DEF TakeBlock
<1>f. /\ pc' = [pc EXCEPT ![c] = "unlock"]
      /\ UNCHANGED <<lock, op, req, ptr, last, nxt, scan, word, hub, stale>>
  BY DEF TakeBlock, Goto, locals
<1>k. \A q \in Blocks : q > p => q >= after
  BY <1>c, <1>q, Tiles
<1>g. /\ split => size'[p] = n /\ size'[rest] = size[p] - n
      /\ \A q \in Pages : ~ split \/ q \notin {p, rest} => size'[q] = size[q]
  BY <1>a, <1>c, <1>d, <1>e DEF TypeOK
<1>h. /\ owner'[p] = c /\ bits'[p] = req[c].bits
      /\ split => owner'[rest] = Free /\ bits'[rest] = {}
      /\ \A q \in Pages : q # p /\ ~ (split /\ q = rest) => owner'[q] = owner[q] /\ bits'[q] = bits[q]
  BY <1>c, <1>d, <1>e
<1>i. split => rest \notin Blocks
  BY <1>c, <1>d, <1>k
<1>j. /\ Blocks' = Blocks \cup (IF split THEN {rest} ELSE {})
      /\ FreeBlocks' = (FreeBlocks \ {p}) \cup (IF split THEN {rest} ELSE {})
  <2>1. Blocks' = Blocks \cup (IF split THEN {rest} ELSE {})
    <3>1. /\ p \in Blocks /\ owner'[p] # None
          /\ split => rest \in Pages /\ owner'[rest] # None
      BY <1>c, <1>d, <1>h, GcAssumption DEF None, Free
    <3>2. \A q \in Pages : q # p /\ ~ (split /\ q = rest) => (owner'[q] # None <=> owner[q] # None)
      BY <1>h
    <3>3. CASE split
      <4>1. \A q \in Pages : owner'[q] # None <=> owner[q] # None \/ q = rest
        BY <3>1, <3>2, <3>3 DEF Blocks
      <4> QED
        BY <3>1, <3>3, <4>1 DEF Blocks
    <3>4. CASE ~ split
      <4>1. \A q \in Pages : owner'[q] # None <=> owner[q] # None
        BY <3>1, <3>2, <3>4 DEF Blocks
      <4> QED
        BY <3>4, <4>1 DEF Blocks
    <3> QED
      BY <3>3, <3>4
  <2>2. \A d \in Cogs : pc[d] \notin {"back", "merge"} /\ pc'[d] \notin {"back", "merge"}
    <3>1. \A d \in Cogs \ {c} : pc[d] \notin Critical
      BY <1>c, Alone DEF Critical
    <3> QED
      BY <1>a, <1>c, <1>f, <3>1 DEF TypeOK, Critical
  <2>3. \A q \in Pages : q \in FreeBlocks <=> owner[q] = Free
    BY <2>2 DEF FreeBlocks
  <2>4. \A q \in Pages : q \in FreeBlocks' <=> owner'[q] = Free
    BY <2>2 DEF FreeBlocks
  <2>5. FreeBlocks \subseteq Pages /\ FreeBlocks' \subseteq Pages
    BY DEF FreeBlocks
  <2> QED
    <3>1. owner[p] = Free /\ (split => owner[rest] # Free)
      BY <1>c, <1>d, <1>i, <2>3, GcAssumption DEF Blocks, Free, None
    <3>2. \A q \in Pages : q \in FreeBlocks' <=> (q \in FreeBlocks /\ q # p) \/ (split /\ q = rest)
      BY <1>c, <1>d, <1>h, <2>3, <2>4, <3>1, GcAssumption
    <3>3. split => rest \in Pages
      BY <1>d
    <3> QED
      BY <2>1, <2>5, <3>2, <3>3
<1>1. TypeOK'
  <2>1. size' \in [Pages -> 0 .. NPages]
    <3>1. n \in 0 .. NPages
      BY <1>d, PageFacts
    <3>2. split => size[p] - n \in 0 .. NPages
      BY <1>d, PageFacts
    <3> QED
      BY <1>a, <1>e, <3>1, <3>2 DEF TypeOK
  <2>2. prev' \in [Pages -> 0 .. NPages]
    <3>1. p \in 0 .. NPages /\ (split => rest \in 0 .. NPages)
      BY <1>c, <1>d, PageFacts DEF Pages
    <3> QED
      BY <1>a, <1>e, <3>1 DEF TypeOK
  <2>3. link' \in [0 .. NPages -> 0 .. NPages]
    <3>1. p \in 0 .. NPages /\ 0 \in 0 .. NPages /\ (split => rest \in 0 .. NPages)
      BY <1>c, <1>d, PageFacts DEF Pages
    <3> QED
      BY <1>a, <1>e, <3>1 DEF TypeOK
  <2>4. owner' \in [Pages -> Cogs \cup {Free, Hub, None}]
    BY <1>a, <1>e DEF TypeOK
  <2>5. bits' \in [Pages -> SUBSET MarkBits]
    BY <1>a, <1>d, <1>e DEF TypeOK, MarkBits
  <2>6. reg' \in [Cogs -> SUBSET Pages]
    BY <1>a, <1>c, <1>e DEF TypeOK
  <2>7. mine' \in [Cogs -> SUBSET Pages]
    BY <1>a, <1>c, <1>e DEF TypeOK
  <2>8. pc' \in [Cogs -> Places]
    BY <1>a, <1>f DEF TypeOK, Places, Critical
  <2> QED
    BY <1>a, <1>f, <2>1, <2>2, <2>3, <2>4, <2>5, <2>6, <2>7, <2>8 DEF TypeOK
<1>2. MarkInv'
  BY <1>c, <1>h, GcAssumption DEF HeapInv, MarkInv, Allocated
<1>3. HeapTiling'
  <2>1. 1 \in Blocks' /\ prev'[1] = 0
    <3>1. 1 \in Blocks /\ 1 \in Pages /\ prev[1] = 0
      BY PageFacts DEF HeapInv, HeapTiling, Pages
    <3>2. ~ (split /\ 1 = rest) /\ 1 # after
      BY <1>d
    <3> QED
      BY <1>e, <1>j, <3>1, <3>2
  <2>2. ASSUME NEW q \in Blocks'
        PROVE  /\ size'[q] >= 1
               /\ (NextBlock(q))' \in Blocks' \cup {NPages + 1}
               /\ \A r \in Blocks' : r > q => r >= (NextBlock(q))'
    <3>1. CASE split /\ q = p
      <4>1. size'[q] = n /\ (NextBlock(q))' = rest
        BY <1>g, <3>1, <1>q, <1>d DEF NextBlock
      <4>2. \A r \in Blocks : r > p => r >= rest
        <5>1. \A r \in Blocks : r \in Int
          BY Tiles
        <5> QED
          BY <1>d, <1>k, <3>1, <5>1
      <4>3. n \in Int /\ n >= 1 /\ rest \in Blocks'
        BY <1>d, <1>j, <3>1
      <4>4. \A r \in Blocks' : r \in Blocks \/ r = rest
        BY <1>j
      <4> QED
        BY <1>d, <3>1, <4>1, <4>2, <4>3, <4>4
    <3>2. CASE split /\ q = rest
      <4>1. size'[q] = size[p] - n /\ (NextBlock(q))' = after
        BY <1>g, <3>2, <1>q, <1>d DEF NextBlock
      <4>2. \A r \in Blocks : r > rest => r >= after
        <5>1. \A r \in Blocks : r \in Int
          BY Tiles
        <5> QED
          BY <1>d, <1>k, <5>1
      <4>3. after \in Blocks' \cup {NPages + 1} /\ size[p] - n >= 1
        BY <1>d, <1>j, <1>q, <3>2
      <4>4. \A r \in Blocks' : r \in Blocks \/ r = rest
        BY <1>j
      <4> QED
        BY <1>d, <3>2, <4>1, <4>2, <4>3, <4>4
    <3>3. CASE ~ split \/ q \notin {p, rest}
      <4>1. q \in Blocks
        BY <1>j, <3>3
      <4>2. size'[q] = size[q] /\ (NextBlock(q))' = NextBlock(q)
        BY <1>g, <3>3, <4>1 DEF NextBlock, Blocks
      <4>3. split /\ rest > q => rest >= NextBlock(q)
        <5>1. split /\ rest > q => q < p
          BY <1>d, <1>k, <3>3, <4>1, Tiles
        <5> QED
          BY <1>c, <1>d, <4>1, <5>1, Tiles
      <4>4. \A r \in Blocks' : r \in Blocks \/ (split /\ r = rest)
        BY <1>j
      <4>5. size[q] >= 1 /\ NextBlock(q) \in Blocks' \cup {NPages + 1}
        BY <1>j, <4>1, Tiles
      <4> QED
        BY <4>1, <4>2, <4>3, <4>4, <4>5, Tiles
    <3> QED
      BY <3>1, <3>2, <3>3
  <2>3. ASSUME NEW q \in Blocks' \ {1}
        PROVE  prev'[q] \in Blocks' /\ (NextBlock(prev[q]))' = q
    <3>1. CASE split /\ q = rest
      <4>1. prev'[q] = p
        BY <1>d, <1>e, <3>1
      <4> QED
        BY <1>c, <1>g, <1>j, <3>1, <4>1, <1>q, <1>d DEF NextBlock
    <3>2. CASE split /\ q = after
      <4>1. q \in Pages /\ InHeap(q)
        BY <2>2, <3>2, PageFacts DEF Blocks
      <4>2. prev'[q] = rest
        BY <1>d, <1>e, <3>2, <4>1
      <4> QED
        BY <1>g, <1>j, <3>2, <4>2, <1>q, <1>d DEF NextBlock
    <3>3. CASE ~ split \/ q \notin {rest, after}
      <4>1. q \in Blocks /\ q \in Pages
        BY <1>j, <3>3 DEF Blocks
      <4>2. prev'[q] = prev[q] /\ prev[q] \in Blocks /\ NextBlock(prev[q]) = q
        BY <1>e, <3>3, <4>1 DEF HeapInv, HeapTiling
      <4>3. ~ split \/ prev[q] \notin {p, rest}
        BY <1>i, <1>q, <3>3, <4>2
      <4>4. size'[prev[q]] = size[prev[q]]
        BY <1>g, <4>2, <4>3 DEF Blocks
      <4> QED
        BY <1>j, <4>2, <4>4 DEF NextBlock
    <3> QED
      BY <3>1, <3>2, <3>3
  <2> QED
    BY <2>1, <2>2, <2>3 DEF HeapTiling
<1>4. FreeListExact'
  <2> SUFFICES ASSUME NEW f \in FreeBlocks' \cup {0}
               PROVE  /\ link'[f] \in FreeBlocks' \cup {0}
                      /\ link'[f] # 0 => link'[f] > f
                      /\ \A g \in FreeBlocks' : g > f => (link'[f] # 0 /\ g >= link'[f])
    BY DEF FreeListExact, Consecutive
  <2>0. /\ \A g \in FreeBlocks : g \in Blocks /\ g \in Int /\ g >= 1
        /\ \A g \in FreeBlocks : g > p => g >= after
        /\ link[p] \in FreeBlocks \cup {0} /\ link[p] # p /\ link[p] \in Int
        /\ before \in Int /\ before \in 0 .. NPages /\ p \in 0 .. NPages /\ 0 \in 0 .. NPages
        /\ split => rest \in 0 .. NPages
    <3>1. \A g \in FreeBlocks : g \in Blocks /\ g \in Int /\ g >= 1
      BY Links, Tiles
    <3>2. \A g \in FreeBlocks : g > p => g >= after
      BY <1>k, <3>1
    <3>3. link[p] \in FreeBlocks \cup {0} /\ link[p] # p /\ link[p] \in Int
      BY <1>c, <1>d, Links
    <3>4. before \in Int /\ before \in 0 .. NPages /\ p \in 0 .. NPages /\ 0 \in 0 .. NPages
      BY <1>c, Links, PageFacts
    <3>5. split => rest \in 0 .. NPages
      BY <1>d, PageFacts DEF Pages
    <3> QED
      BY <3>1, <3>2, <3>3, <3>4, <3>5
  <2>1. CASE f = before
    <3>1. link'[f] = IF split THEN rest ELSE link[p]
      BY <1>e, <2>0, <2>1
    <3>2. \A g \in FreeBlocks \ {p} : g > before => g > p
      BY <1>c, <2>0, Links
    <3> QED
      BY <1>c, <1>d, <1>j, <2>0, <2>1, <3>1, <3>2, Links
  <2>2. CASE split /\ f = rest
    <3>1. link'[f] = link[p]
      BY <1>c, <1>d, <1>e, <2>0, <2>2
    <3> QED
      BY <1>c, <1>d, <1>j, <2>0, <2>2, <3>1, Links
  <2>3. CASE f # before /\ ~ (split /\ f = rest)
    <3>1. f \in FreeBlocks \cup {0} /\ f # p /\ f \in 0 .. NPages
      <4>1. f \in FreeBlocks \cup {0} /\ f # p
        BY <1>c, <1>j, <2>3
      <4> QED
        BY <4>1, Links, PageFacts
    <3>2. link'[f] = link[f] /\ link[f] # p
      BY <1>c, <1>e, <2>3, <3>1, Links
    <3>3. split /\ rest > f => link[f] # 0 /\ rest >= link[f]
      <4>1. split /\ rest > f => p > f
        BY <1>c, <1>d, <2>0, <3>1
      <4> QED
        BY <1>c, <1>d, <3>1, <4>1, Links
    <3> QED
      BY <1>j, <3>1, <3>2, <3>3, Links
  <2> QED
    BY <2>1, <2>2, <2>3
<1>5. /\ \A q : Allocated(q) => /\ q # p /\ ~ (split /\ q = rest) /\ q \in Pages
                                /\ owner'[q] = owner[q] /\ bits'[q] = bits[q]
                                /\ size'[q] = size[q] /\ Allocated(q)'
      /\ Allocated(p)'
  <2>1. owner[p] = Free
    BY <1>c DEF FreeBlocks
  <2>2. split => owner[rest] = None
    BY <1>d, <1>i DEF Blocks
  <2>3. ASSUME NEW q, Allocated(q)
        PROVE  q # p /\ ~ (split /\ q = rest) /\ q \in Pages
    BY <2>1, <2>2, <2>3, GcAssumption DEF Allocated, Hub, Free, None
  <2>4. ASSUME NEW q, Allocated(q)
        PROVE  owner'[q] = owner[q] /\ bits'[q] = bits[q] /\ size'[q] = size[q]
    BY <1>g, <1>h, <2>3, <2>4
  <2>5. \A q : Allocated(q) => Allocated(q)'
    BY <2>3, <2>4 DEF Allocated
  <2>6. Allocated(p)'
    BY <1>c, <1>h DEF Allocated
  <2> QED
    BY <2>3, <2>4, <2>5, <2>6
<1>6. /\ \A d \in Cogs \ {c} : reg'[d] = reg[d] /\ mine'[d] = mine[d]
      /\ reg'[c] = reg[c] \cup {p}
      /\ mine'[c] = IF "reserved" \in req[c].bits THEN mine[c] \cup {p} ELSE mine[c]
  BY <1>a, <1>e DEF TypeOK
<1>7. MineInv'
  <2>1. \A d \in Cogs : p \notin mine[d]
    BY <1>a, <1>5 DEF MineInv
  <2>2. \A d \in Cogs : \A q \in mine'[d] :
          /\ Allocated(q)' /\ "reserved" \in bits'[q]
          /\ owner'[q] = d \/ (owner'[q] = Hub /\ d \notin Managers) \/ Sole
    BY <1>a, <1>h, <1>5, <1>6 DEF MineInv
  <2>3. \A d \in Cogs : \A q \in mine'[d] : \A e \in Cogs \ {d} : q \notin mine'[e]
    BY <1>a, <1>6, <2>1 DEF MineInv
  <2> QED
    BY <2>2, <2>3 DEF MineInv, Allocated
<1>8. RegInv'
  <2> SUFFICES ASSUME NEW d \in Cogs, NEW q \in reg'[d]
               PROVE  /\ Allocated(q)'
                      /\ \/ Private(d, q)'
                         \/ (\E e \in Cogs \ Managers : q \in mine'[e]) \/ Sole
    BY DEF RegInv, Private, Allocated
  <2>1. CASE q \in reg[d]
    BY <1>a, <1>5, <1>6, <2>1 DEF RegInv, Private
  <2>2. CASE q \notin reg[d]
    <3>1. q = p /\ d = c
      BY <1>6, <2>2
    <3> QED
      BY <1>h, <1>5, <1>6, <3>1 DEF Private
  <2> QED
    BY <2>1, <2>2
<1>9. HubInv'
  <2>1. \A d \in Cogs : mine[d] \subseteq mine'[d]
    BY <1>6
  <2>2. \A q : Allocated(q) => Allocated(q)'
    BY <1>5
  <2>3. ASSUME NEW a \in Cells, hub[a] # 0
        PROVE  (\E d \in Cogs \ Managers : hub[a] \in mine'[d]) \/ (Sole /\ Allocated(hub[a])')
    BY <1>a, <1>f, <2>1, <2>2, <2>3 DEF HubInv, Allocated
  <2>4. hub' = hub /\ stale' = stale
    BY <1>f
  <2> QED
    BY <1>a, <2>3, <2>4 DEF HubInv, Allocated
<1>10. GiveInv'
  <2>1. \A d \in Cogs : GivingUp(d)' => d # c /\ GivingUp(d) /\ ptr'[d] = ptr[d]
    BY <1>a, <1>c, <1>f DEF GivingUp, TypeOK
  <2> SUFFICES ASSUME NEW d \in Cogs, GivingUp(d)'
               PROVE  /\ Allocated(ptr[d])' /\ NoReference(ptr[d])'
                      /\ (Private(d, ptr[d]) \/ Shared(ptr[d]) \/ Sole)'
                      /\ \A e \in Cogs \ {d} : GivingUp(e)' => ptr'[e] # ptr'[d]
    BY DEF GiveInv
  <2>2. /\ Allocated(ptr[d]) /\ NoReference(ptr[d])
        /\ Private(d, ptr[d]) \/ Shared(ptr[d]) \/ Sole
    BY <1>a, <2>1 DEF GiveInv
  <2>3. Allocated(ptr[d])'
    BY <1>5, <2>1, <2>2 DEF Allocated
  <2>4. NoReference(ptr[d])'
    BY <1>5, <1>6, <1>f, <2>2 DEF NoReference
  <2>5. \A e \in Cogs \ {d} : GivingUp(e)' => ptr'[e] # ptr'[d]
    BY <1>a, <2>1 DEF GiveInv
  <2>6. (Private(d, ptr[d]) \/ Shared(ptr[d]) \/ Sole)'
    BY <1>5, <2>1, <2>2, GuardKept
  <2> QED
    BY <2>3, <2>4, <2>5, <2>6
<1>11. CogOk(c)'
  <2>1. pc'[c] = "unlock"
    BY <1>a, <1>f DEF TypeOK
  <2>2. LockOk(c)' /\ CallOk(c)'
    BY <1>b, <1>c, <1>f, <2>1 DEF CogOk, LockOk, CallOk
  <2>3. AllocOk(c)'
    <3>1. p \in reg'[c] /\ size'[p] = n
      BY <1>c, <1>d, <1>g, <1>6
    <3> QED
      BY <1>f, <1>p, <2>1, <3>1 DEF AllocOk
  <2> QED
    BY <2>1, <2>2, <2>3 DEF CogOk, FreeOk, CollectOk, SoleOk, Sweeping
<1>12. \A d \in Cogs \ {c} :
         /\ pc'[d] = pc[d] /\ op'[d] = op[d] /\ req'[d] = req[d] /\ ptr'[d] = ptr[d]
         /\ word'[d] = word[d] /\ reg'[d] = reg[d] /\ mine'[d] = mine[d]
         /\ \A q \in reg[d] : size'[q] = size[q]
         /\ \A q \in mine[d] : owner'[q] = owner[q] /\ bits'[q] = bits[q]
  BY <1>a, <1>f, <1>5, <1>6 DEF TypeOK, RegInv, MineInv
<1>13. \A q : Allocated(q)' => Allocated(q) \/ q = p
  BY <1>d, <1>h, GcAssumption DEF Allocated, Free, Hub
<1>14. HeapInv'
  BY <1>1, <1>2, <1>3, <1>4, <1>7, <1>8, <1>9, <1>10, <1>11, <1>12, <1>c, <1>f, Locked DEF Critical
<1>15. ASSUME NoAdjacentFree PROVE NoAdjacentFree'
  <2> SUFFICES ASSUME NEW f \in FreeBlocks' PROVE (NextBlock(f))' \notin FreeBlocks'
    BY DEF NoAdjacentFree
  <2>1. CASE f \in FreeBlocks
    <3>1. f # p /\ f \in Blocks /\ f \in Pages /\ (split => f # rest)
      BY <1>i, <1>j, <1>d, <2>1, Links, Tiles
    <3>2. (NextBlock(f))' = NextBlock(f)
      BY <1>g, <3>1 DEF NextBlock
    <3>3. split => NextBlock(f) # rest
      BY <1>d, <1>i, <3>1, Tiles
    <3>4. NextBlock(f) \notin FreeBlocks
      BY <1>15, <2>1 DEF NoAdjacentFree
    <3> QED
      BY <1>j, <3>2, <3>3, <3>4
  <2>2. CASE f \notin FreeBlocks
    <3>1. split /\ f = rest
      BY <1>j, <2>2
    <3>2. (NextBlock(f))' = after
      BY <1>d, <1>g, <1>q, <3>1 DEF NextBlock
    <3>3. after \notin FreeBlocks /\ after # rest
      BY <1>15, <1>c, <1>d, <1>q, <3>1 DEF NoAdjacentFree
    <3> QED
      BY <1>j, <3>2, <3>3
  <2> QED
    BY <2>1, <2>2
<1> QED
  BY <1>p, <1>5, <1>13, <1>14, <1>15

\* _gc_dofree links its block and merges it with its neighbours.
LEMMA FreeMergeStep ==
  ASSUME Disciplined, HeapInv, NEW c \in Cogs, FreeMerge(c)
  PROVE  /\ HeapInv' /\ SameInUse /\ Passed(c)
         /\ NoAdjacentFree => NoAdjacentFree'
<1>a. TypeOK /\ MineInv /\ RegInv /\ HubInv /\ GiveInv
  BY DEF HeapInv
<1>b. CogOk(c)
  BY DEF HeapInv
<1>p. PICK p, f, after : p = ptr[c] /\ f = last[c] /\ after = NextBlock(p)
  OBVIOUS
<1>c. /\ pc[c] = "merge" /\ p \in Blocks /\ p \in Pages /\ owner[p] = Free /\ p \notin FreeBlocks
      /\ f \in FreeBlocks \cup {0} /\ f < p /\ lock = c
      /\ \A g \in FreeBlocks : g <= f \/ g > p
      /\ op[c] \in {"alloc", "collect", "free"}
  <2>1. pc[c] = "merge"
    BY DEF FreeMerge
  <2>2. p \in Pages /\ owner[p] = Free /\ p \in Blocks
    BY <1>b, <1>p, <2>1 DEF CogOk, FreeOk, Blocks, Free, None
  <2>3. p \notin FreeBlocks
    BY <1>p, <2>1 DEF FreeBlocks
  <2> QED
    BY <1>b, <1>p, <2>1, <2>2, <2>3 DEF CogOk, FreeOk, LockOk, CallOk, Critical
<1>d. /\ p \in Int /\ 1 <= p /\ p <= NPages /\ size[p] \in Int /\ size[p] >= 1
      /\ after = p + size[p] /\ after \in Int /\ p < after /\ after <= NPages + 1
      /\ after \in Blocks \cup {NPages + 1}
      /\ \A q \in Blocks : q > p => q >= after
      /\ f \in Int /\ 0 <= f /\ (f # 0 => f \in Blocks /\ f \in Pages)
  BY <1>c, <1>p, Tiles, Links DEF NextBlock
<1>e. \A q \in Pages : IsFree(q) <=> q \in FreeBlocks \cup {p}
  <2>1. \A d \in Cogs \ {c} : pc[d] \notin {"back", "merge"}
    BY <1>c, Alone DEF Critical
  <2>2. \A q \in Pages : q \in FreeBlocks \cup {p} <=> owner[q] = Free
    BY <1>c, <1>p, <2>1 DEF FreeBlocks
  <2>3. \A q \in Pages : owner[q] = Free => bits[q] = {}
    BY GcAssumption DEF HeapInv, MarkInv, Allocated, Free, Hub
  <2> QED
    BY <2>2, <2>3 DEF IsFree
<1>q. PICK joinPrev \in BOOLEAN, joinNext \in BOOLEAN :
        /\ joinPrev <=> f # 0 /\ NextBlock(f) = p
        /\ joinNext <=> after \in FreeBlocks
  <2>1. \E b \in BOOLEAN : b <=> f # 0 /\ NextBlock(f) = p
    BY (f # 0 /\ NextBlock(f) = p) \/ ~ (f # 0 /\ NextBlock(f) = p)
  <2>2. \E b \in BOOLEAN : b <=> after \in FreeBlocks
    BY after \in FreeBlocks \/ after \notin FreeBlocks
  <2> QED
    BY <2>1, <2>2
<1>r. PICK first, end, n, gone :
        /\ first = IF joinPrev THEN f ELSE p
        /\ end = IF joinNext THEN NextBlock(after) ELSE after
        /\ n = size[p] + (IF joinPrev THEN size[f] ELSE 0) + (IF joinNext THEN size[after] ELSE 0)
        /\ gone = (IF joinPrev THEN {p} ELSE {}) \cup (IF joinNext THEN {after} ELSE {})
  OBVIOUS
<1>f. /\ size' = [size EXCEPT ![first] = n]
      /\ link' = [q \in 0 .. NPages |->
           IF q = first THEN (IF joinNext THEN link[after] ELSE link[f])
           ELSE IF q = f THEN p
           ELSE IF q \in gone THEN 0 ELSE link[q]]
      /\ prev' = [q \in Pages |-> IF q = end /\ InHeap(end) /\ gone # {} THEN first ELSE prev[q]]
      /\ owner' = [q \in Pages |-> IF q \in gone THEN None ELSE owner[q]]
      /\ bits' = [q \in Pages |-> IF q \in gone THEN {} ELSE bits[q]]
      /\ \/ /\ op[c] = "free" /\ pc' = [pc EXCEPT ![c] = "unlock"]
            /\ UNCHANGED <<op, ptr, nxt>>
         \/ /\ op[c] # "free" /\ nxt' = [nxt EXCEPT ![c] = end]
            /\ \/ InHeap(end) /\ pc' = [pc EXCEPT ![c] = "sweep"] /\ UNCHANGED <<op, ptr>>
               \/ /\ ~ InHeap(end) /\ op[c] = "alloc" /\ op' = [op EXCEPT ![c] = "retry"]
                  /\ ptr' = [ptr EXCEPT ![c] = 0] /\ pc' = [pc EXCEPT ![c] = "walk"]
               \/ /\ ~ InHeap(end) /\ op[c] = "collect" /\ UNCHANGED <<op, ptr>>
                  /\ pc' = [pc EXCEPT ![c] = "unlock"]
      /\ last' = [last EXCEPT ![c] = 0]
      /\ UNCHANGED <<lock, req, scan, word, refs>>
  <2>1. joinNext <=> InHeap(after) /\ IsFree(after)
    <3>1. after \in Pages \/ after = NPages + 1
      BY <1>d DEF Blocks
    <3>2. NPages + 1 \notin Pages /\ FreeBlocks \subseteq Pages
      BY PageFacts DEF Pages, FreeBlocks
    <3>3. after # p
      BY <1>d
    <3> QED
      BY <1>e, <1>q, <3>1, <3>2, <3>3, PageFacts
  <2> QED
    BY <1>c, <1>p, <1>q, <1>r, <2>1 DEF FreeMerge, Goto, AfterSweep
<1>g. /\ first \in Blocks /\ first \in Int /\ 1 <= first /\ first <= p /\ first \notin gone
      /\ end \in Int /\ end \in Blocks \cup {NPages + 1} /\ end > p /\ end <= NPages + 1
      /\ n \in Int /\ n >= 1 /\ first + n = end
      /\ joinNext => after \in Blocks /\ after \in Pages /\ NextBlock(after) > after
      /\ \A q \in gone : q = p \/ q = after
      /\ \A q \in gone : q \in Blocks /\ q > first /\ q < end
      /\ \A q \in Blocks : q > first /\ q < end => q \in gone
  <2>1. joinNext => /\ after \in Blocks /\ after \in Pages /\ NextBlock(after) > after
                    /\ size[after] \in Int /\ size[after] >= 1
                    /\ NextBlock(after) = after + size[after]
                    /\ NextBlock(after) \in Blocks \cup {NPages + 1} /\ NextBlock(after) <= NPages + 1
                    /\ \A q \in Blocks : q > after => q >= NextBlock(after)
    BY <1>q, Links, Tiles DEF NextBlock
  <2>2. joinPrev => /\ f \in Blocks /\ f \in Int /\ f >= 1 /\ size[f] \in Int /\ size[f] >= 1 /\ f + size[f] = p
                    /\ \A q \in Blocks : q > f => q >= p
    BY <1>d, <1>q, Tiles DEF NextBlock
  <2>3. \A q \in Blocks : q \in Int
    BY Tiles
  <2>4. CASE joinPrev /\ joinNext
    BY <1>c, <1>d, <1>r, <2>1, <2>2, <2>3, <2>4
  <2>5. CASE joinPrev /\ ~ joinNext
    BY <1>c, <1>d, <1>r, <2>2, <2>3, <2>5
  <2>6. CASE ~ joinPrev /\ joinNext
    BY <1>c, <1>d, <1>r, <2>1, <2>3, <2>6
  <2>7. CASE ~ joinPrev /\ ~ joinNext
    BY <1>c, <1>d, <1>r, <2>3, <2>7
  <2> QED
    BY <2>4, <2>5, <2>6, <2>7
<1>h. /\ size'[first] = n
      /\ \A q \in Pages : q # first => size'[q] = size[q]
      /\ \A q \in gone : owner'[q] = None /\ bits'[q] = {}
      /\ \A q \in Pages : q \notin gone => owner'[q] = owner[q] /\ bits'[q] = bits[q]
  <2>1. size \in [Pages -> 0 .. NPages] /\ first \in Pages
    BY <1>a, <1>g DEF TypeOK, Blocks
  <2> QED
    BY <1>f, <1>g, <2>1 DEF Blocks
<1>i. Blocks' = Blocks \ gone
  BY <1>g, <1>h DEF Blocks
<1>j. FreeBlocks' = (FreeBlocks \cup {p}) \ gone
  <2>1. \A d \in Cogs : pc'[d] \notin {"back", "merge"}
    <3>1. \A d \in Cogs \ {c} : pc[d] \notin {"back", "merge"}
      BY <1>c, Alone DEF Critical
    <3> QED
      BY <1>a, <1>f, <3>1 DEF TypeOK
  <2>2. \A q \in Pages : q \in FreeBlocks' <=> owner'[q] = Free
    BY <2>1 DEF FreeBlocks
  <2>3. \A q \in Pages : q \in FreeBlocks \cup {p} <=> owner[q] = Free
    <3>1. \A q \in Pages : owner[q] = Free => bits[q] = {}
      BY GcAssumption DEF HeapInv, MarkInv, Allocated, Free, Hub
    <3> QED
      BY <1>e, <3>1 DEF IsFree
  <2>4. FreeBlocks' \subseteq Pages /\ FreeBlocks \subseteq Pages
    BY DEF FreeBlocks
  <2> QED
    BY <1>c, <1>h, <2>2, <2>3, <2>4 DEF Free, None
<1>k. /\ pc'[c] \in {"unlock", "sweep", "walk"} /\ op'[c] \in {"alloc", "collect", "free", "retry"}
      /\ pc'[c] = "unlock" => op'[c] \in {"free", "collect"}
      /\ pc'[c] = "sweep" => /\ op'[c] = op[c] /\ op[c] \in {"alloc", "collect"}
                             /\ nxt'[c] = end /\ end \in Blocks
      /\ pc'[c] = "walk" => op'[c] = "retry" /\ ptr'[c] = 0
      /\ op'[c] \in {"alloc", "retry"} => op[c] = "alloc"
      /\ op'[c] = "free" => pc'[c] = "unlock"
      /\ \A d \in Cogs \ {c} : pc'[d] = pc[d] /\ op'[d] = op[d] /\ ptr'[d] = ptr[d]
  BY <1>a, <1>c, <1>f, <1>g, PageFacts DEF TypeOK
<1>1. TypeOK'
  <2>1. size' \in [Pages -> 0 .. NPages]
    <3>1. n \in 0 .. NPages /\ 0 \in 0 .. NPages
      BY <1>g, PageFacts
    <3> QED
      BY <1>a, <1>f, <3>1 DEF TypeOK
  <2>2. prev' \in [Pages -> 0 .. NPages]
    <3>1. first \in 0 .. NPages /\ 0 \in 0 .. NPages
      BY <1>d, <1>g, PageFacts
    <3> QED
      BY <1>a, <1>f, <3>1 DEF TypeOK
  <2>3. link' \in [0 .. NPages -> 0 .. NPages]
    <3>1. p \in 0 .. NPages /\ f \in 0 .. NPages /\ 0 \in 0 .. NPages
      BY <1>c, <1>d, PageFacts
    <3>2. joinNext => after \in 0 .. NPages
      BY <1>d, <1>g, PageFacts DEF Pages
    <3> QED
      BY <1>a, <1>f, <3>1, <3>2 DEF TypeOK
  <2>4. owner' \in [Pages -> Cogs \cup {Free, Hub, None}]
    BY <1>a, <1>f DEF TypeOK
  <2>5. bits' \in [Pages -> SUBSET MarkBits]
    BY <1>a, <1>f DEF TypeOK
  <2>6. ptr' \in [Cogs -> 0 .. NPages + 1]
    <3>1. 0 \in 0 .. NPages + 1
      BY PageFacts
    <3>2. ptr \in [Cogs -> 0 .. NPages + 1]
      BY <1>a DEF TypeOK
    <3> QED
      BY <1>f, <3>1, <3>2
  <2>7. nxt' \in [Cogs -> 0 .. NPages + 1]
    <3>1. end \in 0 .. NPages + 1
      BY <1>d, <1>g, PageFacts
    <3> QED
      BY <1>a, <1>f, <3>1 DEF TypeOK
  <2>8. last' \in [Cogs -> 0 .. NPages]
    <3>1. 0 \in 0 .. NPages
      BY PageFacts
    <3> QED
      BY <1>a, <1>f, <3>1 DEF TypeOK
  <2>9. pc' \in [Cogs -> Places]
    BY <1>a, <1>f DEF TypeOK, Places, Critical
  <2>10. op' \in [Cogs -> {"none", "alloc", "retry", "free", "collect"}]
    BY <1>a, <1>f DEF TypeOK
  <2> QED
    BY <1>a, <1>f, <2>1, <2>2, <2>3, <2>4, <2>5, <2>6, <2>7, <2>8, <2>9, <2>10 DEF TypeOK, refs
<1>2. MarkInv'
  <2>1. \A q \in Pages \ gone : Allocated(q) => Allocated(q)'
    BY <1>h DEF Allocated
  <2> QED
    BY <1>h, <2>1 DEF HeapInv, MarkInv
<1>3. HeapTiling'
  <2>0. \A q \in Blocks' : q \in Blocks /\ q \in Pages /\ q \notin gone
    BY <1>i, Tiles
  <2>1. 1 \in Blocks' /\ prev'[1] = 0
    <3>1. 1 \in Blocks /\ 1 \in Pages /\ prev[1] = 0
      BY PageFacts DEF HeapInv, HeapTiling, Pages
    <3>2. 1 \notin gone /\ 1 # end
      BY <1>d, <1>g
    <3> QED
      BY <1>f, <1>i, <3>1, <3>2
  <2>2. ASSUME NEW q \in Blocks', q # first
        PROVE  /\ size'[q] = size[q] /\ (NextBlock(q))' = NextBlock(q)
               /\ NextBlock(q) \notin gone
    <3>1. size'[q] = size[q] /\ (NextBlock(q))' = NextBlock(q)
      BY <1>h, <2>0, <2>2 DEF NextBlock
    <3>2. NextBlock(q) # p \/ ~ joinPrev
      BY <1>d, <1>q, <1>r, <2>0, <2>2, Tiles
    <3>3. NextBlock(q) # after \/ ~ joinNext
      BY <1>c, <1>p, <1>r, <2>0, <2>2, Tiles
    <3> QED
      BY <1>r, <3>1, <3>2, <3>3
  <2>3. (NextBlock(first))' = end /\ size'[first] >= 1 /\ first \in Blocks'
    BY <1>g, <1>h, <1>i DEF NextBlock
  <2>4. end \in Blocks' \cup {NPages + 1}
    BY <1>g, <1>i
  <2>5. ASSUME NEW q \in Blocks'
        PROVE  /\ size'[q] >= 1
               /\ (NextBlock(q))' \in Blocks' \cup {NPages + 1}
               /\ \A r \in Blocks' : r > q => r >= (NextBlock(q))'
    <3>1. CASE q = first
      <4>1. \A r \in Blocks' : r > first => r >= end
        <5>1. \A r \in Blocks' : r \in Int /\ r \in Blocks \ gone
          BY <2>0, Tiles
        <5> QED
          BY <1>g, <5>1
      <4> QED
        BY <2>3, <2>4, <3>1, <4>1
    <3>2. CASE q # first
      <4>1. /\ size[q] >= 1 /\ NextBlock(q) \in Blocks \cup {NPages + 1}
            /\ \A r \in Blocks : r > q => r >= NextBlock(q)
        BY <2>0, Tiles
      <4> QED
        BY <1>i, <2>0, <2>2, <3>2, <4>1
    <3> QED
      BY <3>1, <3>2
  <2>6. ASSUME NEW q \in Blocks' \ {1}
        PROVE  prev'[q] \in Blocks' /\ (NextBlock(prev[q]))' = q
    <3>1. q \in Blocks /\ q \in Pages /\ q \notin gone /\ prev[q] \in Blocks /\ NextBlock(prev[q]) = q
      BY <2>0 DEF HeapInv, HeapTiling
    <3>2. CASE q = end /\ gone # {}
      <4>1. prev'[q] = first
        BY <1>f, <3>1, <3>2, PageFacts
      <4> QED
        BY <2>3, <3>2, <4>1 DEF NextBlock
    <3>3. CASE ~ (q = end /\ gone # {})
      <4>1. prev'[q] = prev[q]
        BY <1>f, <3>1, <3>3
      <4>2. prev[q] \notin gone
        <5>1. joinPrev => prev[q] # p
          BY <1>d, <1>p, <1>r, <3>1, <3>3
        <5>2. joinNext => prev[q] # after
          BY <1>r, <3>1, <3>3
        <5> QED
          BY <1>r, <5>1, <5>2
      <4>3. prev[q] \in Blocks'
        BY <1>i, <3>1, <4>2
      <4>4. CASE prev[q] # first
        <5>1. (NextBlock(prev[q]))' = prev[q] + size[prev[q]]
          BY <2>2, <4>1, <4>3, <4>4 DEF NextBlock
        <5> QED
          BY <3>1, <4>1, <4>3, <5>1 DEF NextBlock
      <4>5. CASE prev[q] = first
        <5>1. gone = {}
          BY <1>p, <1>q, <1>r, <3>1, <3>3, <4>5
        <5>2. q = end
          BY <1>p, <1>r, <3>1, <4>5, <5>1
        <5> QED
          BY <2>3, <4>1, <4>3, <4>5, <5>2 DEF NextBlock
      <4> QED
        BY <4>4, <4>5
    <3> QED
      BY <3>2, <3>3
  <2> QED
    BY <2>1, <2>5, <2>6 DEF HeapTiling
<1>4. FreeListExact'
  <2> SUFFICES ASSUME NEW h \in FreeBlocks' \cup {0}
               PROVE  /\ link'[h] \in FreeBlocks' \cup {0}
                      /\ link'[h] # 0 => link'[h] > h
                      /\ \A g \in FreeBlocks' : g > h => (link'[h] # 0 /\ g >= link'[h])
    BY DEF FreeListExact, Consecutive
  <2>0. /\ \A g \in FreeBlocks : g \in Int /\ 1 <= g /\ g <= NPages /\ g \in Blocks
        /\ \A g \in FreeBlocks \cup {0} : g \in 0 .. NPages
        /\ link[f] \in FreeBlocks \cup {0} /\ link[f] \in Int
        /\ link[f] # 0 => link[f] > p
        /\ \A g \in FreeBlocks : g > f => link[f] # 0 /\ g >= link[f]
    <3>1. \A g \in FreeBlocks : g \in Int /\ 1 <= g /\ g <= NPages /\ g \in Blocks
      BY Links, Tiles
    <3>2. /\ link[f] \in FreeBlocks \cup {0} /\ link[f] \in Int
          /\ link[f] # 0 => link[f] > f
          /\ \A g \in FreeBlocks : g > f => link[f] # 0 /\ g >= link[f]
      BY <1>c, Links
    <3>3. link[f] # 0 => link[f] > p
      BY <1>c, <1>d, <3>1, <3>2
    <3> QED
      BY <3>1, <3>2, <3>3, PageFacts
  <2>a. joinNext => after = link[f]
    BY <1>c, <1>d, <1>q, <2>0
  <2>b. \A g \in FreeBlocks' : g \in FreeBlocks \cup {p} /\ g \notin gone /\ g \in Int
    BY <1>d, <1>j, <2>0
  <2>c. first \in 0 .. NPages /\ p \in 0 .. NPages /\ f \in 0 .. NPages
    BY <1>c, <1>d, <1>g, PageFacts
  <2>1. CASE h = first
    <3>1. CASE joinNext
      <4>1. link'[h] = link[after]
        BY <1>f, <2>1, <2>c, <3>1
      <4>2. /\ link[after] \in FreeBlocks \cup {0} /\ link[after] \in Int
            /\ link[after] # 0 => link[after] > after
            /\ \A g \in FreeBlocks : g > after => link[after] # 0 /\ g >= link[after]
        BY <1>q, <3>1, Links
      <4>3. link[after] \in FreeBlocks' \cup {0}
        BY <1>d, <1>g, <1>j, <4>2
      <4>4. \A g \in FreeBlocks' : g > first => g > after /\ g \in FreeBlocks
        BY <1>c, <1>d, <1>g, <1>r, <2>0, <2>a, <2>b, <3>1
      <4> QED
        BY <1>d, <1>g, <2>1, <4>1, <4>2, <4>3, <4>4
    <3>2. CASE ~ joinNext
      <4>1. link'[h] = link[f]
        BY <1>f, <2>1, <2>c, <3>2
      <4>2. link[f] \in FreeBlocks' \cup {0}
        BY <1>c, <1>d, <1>j, <1>r, <2>0, <3>2
      <4>3. \A g \in FreeBlocks' : g > first => g > f /\ g \in FreeBlocks
        BY <1>c, <1>d, <1>g, <1>r, <2>0, <2>b, <3>2
      <4> QED
        BY <1>d, <1>g, <2>0, <2>1, <4>1, <4>2, <4>3
    <3> QED
      BY <3>1, <3>2
  <2>2. CASE h # first /\ h = f
    <3>1. link'[h] = p /\ ~ joinPrev
      BY <1>f, <1>r, <2>2, <2>c
    <3>2. p \in FreeBlocks'
      BY <1>d, <1>j, <1>r, <3>1
    <3> QED
      BY <1>c, <1>d, <2>0, <2>2, <2>b, <3>1, <3>2
  <2>3. CASE h # first /\ h # f
    <3>1. h \in FreeBlocks \cup {0} /\ h \notin gone /\ h # p /\ h \in Int
      <4>1. h # p
        <5>1. first # p => p \in gone
          BY <1>r
        <5> QED
          BY <1>d, <2>3, <2>b, <5>1
      <4>2. 0 \notin gone
        BY <1>g, Tiles
      <4> QED
        BY <2>b, <4>1, <4>2
    <3>2. link'[h] = link[h]
      BY <1>f, <2>0, <2>3, <3>1
    <3>3. /\ link[h] \in FreeBlocks \cup {0} /\ link[h] \in Int
          /\ link[h] # 0 => link[h] > h
          /\ \A g \in FreeBlocks : g > h => link[h] # 0 /\ g >= link[h]
      BY <3>1, Links
    <3>4. link[h] \in FreeBlocks' \cup {0}
      <4>1. link[h] # p
        BY <1>c, <1>d, <3>3
      <4>2. joinNext => link[h] # after
        BY <1>c, <1>d, <2>3, <2>a, <3>1, Links
      <4> QED
        BY <1>g, <1>j, <1>r, <3>3, <4>1, <4>2
    <3>5. p > h => link[h] # 0 /\ p >= link[h]
      <4>1. p > h => h < f /\ f \in FreeBlocks
        BY <1>c, <1>d, <2>0, <2>3, <3>1
      <4> QED
        BY <1>c, <1>d, <3>3, <4>1
    <3> QED
      BY <2>b, <3>2, <3>3, <3>4, <3>5
  <2> QED
    BY <2>1, <2>2, <2>3
<1>5. \A q : Allocated(q) => /\ q \in Pages /\ q \notin gone /\ q # first
                             /\ owner'[q] = owner[q] /\ bits'[q] = bits[q]
                             /\ size'[q] = size[q] /\ Allocated(q)'
  <2>1. \A q \in gone \cup {first} : owner[q] = Free
    <3>1. \A q \in FreeBlocks : owner[q] = Free
      BY DEF FreeBlocks
    <3> QED
      BY <1>c, <1>q, <1>r, <3>1
  <2> SUFFICES ASSUME NEW q, Allocated(q)
               PROVE  /\ q \in Pages /\ q \notin gone /\ q # first
                      /\ owner'[q] = owner[q] /\ bits'[q] = bits[q]
                      /\ size'[q] = size[q] /\ Allocated(q)'
    OBVIOUS
  <2>2. q \in Pages /\ q \notin gone /\ q # first
    BY <2>1, GcAssumption DEF Allocated, Free, Hub
  <2>3. owner'[q] = owner[q] /\ bits'[q] = bits[q] /\ size'[q] = size[q]
    BY <1>h, <2>2
  <2> QED
    BY <2>2, <2>3 DEF Allocated
<1>6. MineInv' /\ RegInv' /\ HubInv'
  <2>1. \A q : Allocated(q) => Allocated(q)' /\ owner'[q] = owner[q] /\ bits'[q] = bits[q]
    BY <1>5
  <2>2. hub' = hub /\ stale' = stale /\ reg' = reg /\ mine' = mine
    BY <1>f DEF refs
  <2>3. MineInv' /\ RegInv'
    BY <1>a, <2>1, <2>2 DEF MineInv, RegInv, Allocated, Private
  <2>4. HubInv'
    BY <1>a, <2>1, <2>2 DEF HubInv, Allocated
  <2> QED
    BY <2>3, <2>4
<1>7. GiveInv'
  <2>1. \A d \in Cogs : GivingUp(d)' => d # c /\ GivingUp(d) /\ ptr'[d] = ptr[d]
    BY <1>k DEF GivingUp
  <2>2. \A q : NoReference(q) => NoReference(q)'
    BY <1>f DEF NoReference, refs
  <2> SUFFICES ASSUME NEW d \in Cogs, GivingUp(d)'
               PROVE  /\ Allocated(ptr[d])' /\ NoReference(ptr[d])'
                      /\ (Private(d, ptr[d]) \/ Shared(ptr[d]) \/ Sole)'
                      /\ \A e \in Cogs \ {d} : GivingUp(e)' => ptr'[e] # ptr'[d]
    BY DEF GiveInv
  <2>3. /\ Allocated(ptr[d]) /\ NoReference(ptr[d])
        /\ Private(d, ptr[d]) \/ Shared(ptr[d]) \/ Sole
    BY <1>a, <2>1 DEF GiveInv
  <2>4. Allocated(ptr[d])' /\ NoReference(ptr[d])'
    <3>1. Allocated(ptr[d])'
      BY <1>5, <2>1, <2>3 DEF Allocated
    <3>2. NoReference(ptr[d])'
      BY <2>1, <2>2, <2>3 DEF NoReference
    <3> QED
      BY <3>1, <3>2
  <2>5. \A e \in Cogs \ {d} : GivingUp(e)' => ptr'[e] # ptr'[d]
    BY <1>a, <2>1 DEF GiveInv
  <2>6. (Private(d, ptr[d]) \/ Shared(ptr[d]) \/ Sole)'
    BY <1>5, <2>1, <2>3, GuardKept
  <2> QED
    BY <2>4, <2>5, <2>6
<1>8. CogOk(c)'
  <2>1. LockOk(c)'
    BY <1>c, <1>f DEF LockOk
  <2>2. CallOk(c)'
    BY <1>b, <1>f, <1>k DEF CogOk, CallOk
  <2>3. AllocOk(c)' /\ FreeOk(c)'
    BY <1>k DEF AllocOk, FreeOk
  <2>4. CollectOk(c)'
    <3>1. op[c] # "free" => \A q \in reg[c] : bits[q] \cap {"inuse", "reserved"} # {}
      BY <1>b, <1>c DEF CogOk, CollectOk, Sweeping
    <3>2. \A q \in reg[c] : bits'[q] = bits[q]
      BY <1>a, <1>5 DEF RegInv
    <3>3. end \in Blocks => end \in Blocks'
      BY <1>g, <1>i
    <3> QED
      BY <1>f, <1>k, <3>1, <3>2, <3>3 DEF CollectOk, Sweeping, refs
  <2>5. SoleOk(c)'
    <3>1. Sole /\ op[c] # "free" => \A a \in Cells : hub[a] # 0 => bits[hub[a]] \cap {"inuse", "reserved"} # {}
      BY <1>b, <1>c DEF CogOk, SoleOk, Sweeping
    <3>2. \A a \in Cells : hub[a] # 0 => Allocated(hub[a])
      BY <1>a, MineShared DEF HubInv
    <3>3. \A a \in Cells : hub[a] # 0 => bits'[hub[a]] = bits[hub[a]]
      BY <1>5, <3>2
    <3>4. hub' = hub
      BY <1>f DEF refs
    <3> QED
      BY <1>k, <3>1, <3>3, <3>4 DEF SoleOk, Sweeping
  <2> QED
    BY <2>1, <2>2, <2>3, <2>4, <2>5 DEF CogOk
<1>9. \A d \in Cogs \ {c} :
         /\ pc'[d] = pc[d] /\ op'[d] = op[d] /\ req'[d] = req[d] /\ ptr'[d] = ptr[d]
         /\ word'[d] = word[d] /\ reg'[d] = reg[d] /\ mine'[d] = mine[d]
         /\ \A q \in reg[d] : size'[q] = size[q]
         /\ \A q \in mine[d] : owner'[q] = owner[q] /\ bits'[q] = bits[q]
  BY <1>a, <1>f, <1>k, <1>5 DEF TypeOK, RegInv, MineInv, refs
<1>10. SameInUse
  <2>1. \A q : Allocated(q)' => Allocated(q)
    BY <1>h, GcAssumption DEF Allocated, None, Hub
  <2> QED
    BY <1>5, <2>1 DEF SameInUse
<1>11. Passed(c)
  <2> SUFFICES ASSUME NEW q, Allocated(q), q < end PROVE q < p
    <3>1. /\ pc'[c] = "sweep" => nxt'[c] = end
          /\ pc'[c] = "unlock" /\ op'[c] = "collect" => end = NPages + 1
      BY <1>a, <1>c, <1>f, <1>g, PageFacts DEF TypeOK, Blocks
    <3>2. \A r : Allocated(r) => r \in Int /\ r < NPages + 1
      BY PageFacts DEF Allocated, Pages
    <3> QED
      BY <1>p, <3>1, <3>2 DEF Passed
  <2>1. q \in Blocks /\ q # p /\ q \notin gone
    BY <1>5, <1>c, GcAssumption DEF Allocated, Blocks, Hub, Free, None
  <2>2. q > first => q \in gone
    BY <1>g, <2>1
  <2>3. q \in Int
    BY <2>1, Tiles
  <2> QED
    BY <1>d, <1>g, <2>1, <2>2, <2>3
<1>12. ASSUME NoAdjacentFree PROVE NoAdjacentFree'
  <2> SUFFICES ASSUME NEW g \in FreeBlocks' PROVE (NextBlock(g))' \notin FreeBlocks'
    BY DEF NoAdjacentFree
  <2>1. CASE g = first
    <3>1. (NextBlock(g))' = end
      BY <1>g, <1>h, <2>1 DEF NextBlock
    <3>2. end \notin FreeBlocks
      BY <1>12, <1>q, <1>r DEF NoAdjacentFree
    <3>3. end # p
      BY <1>d, <1>g
    <3> QED
      BY <1>j, <3>1, <3>2, <3>3
  <2>2. CASE g # first
    <3>1. g \in FreeBlocks /\ g \in Blocks /\ g \in Pages /\ g \notin gone /\ g # p /\ g \in Int
      BY <1>j, <1>q, <1>r, <2>2, Links, Tiles
    <3>2. (NextBlock(g))' = NextBlock(g) /\ NextBlock(g) \notin FreeBlocks
      BY <1>12, <1>h, <2>2, <3>1 DEF NextBlock, NoAdjacentFree
    <3>3. NextBlock(g) = p => g = f /\ f # 0
      <4>1. SUFFICES ASSUME NextBlock(g) = p PROVE g = f /\ f # 0
        OBVIOUS
      <4>2. g < p /\ g >= 1 /\ \A r \in Blocks : r > g => r >= p
        BY <3>1, <4>1, Tiles
      <4>3. g <= f
        BY <1>c, <1>d, <3>1, <4>2
      <4> QED
        BY <1>c, <1>d, <3>1, <4>2, <4>3
    <3>4. NextBlock(g) # p
      BY <1>q, <1>r, <2>2, <3>3
    <3> QED
      BY <1>j, <3>2, <3>4
  <2> QED
    BY <2>1, <2>2
<1> QED
  BY <1>1, <1>2, <1>3, <1>4, <1>6, <1>7, <1>8, <1>9, <1>10, <1>11, <1>12, <1>c, <1>f, Locked DEF Critical

-----------------------------------------------------------------------------
\* The one free block that _gc_ptrs leaves is a heap in order.
LEMMA InitOk == ASSUME Disciplined, Init PROVE HeapInv
<1>1. TypeOK
  <2>1. 0 \in 0 .. NPages /\ 1 \in 0 .. NPages /\ NPages \in 0 .. NPages /\ 0 \in 0 .. NPages + 1
    BY PageFacts
  <2>2. 0 \in 0 .. NCells + 1
    BY GcAssumption
  <2>3. NoWord \in Flags /\ NoReq \in Reqs
    BY GcAssumption DEF NoWord, NoReq, Flags, Reqs
  <2>4. "idle" \in Places
    BY DEF Places
  <2> QED
    BY <2>1, <2>2, <2>3, <2>4 DEF Init, TypeOK
<1>2. /\ Blocks = {1} /\ FreeBlocks = {1} /\ 1 \in Pages /\ 1 \in 0 .. NPages /\ 0 \in 0 .. NPages
      /\ size[1] = NPages /\ prev[1] = 0 /\ link[0] = 1 /\ link[1] = 0
      /\ \A p \in Pages : bits[p] = {} /\ owner[p] \in {Free, None}
  BY PageFacts DEF Init, Blocks, FreeBlocks, Pages, Free, None
<1>3. MarkInv
  BY <1>2 DEF MarkInv
<1>4. HeapTiling
  <2>1. NextBlock(1) = NPages + 1
    BY <1>2, PageFacts DEF NextBlock
  <2> QED
    BY <1>2, <2>1, PageFacts DEF HeapTiling
<1>5. FreeListExact
  BY <1>2 DEF FreeListExact, Consecutive
<1>6. MineInv /\ RegInv /\ HubInv /\ GiveInv
  BY DEF Init, MineInv, RegInv, HubInv, GiveInv, GivingUp
<1>7. \A c \in Cogs : CogOk(c)
  BY DEF Init, CogOk, LockOk, CallOk, AllocOk, FreeOk, CollectOk, SoleOk, Sweeping, Critical
<1> QED
  BY <1>1, <1>3, <1>4, <1>5, <1>6, <1>7 DEF HeapInv

\* Every step of every cog keeps the heap in order.
LEMMA StepOk == ASSUME Disciplined, HeapInv, [Next]_vars PROVE HeapInv'
<1>1. CASE UNCHANGED vars
  <2>1. /\ TypeOK' /\ MarkInv' /\ HeapTiling' /\ FreeListExact'
        /\ MineInv' /\ RegInv' /\ HubInv' /\ GiveInv'
    BY <1>1 DEF HeapInv, vars, heap, locals, refs, TypeOK, MarkInv, HeapTiling, FreeListExact,
       MineInv, RegInv, HubInv, GiveInv, Blocks, FreeBlocks, NextBlock, Allocated, Consecutive,
       GivingUp, NoReference, Private, Shared
  <2>2. ASSUME NEW c \in Cogs PROVE CogOk(c)'
    BY <1>1 DEF HeapInv, vars, heap, locals, refs, CogOk, LockOk, CallOk, AllocOk, FreeOk, CollectOk, SoleOk, Sweeping,
       Blocks, FreeBlocks, Allocated, GivingUp, NoReference, FlagsOf, WordOk, Shared
  <2> QED
    BY <2>1, <2>2 DEF HeapInv
<1>2. ASSUME NEW c \in Cogs, Store(c) \/ Load(c) \/ Drop(c) PROVE HeapInv'
  BY <1>2, StoreStep, LoadStep, DropStep
<1>3. ASSUME NEW c \in Cogs, AllocCall(c) \/ FreeCall(c) \/ CollectCall(c) PROVE HeapInv'
  BY <1>3, AllocCallStep, FreeCallStep, CollectCallStep
<1>4. ASSUME NEW c \in Cogs, Lock(c) \/ Unlock(c) \/ Zero(c) PROVE HeapInv'
  BY <1>4, LockStep, UnlockStep, ZeroStep
<1>5. ASSUME NEW c \in Cogs, Walk(c) \/ TakeBlock(c) \/ TakeNone(c) PROVE HeapInv'
  BY <1>5, WalkStep, TakeBlockStep, TakeNoneStep
<1>6. ASSUME NEW c \in Cogs, FreeMark(c) \/ FreeBack(c) \/ FreeMerge(c) PROVE HeapInv'
  BY <1>6, FreeMarkStep, FreeBackStep, FreeMergeStep
<1>7. ASSUME NEW c \in Cogs, \/ ClearRead(c) \/ ClearWrite(c) \/ ScanRead(c)
                             \/ ScanWrite(c) \/ MarkCog(c) \/ Sweep(c)
      PROVE HeapInv'
  BY <1>7, ClearReadStep, ClearWriteStep, ScanReadStep, ScanWriteStep, MarkCogStep, SweepStep
<1>8. ASSUME NEW c \in Cogs, ManageRead(c) \/ ManageWrite(c) PROVE HeapInv'
  BY <1>8, ManageReadStep, ManageWriteStep
<1> QED
  BY <1>1, <1>2, <1>3, <1>4, <1>5, <1>6, <1>7, <1>8 DEF Next

\* In every state a disciplined program can reach, whatever the interleaving
\* of the cogs, the heap of gcalloc.spin is in order.
THEOREM HeapInOrder == ASSUME Disciplined PROVE Spec => []HeapInv
<1>1. Init => HeapInv
  BY InitOk
<1>2. HeapInv /\ [Next]_vars => HeapInv'
  BY StepOk
<1> QED
  BY <1>1, <1>2, PTL DEF Spec

\* The variables keep their types: no offset ever leaves the heap.
THEOREM TypeCorrect == ASSUME Disciplined PROVE Spec => []TypeOK
<1>1. HeapInv => TypeOK
  BY DEF HeapInv
<1> QED
  BY <1>1, HeapInOrder, PTL

\* Splitting in _gc_tryalloc and merging in _gc_dofree never leave a gap, an
\* overlap or a wrong prev word, whatever the order of calls.
THEOREM TilingKept == ASSUME Disciplined PROVE Spec => []HeapTiling
<1>1. HeapInv => HeapTiling
  BY DEF HeapInv
<1> QED
  BY <1>1, HeapInOrder, PTL

\* The free list never loses a free block and never holds another one.
THEOREM FreeListKept == ASSUME Disciplined PROVE Spec => []FreeListExact
<1>1. HeapInv => FreeListExact
  BY DEF HeapInv
<1> QED
  BY <1>1, HeapInOrder, PTL

\* Neither _gc_free nor a collection on any cog takes a block away that a
\* register of some cog or a hub cell still points to.
THEOREM ReferencesSafe == ASSUME Disciplined PROVE Spec => []ReferencedStaysAllocated
<1>1. HeapInv => ReferencedStaysAllocated
  BY DEF HeapInv, MineInv, RegInv, HubInv, ReferencedStaysAllocated, Rooted, Pages
<1> QED
  BY <1>1, HeapInOrder, PTL

\* A block from _gc_alloc stays its owner's until it is freed.
THEOREM ReservedSafe == ASSUME Disciplined PROVE Spec => []ReservedSurvives
<1>1. HeapInv => ReservedSurvives
  BY DEF HeapInv, MineInv, ReservedSurvives
<1> QED
  BY <1>1, HeapInOrder, PTL

\* The longfill of _gc_doalloc, outside the lock, stays within a block that
\* nobody has taken away meanwhile.
THEOREM ZeroingSafe == ASSUME Disciplined PROVE Spec => []ZeroesOwnBlock
<1>1. HeapInv => ZeroesOwnBlock
  BY DEF HeapInv, CogOk, AllocOk, RegInv, ZeroesOwnBlock
<1> QED
  BY <1>1, HeapInOrder, PTL
=============================================================================
