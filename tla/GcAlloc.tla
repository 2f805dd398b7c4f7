------------------------------ MODULE GcAlloc ------------------------------
(***************************************************************************)
(* The garbage-collecting heap of sys/gcalloc.spin with the root scanners  *)
(* of sys/gc_pasm.spin, called from several cogs.  The heap is an array of *)
(* 16-byte pages cut into blocks; a block's first page starts with a       *)
(* header of four words (size, flags, prev, link).  Block 0 is the anchor  *)
(* of the free list.  _gc_alloc, _gc_free and _gc_collect run under        *)
(* _memory_mutex (its promise is Mutex.tla); _gc_manage and the program's  *)
(* own loads and stores of pointers do not.                                *)
(*                                                                         *)
(* Loops over the heap are unrolled into one step per iteration, and each  *)
(* read-modify-write of a flags word that races with _gc_manage into a     *)
(* read and a write.  Writes under the lock to words nobody reads outside  *)
(* it are one step.  The used-block list (OFF_USED_LINK) is written by the *)
(* code and never read, so it has no variable here.  A header that a merge *)
(* absorbs loses its magic (owner is None) and its link; its size and prev *)
(* stay until a program gets the page and _gc_alloc fills it with zeros.   *)
(***************************************************************************)
EXTENDS Integers, FiniteSets

CONSTANTS
  Cogs,          \* the processors that use the heap
  HeapLongs,     \* __real_heapsize__: size of the heap in longs
  MaxRequest,    \* largest request made, in pages (header included)
  NCells,        \* longs of hub memory that hold pointers, in address order
  ScanTop,       \* ScanTop[c]: cells below __topofstack when c collects
  Calls,         \* Calls[c]: what the program on cog c does (CallNames)
  StaleRegs,     \* may a register still hold a pointer that was freed?
  MovesDuringGC  \* may a cog move pointers while another one collects?

Free == "free"   \* owner field $f
Hub  == "hub"    \* owner field $e
None == "none"   \* flags without GC_MAGIC; also "no cog" for the lock

NoWord == [owner |-> None, bits |-> {}]
NoReq == [pages |-> 0, bits |-> {}]
CallNames == {"alloc", "alloc_managed", "free", "free_managed", "manage",
              "collect", "store", "store_reserved", "load"}

\* heap_end - heap_base, in bytes: the last 8 bytes stay unused.
EndOffset == 4 * HeapLongs - 8
\* Size of the one block _gc_ptrs makes: size >> pagesizeshift.
NPages == EndOffset \div 16
Pages == 1 .. NPages
Cells == 1 .. NCells

ASSUME GcAssumption ==
  /\ Cogs \cap {Free, Hub, None} = {}
  /\ HeapLongs \in Nat /\ NPages >= 1
  /\ MaxRequest \in Nat \ {0}
  /\ NCells \in Nat
  /\ ScanTop \in [Cogs -> 0 .. NCells]
  /\ Calls \in [Cogs -> SUBSET CallNames]
  /\ StaleRegs \in BOOLEAN /\ MovesDuringGC \in BOOLEAN

VARIABLES
  size, prev, link,  \* the header words, by page; link[0] is the anchor's
  owner, bits,       \* the two parts of the flags word
  lock,              \* _memory_mutex: the cog inside, or None
  pc,                \* where each cog is
  op,                \* the call it executes
  req,               \* _gc_doalloc: pages wanted, and the reserve flag
  ptr, last, nxt,    \* locals: ptr, lastptr or prevptr, nextptr
  scan,              \* _gc_markhub: next cell to read
  word,              \* flags word read and not yet written back
  hub,               \* hub[a]: the block cell a points to, or 0
  reg,               \* reg[c]: blocks that cog c's registers point to
  stale,             \* stale[c]: freed blocks c's registers still point to
  mine               \* mine[c]: blocks c must free or manage (_gc_alloc's)

heap == <<size, prev, link, owner, bits>>
locals == <<req, ptr, last, nxt, scan, word>>
refs == <<hub, reg, stale, mine>>
vars == <<heap, lock, pc, op, locals, refs>>

-----------------------------------------------------------------------------
(* The heap's header arithmetic.                                           *)

\* Mutant: the last page is taken for the end of the heap.
InHeapShort(p) == 16 * (p + 1) < EndOffset
\* ptr < heap_end
InHeap(p) == 16 * p < EndOffset
\* _gc_isFree compares the whole word: an in-use mark makes it false.
IsFree(p) == p \in Pages /\ owner[p] = Free /\ bits[p] = {}
\* Mutant: the header is counted twice.
NextBlockOff(p) == p + size[p] + 1
\* _gc_nextBlockPtr
NextBlock(p) == p + size[p]
\* _gc_isvalidptr: inside the heap and carrying the magic.
IsValidPtr(p) == p \in Pages /\ InHeap(p) /\ owner[p] # None

Blocks == {p \in Pages : owner[p] # None}
Allocated(p) == p \in Pages /\ owner[p] \in Cogs \cup {Hub}

\* What _gc_ptrs leaves the first time it runs: one free block.
Init ==
  /\ size = [p \in Pages |-> IF p = 1 THEN NPages ELSE 0]
  /\ prev = [p \in Pages |-> 0]
  /\ link = [p \in 0 .. NPages |-> IF p = 0 THEN 1 ELSE 0]
  /\ owner = [p \in Pages |-> IF p = 1 THEN Free ELSE None]
  /\ bits = [p \in Pages |-> {}]
  /\ lock = None
  /\ pc = [c \in Cogs |-> "idle"]
  /\ op = [c \in Cogs |-> "none"]
  /\ req = [c \in Cogs |-> NoReq]
  /\ ptr = [c \in Cogs |-> 0]
  /\ last = [c \in Cogs |-> 0]
  /\ nxt = [c \in Cogs |-> 0]
  /\ scan = [c \in Cogs |-> 0]
  /\ word = [c \in Cogs |-> NoWord]
  /\ hub = [a \in Cells |-> 0]
  /\ reg = [c \in Cogs |-> {}]
  /\ stale = [c \in Cogs |-> {}]
  /\ mine = [c \in Cogs |-> {}]

Goto(c, l) == pc' = [pc EXCEPT ![c] = l]
FlagsOf(p) == [owner |-> owner[p], bits |-> bits[p]]
SetFlags(p, o, b) == /\ owner' = [owner EXCEPT ![p] = o]
                     /\ bits' = [bits EXCEPT ![p] = b]

-----------------------------------------------------------------------------
(* Entering and leaving the calls.                                         *)

AllocCall(c) ==          \* _gc_doalloc up to _lockmem
  /\ pc[c] = "idle"
  /\ \E n \in 1 .. MaxRequest, reserve \in BOOLEAN :
       /\ (IF reserve THEN "alloc" ELSE "alloc_managed") \in Calls[c]
       /\ req' = [req EXCEPT ![c] = [pages |-> n,
                        bits |-> IF reserve THEN {"reserved"} ELSE {}]]
  /\ op' = [op EXCEPT ![c] = "alloc"]
  /\ Goto(c, "lock")
  /\ UNCHANGED <<heap, lock, ptr, last, nxt, scan, word, refs>>

\* _gc_free up to _lockmem.  The program frees a block at most once, and no
\* other reference is left that it would use; a dead copy of the pointer may
\* stay in a register.
FreeCall(c) ==
  /\ pc[c] = "idle"
  /\ \E p \in reg[c] \cup mine[c] :
       /\ (IF p \in mine[c] THEN "free" ELSE "free_managed") \in Calls[c]
       /\ \A d \in Cogs \ {c} : p \notin reg[d] \cup mine[d]
       /\ \A a \in Cells : hub[a] # p
       /\ reg' = [reg EXCEPT ![c] = @ \ {p}]
       /\ mine' = [mine EXCEPT ![c] = @ \ {p}]
       /\ \/ UNCHANGED stale
          \/ StaleRegs /\ stale' = [stale EXCEPT ![c] = @ \cup {p}]
       /\ IF IsValidPtr(p)
          THEN /\ ptr' = [ptr EXCEPT ![c] = p]
               /\ op' = [op EXCEPT ![c] = "free"]
               /\ Goto(c, "lock")
          ELSE UNCHANGED <<ptr, op, pc>>
  /\ UNCHANGED <<heap, lock, req, last, nxt, scan, word, hub>>

CollectCall(c) ==        \* _gc_collect up to _lockmem
  /\ pc[c] = "idle" /\ "collect" \in Calls[c]
  /\ op' = [op EXCEPT ![c] = "collect"]
  /\ Goto(c, "lock")
  /\ UNCHANGED <<heap, lock, locals, refs>>

\* Mutant: the lock does not exclude.
MayLockAlways == TRUE
MayLock == lock = None

Lock(c) ==               \* _lockmem(@_memory_mutex) returns
  /\ pc[c] = "lock" /\ MayLock
  /\ lock' = c
  /\ \/ op[c] = "alloc" /\ Goto(c, "walk") /\ UNCHANGED ptr
     \/ op[c] = "free" /\ Goto(c, "dofree") /\ UNCHANGED ptr
     \/ op[c] = "collect" /\ Goto(c, "clear") /\ ptr' = [ptr EXCEPT ![c] = 1]
  /\ UNCHANGED <<heap, op, req, last, nxt, scan, word, refs>>

\* _unlockmem; an allocation that succeeded still has to zero the block.
Unlock(c) ==
  /\ pc[c] = "unlock"
  /\ lock' = None
  /\ IF op[c] \in {"alloc", "retry"} /\ ptr[c] # 0
     THEN Goto(c, "zero") /\ UNCHANGED <<op, req, ptr>>
     ELSE /\ Goto(c, "idle")
          /\ op' = [op EXCEPT ![c] = "none"]
          /\ req' = [req EXCEPT ![c] = NoReq]
          /\ ptr' = [ptr EXCEPT ![c] = 0]
  /\ last' = [last EXCEPT ![c] = 0]
  /\ nxt' = [nxt EXCEPT ![c] = 0]
  /\ scan' = [scan EXCEPT ![c] = 0]
  /\ word' = [word EXCEPT ![c] = NoWord]
  /\ UNCHANGED <<heap, refs>>

\* longfill(ptr, 0, size): fills the block's req pages, outside the lock.
Zero(c) ==
  /\ pc[c] = "zero"
  /\ LET Filled(f, v) ==
           [q \in DOMAIN f |-> IF ptr[c] < q /\ q < ptr[c] + req[c].pages THEN v ELSE f[q]]
     IN /\ size' = Filled(size, 0) /\ prev' = Filled(prev, 0) /\ link' = Filled(link, 0)
        /\ owner' = Filled(owner, None) /\ bits' = Filled(bits, {})
  /\ Goto(c, "idle")
  /\ op' = [op EXCEPT ![c] = "none"]
  /\ req' = [req EXCEPT ![c] = NoReq]
  /\ ptr' = [ptr EXCEPT ![c] = 0]
  /\ UNCHANGED <<lock, last, nxt, scan, word, refs>>

-----------------------------------------------------------------------------
(* _gc_tryalloc.                                                           *)

\* Mutants: off by one in the size comparison, either way.
TooSmallByOne(c, p) == req[c].pages > size[p] + 1
TooSmallEqual(c, p) == req[c].pages >= size[p]
TooSmall(c, p) == req[c].pages > size[p]

\* One turn of the first-fit loop over the free list.
Walk(c) ==
  /\ pc[c] = "walk"
  /\ LET p == link[ptr[c]]
     IN /\ last' = [last EXCEPT ![c] = ptr[c]]
        /\ ptr' = [ptr EXCEPT ![c] = p]
        /\ Goto(c, IF p # 0 /\ InHeap(p) /\ TooSmall(c, p)
                   THEN "walk" ELSE "take")
  /\ UNCHANGED <<heap, lock, op, req, nxt, scan, word, refs>>

\* The loop ended on a block: cut off what is not needed and unlink it.
TakeBlock(c) ==
  /\ pc[c] = "take" /\ ptr[c] # 0
  /\ LET p == ptr[c]
         n == req[c].pages
         split == n < size[p]
         rest == p + n
         after == NextBlock(p)
     IN /\ size' = IF split THEN [size EXCEPT ![p] = n, ![rest] = size[p] - n]
                            ELSE size
        /\ prev' = [q \in Pages |->
             IF split /\ q = rest THEN p
             ELSE IF split /\ q = after /\ InHeap(after) THEN rest
             ELSE prev[q]]
        /\ link' = [q \in 0 .. NPages |->
             IF q = last[c] THEN (IF split THEN rest ELSE link[p])
             ELSE IF split /\ q = rest THEN link[p]
             ELSE IF q = p THEN 0 ELSE link[q]]
        /\ owner' = [q \in Pages |->
             IF q = p THEN c ELSE IF split /\ q = rest THEN Free ELSE owner[q]]
        /\ bits' = [q \in Pages |->
             IF q = p THEN req[c].bits ELSE IF split /\ q = rest THEN {} ELSE bits[q]]
        /\ reg' = [reg EXCEPT ![c] = @ \cup {p}]
        /\ mine' = IF "reserved" \in req[c].bits
                   THEN [mine EXCEPT ![c] = @ \cup {p}] ELSE mine
  /\ Goto(c, "unlock")
  /\ UNCHANGED <<lock, op, locals, hub, stale>>

\* Nothing big enough: collect once and try again, then give up.
TakeNone(c) ==
  /\ pc[c] = "take" /\ ptr[c] = 0
  /\ IF op[c] = "alloc"
     THEN /\ Goto(c, "clear")
          /\ ptr' = [ptr EXCEPT ![c] = 1]
     ELSE /\ Goto(c, "unlock")
          /\ UNCHANGED ptr
  /\ UNCHANGED <<heap, lock, op, req, last, nxt, scan, word, refs>>

-----------------------------------------------------------------------------
(* _gc_dofree(ptr).                                                        *)

FreeMark(c) ==           \* flags := free; prevptr := ptr
  /\ pc[c] = "dofree"
  /\ SetFlags(ptr[c], Free, {})
  /\ last' = [last EXCEPT ![c] = ptr[c]]
  /\ Goto(c, "back")
  /\ UNCHANGED <<size, prev, link, lock, op, req, ptr, nxt, scan, word, refs>>

\* Mutant: the walk goes all the way to the anchor.
EndsBackFar(f) == f = 0
EndsBack(f) == f = 0 \/ IsFree(f)

\* One turn of the walk back to the nearest free block below.
FreeBack(c) ==
  /\ pc[c] = "back"
  /\ LET f == prev[last[c]]
     IN /\ last' = [last EXCEPT ![c] = f]
        /\ Goto(c, IF EndsBack(f) THEN "merge" ELSE "back")
  /\ UNCHANGED <<heap, lock, op, req, ptr, nxt, scan, word, refs>>

\* Mutant: an allocation collects again until it succeeds.
AfterSweepAgain(c) ==
  /\ Goto(c, IF op[c] = "alloc" THEN "walk" ELSE "unlock")
  /\ ptr' = [ptr EXCEPT ![c] = IF op[c] = "alloc" THEN 0 ELSE @]
  /\ UNCHANGED op
\* Where a collection goes when the sweep has reached the end of the heap.
AfterSweep(c) ==
  IF op[c] = "alloc"
  THEN /\ op' = [op EXCEPT ![c] = "retry"]
       /\ Goto(c, "walk")
       /\ ptr' = [ptr EXCEPT ![c] = 0]
  ELSE /\ Goto(c, "unlock")
       /\ UNCHANGED <<op, ptr>>

\* Link the block after prevptr, merge it with a neighbour that is free, and
\* return to _gc_free, or to the sweep with the block after the merged one.
FreeMerge(c) ==
  /\ pc[c] = "merge"
  /\ LET p == ptr[c]
         f == last[c]
         joinPrev == f # 0 /\ NextBlock(f) = p
         after == NextBlock(p)
         joinNext == InHeap(after) /\ IsFree(after)
         first == IF joinPrev THEN f ELSE p
         end == IF joinNext THEN NextBlock(after) ELSE after
         n == size[p] + (IF joinPrev THEN size[f] ELSE 0)
                      + (IF joinNext THEN size[after] ELSE 0)
         gone == (IF joinPrev THEN {p} ELSE {}) \cup (IF joinNext THEN {after} ELSE {})
     IN /\ size' = [size EXCEPT ![first] = n]
        /\ link' = [q \in 0 .. NPages |->
             IF q = first THEN (IF joinNext THEN link[after] ELSE link[f])
             ELSE IF q = f THEN p
             ELSE IF q \in gone THEN 0 ELSE link[q]]
        /\ prev' = [q \in Pages |-> IF q = end /\ InHeap(end) /\ gone # {} THEN first ELSE prev[q]]
        /\ owner' = [q \in Pages |-> IF q \in gone THEN None ELSE owner[q]]
        /\ bits' = [q \in Pages |-> IF q \in gone THEN {} ELSE bits[q]]
        /\ IF op[c] = "free"
           THEN Goto(c, "unlock") /\ UNCHANGED <<op, ptr, nxt>>
           ELSE /\ nxt' = [nxt EXCEPT ![c] = end]
                /\ IF InHeap(end) THEN Goto(c, "sweep") /\ UNCHANGED <<op, ptr>>
                                  ELSE AfterSweep(c)
  /\ last' = [last EXCEPT ![c] = 0]
  /\ UNCHANGED <<lock, req, scan, word, refs>>

-----------------------------------------------------------------------------
(* _gc_docollect.                                                          *)

ClearRead(c) ==          \* word[ptr + OFF_FLAGS] &= !GC_FLAG_INUSE, the read
  /\ pc[c] = "clear"
  /\ word' = [word EXCEPT ![c] = FlagsOf(ptr[c])]
  /\ Goto(c, "clearwrite")
  /\ UNCHANGED <<heap, lock, op, req, ptr, last, nxt, scan, refs>>

ClearWrite(c) ==         \* ... and the write, then the next block
  /\ pc[c] = "clearwrite"
  /\ SetFlags(ptr[c], word[c].owner, word[c].bits \ {"inuse"})
  /\ LET p == NextBlock(ptr[c])
     IN /\ ptr' = [ptr EXCEPT ![c] = IF InHeap(p) THEN p ELSE 0]
        /\ Goto(c, IF InHeap(p) THEN "clear" ELSE "scan")
  /\ scan' = [scan EXCEPT ![c] = 1]
  /\ word' = [word EXCEPT ![c] = NoWord]
  /\ UNCHANGED <<size, prev, link, lock, op, req, last, nxt, refs>>

\* _gc_markhub: read the next cell below the collecting cog's stack top; if
\* it points to a block that is not free, read that block's flags.
ScanRead(c) ==
  /\ pc[c] = "scan" /\ scan[c] <= ScanTop[c]
  /\ scan' = [scan EXCEPT ![c] = @ + 1]
  /\ LET p == hub[scan[c]]
     IN IF IsValidPtr(p) /\ ~ IsFree(p)
        THEN /\ ptr' = [ptr EXCEPT ![c] = p]
             /\ word' = [word EXCEPT ![c] = FlagsOf(p)]
             /\ Goto(c, "scanwrite")
        ELSE UNCHANGED <<ptr, word, pc>>
  /\ UNCHANGED <<heap, lock, op, req, last, nxt, refs>>

ScanWrite(c) ==          \* flags: owner := hub, in use
  /\ pc[c] = "scanwrite"
  /\ SetFlags(ptr[c], Hub, word[c].bits \cup {"inuse"})
  /\ Goto(c, "scan")
  /\ ptr' = [ptr EXCEPT ![c] = 0]
  /\ word' = [word EXCEPT ![c] = NoWord]
  /\ UNCHANGED <<size, prev, link, lock, op, req, last, nxt, scan, refs>>

\* _gc_markcog, once the hub is scanned.  The registers of the collecting
\* cog do not change meanwhile.  It marks every block a register points to,
\* free ones too.  One step stands for the 496 turns of the loop: the registers
\* are the cog's own, and an unlocked _gc_manage that falls between the read
\* and the write of one turn loses its write, as it does in ClearWrite.
MarkCog(c) ==
  /\ pc[c] = "scan" /\ scan[c] > ScanTop[c]
  /\ bits' = [p \in Pages |-> IF p \in reg[c] \cup stale[c] /\ IsValidPtr(p)
                              THEN bits[p] \cup {"inuse"} ELSE bits[p]]
  /\ nxt' = [nxt EXCEPT ![c] = 1]
  /\ scan' = [scan EXCEPT ![c] = 0]
  /\ Goto(c, "sweep")
  /\ UNCHANGED <<size, prev, link, owner, lock, op, req, ptr, last, word, refs>>

\* Mutants: one of the three tests of the sweep is missing, or blocks known
\* to the hub are left to their first owner.
CollectableReserved(c, p) == "inuse" \notin bits[p] /\ owner[p] \in {c, Hub}
CollectableInUse(c, p) == "reserved" \notin bits[p] /\ owner[p] \in {c, Hub}
CollectableAny(c, p) == bits[p] \cap {"inuse", "reserved"} = {} /\ owner[p] \notin {Free, None}
CollectableOwn(c, p) == bits[p] \cap {"inuse", "reserved"} = {} /\ owner[p] = c
\* What the collecting cog may free: not in use, not reserved, its own or
\* known to be referenced from the hub only.
Collectable(c, p) == bits[p] \cap {"inuse", "reserved"} = {} /\ owner[p] \in {c, Hub}

Sweep(c) ==              \* one turn of the last loop
  /\ pc[c] = "sweep"
  /\ LET p == nxt[c]
     IN /\ nxt' = [nxt EXCEPT ![c] = NextBlock(p)]
        /\ IF Collectable(c, p)
           THEN /\ ptr' = [ptr EXCEPT ![c] = p]
                /\ Goto(c, "dofree")
                /\ UNCHANGED op
           ELSE IF InHeap(NextBlock(p))
                THEN UNCHANGED <<ptr, pc, op>>
                ELSE AfterSweep(c)
  /\ UNCHANGED <<heap, lock, req, last, scan, word, refs>>

-----------------------------------------------------------------------------
(* What the program does outside the lock.                                 *)

\* _gc_manage: word[ptr + OFF_FLAGS] &= !GC_FLAG_RESERVED, with no lock.
ManageRead(c) ==
  /\ pc[c] = "idle" /\ "manage" \in Calls[c]
  /\ \E p \in mine[c] :
       /\ IsValidPtr(p)
       /\ ptr' = [ptr EXCEPT ![c] = p]
       /\ word' = [word EXCEPT ![c] = FlagsOf(p)]
  /\ Goto(c, "manage")
  /\ UNCHANGED <<heap, lock, op, req, last, nxt, scan, refs>>

ManageWrite(c) ==
  /\ pc[c] = "manage"
  /\ SetFlags(ptr[c], word[c].owner, word[c].bits \ {"reserved"})
  /\ mine' = [mine EXCEPT ![c] = @ \ {ptr[c]}]
  /\ ptr' = [ptr EXCEPT ![c] = 0]
  /\ word' = [word EXCEPT ![c] = NoWord]
  /\ Goto(c, "idle")
  /\ UNCHANGED <<size, prev, link, lock, op, req, last, nxt, scan, hub, reg, stale>>

MayMove(c) == pc[c] = "idle" /\ (MovesDuringGC \/ lock = None)

\* A pointer is copied from a register to hub memory, or a cell is cleared.
Store(c) ==
  /\ MayMove(c) /\ Calls[c] \cap {"store", "store_reserved"} # {}
  /\ \E a \in Cells, p \in reg[c] \cup {0} :
       /\ "store" \in Calls[c] \/ p \in mine[c] \cup {0}
       /\ hub' = [hub EXCEPT ![a] = p]
  /\ UNCHANGED <<heap, lock, pc, op, locals, reg, stale, mine>>

\* A pointer is copied from hub memory to a register.
Load(c) ==
  /\ MayMove(c) /\ "load" \in Calls[c]
  /\ \E a \in Cells : hub[a] # 0 /\ reg' = [reg EXCEPT ![c] = @ \cup {hub[a]}]
  /\ UNCHANGED <<heap, lock, pc, op, locals, hub, stale, mine>>

\* A register is overwritten.  A reserved block may still be known to the
\* program by other means: a pointer to its middle, one off a long boundary.
Drop(c) ==
  /\ MayMove(c)
  /\ \/ \E p \in reg[c] :
          reg' = [reg EXCEPT ![c] = @ \ {p}] /\ UNCHANGED stale
     \/ \E p \in stale[c] :
          stale' = [stale EXCEPT ![c] = @ \ {p}] /\ UNCHANGED reg
  /\ UNCHANGED <<heap, lock, pc, op, locals, hub, mine>>

Next == \E c \in Cogs :
  \/ AllocCall(c) \/ FreeCall(c) \/ CollectCall(c)
  \/ Lock(c) \/ Unlock(c) \/ Zero(c)
  \/ Walk(c) \/ TakeBlock(c) \/ TakeNone(c)
  \/ FreeMark(c) \/ FreeBack(c) \/ FreeMerge(c)
  \/ ClearRead(c) \/ ClearWrite(c) \/ ScanRead(c) \/ ScanWrite(c) \/ MarkCog(c) \/ Sweep(c)
  \/ ManageRead(c) \/ ManageWrite(c)
  \/ Store(c) \/ Load(c) \/ Drop(c)

Spec == Init /\ [][Next]_vars
=============================================================================
