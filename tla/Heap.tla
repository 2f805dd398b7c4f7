-------------------------------- MODULE Heap --------------------------------
(***************************************************************************)
(* What the heap promises to a program: an allocation hands out an extent  *)
(* of pages that overlaps no other extent in use, and an extent is taken   *)
(* back only when no pointer to it is left anywhere and it is not reserved.*)
(* GcProps shows under which use of the runtime GcAlloc implements this.   *)
(***************************************************************************)
EXTENDS Integers

CONSTANT NPages        \* pages of the heap

VARIABLES
  extents,   \* the blocks in use: first page |-> number of pages
  refs,      \* blocks some register or hub cell points to
  reserved   \* blocks from _gc_alloc, neither freed nor handed to the collector

vars == <<extents, refs, reserved>>
Used == DOMAIN extents

Init == extents = [p \in {} |-> 0] /\ refs = {} /\ reserved = {}

Overlap(p, n, q, m) == p < q + m /\ q < p + n

\* A block is handed out: the caller holds the only pointer to it.
Alloc(p, n) ==
  /\ n >= 1 /\ p + n <= NPages + 1
  /\ \A q \in Used : ~ Overlap(p, n, q, extents[q])
  /\ extents' = [q \in Used \cup {p} |-> IF q = p THEN n ELSE extents[q]]
  /\ refs' = refs \cup {p}
  /\ reserved' \in {reserved, reserved \cup {p}}

\* A block is taken back.
Reclaim(p) ==
  /\ p \in Used \ (refs \cup reserved)
  /\ extents' = [q \in Used \ {p} |-> extents[q]]
  /\ UNCHANGED <<refs, reserved>>

\* The program copies, overwrites or frees pointers it has.
Program ==
  /\ refs' \subseteq refs \cup reserved
  /\ reserved' \subseteq reserved
  /\ UNCHANGED extents

Next == \/ \E p, n \in 1 .. NPages : Alloc(p, n)
        \/ \E p \in Used : Reclaim(p)
        \/ Program

Spec == Init /\ [][Next]_vars
=============================================================================
