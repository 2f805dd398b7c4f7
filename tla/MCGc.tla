-------------------------------- MODULE MCGc --------------------------------
(***************************************************************************)
(* GcAlloc for TLC: what the program on each cog of a run calls.           *)
(***************************************************************************)
EXTENDS GcInv
CONSTANTS c1, c2

\* Every cog's stack lies above all the cells.
AllCells == [c \in Cogs |-> NCells]
\* The cells are in the stack of c1, above the top of the stack of c2.
StackTops == [c \in Cogs |-> IF c = c1 THEN NCells ELSE 0]

\* malloc and free, and BASIC strings that nobody frees; everything is stored
\* anywhere.
OneCalls == [c \in Cogs |-> CallNames \ {"free_managed"}]
\* What GcInv!Disciplined allows: one cog hands blocks to the collector, the
\* other one stores them.
DisciplinedCalls ==
  [c \in Cogs |-> CallNames \ {"store", IF c = c1 THEN "store_reserved" ELSE "manage"}]
\* One cog keeps managed blocks, the other one only collects.
GiveCalls == [c \in Cogs |-> IF c = c1 THEN {"collect"} ELSE {"alloc_managed", "store"}]
\* malloc, free and a collection, and no pointer in hub memory.
StaleCalls == [c \in Cogs |-> {"alloc", "free", "collect"}]
=============================================================================
