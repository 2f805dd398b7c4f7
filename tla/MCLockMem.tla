----------------------------- MODULE MCLockMem -----------------------------
(***************************************************************************)
(* LockMem with three cogs; the cfg files give the number of hub windows a *)
(* cog may miss inside the asm block.                                      *)
(***************************************************************************)
EXTENDS LockMem
=============================================================================
