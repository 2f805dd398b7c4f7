----------------------------- MODULE MCByteLock -----------------------------
(***************************************************************************)
(* ByteLock for TLC, with what the cogs of each run call.                  *)
(***************************************************************************)
EXTENDS ByteLock
CONSTANTS c1, c2

LockCalls == [c \in Cogs |-> {"lockmem"}]
AllCalls == [c \in Cogs |-> CallNames]
=============================================================================
