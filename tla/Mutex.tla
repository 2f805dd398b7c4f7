------------------------------- MODULE Mutex -------------------------------
(***************************************************************************)
(* What the runtime's memory lock promises its callers: between the return *)
(* of _lockmem(addr) and the call of _unlockmem(addr) no other cog is in   *)
(* the same position.  The gc heap (_memory_mutex), the per-file i/o locks *)
(* (fmt.c, __lockio) and the 9P channel all rely on nothing more.  The two *)
(* implementations the runtime ships, LockMem and ByteLock, are checked to *)
(* implement this module.                                                  *)
(***************************************************************************)
CONSTANT Cogs          \* the processors that share the lock

VARIABLE holders       \* the cogs between _lockmem and _unlockmem

Init == holders = {}

\* _lockmem(addr) returns on cog c: only when nobody is inside.
Acquire(c) == /\ holders = {}
              /\ holders' = {c}

\* _unlockmem(addr) on cog c.
Release(c) == /\ c \in holders
              /\ holders' = holders \ {c}

Next == \E c \in Cogs : Acquire(c) \/ Release(c)

Spec == Init /\ [][Next]_holders
=============================================================================
