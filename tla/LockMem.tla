------------------------------ MODULE LockMem ------------------------------
(***************************************************************************)
(* _lockmem and _unlockmem of sys/common_pasm.spin (impl_LOCKMEM of        *)
(* sys/nuinterp.spin has the same steps): mutual exclusion on one hub long *)
(* with no atomic read-modify-write.  A cog that reads zero writes its own *)
(* mark ($100 + cogid), reads the long twice more, and owns the lock if    *)
(* the last read returns its mark.                                         *)
(*                                                                         *)
(* That is only correct because of when the cogs reach the hub.  The hub   *)
(* serves one cog per window, in rotation, and a cog in straight-line code *)
(* reaches it again after at most MaxSkip missed windows.  That bound      *)
(* takes the loop to run from cog memory, where FCACHE puts it: in code    *)
(* that is fetched from the hub the fetches want the same windows.  The    *)
(* rotation is the variable `turn'.  The code outside the four-instruction *)
(* asm block (the test at the end of the loop, the caller's critical       *)
(* section) takes any number of windows.                                   *)
(***************************************************************************)
EXTENDS Naturals

CONSTANTS
  NCogs,     \* number of cogs served by the hub rotation
  MaxSkip    \* hub windows a cog may miss between two hub accesses of the block

ASSUME LockMemAssumption == NCogs \in Nat \ {0} /\ MaxSkip \in Nat

Cogs == 0 .. NCogs - 1
Free == NCogs            \* stands for the zero in the lock's long

VARIABLES
  mem,       \* the lock's long: Free, or the cog whose mark it holds
  turn,      \* the cog the hub serves in this window
  pc,        \* pc[c]: the instruction cog c is about to execute
  r,         \* r[c]: the register the block reads into
  skipped    \* skipped[c]: windows missed since c's last hub access

vars == <<mem, turn, pc, r, skipped>>

Outside == "outside"     \* not in _lockmem, lock not held
Holding == "holding"     \* _lockmem has returned

Init ==
  /\ mem = Free
  /\ turn \in Cogs
  /\ pc = [c \in Cogs |-> Outside]
  /\ r = [c \in Cogs |-> Free]
  /\ skipped = [c \in Cogs |-> 0]

\* The window passes to the next cog.
Rotate == turn' = (turn + 1) % NCogs

Goto(c, l) == pc' = [pc EXCEPT ![c] = l]

\* Instructions of the asm block that access the hub.
InBlock(c) == pc[c] \in {"write", "reread1", "reread2"}

(***************************************************************************)
(* Steps that need the hub: taken in the cog's own window.                 *)
(***************************************************************************)
ReadFirst(c) ==          \* rdlong r, addr wz; the if_z lines depend on it
  /\ turn = c /\ pc[c] = "read"
  /\ r' = [r EXCEPT ![c] = mem]
  /\ Goto(c, IF mem = Free THEN "write" ELSE "test")
  /\ skipped' = [skipped EXCEPT ![c] = 0]
  /\ Rotate /\ UNCHANGED mem

\* Mutant: the long is read once only after the mark is written.
WriteMarkOnce(c) ==
  /\ turn = c /\ pc[c] = "write"
  /\ mem' = c
  /\ Goto(c, "reread2")
  /\ skipped' = [skipped EXCEPT ![c] = 0]
  /\ Rotate /\ UNCHANGED r

WriteMark(c) ==          \* if_z wrlong mask, addr
  /\ turn = c /\ pc[c] = "write"
  /\ mem' = c
  /\ Goto(c, "reread1")
  /\ skipped' = [skipped EXCEPT ![c] = 0]
  /\ Rotate /\ UNCHANGED r

ReadAgain(c) ==          \* if_z rdlong r, addr (the first of the two)
  /\ turn = c /\ pc[c] = "reread1"
  /\ r' = [r EXCEPT ![c] = mem]
  /\ Goto(c, "reread2")
  /\ skipped' = [skipped EXCEPT ![c] = 0]
  /\ Rotate /\ UNCHANGED mem

ReadLast(c) ==           \* if_z rdlong r, addr (the second)
  /\ turn = c /\ pc[c] = "reread2"
  /\ r' = [r EXCEPT ![c] = mem]
  /\ Goto(c, "test")
  /\ skipped' = [skipped EXCEPT ![c] = 0]
  /\ Rotate /\ UNCHANGED mem

\* Mutant: _unlockmem does not clear the long.
UnlockNothing(c) ==
  /\ turn = c /\ pc[c] = Holding
  /\ Goto(c, Outside)
  /\ Rotate /\ UNCHANGED <<mem, r, skipped>>

Unlock(c) ==             \* _unlockmem: long[addr] := 0
  /\ turn = c /\ pc[c] = Holding
  /\ mem' = Free
  /\ Goto(c, Outside)
  /\ Rotate /\ UNCHANGED <<r, skipped>>

\* Mutant: one window more is missed than the timing allows.
CanMissMore(c) == skipped[c] <= MaxSkip
CanMiss(c) == skipped[c] < MaxSkip

\* The hub's window goes by unused: inside the block a cog can miss no more
\* than MaxSkip of them in a row.
Miss(c) ==
  /\ turn = c
  /\ IF InBlock(c)
     THEN /\ CanMiss(c)
          /\ skipped' = [skipped EXCEPT ![c] = @ + 1]
     ELSE UNCHANGED skipped
  /\ Rotate /\ UNCHANGED <<mem, pc, r>>

(***************************************************************************)
(* Steps inside the cog, which take no hub window.                         *)
(***************************************************************************)
Call(c) ==               \* a caller enters _lockmem
  /\ pc[c] = Outside
  /\ Goto(c, "read")
  /\ UNCHANGED <<mem, turn, r, skipped>>

Test(c) ==               \* until r == mask
  /\ pc[c] = "test"
  /\ Goto(c, IF r[c] = c THEN Holding ELSE "read")
  /\ UNCHANGED <<mem, turn, r, skipped>>

Next == \E c \in Cogs :
  \/ ReadFirst(c) \/ WriteMark(c) \/ ReadAgain(c) \/ ReadLast(c)
  \/ Unlock(c) \/ Miss(c) \/ Call(c) \/ Test(c)

\* The hub rotation never stops, a cog in _lockmem keeps executing and
\* reaches the hub infinitely often, and a holder eventually unlocks.
Fairness == \A c \in Cogs :
  /\ WF_vars(\E d \in Cogs : d = turn /\ (ReadFirst(d) \/ WriteMark(d) \/ ReadAgain(d)
                                     \/ ReadLast(d) \/ Unlock(d) \/ Miss(d)))
  /\ SF_vars(ReadFirst(c)) /\ SF_vars(Unlock(c)) /\ WF_vars(Test(c))

Spec == Init /\ [][Next]_vars /\ Fairness

-----------------------------------------------------------------------------
\* The lock's long holds zero or a mark, and no cog misses more windows than
\* the instruction timing of the block allows.
TypeOK ==
  /\ mem \in Cogs \cup {Free}
  /\ turn \in Cogs
  /\ pc \in [Cogs -> {Outside, Holding, "read", "write", "reread1", "reread2", "test"}]
  /\ r \in [Cogs -> Cogs \cup {Free}]
  /\ skipped \in [Cogs -> 0 .. MaxSkip]

\* Two cogs never return from _lockmem on the same address without an
\* _unlockmem in between, and a cog about to pass the final test of the loop
\* is alone too: between its mark and its last read every rival that had
\* also read zero has written.
MutualExclusion ==
  \A c, d \in Cogs : c # d =>
    ~ (/\ pc[c] = Holding \/ (pc[c] = "test" /\ r[c] = c)
       /\ pc[d] = Holding \/ (pc[d] = "test" /\ r[d] = d))

\* The holder's mark stays in the long until the holder clears it: a late
\* writer that read zero before the lock was taken cannot overwrite it
\* (if it could, the next _unlockmem would leave the lock held by nobody).
MarkStable ==
  \A c \in Cogs : pc[c] = Holding => mem = c

\* _lockmem on each cog implements the abstract lock.
M == INSTANCE Mutex WITH holders <- {c \in Cogs : pc[c] = Holding}
ImplementsMutex == M!Spec

\* The lock is never wedged: while cogs are in _lockmem, some cog always
\* gets in again (no individual cog is promised its turn).
SomebodyGetsIn ==
  (\E c \in Cogs : pc[c] \notin {Outside, Holding})
     ~> (\E c \in Cogs : pc[c] = Holding)
=============================================================================
