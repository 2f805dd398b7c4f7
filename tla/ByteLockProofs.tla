--------------------------- MODULE ByteLockProofs ---------------------------
(***************************************************************************)
(* The locks of the bytecode runtime exclude, and a command in the helper's*)
(* mailbox is kept, for every number of cogs and of hardware locks, once   *)
(* all cogs come to the same hardware lock: __lockreg is set before they   *)
(* start, or no lock but the last is left.                                 *)
(*                                                                         *)
(* The hardware lock is held by at most one cog.  What the cog that holds  *)
(* it is about to do is then true of the long and the mailbox too.         *)
(***************************************************************************)
EXTENDS ByteLock, TLAPS

\* The hardware lock that every cog means.
The == Index(lockreg)

\* The cogs between a successful _lockset and the _lockclr, ...
Inside(c) == pc[c] \in {"lockclr", "test", "set", "args", "command", "wait"}

\* ... and those that know which lock it is.
Knows(c) == pc[c] \in {"publish", "lockset"} \/ Inside(c)

\* Nobody allocates another hardware lock than the one that all would use.
LastLeft == Locks \ taken \subseteq {NLocks - 1}
OneLock ==
  /\ lockreg = NoLock => LastLeft
  /\ \A c \in Cogs : pc[c] = "locknew" => LastLeft /\ The = NLocks - 1
  /\ \A c \in Cogs : pc[c] = "publish" /\ my[c] = NoLock => LastLeft
  /\ \A c \in Cogs : Knows(c) => Index(my[c]) = The

\* The hardware lock is held by one cog, and its bit is set.
HeldByOne ==
  /\ \A c \in Cogs : Inside(c) => hw[The]
  /\ \A c, d \in Cogs : Inside(c) /\ Inside(d) => c = d

\* The call that a cog inside is in.
Purpose ==
  \A c \in Cogs : /\ pc[c] \in {"test", "set"} => goal[c] = "lockmem"
                  /\ pc[c] \in {"args", "command", "wait"} => goal[c] # "lockmem"

\* A cog that is about to have the memory lock: nobody else has it.
Claims(c) == pc[c] = "lockclr" /\ goal[c] = "lockmem" /\ old[c] = 0

MemoryLock ==
  /\ holders # {} => mem = 1
  /\ \A c, d \in holders : c = d
  /\ \A c \in Cogs : pc[c] = "set" => mem = 0 /\ holders = {} /\ old[c] = 0
  /\ \A c \in Cogs : Claims(c) => mem = 1 /\ holders = {}

\* A command is in the mailbox as long as its cog waits.
Mailbox == cmd # Idle => cmd \in Cogs /\ pc[cmd] = "wait"

IInv == TypeOK /\ OneLock /\ HeldByOne /\ Purpose /\ MemoryLock /\ Mailbox

-----------------------------------------------------------------------------
\* Lock numbers, and what the low bits of -1 mean.
LEMMA LockFacts ==
  /\ NLocks \in Nat \ {0} /\ NoLock \notin Locks /\ NLocks - 1 \in Locks
  /\ Index(NoLock) = NLocks - 1 /\ \A l \in Locks : Index(l) = l
  /\ \A l \in Locks \cup {NoLock} : Index(l) \in Locks
  /\ Idle \notin Cogs
BY ByteLockAssumption DEF Locks, NoLock, Index

\* Before the first call.
LEMMA InitInv == ASSUME Preset, Init PROVE IInv
<1>1. TypeOK
  BY LockFacts DEF Init, TypeOK
<1>2. \A c \in Cogs : pc[c] = "outside"
  BY DEF Init, Outside
<1>3. OneLock
  BY <1>2, LockFacts DEF Init, OneLock, LastLeft, The, Knows, Inside
<1>4. HeldByOne /\ Purpose
  BY <1>2 DEF HeldByOne, Purpose, Inside
<1>5. MemoryLock
  BY <1>2 DEF MemoryLock, Claims, Init
<1>6. Mailbox
  BY DEF Mailbox, Init
<1> QED BY <1>1, <1>3, <1>4, <1>5, <1>6 DEF IInv

-----------------------------------------------------------------------------
(* The steps *)

\* Every step keeps the types.
LEMMA TypeStep == ASSUME TypeOK, Next PROVE TypeOK'
<1>1. CASE Helper \/ Character
  BY <1>1 DEF TypeOK, Helper, Character, Answer
<1>2. CASE TimeOut \/ CheckCogs
  BY <1>2 DEF TypeOK, TimeOut, CheckCogs
<1>3. CASE \E c \in Cogs : Call(c) \/ Unlock(c) \/ Step(c)
  <2>1. PICK c \in Cogs : Call(c) \/ Unlock(c) \/ Step(c)
    BY <1>3
  <2>2. CASE Call(c)
    <3>1. PICK g \in CallNames : goal' = [goal EXCEPT ![c] = g]
      BY <2>2, ByteLockAssumption DEF Call
    <3> QED BY <2>2, <3>1 DEF TypeOK, Call, Goto
  <2>3. CASE Unlock(c)
    BY <2>3 DEF TypeOK, Unlock
  <2>4. CASE GetReg(c)
    BY <2>4 DEF TypeOK, GetReg, Goto
  <2>5. CASE LockNew(c)
    BY <2>5 DEF TypeOK, LockNew, Goto
  <2>6. CASE Publish(c)
    BY <2>6 DEF TypeOK, Publish, Goto
  <2>7. CASE LockSet(c)
    BY <2>7 DEF TypeOK, LockSet, Goto
  <2>8. CASE LockClr(c)
    <3>1. /\ hw' = [hw EXCEPT ![Index(my[c])] = FALSE]
          /\ UNCHANGED <<taken, lockreg, mem, cmd, box, helper, my, goal, old>>
      BY <2>8 DEF LockClr
    <3>2. \/ Goto(c, Outside) /\ holders' \in {holders, holders \cup {c}}
          \/ (Goto(c, "lockset") \/ Goto(c, "result")) /\ holders' = holders
      BY <2>8 DEF LockClr
    <3> QED BY <3>1, <3>2 DEF TypeOK, Goto
  <2>9. CASE Test(c)
    BY <2>9 DEF TypeOK, Test, Goto
  <2>10. CASE Set(c)
    BY <2>10 DEF TypeOK, Set, Goto
  <2>11. CASE Args(c)
    BY <2>11 DEF TypeOK, Args, Goto
  <2>12. CASE Command(c)
    BY <2>12 DEF TypeOK, Command, Goto
  <2>13. CASE Wait(c)
    BY <2>13 DEF TypeOK, Wait, Goto
  <2>14. CASE Result(c)
    BY <2>14 DEF TypeOK, Result, Goto
  <2> QED BY <2>1, <2>2, <2>3, <2>4, <2>5, <2>6, <2>7, <2>8, <2>9, <2>10, <2>11, <2>12, <2>13, <2>14
          DEF Step
<1> QED BY <1>1, <1>2, <1>3 DEF Next

\* The parts of the invariant besides the types.
Rest == OneLock /\ HeldByOne /\ Purpose /\ MemoryLock /\ Mailbox

\* A step of the helper: the cog whose command is served goes on waiting.
LEMMA HelperStep ==
  ASSUME IInv, cmd' \in {cmd, Idle}, UNCHANGED <<taken, hw, lockreg, mem, pc, my, goal, old, holders>>
  PROVE  Rest'
BY DEF IInv, Rest, OneLock, LastLeft, The, Knows, Inside, HeldByOne, Purpose, MemoryLock, Claims, Mailbox

\* A cog that is in no call begins one.
LEMMA CallStep == ASSUME IInv, NEW c \in Cogs, Call(c) PROVE Rest'
<1>1. /\ pc[c] = "outside" /\ pc'[c] = "getreg"
      /\ \A d \in Cogs \ {c} : pc'[d] = pc[d] /\ goal'[d] = goal[d]
      /\ UNCHANGED <<taken, hw, lockreg, mem, cmd, box, helper, my, old, holders>>
  BY DEF Call, Goto, Outside, IInv, TypeOK
<1>2. \A d \in Cogs : (Inside(d)' <=> Inside(d)) /\ (Knows(d)' <=> Knows(d)) /\ (Claims(d)' <=> Claims(d))
  BY <1>1 DEF Inside, Knows, Claims
<1>3. OneLock'
  BY <1>1, <1>2 DEF IInv, OneLock, LastLeft, The
<1>4. HeldByOne' /\ Purpose'
  BY <1>1, <1>2 DEF IInv, HeldByOne, Purpose, The
<1>5. MemoryLock'
  BY <1>1, <1>2 DEF IInv, MemoryLock
<1>6. Mailbox'
  BY <1>1 DEF IInv, Mailbox
<1> QED BY <1>3, <1>4, <1>5, <1>6 DEF Rest

\* The memory lock is given up by its only holder: no other cog is about to
\* have it.
LEMMA UnlockStep == ASSUME IInv, NEW c \in Cogs, Unlock(c) PROVE Rest'
<1>1. /\ c \in holders /\ mem' = 0 /\ holders' = holders \ {c}
      /\ UNCHANGED <<taken, hw, lockreg, cmd, box, pc, my, goal, old>>
  BY DEF Unlock
<1>2. OneLock' /\ HeldByOne' /\ Purpose' /\ Mailbox'
  BY <1>1 DEF IInv, OneLock, LastLeft, The, Knows, Inside, HeldByOne, Purpose, Mailbox
<1>3. holders' = {}
  BY <1>1 DEF IInv, MemoryLock
<1>4. MemoryLock'
  BY <1>1, <1>3 DEF IInv, MemoryLock, Claims
<1> QED BY <1>2, <1>4 DEF Rest

\* __lockreg is read: if it is set it is the lock, else one must be allocated.
LEMMA GetRegStep == ASSUME IInv, NEW c \in Cogs, GetReg(c) PROVE Rest'
<1>1. /\ pc[c] = "getreg" /\ pc'[c] = (IF lockreg = NoLock THEN "locknew" ELSE "lockset")
      /\ \A d \in Cogs \ {c} : pc'[d] = pc[d] /\ my'[d] = my[d]
      /\ my'[c] = lockreg
      /\ UNCHANGED <<taken, hw, lockreg, mem, cmd, box, helper, goal, old, holders>>
  BY DEF GetReg, Goto, IInv, TypeOK
<1>2. ~ Inside(c) /\ ~ Inside(c)' /\ ~ Claims(c) /\ ~ Claims(c)'
  BY <1>1 DEF Inside, Claims
<1>3. \A d \in Cogs \ {c} : (Inside(d)' <=> Inside(d)) /\ (Knows(d)' <=> Knows(d)) /\ (Claims(d)' <=> Claims(d))
  BY <1>1 DEF Inside, Knows, Claims
<1>4. OneLock'
  <2>1. lockreg = NoLock => LastLeft /\ The = NLocks - 1
    BY LockFacts DEF IInv, OneLock, The
  <2>2. Knows(c)' => Index(my'[c]) = The
    BY <1>1 DEF The
  <2> QED BY <1>1, <1>3, <2>1, <2>2 DEF IInv, OneLock, LastLeft, The
<1>5. HeldByOne' /\ Purpose'
  BY <1>1, <1>2, <1>3 DEF IInv, HeldByOne, Purpose, The
<1>6. MemoryLock'
  BY <1>1, <1>2, <1>3 DEF IInv, MemoryLock
<1>7. Mailbox'
  BY <1>1 DEF IInv, Mailbox
<1> QED BY <1>4, <1>5, <1>6, <1>7 DEF Rest

\* Only the last lock can be allocated, and -1 means the last lock too.
LEMMA LockNewStep == ASSUME IInv, NEW c \in Cogs, LockNew(c) PROVE Rest'
<1>1. /\ pc[c] = "locknew" /\ pc'[c] = "publish"
      /\ \A d \in Cogs \ {c} : pc'[d] = pc[d] /\ my'[d] = my[d]
      /\ \/ my'[c] \in Locks \ taken /\ taken' = taken \cup {my'[c]}
         \/ taken = Locks /\ my'[c] = NoLock /\ taken' = taken
      /\ UNCHANGED <<hw, lockreg, mem, cmd, box, helper, goal, old, holders>>
  BY DEF LockNew, Goto, IInv, TypeOK
<1>2. ~ Inside(c) /\ ~ Inside(c)' /\ ~ Claims(c) /\ ~ Claims(c)'
  BY <1>1 DEF Inside, Claims
<1>3. \A d \in Cogs \ {c} : (Inside(d)' <=> Inside(d)) /\ (Knows(d)' <=> Knows(d)) /\ (Claims(d)' <=> Claims(d))
  BY <1>1 DEF Inside, Knows, Claims
<1>4. OneLock'
  <2>1. LastLeft /\ The = NLocks - 1 /\ LastLeft'
    BY <1>1 DEF IInv, OneLock, LastLeft
  <2>2. Index(my'[c]) = The
    BY <1>1, <2>1, LockFacts DEF LastLeft
  <2> QED BY <1>1, <1>3, <2>1, <2>2 DEF IInv, OneLock, The
<1>5. HeldByOne' /\ Purpose'
  BY <1>1, <1>2, <1>3 DEF IInv, HeldByOne, Purpose, The
<1>6. MemoryLock'
  BY <1>1, <1>2, <1>3 DEF IInv, MemoryLock
<1>7. Mailbox'
  BY <1>1 DEF IInv, Mailbox
<1> QED BY <1>4, <1>5, <1>6, <1>7 DEF Rest

\* What is published means the lock that was meant before.
LEMMA PublishStep == ASSUME IInv, NEW c \in Cogs, Publish(c) PROVE Rest'
<1>1. /\ pc[c] = "publish" /\ pc'[c] = "lockset" /\ lockreg' = my[c]
      /\ \A d \in Cogs \ {c} : pc'[d] = pc[d]
      /\ UNCHANGED <<taken, hw, mem, cmd, box, helper, my, goal, old, holders>>
  BY DEF Publish, Goto, IInv, TypeOK
<1>2. ~ Inside(c) /\ ~ Inside(c)' /\ ~ Claims(c) /\ ~ Claims(c)' /\ Knows(c)
  BY <1>1 DEF Inside, Claims, Knows
<1>3. \A d \in Cogs \ {c} : (Inside(d)' <=> Inside(d)) /\ (Knows(d)' <=> Knows(d)) /\ (Claims(d)' <=> Claims(d))
  BY <1>1 DEF Inside, Knows, Claims
<1>4. The' = The
  BY <1>1, <1>2 DEF IInv, OneLock, The
<1>5. OneLock'
  BY <1>1, <1>2, <1>3, <1>4 DEF IInv, OneLock, LastLeft
<1>6. HeldByOne' /\ Purpose'
  BY <1>1, <1>2, <1>3, <1>4 DEF IInv, HeldByOne, Purpose
<1>7. MemoryLock'
  BY <1>1, <1>2, <1>3 DEF IInv, MemoryLock
<1>8. Mailbox'
  BY <1>1 DEF IInv, Mailbox
<1> QED BY <1>5, <1>6, <1>7, <1>8 DEF Rest

\* The bit was clear, so nobody was inside.
LEMMA LockSetStep == ASSUME IInv, NEW c \in Cogs, LockSet(c) PROVE Rest'
<1>1. /\ pc[c] = "lockset" /\ pc'[c] = (IF goal[c] = "lockmem" THEN "test" ELSE "args")
      /\ ~ hw[Index(my[c])] /\ hw' = [hw EXCEPT ![Index(my[c])] = TRUE]
      /\ \A d \in Cogs \ {c} : pc'[d] = pc[d]
      /\ UNCHANGED <<taken, lockreg, mem, cmd, box, helper, my, goal, old, holders>>
  BY DEF LockSet, MaySet, Goto, IInv, TypeOK
<1>2. Index(my[c]) = The /\ The \in Locks
  BY <1>1, LockFacts DEF IInv, OneLock, Knows, The, TypeOK
<1>3. \A d \in Cogs : ~ Inside(d)
  BY <1>1, <1>2 DEF IInv, HeldByOne
<1>4. hw'[The] /\ The' = The
  BY <1>1, <1>2 DEF IInv, TypeOK, The
<1>5. \A d \in Cogs \ {c} : ~ Inside(d)' /\ (Knows(d)' <=> Knows(d))
  BY <1>1, <1>3 DEF Inside, Knows
<1>6. OneLock'
  BY <1>1, <1>2, <1>4, <1>5 DEF IInv, OneLock, LastLeft
<1>7. HeldByOne'
  BY <1>4, <1>5 DEF HeldByOne
<1>8. Purpose' /\ MemoryLock'
  BY <1>1, <1>5 DEF IInv, Purpose, MemoryLock, Claims, Inside
<1>9. Mailbox'
  BY <1>1 DEF IInv, Mailbox
<1> QED BY <1>6, <1>7, <1>8, <1>9 DEF Rest

\* The bit is cleared by the only cog inside.
LEMMA LockClrStep == ASSUME IInv, NEW c \in Cogs, LockClr(c) PROVE Rest'
<1>1. /\ pc[c] = "lockclr" /\ pc'[c] \in {"outside", "lockset", "result"}
      /\ \A d \in Cogs \ {c} : pc'[d] = pc[d]
      /\ UNCHANGED <<taken, lockreg, mem, cmd, box, helper, my, goal, old>>
      /\ holders' = IF Claims(c) THEN holders \cup {c} ELSE holders
  BY DEF LockClr, Goto, IInv, TypeOK, Outside, Claims
<1>2. \A d \in Cogs : ~ Inside(d)'
  BY <1>1 DEF IInv, HeldByOne, Inside
<1>3. \A d \in Cogs \ {c} : Knows(d)' <=> Knows(d)
  BY <1>1 DEF Inside, Knows
<1>4. Knows(c)
  BY <1>1 DEF Knows, Inside
<1>5. OneLock'
  BY <1>1, <1>3, <1>4 DEF IInv, OneLock, LastLeft, The
<1>6. HeldByOne' /\ Purpose'
  BY <1>2 DEF HeldByOne, Purpose, Inside
<1>7. MemoryLock'
  <2>1. \A d \in Cogs : pc'[d] # "set" /\ ~ Claims(d)'
    BY <1>2 DEF Inside, Claims
  <2>2. CASE Claims(c)
    BY <1>1, <2>1, <2>2 DEF IInv, MemoryLock
  <2>3. CASE ~ Claims(c)
    BY <1>1, <2>1, <2>3 DEF IInv, MemoryLock
  <2> QED BY <2>2, <2>3
<1>8. Mailbox'
  BY <1>1 DEF IInv, Mailbox
<1> QED BY <1>5, <1>6, <1>7, <1>8 DEF Rest

\* A step of the cog inside, which stays inside: what is left to show is what
\* it says of the long and of the mailbox.
LEMMA InsideStep ==
  ASSUME IInv, NEW c \in Cogs, Inside(c), Inside(c)',
         \A d \in Cogs \ {c} : pc'[d] = pc[d],
         UNCHANGED <<taken, hw, lockreg, my, goal, holders>>
  PROVE  OneLock' /\ HeldByOne' /\ \A d \in Cogs \ {c} : ~ Inside(d) /\ ~ Inside(d)'
<1>1. \A d \in Cogs \ {c} : ~ Inside(d) /\ ~ Inside(d)'
  BY DEF IInv, HeldByOne, Inside
<1>2. \A d \in Cogs : Knows(d)' <=> Knows(d)
  BY DEF Inside, Knows
<1>3. OneLock'
  BY <1>2 DEF IInv, OneLock, LastLeft, The, Inside
<1>4. HeldByOne'
  BY <1>1 DEF IInv, HeldByOne, The
<1> QED BY <1>1, <1>3, <1>4

\* The long is tested, set, ...
LEMMA TestStep == ASSUME IInv, NEW c \in Cogs, Test(c) PROVE Rest'
<1>1. /\ pc[c] = "test" /\ pc'[c] = (IF mem = 0 THEN "set" ELSE "lockclr") /\ old'[c] = mem
      /\ \A d \in Cogs \ {c} : pc'[d] = pc[d] /\ old'[d] = old[d]
      /\ UNCHANGED <<taken, hw, lockreg, mem, cmd, box, helper, my, goal, holders>>
  BY DEF Test, Goto, IInv, TypeOK
<1>2. Inside(c) /\ Inside(c)'
  BY <1>1 DEF Inside
<1>3. OneLock' /\ HeldByOne' /\ \A d \in Cogs \ {c} : ~ Inside(d) /\ ~ Inside(d)'
  BY <1>1, <1>2, InsideStep
<1>4. Purpose' /\ MemoryLock'
  BY <1>1, <1>3 DEF IInv, Purpose, MemoryLock, Claims, Inside
<1>5. Mailbox'
  BY <1>1 DEF IInv, Mailbox
<1> QED BY <1>3, <1>4, <1>5 DEF Rest

\* ... that is, marked, ...
LEMMA SetStep == ASSUME IInv, NEW c \in Cogs, Set(c) PROVE Rest'
<1>1. /\ pc[c] = "set" /\ pc'[c] = "lockclr" /\ mem' = 1
      /\ \A d \in Cogs \ {c} : pc'[d] = pc[d]
      /\ UNCHANGED <<taken, hw, lockreg, cmd, box, helper, my, goal, old, holders>>
  BY DEF Set, Goto, IInv, TypeOK
<1>2. Inside(c) /\ Inside(c)'
  BY <1>1 DEF Inside
<1>3. OneLock' /\ HeldByOne' /\ \A d \in Cogs \ {c} : ~ Inside(d) /\ ~ Inside(d)'
  BY <1>1, <1>2, InsideStep
<1>4. Purpose' /\ MemoryLock'
  BY <1>1, <1>3 DEF IInv, Purpose, MemoryLock, Claims, Inside
<1>5. Mailbox'
  BY <1>1 DEF IInv, Mailbox
<1> QED BY <1>3, <1>4, <1>5 DEF Rest

\* ... and the mailbox is filled, given its command, and waited for.
LEMMA RemoteStep == ASSUME IInv, NEW c \in Cogs, Args(c) \/ Command(c) \/ Wait(c) PROVE Rest'
<1>1. /\ pc[c] \in {"args", "command", "wait"} /\ pc'[c] \in {"command", "wait", "lockclr"}
      /\ \/ cmd' = cmd /\ (pc[c] = "wait" => cmd = Idle)
         \/ cmd' = c /\ pc'[c] = "wait"
      /\ \A d \in Cogs \ {c} : pc'[d] = pc[d]
      /\ UNCHANGED <<taken, hw, lockreg, mem, my, goal, old, holders>>
  BY DEF Args, Command, Wait, Goto, IInv, TypeOK
<1>2. Inside(c) /\ Inside(c)'
  BY <1>1 DEF Inside
<1>3. OneLock' /\ HeldByOne' /\ \A d \in Cogs \ {c} : ~ Inside(d) /\ ~ Inside(d)'
  BY <1>1, <1>2, InsideStep
<1>4. Purpose' /\ MemoryLock'
  BY <1>1, <1>3 DEF IInv, Purpose, MemoryLock, Claims, Inside
<1>5. Mailbox'
  BY <1>1 DEF IInv, Mailbox
<1> QED BY <1>3, <1>4, <1>5 DEF Rest

\* The caller takes its result and goes.
LEMMA ResultStep == ASSUME IInv, NEW c \in Cogs, Result(c) PROVE Rest'
<1>1. /\ pc[c] = "result" /\ pc'[c] = "outside"
      /\ \A d \in Cogs \ {c} : pc'[d] = pc[d]
      /\ UNCHANGED <<taken, hw, lockreg, mem, cmd, box, helper, my, goal, old, holders>>
  BY DEF Result, Goto, Outside, IInv, TypeOK
<1>2. \A d \in Cogs : (Inside(d)' <=> Inside(d)) /\ (Knows(d)' <=> Knows(d)) /\ (Claims(d)' <=> Claims(d))
  BY <1>1 DEF Inside, Knows, Claims
<1>3. OneLock'
  BY <1>1, <1>2 DEF IInv, OneLock, LastLeft, The
<1>4. HeldByOne' /\ Purpose' /\ MemoryLock'
  BY <1>1, <1>2 DEF IInv, HeldByOne, Purpose, MemoryLock, The
<1>5. Mailbox'
  BY <1>1 DEF IInv, Mailbox
<1> QED BY <1>3, <1>4, <1>5 DEF Rest

\* Every step keeps the invariant.
LEMMA NextInv == ASSUME IInv, [Next]_vars PROVE IInv'
<1>1. CASE UNCHANGED vars
  BY <1>1 DEF vars, IInv, TypeOK, OneLock, LastLeft, The, Knows, Inside, HeldByOne, Purpose, MemoryLock,
              Claims, Mailbox
<1>2. CASE Next
  <2>1. TypeOK'
    BY <1>2, TypeStep DEF IInv
  <2>2. ASSUME Answer \/ TimeOut \/ CheckCogs PROVE Rest'
    <3>1. cmd' \in {cmd, Idle} /\ UNCHANGED <<taken, hw, lockreg, mem, pc, my, goal, old, holders>>
      BY <2>2 DEF Answer, TimeOut, CheckCogs
    <3> QED BY <3>1, HelperStep
  <2>3. ASSUME \E c \in Cogs : Call(c) \/ Unlock(c) \/ Step(c) PROVE Rest'
    BY <2>3, CallStep, UnlockStep, GetRegStep, LockNewStep, PublishStep, LockSetStep, LockClrStep, TestStep,
       SetStep, RemoteStep, ResultStep DEF Step
  <2>4. Rest'
    BY <1>2, <2>2, <2>3 DEF Next, Helper, Character
  <2> QED BY <2>1, <2>4 DEF IInv, Rest
<1> QED BY <1>1, <1>2

-----------------------------------------------------------------------------
(* The theorems *)

\* The hardware lock, the memory lock and the mailbox agree with where the
\* cogs are.
THEOREM LocksInOrder == ASSUME Preset PROVE Spec => []IInv
<1>1. IInv /\ [Next]_vars => IInv'
  BY NextInv
<1> QED BY <1>1, InitInv, PTL DEF Spec

\* Lock numbers, the byte and the long stay in range.
THEOREM TypeCorrect == ASSUME Preset PROVE Spec => []TypeOK
<1>1. IInv => TypeOK
  BY DEF IInv
<1> QED BY <1>1, LocksInOrder, PTL

\* Two cogs never hold the memory lock.
THEOREM Exclusion == ASSUME Preset PROVE Spec => []MutualExclusion
<1>1. IInv => MutualExclusion
  BY DEF IInv, MemoryLock, MutualExclusion
<1> QED BY <1>1, LocksInOrder, PTL

\* _lockmem and _unlockmem implement the abstract lock.
THEOREM MutexImplemented == ASSUME Preset PROVE Spec => ImplementsMutex
<1>1. Init => M!Init
  BY DEF Init, M!Init
<1>2. ASSUME IInv, [Next]_vars PROVE [M!Next]_holders
  <2>1. CASE holders' = holders
    BY <2>1
  <2>2. CASE holders' # holders
    <3>1. PICK c \in Cogs : Unlock(c) \/ LockClr(c)
      BY <1>2, <2>2 DEF Next, Step, vars, Helper, Character, Answer, TimeOut, CheckCogs, Call, GetReg, LockNew, Publish,
                        LockSet, Test, Set, Args, Command, Wait, Result
    <3>2. CASE Unlock(c)
      BY <3>2 DEF Unlock, M!Next, M!Release
    <3>3. CASE LockClr(c)
      <4>1. Claims(c) /\ holders' = holders \cup {c}
        BY <3>3, <2>2 DEF LockClr, Claims
      <4>2. holders = {}
        BY <1>2, <4>1 DEF IInv, MemoryLock
      <4> QED BY <4>1, <4>2 DEF M!Next, M!Acquire
    <3> QED BY <3>1, <3>2, <3>3
  <2> QED BY <2>1, <2>2
<1> QED BY <1>1, <1>2, LocksInOrder, PTL DEF Spec, ImplementsMutex, M!Spec

\* The mailbox of the helper cog is not written over by another cog, and by
\* the helper itself only if its count was under way.
THEOREM CommandsKept == ASSUME Preset PROVE Spec => CommandKept
<1> DEFINE Same == /\ cmd' \in {cmd, Idle}
                   /\ box'.of = box.of
                   /\ box'.first \in {box.first, Idle}
                   /\ helper = "poll" => helper' = "poll" /\ box'.first = box.first
<1>1. ASSUME IInv, [Next]_vars PROVE [cmd # Idle => Same]_vars
  <2>1. SUFFICES ASSUME cmd # Idle, Next PROVE Same
    BY <1>1
  <2>2. cmd \in Cogs /\ pc[cmd] = "wait" /\ Inside(cmd)
    BY <1>1, <2>1 DEF IInv, Mailbox, Inside
  <2>3. \A c \in Cogs : pc[c] \notin {"args", "command"}
    BY <1>1, <2>2 DEF IInv, HeldByOne, Inside
  <2>4. box \in [of : Cogs \cup {Idle}, first : Cogs \cup {Idle}, done : BOOLEAN]
    BY <1>1 DEF IInv, TypeOK
  <2>5. CASE Answer
    BY <2>4, <2>5 DEF Answer
  <2>6. CASE CheckCogs
    BY <2>4, <2>6 DEF CheckCogs
  <2>7. CASE ~ (Answer \/ CheckCogs)
    <3>1. UNCHANGED <<cmd, box, helper>>
      BY <2>1, <2>3, <2>7 DEF Next, Step, Helper, Character, TimeOut, Call, Unlock, GetReg, LockNew, Publish,
                              LockSet, LockClr, Test, Set, Args, Command, Wait, Result
    <3> QED BY <3>1
  <2> QED BY <2>5, <2>6, <2>7
<1> QED BY <1>1, LocksInOrder, PTL DEF Spec, CommandKept
=============================================================================
