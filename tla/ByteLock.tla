------------------------------ MODULE ByteLock ------------------------------
(***************************************************************************)
(* The locks of the P1 bytecode runtime (sys/bytecode_rom.spin).  _lockmem *)
(* protects its test of the lock's long with one hardware lock, which the  *)
(* first caller allocates and publishes in __lockreg.  The same hardware   *)
(* lock serialises _remotecall, the mailbox of the helper cog that does    *)
(* serial i/o and unsigned division.  A cog may call it with or without a  *)
(* memory lock in hand.  A helper that has had nothing to do for a while   *)
(* counts the cogs that run, and uses the mailbox for it.                  *)
(***************************************************************************)
EXTENDS Integers, FiniteSets

CONSTANTS
  Cogs,      \* cogs that run bytecode
  NLocks,    \* hardware locks of the chip
  Preset,    \* is __lockreg set, or all but the last lock gone, when the others start?
  Calls      \* Calls[c]: the calls that cog c makes (CallNames)

Locks == 0 .. NLocks - 1
NoLock == NLocks         \* the initial $ff; also the -1 of a failed _locknew
Idle == "idle"           \* __helper_cmd = 0

\* _txraw and _setbaud; _div64, _unsigned_div, _unsigned_mod and _rxpoll;
\* _rxraw with no timeout, which the helper answers when a character comes.
CallNames == {"lockmem", "send", "divide", "receive"}

ASSUME ByteLockAssumption ==
  /\ NLocks \in Nat \ {0} /\ Preset \in BOOLEAN
  /\ Idle \notin Cogs
  /\ Calls \in [Cogs -> SUBSET CallNames]

VARIABLES
  taken,     \* hardware locks handed out by _locknew
  hw,        \* hw[l]: the state bit of hardware lock l
  lockreg,   \* the byte __lockreg
  mem,       \* the long of the one memory lock: 0 or 1
  cmd,       \* __helper_cmd: Idle, or the cog whose command is in the mailbox
  box,       \* __helper_arg: whose arguments or results it holds (of), whose
             \* the first of them is (first; Idle: the helper's own), if the
             \* results are there (done)
  helper,    \* where the helper is
  pc,        \* where each cog is
  my,        \* my[c]: the local lockreg (rlock in _remotecall)
  goal,      \* goal[c]: the call under way
  old,       \* old[c]: oldmem
  holders    \* cogs that have returned from _lockmem and not yet unlocked

vars == <<taken, hw, lockreg, mem, cmd, box, helper, pc, my, goal, old, holders>>

Outside == "outside"     \* in no call

Init ==
  /\ taken \in SUBSET Locks
  /\ hw = [l \in Locks |-> FALSE]
  /\ lockreg \in taken \cup {NoLock}
  /\ Preset /\ lockreg = NoLock => Locks \ taken \subseteq {NLocks - 1}
  /\ mem = 0
  /\ cmd = Idle
  /\ box = [of |-> Idle, first |-> Idle, done |-> FALSE]
  /\ helper = "poll"
  /\ pc = [c \in Cogs |-> Outside]
  /\ my = [c \in Cogs |-> NoLock]
  /\ goal = [c \in Cogs |-> "none"]
  /\ old = [c \in Cogs |-> 0]
  /\ holders = {}

Goto(c, l) == pc' = [pc EXCEPT ![c] = l]

-----------------------------------------------------------------------------
(* __getlockreg and the hardware lock.                                     *)

Call(c) ==               \* _lockmem is not called again by its holder
  /\ pc[c] = Outside
  /\ \E g \in Calls[c] : /\ g = "lockmem" => c \notin holders
                         /\ goal' = [goal EXCEPT ![c] = g]
  /\ Goto(c, "getreg")
  /\ UNCHANGED <<taken, hw, lockreg, mem, cmd, box, helper, my, old, holders>>

GetReg(c) ==             \* r := __lockreg; if r == $ff
  /\ pc[c] = "getreg"
  /\ my' = [my EXCEPT ![c] = lockreg]
  /\ Goto(c, IF lockreg = NoLock THEN "locknew" ELSE "lockset")
  /\ UNCHANGED <<taken, hw, lockreg, mem, cmd, box, helper, goal, old, holders>>

LockNew(c) ==            \* r := _locknew
  /\ pc[c] = "locknew"
  /\ \/ \E l \in Locks \ taken : /\ my' = [my EXCEPT ![c] = l]
                                 /\ taken' = taken \cup {l}
     \/ taken = Locks /\ my' = [my EXCEPT ![c] = NoLock] /\ UNCHANGED taken
  /\ Goto(c, "publish")
  /\ UNCHANGED <<hw, lockreg, mem, cmd, box, helper, goal, old, holders>>

Publish(c) ==            \* __lockreg := r
  /\ pc[c] = "publish"
  /\ lockreg' = my[c]
  /\ Goto(c, "lockset")
  /\ UNCHANGED <<taken, hw, mem, cmd, box, helper, my, goal, old, holders>>

\* _lockset and _lockclr look at the low bits only: -1 means the last lock.
Index(l) == IF l = NoLock THEN NLocks - 1 ELSE l

\* Mutant: the state the hardware returns is ignored.
MaySetAlways(l) == TRUE
MaySet(l) == ~ hw[l]

\* repeat while _lockset(lockreg): the hardware sets the bit and returns what
\* it was.  A turn that finds it set changes nothing.
LockSet(c) ==
  /\ pc[c] = "lockset" /\ MaySet(Index(my[c]))
  /\ hw' = [hw EXCEPT ![Index(my[c])] = TRUE]
  /\ Goto(c, IF goal[c] = "lockmem" THEN "test" ELSE "args")
  /\ UNCHANGED <<taken, lockreg, mem, cmd, box, helper, my, goal, old, holders>>

\* _lockclr(lockreg); _lockmem returns if it found the long zero and else
\* starts over, _remotecall returns to a caller that may want the result.
LockClr(c) ==
  /\ pc[c] = "lockclr"
  /\ hw' = [hw EXCEPT ![Index(my[c])] = FALSE]
  /\ CASE goal[c] = "lockmem" /\ old[c] = 0 ->
            Goto(c, Outside) /\ holders' = holders \cup {c}
       [] goal[c] = "lockmem" /\ old[c] # 0 ->
            Goto(c, "lockset") /\ UNCHANGED holders
       [] goal[c] = "send" -> Goto(c, Outside) /\ UNCHANGED holders
       [] OTHER -> Goto(c, "result") /\ UNCHANGED holders
  /\ UNCHANGED <<taken, lockreg, mem, cmd, box, helper, my, goal, old>>

-----------------------------------------------------------------------------
(* _lockmem(addr) and _unlockmem(addr).                                    *)

Test(c) ==               \* oldmem := byte[addr]
  /\ pc[c] = "test"
  /\ old' = [old EXCEPT ![c] = mem]
  /\ Goto(c, IF mem = 0 THEN "set" ELSE "lockclr")
  /\ UNCHANGED <<taken, hw, lockreg, mem, cmd, box, helper, my, goal, holders>>

\* Mutant: the caller's mark is written, as _lockmem of common_pasm.spin does.
SetMark(c) ==
  /\ pc[c] = "set"
  /\ mem' = 256
  /\ Goto(c, "lockclr")
  /\ UNCHANGED <<taken, hw, lockreg, cmd, box, helper, my, goal, old, holders>>

Set(c) ==                \* long[addr] := 1
  /\ pc[c] = "set"
  /\ mem' = 1
  /\ Goto(c, "lockclr")
  /\ UNCHANGED <<taken, hw, lockreg, cmd, box, helper, my, goal, old, holders>>

Unlock(c) ==             \* long[addr] := 0, without the hardware lock
  /\ pc[c] = Outside /\ c \in holders
  /\ mem' = 0
  /\ holders' = holders \ {c}
  /\ UNCHANGED <<taken, hw, lockreg, cmd, box, helper, pc, my, goal, old>>

-----------------------------------------------------------------------------
(* _remotecall(cmd, arg0, arg1, arg2) and the helper cog.                  *)

Args(c) ==               \* longmove(@__helper_arg[0], @arg0, 3)
  /\ pc[c] = "args"
  /\ box' = [of |-> c, first |-> c, done |-> FALSE]
  /\ Goto(c, "command")
  /\ UNCHANGED <<taken, hw, lockreg, mem, cmd, helper, my, goal, old, holders>>

Command(c) ==            \* __helper_cmd := cmd
  /\ pc[c] = "command"
  /\ cmd' = c
  /\ Goto(c, "wait")
  /\ UNCHANGED <<taken, hw, lockreg, mem, box, helper, my, goal, old, holders>>

\* Mutant: _remotecall returns without _lockclr.
WaitNoClr(c) ==
  /\ pc[c] = "wait" /\ cmd = Idle
  /\ Goto(c, Outside)
  /\ UNCHANGED <<taken, hw, lockreg, mem, cmd, box, helper, my, goal, old, holders>>

Wait(c) ==               \* repeat until __helper_cmd == 0
  /\ pc[c] = "wait" /\ cmd = Idle
  /\ Goto(c, "lockclr")
  /\ UNCHANGED <<taken, hw, lockreg, mem, cmd, box, helper, my, goal, old, holders>>

Result(c) ==             \* return __helper_arg[0], after the _lockclr
  /\ pc[c] = "result"
  /\ Goto(c, Outside)
  /\ UNCHANGED <<taken, hw, lockreg, mem, cmd, box, helper, my, goal, old, holders>>

-----------------------------------------------------------------------------
(* The helper cog.                                                         *)

\* The helper replaces the arguments by the results and clears the command.
Answer ==
  /\ helper = "poll" /\ cmd # Idle
  /\ cmd' = Idle
  /\ box' = [box EXCEPT !.done = TRUE]
  /\ UNCHANGED <<taken, hw, lockreg, mem, helper, pc, my, goal, old, holders>>
Helper == cmd # Idle /\ goal[cmd] # "receive" /\ Answer
Character == cmd # Idle /\ goal[cmd] = "receive" /\ Answer

\* djnz :timeout: for half a second no read of the command found one.
TimeOut ==
  /\ helper = "poll" /\ cmd = Idle
  /\ helper' = "flag"
  /\ UNCHANGED <<taken, hw, lockreg, mem, cmd, box, pc, my, goal, old, holders>>

\* :check_all_cogs: as many cogs as can be are started, which watch the first
\* argument: it is cleared before, and set to the number of cogs to end them.
\* The cogs of the model run, so the helper is not the last one and goes on.
CheckCogs ==
  /\ helper \in {"flag", "count"}
  /\ box' = [box EXCEPT !.first = Idle]
  /\ helper' = IF helper = "flag" THEN "count" ELSE "poll"
  /\ UNCHANGED <<taken, hw, lockreg, mem, cmd, pc, my, goal, old, holders>>

-----------------------------------------------------------------------------
Step(c) ==
  \/ GetReg(c) \/ LockNew(c) \/ Publish(c) \/ LockSet(c) \/ LockClr(c)
  \/ Test(c) \/ Set(c) \/ Args(c) \/ Command(c) \/ Wait(c) \/ Result(c)
Next == \/ Helper \/ Character \/ TimeOut \/ CheckCogs
        \/ \E c \in Cogs : Call(c) \/ Unlock(c) \/ Step(c)

\* A cog inside a call keeps executing; the helper serves its mailbox and ends
\* its count.  No cog in particular wins the hardware lock, and no character
\* ever comes for certain.
Fairness == WF_vars(Helper) /\ WF_vars(CheckCogs) /\ \A c \in Cogs : WF_vars(Step(c))

Spec == Init /\ [][Next]_vars /\ Fairness

-----------------------------------------------------------------------------
\* The long is 0 or 1 and every cog's lockreg names a lock or is still $ff.
TypeOK ==
  /\ taken \in SUBSET Locks
  /\ hw \in [Locks -> BOOLEAN]
  /\ lockreg \in Locks \cup {NoLock}
  /\ mem \in {0, 1}
  /\ cmd \in Cogs \cup {Idle}
  /\ box \in [of : Cogs \cup {Idle}, first : Cogs \cup {Idle}, done : BOOLEAN]
  /\ helper \in {"poll", "flag", "count"}
  /\ pc \in [Cogs -> {Outside, "getreg", "locknew", "publish", "lockset", "lockclr",
                      "test", "set", "args", "command", "wait", "result"}]
  /\ my \in [Cogs -> Locks \cup {NoLock}]
  /\ goal \in [Cogs -> CallNames \cup {"none"}]
  /\ old \in [Cogs -> {0, 1}]
  /\ holders \in SUBSET Cogs

\* _lockmem and _unlockmem implement the abstract lock.
M == INSTANCE Mutex
ImplementsMutex == M!Spec

\* Two cogs never hold the same memory lock.
MutualExclusion == \A c, d \in holders : c = d

\* A command in the helper's mailbox, and the second and third argument that
\* go with it, stay until the helper has done it.  So does the first argument
\* once the helper looks for commands: only a count of cogs that it began
\* before the command was there may replace it, and does.
CommandKept ==
  [][cmd # Idle => /\ cmd' \in {cmd, Idle}
                   /\ box'.of = box.of
                   /\ box'.first \in {box.first, Idle}
                   /\ helper = "poll" => helper' = "poll" /\ box'.first = box.first]_vars

AwaitsCharacter(c) == pc[c] = "wait" /\ goal[c] = "receive"

\* The hardware lock is never kept for good, by a cog that waits for the
\* helper either, unless that is for a character: _rxraw(0) keeps it, and with
\* it every other cog out of _lockmem, until one comes.
HardwareLockReleased ==
  \A l \in Locks : hw[l] ~> ~ hw[l] \/ \E c \in Cogs : AwaitsCharacter(c)
=============================================================================
