--------------------------- MODULE LockMemProofs ----------------------------
(***************************************************************************)
(* _lockmem excludes for every number of cogs, if a cog in the asm block   *)
(* misses at most one window between two accesses of the hub.              *)
(*                                                                         *)
(* The argument is one of deadlines.  A cog that has read zero writes its  *)
(* mark before Deadline windows have passed; a cog that has written makes  *)
(* its last read after Earliest windows at least.  While the long holds    *)
(* the writer's mark nobody else reads zero, and those who had read it     *)
(* before write too early to be missed by that last read.                  *)
(***************************************************************************)
EXTENDS LockMem, Integers, TLAPS

\* At the time of a mark every rival must be able to write within two turns.
Timely == MaxSkip <= 1

\* The windows until the hub serves cog c.
Dist(c) == IF c >= turn THEN c - turn ELSE c - turn + NCogs

\* The windows within which cog c writes or reads again, ...
Deadline(c) == Dist(c) + (IF skipped[c] < MaxSkip THEN NCogs ELSE 0)

\* ... and those that pass before its last read.
Earliest(c) == Dist(c) + (IF pc[c] = "reread1" THEN NCogs ELSE 0)

\* Cogs whose last read has returned their mark.
Winner(c) == pc[c] = Holding \/ (pc[c] = "test" /\ r[c] = c)
Rereading(c) == pc[c] \in {"reread1", "reread2"}

\* A mark in the long is that of a cog which wrote it in its present round.
MarkOwned == \A c \in Cogs : mem = c => Winner(c) \/ Rereading(c)

\* The winner's mark is in the long, and nobody is about to overwrite it.
WinnerSafe ==
  \A c \in Cogs : Winner(c) => mem = c /\ \A d \in Cogs : pc[d] # "write"

\* Rivals of a cog whose mark is in the long write before its last read.
RivalsInTime ==
  \A c, d \in Cogs : mem = c /\ Rereading(c) /\ pc[d] = "write" => Deadline(d) < Earliest(c)

IInv == TypeOK /\ MarkOwned /\ WinnerSafe /\ RivalsInTime

-----------------------------------------------------------------------------
\* The rotation, without the remainder.
LEMMA RotateOne ==
  ASSUME turn \in Cogs, Rotate
  PROVE  turn' \in Cogs /\ turn' = IF turn = NCogs - 1 THEN 0 ELSE turn + 1
<1>1. NCogs \in Nat \ {0} /\ turn \in 0 .. NCogs - 1
  BY LockMemAssumption DEF Cogs
<1>2. CASE turn = NCogs - 1
  <2>1. turn + 1 = NCogs
    BY <1>1, <1>2
  <2>2. NCogs % NCogs = 0
    BY <1>1
  <2> QED BY <1>1, <1>2, <2>1, <2>2 DEF Rotate, Cogs
<1>3. CASE turn # NCogs - 1
  <2>1. turn + 1 \in 0 .. NCogs - 1
    BY <1>1, <1>3
  <2>2. (turn + 1) % NCogs = turn + 1
    BY <1>1, <2>1
  <2> QED BY <1>3, <2>1, <2>2 DEF Rotate, Cogs
<1> QED BY <1>2, <1>3

\* A window passes: everybody's distance is one less, but that of the cog
\* that was served, which has to wait for a whole turn.
LEMMA DistNext ==
  ASSUME turn \in Cogs, Rotate, NEW c \in Cogs
  PROVE  /\ Dist(c) \in 0 .. NCogs - 1
         /\ Dist(c)' = IF c = turn THEN NCogs - 1 ELSE Dist(c) - 1
         /\ Dist(c) = 0 <=> c = turn
<1>1. NCogs \in Nat \ {0} /\ turn \in 0 .. NCogs - 1 /\ c \in 0 .. NCogs - 1
  BY LockMemAssumption DEF Cogs
<1>2. turn' = IF turn = NCogs - 1 THEN 0 ELSE turn + 1
  BY RotateOne
<1> QED BY <1>1, <1>2 DEF Dist

-----------------------------------------------------------------------------
(* The steps *)

\* Every step keeps the types; a window can only be missed while some are left.
LEMMA TypeStep == ASSUME TypeOK, Next PROVE TypeOK'
<1>1. NCogs \in Nat \ {0} /\ MaxSkip \in Nat /\ 0 \in 0 .. MaxSkip
  BY LockMemAssumption
<1>2. ASSUME Rotate PROVE turn' \in Cogs
  BY <1>2, RotateOne DEF TypeOK
<1>3. PICK d \in Cogs : \/ ReadFirst(d) \/ WriteMark(d) \/ ReadAgain(d) \/ ReadLast(d)
                        \/ Unlock(d) \/ Miss(d) \/ Call(d) \/ Test(d)
  BY DEF Next
<1>4. CASE ReadFirst(d)
  BY <1>1, <1>2, <1>4 DEF TypeOK, ReadFirst, Goto
<1>5. CASE WriteMark(d)
  BY <1>1, <1>2, <1>5 DEF TypeOK, WriteMark, Goto
<1>6. CASE ReadAgain(d)
  BY <1>1, <1>2, <1>6 DEF TypeOK, ReadAgain, Goto
<1>7. CASE ReadLast(d)
  BY <1>1, <1>2, <1>7 DEF TypeOK, ReadLast, Goto
<1>8. CASE Unlock(d)
  BY <1>2, <1>8 DEF TypeOK, Unlock, Goto
<1>9. CASE Miss(d)
  <2>1. CASE InBlock(d)
    <3>1. skipped[d] + 1 \in 0 .. MaxSkip
      BY <1>1, <1>9, <2>1 DEF Miss, CanMiss, TypeOK
    <3> QED BY <3>1, <2>1, <1>2, <1>9 DEF TypeOK, Miss
  <2>2. CASE ~ InBlock(d)
    BY <2>2, <1>2, <1>9 DEF TypeOK, Miss
  <2> QED BY <2>1, <2>2
<1>10. CASE Call(d)
  BY <1>10 DEF TypeOK, Call, Goto
<1>11. CASE Test(d)
  BY <1>11 DEF TypeOK, Test, Goto
<1> QED BY <1>3, <1>4, <1>5, <1>6, <1>7, <1>8, <1>9, <1>10, <1>11


\* Zero is no cog's mark.
LEMMA FreeNoCog == Free \notin Cogs
BY LockMemAssumption DEF Free, Cogs

\* A window passes for a cog that may have to write, ...
LEMMA DeadlinePasses ==
  ASSUME IInv, Rotate, NEW c \in Cogs, c # turn, skipped'[c] = skipped[c]
  PROVE  Deadline(c)' = Deadline(c) - 1 /\ Deadline(c) \in Nat /\ Deadline(c)' \in Nat /\ Deadline(c)' <= 2 * NCogs - 2
<1>1. NCogs \in Nat \ {0} /\ turn \in Cogs
  BY LockMemAssumption DEF IInv, TypeOK
<1>2. Dist(c) \in 0 .. NCogs - 1 /\ Dist(c)' = Dist(c) - 1 /\ Dist(c) # 0
  BY <1>1, DistNext
<1> QED BY <1>1, <1>2 DEF Deadline

\* ... and for one that reads again.
LEMMA EarliestPasses ==
  ASSUME IInv, Rotate, NEW c \in Cogs, c # turn, pc'[c] = pc[c]
  PROVE  Earliest(c)' = Earliest(c) - 1 /\ Earliest(c) \in Nat
<1>1. NCogs \in Nat \ {0} /\ turn \in Cogs
  BY LockMemAssumption DEF IInv, TypeOK
<1>2. Dist(c) \in 0 .. NCogs - 1 /\ Dist(c)' = Dist(c) - 1
  BY <1>1, DistNext
<1> QED BY <1>1, <1>2 DEF Earliest

\* Nothing changes between two cogs that are not served.
LEMMA RivalsPass ==
  ASSUME IInv, Rotate, NEW c \in Cogs, c = turn, mem' = mem,
         \A d \in Cogs \ {c} : pc'[d] = pc[d] /\ skipped'[d] = skipped[d],
         NEW a \in Cogs, NEW b \in Cogs, a # c, b # c,
         mem = a, Rereading(a)', pc'[b] = "write"
  PROVE  Deadline(b)' < Earliest(a)'
<1>1. Rereading(a) /\ pc[b] = "write" /\ pc'[a] = pc[a] /\ skipped'[b] = skipped[b]
  BY DEF Rereading
<1>2. Deadline(b) < Earliest(a)
  BY <1>1 DEF IInv, RivalsInTime
<1>3. Deadline(b)' = Deadline(b) - 1 /\ Deadline(b) \in Nat
  BY <1>1, DeadlinePasses
<1>4. Earliest(a)' = Earliest(a) - 1 /\ Earliest(a) \in Nat
  BY <1>1, EarliestPasses
<1> QED BY <1>2, <1>3, <1>4

\* A cog that reads zero is about to write, one that reads a mark goes back:
\* the former when no mark is in the long, the latter never by its own.
LEMMA ReadFirstStep ==
  ASSUME IInv, NEW c \in Cogs, ReadFirst(c)
  PROVE  MarkOwned' /\ WinnerSafe' /\ RivalsInTime'
<1>1. /\ mem' = mem /\ pc[c] = "read" /\ turn = c /\ Rotate
      /\ \A d \in Cogs \ {c} : pc'[d] = pc[d] /\ r'[d] = r[d] /\ skipped'[d] = skipped[d]
      /\ pc'[c] = (IF mem = Free THEN "write" ELSE "test") /\ r'[c] = mem
  BY DEF ReadFirst, Goto, IInv, TypeOK
<1>2. mem # c
  BY <1>1 DEF IInv, MarkOwned, Winner, Rereading, Outside, Holding
<1>3. Free \notin Cogs
  BY FreeNoCog
<1>4. ~ Winner(c)' /\ ~ Rereading(c)'
  BY <1>1, <1>2 DEF Winner, Rereading, Holding
<1>5. \A d \in Cogs \ {c} : (Winner(d)' <=> Winner(d)) /\ (Rereading(d)' <=> Rereading(d))
  BY <1>1 DEF Winner, Rereading
<1>6. MarkOwned'
  BY <1>1, <1>2, <1>4, <1>5 DEF IInv, MarkOwned
<1>7. WinnerSafe'
  BY <1>1, <1>3, <1>4, <1>5 DEF IInv, WinnerSafe
<1>8. RivalsInTime'
  <2>1. SUFFICES ASSUME NEW a \in Cogs, NEW b \in Cogs, mem' = a, Rereading(a)', pc'[b] = "write"
                 PROVE  Deadline(b)' < Earliest(a)'
    BY DEF RivalsInTime
  <2>2. a # c /\ b # c
    BY <2>1, <1>1, <1>3, <1>4
  <2> QED BY <2>1, <2>2, <1>1, RivalsPass
<1> QED BY <1>6, <1>7, <1>8

\* A mark is written: its writer has two turns to go before the last read, and
\* a rival less than that to write.
LEMMA WriteMarkStep ==
  ASSUME IInv, NEW c \in Cogs, WriteMark(c)
  PROVE  MarkOwned' /\ WinnerSafe' /\ RivalsInTime'
<1>1. /\ mem' = c /\ pc[c] = "write" /\ turn = c /\ Rotate /\ r' = r
      /\ \A d \in Cogs \ {c} : pc'[d] = pc[d] /\ skipped'[d] = skipped[d]
      /\ pc'[c] = "reread1"
  BY DEF WriteMark, Goto, IInv, TypeOK
<1>2. Rereading(c)'
  BY <1>1 DEF Rereading
<1>3. MarkOwned'
  BY <1>1, <1>2 DEF MarkOwned
<1>4. \A d \in Cogs : ~ Winner(d)
  BY <1>1 DEF IInv, WinnerSafe
<1>5. WinnerSafe'
  BY <1>1, <1>4 DEF Winner, WinnerSafe, Holding
<1>6. ASSUME NEW b \in Cogs, pc'[b] = "write" PROVE Deadline(b)' < Earliest(c)'
  <2>1. b # c
    BY <1>1, <1>6
  <2>2. Deadline(b)' \in Nat /\ Deadline(b)' <= 2 * NCogs - 2
    BY <2>1, <1>1, DeadlinePasses
  <2>3. NCogs \in Nat \ {0} /\ Dist(c)' = NCogs - 1
    BY <1>1, DistNext, LockMemAssumption DEF IInv, TypeOK
  <2> QED BY <2>2, <2>3, <1>1 DEF Earliest
<1>7. RivalsInTime'
  BY <1>1, <1>6 DEF RivalsInTime
<1> QED BY <1>3, <1>5, <1>7

\* The first of the two reads.
LEMMA ReadAgainStep ==
  ASSUME IInv, NEW c \in Cogs, ReadAgain(c)
  PROVE  MarkOwned' /\ WinnerSafe' /\ RivalsInTime'
<1>1. /\ mem' = mem /\ pc[c] = "reread1" /\ turn = c /\ Rotate
      /\ \A d \in Cogs \ {c} : pc'[d] = pc[d] /\ r'[d] = r[d] /\ skipped'[d] = skipped[d]
      /\ pc'[c] = "reread2"
  BY DEF ReadAgain, Goto, IInv, TypeOK
<1>2. ~ Winner(c) /\ ~ Winner(c)' /\ Rereading(c) /\ Rereading(c)'
  BY <1>1 DEF Winner, Rereading, Holding
<1>3. \A d \in Cogs \ {c} : (Winner(d)' <=> Winner(d)) /\ (Rereading(d)' <=> Rereading(d))
  BY <1>1 DEF Winner, Rereading
<1>4. MarkOwned'
  BY <1>1, <1>2, <1>3 DEF IInv, MarkOwned
<1>5. WinnerSafe'
  BY <1>1, <1>2, <1>3 DEF IInv, WinnerSafe
<1>6. RivalsInTime'
  <2>1. SUFFICES ASSUME NEW a \in Cogs, NEW b \in Cogs, mem' = a, Rereading(a)', pc'[b] = "write"
                 PROVE  Deadline(b)' < Earliest(a)'
    BY DEF RivalsInTime
  <2>2. b # c
    BY <2>1, <1>1
  <2>3. CASE a # c
    BY <2>1, <2>2, <2>3, <1>1, RivalsPass
  <2>4. CASE a = c
    <3>1. Deadline(b) < Earliest(c)
      BY <2>1, <2>2, <2>4, <1>1, <1>2 DEF IInv, RivalsInTime
    <3>2. Deadline(b)' = Deadline(b) - 1 /\ Deadline(b) \in Nat
      BY <2>2, <1>1, DeadlinePasses
    <3>3. NCogs \in Nat \ {0} /\ Dist(c) = 0 /\ Dist(c)' = NCogs - 1
      BY <1>1, DistNext, LockMemAssumption DEF IInv, TypeOK
    <3>4. Earliest(c) = NCogs /\ Earliest(c)' = NCogs - 1
      BY <3>3, <1>1 DEF Earliest
    <3> QED BY <3>1, <3>2, <3>3, <3>4, <2>4
  <2> QED BY <2>3, <2>4
<1> QED BY <1>4, <1>5, <1>6

\* The last read: if it returns the cog's mark, nobody is late.
LEMMA ReadLastStep ==
  ASSUME IInv, NEW c \in Cogs, ReadLast(c)
  PROVE  MarkOwned' /\ WinnerSafe' /\ RivalsInTime'
<1>1. /\ mem' = mem /\ pc[c] = "reread2" /\ turn = c /\ Rotate
      /\ \A d \in Cogs \ {c} : pc'[d] = pc[d] /\ r'[d] = r[d] /\ skipped'[d] = skipped[d]
      /\ pc'[c] = "test" /\ r'[c] = mem
  BY DEF ReadLast, Goto, IInv, TypeOK
<1>2. Rereading(c) /\ ~ Rereading(c)' /\ ~ Winner(c) /\ (Winner(c)' <=> mem = c)
  BY <1>1 DEF Winner, Rereading, Holding
<1>3. \A d \in Cogs \ {c} : (Winner(d)' <=> Winner(d)) /\ (Rereading(d)' <=> Rereading(d))
  BY <1>1 DEF Winner, Rereading
<1>4. MarkOwned'
  BY <1>1, <1>2, <1>3 DEF IInv, MarkOwned
<1>5. ASSUME mem = c, NEW d \in Cogs PROVE pc'[d] # "write"
  <2>1. SUFFICES ASSUME d # c, pc[d] = "write" PROVE FALSE
    BY <1>1
  <2>2. Deadline(d) < Earliest(c)
    BY <2>1, <1>2, <1>5 DEF IInv, RivalsInTime
  <2>3. Dist(c) = 0 /\ Earliest(c) = 0
    BY <1>1, DistNext DEF Earliest, IInv, TypeOK
  <2>4. Deadline(d) \in Nat
    BY <1>1, <2>1, DistNext, LockMemAssumption DEF Deadline, IInv, TypeOK
  <2> QED BY <2>2, <2>3, <2>4
<1>6. WinnerSafe'
  BY <1>1, <1>2, <1>3, <1>5 DEF IInv, WinnerSafe
<1>7. RivalsInTime'
  <2>1. SUFFICES ASSUME NEW a \in Cogs, NEW b \in Cogs, mem' = a, Rereading(a)', pc'[b] = "write"
                 PROVE  Deadline(b)' < Earliest(a)'
    BY DEF RivalsInTime
  <2>2. a # c /\ b # c
    BY <2>1, <1>1, <1>2
  <2> QED BY <2>1, <2>2, <1>1, RivalsPass
<1> QED BY <1>4, <1>6, <1>7

\* The only winner gives the lock up.
LEMMA UnlockStep ==
  ASSUME IInv, NEW c \in Cogs, Unlock(c)
  PROVE  MarkOwned' /\ WinnerSafe' /\ RivalsInTime'
<1>1. /\ mem' = Free /\ pc[c] = Holding /\ r' = r
      /\ \A d \in Cogs \ {c} : pc'[d] = pc[d]
      /\ pc'[c] = Outside
  BY DEF Unlock, Goto, IInv, TypeOK
<1>2. \A d \in Cogs \ {c} : ~ Winner(d)
  BY <1>1 DEF IInv, WinnerSafe, Winner
<1>3. \A d \in Cogs : ~ Winner(d)'
  BY <1>1, <1>2 DEF Winner, Outside, Holding
<1> QED BY <1>1, <1>3, FreeNoCog DEF MarkOwned, WinnerSafe, RivalsInTime

\* A window that is missed brings a late writer nearer to its deadline and
\* leaves a last read where it was or puts it off.
LEMMA MissStep ==
  ASSUME Timely, IInv, NEW c \in Cogs, Miss(c)
  PROVE  MarkOwned' /\ WinnerSafe' /\ RivalsInTime'
<1>1. /\ mem' = mem /\ pc' = pc /\ r' = r /\ turn = c /\ Rotate
      /\ \A d \in Cogs \ {c} : skipped'[d] = skipped[d]
      /\ InBlock(c) => skipped[c] < MaxSkip /\ skipped'[c] = skipped[c] + 1
  BY DEF Miss, CanMiss, IInv, TypeOK
<1>2. MarkOwned' /\ WinnerSafe'
  BY <1>1 DEF IInv, MarkOwned, WinnerSafe, Winner, Rereading
<1>3. NCogs \in Nat \ {0} /\ Dist(c) = 0 /\ Dist(c)' = NCogs - 1
  BY <1>1, DistNext, LockMemAssumption DEF IInv, TypeOK
<1>4. RivalsInTime'
  <2>1. SUFFICES ASSUME NEW a \in Cogs, NEW b \in Cogs, mem' = a, Rereading(a)', pc'[b] = "write"
                 PROVE  Deadline(b)' < Earliest(a)'
    BY DEF RivalsInTime
  <2>2. Rereading(a) /\ pc[b] = "write" /\ a # b
    BY <2>1, <1>1 DEF Rereading
  <2>3. Deadline(b) < Earliest(a)
    BY <2>1, <2>2, <1>1 DEF IInv, RivalsInTime
  <2>4. CASE a # c /\ b # c
    BY <2>1, <2>4, <1>1, RivalsPass
  <2>5. CASE a = c
    <3>1. Deadline(b)' = Deadline(b) - 1 /\ Deadline(b) \in Nat
      BY <2>2, <2>5, <1>1, DeadlinePasses
    <3>2. Earliest(a) <= Earliest(a)' /\ Earliest(a) \in Nat /\ Earliest(a)' \in Nat
      BY <2>5, <1>1, <1>3 DEF Earliest
    <3> QED BY <2>3, <3>1, <3>2
  <2>6. CASE b = c
    <3>1. skipped[c] < MaxSkip /\ skipped'[c] = skipped[c] + 1
      BY <2>2, <2>6, <1>1 DEF InBlock
    <3>2. ~ (skipped'[c] < MaxSkip)
      BY <3>1, LockMemAssumption DEF Timely, IInv, TypeOK
    <3>3. Deadline(c) = NCogs /\ Deadline(c)' = NCogs - 1
      BY <3>1, <3>2, <1>3 DEF Deadline
    <3>4. Earliest(a)' = Earliest(a) - 1 /\ Earliest(a) \in Nat
      BY <2>2, <2>6, <1>1, EarliestPasses
    <3> QED BY <2>3, <2>6, <3>3, <3>4, <1>3
  <2> QED BY <2>4, <2>5, <2>6
<1> QED BY <1>2, <1>4

\* Steps inside a cog: no window passes, and a winner stays one.
LEMMA InsideStep ==
  ASSUME IInv, NEW c \in Cogs, Call(c) \/ Test(c)
  PROVE  MarkOwned' /\ WinnerSafe' /\ RivalsInTime'
<1>1. /\ mem' = mem /\ turn' = turn /\ r' = r /\ skipped' = skipped
      /\ \A d \in Cogs \ {c} : pc'[d] = pc[d]
      /\ \/ pc[c] = Outside /\ pc'[c] = "read"
         \/ pc[c] = "test" /\ pc'[c] = IF r[c] = c THEN Holding ELSE "read"
  BY DEF Call, Test, Goto, IInv, TypeOK
<1>2. \A d \in Cogs : (Winner(d)' <=> Winner(d)) /\ (Rereading(d)' <=> Rereading(d))
  BY <1>1 DEF Winner, Rereading, Outside, Holding
<1>3. pc'[c] # "write" /\ pc[c] # "write" /\ ~ Rereading(c)
  BY <1>1 DEF Rereading, Outside, Holding
<1>4. MarkOwned' /\ WinnerSafe'
  BY <1>1, <1>2, <1>3 DEF IInv, MarkOwned, WinnerSafe
<1>5. RivalsInTime'
  <2>1. SUFFICES ASSUME NEW a \in Cogs, NEW b \in Cogs, mem' = a, Rereading(a)', pc'[b] = "write"
                 PROVE  Deadline(b)' < Earliest(a)'
    BY DEF RivalsInTime
  <2>2. a # c /\ b # c /\ Rereading(a)
    BY <2>1, <1>2, <1>3
  <2>3. Deadline(b) < Earliest(a)
    BY <2>1, <2>2, <1>1 DEF IInv, RivalsInTime
  <2>4. Deadline(b)' = Deadline(b) /\ Earliest(a)' = Earliest(a)
    BY <2>2, <1>1 DEF Deadline, Earliest, Dist
  <2> QED BY <2>3, <2>4
<1> QED BY <1>4, <1>5

\* Initially the long is zero and no cog is in _lockmem.
LEMMA InitInv == Init => IInv
<1>1. SUFFICES ASSUME Init PROVE IInv
  OBVIOUS
<1>2. TypeOK
  <2>1. 0 \in 0 .. MaxSkip
    BY LockMemAssumption
  <2> QED BY <1>1, <2>1 DEF Init, TypeOK
<1>3. mem \notin Cogs
  BY <1>1, FreeNoCog DEF Init
<1>4. \A c \in Cogs : ~ Winner(c)
  BY <1>1 DEF Init, Winner, Outside, Holding
<1> QED BY <1>2, <1>3, <1>4 DEF IInv, MarkOwned, WinnerSafe, RivalsInTime

\* Every step keeps the invariant, if no cog is too late.
LEMMA NextInv == ASSUME Timely, IInv, [Next]_vars PROVE IInv'
<1>1. CASE UNCHANGED vars
  BY <1>1 DEF vars, IInv, TypeOK, MarkOwned, WinnerSafe, RivalsInTime, Winner, Rereading,
              Deadline, Earliest, Dist
<1>2. CASE Next
  <2>1. TypeOK'
    BY <1>2, TypeStep DEF IInv
  <2>2. PICK c \in Cogs : \/ ReadFirst(c) \/ WriteMark(c) \/ ReadAgain(c) \/ ReadLast(c)
                          \/ Unlock(c) \/ Miss(c) \/ Call(c) \/ Test(c)
    BY <1>2 DEF Next
  <2>3. MarkOwned' /\ WinnerSafe' /\ RivalsInTime'
    BY <2>2, ReadFirstStep, WriteMarkStep, ReadAgainStep, ReadLastStep, UnlockStep, MissStep, InsideStep
  <2> QED BY <2>1, <2>3 DEF IInv
<1> QED BY <1>1, <1>2

-----------------------------------------------------------------------------
(* The theorems *)

\* The lock's long, the rotation and the cogs' registers stay in range, rivals
\* write in time, and the winner's mark is safe.
THEOREM LockInOrder == ASSUME Timely PROVE Spec => []IInv
<1>1. IInv /\ [Next]_vars => IInv'
  BY NextInv
<1> QED BY <1>1, InitInv, PTL DEF Spec

\* The part of it about types.
THEOREM TypeCorrect == ASSUME Timely PROVE Spec => []TypeOK
<1>1. IInv => TypeOK
  BY DEF IInv
<1> QED BY <1>1, LockInOrder, PTL

\* Two cogs are never both past the last read with their own mark.
THEOREM Exclusion == ASSUME Timely PROVE Spec => []MutualExclusion
<1>1. IInv => MutualExclusion
  BY DEF IInv, WinnerSafe, Winner, MutualExclusion
<1> QED BY <1>1, LockInOrder, PTL

\* No late writer overwrites the mark of a holder.
THEOREM MarkSafe == ASSUME Timely PROVE Spec => []MarkStable
<1>1. IInv => MarkStable
  BY DEF IInv, WinnerSafe, Winner, MarkStable
<1> QED BY <1>1, LockInOrder, PTL

\* _lockmem and _unlockmem implement the abstract lock.
THEOREM MutexImplemented == ASSUME Timely PROVE Spec => ImplementsMutex
<1> DEFINE Holders == {c \in Cogs : pc[c] = Holding}
<1>1. Init => M!Init
  BY DEF Init, M!Init, Outside, Holding
<1>2. ASSUME IInv, [Next]_vars PROVE [M!Next]_Holders
  <2>1. CASE UNCHANGED vars
    BY <2>1 DEF vars
  <2>2. CASE Next
    <3>1. PICK c \in Cogs : \/ ReadFirst(c) \/ WriteMark(c) \/ ReadAgain(c) \/ ReadLast(c)
                            \/ Unlock(c) \/ Miss(c) \/ Call(c) \/ Test(c)
      BY <2>2 DEF Next
    <3>2. pc' \in [Cogs -> {Outside, Holding, "read", "write", "reread1", "reread2", "test"}]
          /\ \A d \in Cogs \ {c} : pc'[d] = pc[d]
      BY <1>2, <3>1, TypeStep, <2>2 DEF IInv, TypeOK, Goto, ReadFirst, WriteMark, ReadAgain, ReadLast,
                                 Unlock, Miss, Call, Test
    <3>3. CASE pc'[c] = pc[c] \/ (pc[c] # Holding /\ pc'[c] # Holding)
      <4>1. \A d \in Cogs : pc'[d] = Holding <=> pc[d] = Holding
        BY <3>2, <3>3
      <4> QED BY <4>1
    <3>4. CASE Unlock(c)
      <4>1. pc[c] = Holding /\ pc'[c] # Holding
        BY <1>2, <3>4 DEF IInv, TypeOK, Goto, Unlock, Outside, Holding
      <4>2. Holders' = Holders \ {c} /\ c \in Holders
        BY <3>2, <4>1
      <4> QED BY <4>2 DEF M!Next, M!Release
    <3>5. CASE Test(c) /\ r[c] = c
      <4>1. Winner(c) /\ pc[c] # Holding /\ pc'[c] = Holding
        BY <1>2, <3>5 DEF Test, Winner, Holding, Goto, IInv, TypeOK
      <4>2. \A d \in Cogs : pc[d] # Holding
        BY <1>2, <4>1 DEF IInv, WinnerSafe, Winner
      <4>3. Holders = {} /\ Holders' = {c}
        BY <4>1, <4>2, <3>2
      <4> QED BY <4>3 DEF M!Next, M!Acquire
    <3>6. \/ pc'[c] = pc[c] \/ (pc[c] # Holding /\ pc'[c] # Holding)
          \/ Unlock(c) \/ (Test(c) /\ r[c] = c)
      BY <1>2, <3>1 DEF IInv, TypeOK, Goto, ReadFirst, WriteMark, ReadAgain, ReadLast, Miss, Call, Test,
                  Outside, Holding
    <3> QED BY <3>3, <3>4, <3>5, <3>6
  <2> QED BY <1>2, <2>1, <2>2
<1> QED BY <1>1, <1>2, LockInOrder, PTL DEF Spec, ImplementsMutex, M!Spec
=============================================================================
