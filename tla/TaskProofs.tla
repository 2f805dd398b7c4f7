----------------------------- MODULE TaskProofs -----------------------------
(***************************************************************************)
(* What the scheduler of task.c switches to is the context of the function *)
(* last started in its slot, which is not asleep, and a halted task is     *)
(* asleep on request, for every number of slots and of functions started,  *)
(* replaced, halted, continued and stopped.                                *)
(***************************************************************************)
EXTENDS Task, TLAPS

\* f is the function last started in slot s.
Last(f, s) == f \in Funs /\ f <= starts /\ slot[f] = s
              /\ \A g \in Funs : f < g /\ g <= starts => slot[g] # s

\* Before the first function is started the main program is alone.
Alone == active = {} /\ pc # "exit" => pc = "run" /\ cur = 0 /\ halted = {}

\* The bit of a stopped task is not left in halted_tasks.
HaltedBits == halted \subseteq active \cup early

\* A function that is asleep is in a halted slot, and nobody else is.
AsleepHalted == \A f \in asleep : slot[f] \in active \cap halted /\ Occupants(slot[f]) = {f}

\* A context is one that was saved in its own slot, ...
ContextsOwn == \A s \in Tasks : jmp[s] = Nobody \/ (jmp[s] \in Funs /\ jmp[s] <= starts /\ slot[jmp[s]] = s)

\* ... and of a task that waits it is the latest.
ContextsLast == \A s \in active : s # cur \/ pc = "scan" => Last(jmp[s], s)

RunsLast == pc = "run" => Last(running, cur)

IInv ==
  /\ TypeOK /\ Alone /\ ContextsOwn /\ ContextsLast /\ RunsLast
  /\ HaltedBits /\ AsleepHalted /\ HaltedSleeps /\ HaltedByRequest

-----------------------------------------------------------------------------
\* Slots and functions are numbers.
LEMMA Ranges ==
  /\ Tasks \subseteq Int /\ Funs \subseteq Int /\ 0 \in Tasks /\ 1 \in Funs /\ Nobody \notin Funs
  /\ NumTasks \in Nat \ {0} /\ MaxStarts \in Nat \ {0}
BY TaskAssumption DEF Tasks, Funs, Nobody

\* The next slot of the search is a slot.
LEMMA AfterInRange == ASSUME NEW s \in Tasks PROVE AfterSlot(s) \in Tasks
BY Ranges DEF AfterSlot, Tasks

\* Before the first call.
LEMMA InitInv == ASSUME Init PROVE IInv
<1>1. /\ active = {} /\ halted = {} /\ cur = 0 /\ running = 1 /\ starts = 1
      /\ asleep = {} /\ early = {} /\ inherits = {}
      /\ pc = "run" /\ t = 0 /\ jmp = [s \in Tasks |-> Nobody] /\ slot = [f \in Funs |-> 0]
  BY DEF Init
<1>2. TypeOK
  BY <1>1, Ranges DEF TypeOK
<1>3. Last(1, 0)
  BY <1>1, Ranges DEF Last
<1> QED BY <1>1, <1>2, <1>3, Ranges DEF IInv, Alone, ContextsOwn, ContextsLast, RunsLast,
           HaltedBits, AsleepHalted, HaltedSleeps, HaltedByRequest

-----------------------------------------------------------------------------
(* The calls that end in __builtin_tasknext *)

\* What a call that has set the bits must leave true before the search.
BitsSet ==
  /\ active' \subseteq active /\ halted' \subseteq Tasks /\ halted' \subseteq active' \cup early'
  /\ asleep' \subseteq Funs /\ inherits' \subseteq Funs /\ early' \subseteq Tasks
  /\ \A s \in active' \cap halted' : Occupants(s) \subseteq asleep' \cup inherits'
  /\ \A f \in asleep' : slot[f] \in active' \cap halted' /\ Occupants(slot[f]) = {f}

\* It enters the search with every context in place.
LEMMA EnterStep == ASSUME IInv, pc = "run", EnterNext, BitsSet PROVE IInv'
<1>1. CASE active' = {}
  <2>1. /\ pc' = "exit" /\ UNCHANGED <<jmp, t, cur, running, slot, starts>>
    BY <1>1 DEF EnterNext
  <2>2. TypeOK'
    BY <2>1 DEF IInv, TypeOK, BitsSet
  <2>3. ContextsOwn'
    BY <2>1 DEF IInv, ContextsOwn
  <2>4. asleep' = {} /\ halted' \subseteq active' \cup early'
    BY <1>1 DEF BitsSet
  <2> QED BY <1>1, <2>1, <2>2, <2>3, <2>4 DEF IInv, Alone, ContextsLast, RunsLast,
             HaltedBits, AsleepHalted, HaltedSleeps, HaltedByRequest
<1>2. CASE active' # {}
  <2>1. /\ pc' = "scan" /\ t' = cur /\ jmp' = [jmp EXCEPT ![cur] = running]
        /\ UNCHANGED <<cur, running, slot, starts>>
    BY <1>2 DEF EnterNext, SearchFrom, Save
  <2>2. TypeOK'
    BY <2>1 DEF IInv, TypeOK, BitsSet
  <2>3. Last(running, cur) /\ jmp \in [Tasks -> Funs \cup {Nobody}] /\ cur \in Tasks
    BY DEF IInv, RunsLast, TypeOK
  <2>4. jmp'[cur] = running /\ \A s \in Tasks \ {cur} : jmp'[s] = jmp[s]
    BY <2>1, <2>3
  <2>5. ContextsOwn'
    BY <2>1, <2>3, <2>4 DEF IInv, ContextsOwn, Last
  <2>6. \A s \in active' : Last(jmp'[s], s)
    BY <2>3, <2>4 DEF IInv, ContextsLast, TypeOK, BitsSet
  <2>7. ContextsLast'
    BY <2>1, <2>6 DEF ContextsLast, Last
  <2>8. \A s \in Tasks : Occupants(s)' = Occupants(s)
    BY <2>1, <2>4 DEF Occupants
  <2>9. active' \subseteq Tasks
    BY <2>2 DEF TypeOK
  <2>10. HaltedByRequest' /\ HaltedBits'
    BY <2>8, <2>9 DEF HaltedByRequest, HaltedBits, BitsSet
  <2>11. AsleepHalted'
    BY <2>1, <2>8, <2>9 DEF AsleepHalted, BitsSet
  <2> QED BY <1>2, <2>1, <2>2, <2>5, <2>7, <2>10, <2>11 DEF IInv, Alone, RunsLast, HaltedSleeps
<1> QED BY <1>1, <1>2

\* An occupant is a function started in the slot.
LEMMA OccupantsFuns ==
  ASSUME IInv, NEW s \in active, pc # "exit"
  PROVE  /\ Occupants(s) \subseteq Funs
         /\ \A f \in Occupants(s) : slot[f] = s /\ f <= starts /\ Occupants(s) = {f}
BY DEF IInv, RunsLast, ContextsLast, Last, Occupants, TypeOK

\* Two slots never have the same occupant.
LEMMA OccupantsApart ==
  ASSUME IInv, pc = "run", NEW s \in Tasks, NEW u \in active, s # u
  PROVE  Occupants(s) \cap Occupants(u) = {}
<1>1. running \in Funs /\ slot[running] = cur
  BY DEF IInv, RunsLast, Last
<1>2. \A v \in Tasks : jmp[v] = Nobody \/ slot[jmp[v]] = v
  BY DEF IInv, ContextsOwn
<1>3. u \in Tasks
  BY DEF IInv, TypeOK
<1>4. \A v \in Tasks : Occupants(v) = IF v = cur THEN {running} ELSE {jmp[v]}
  BY DEF Occupants
<1>5. running # Nobody /\ (u # cur => jmp[u] # Nobody)
  BY <1>1, Ranges DEF IInv, ContextsLast, Last
<1> QED BY <1>1, <1>2, <1>3, <1>4, <1>5

\* Some slots' occupants wake up or are gone: the others stay asleep.
LEMMA StillAsleep ==
  ASSUME IInv, pc = "run", NEW s \in Tasks, NEW u \in active \cap halted, s # u
  PROVE  Occupants(u) \subseteq (asleep \ Occupants(s)) \cup (inherits \ Occupants(s))
<1>1. Occupants(u) \subseteq asleep \cup inherits
  BY DEF IInv, HaltedByRequest
<1> QED BY <1>1, OccupantsApart

\* A slot is given up, or woken: what is left is in order.
LEMMA Forgotten ==
  ASSUME IInv, pc = "run", NEW s \in Tasks,
         active' = active \/ active' = active \ {s}, halted' = halted \ {s}, Forget(s)
  PROVE  BitsSet
<1>1. /\ asleep' = asleep \ Occupants(s) /\ inherits' = inherits \ Occupants(s) /\ early' = early \ {s}
      /\ active' \subseteq active
  BY DEF Forget
<1>2. \A u \in active' \cap halted' : Occupants(u) \subseteq asleep' \cup inherits'
  BY <1>1, StillAsleep
<1>3. \A f \in asleep' : slot[f] \in active' \cap halted' /\ Occupants(slot[f]) = {f}
  <2>1. SUFFICES ASSUME NEW f \in asleep' PROVE slot[f] \in active' \cap halted' /\ Occupants(slot[f]) = {f}
    OBVIOUS
  <2>2. f \in asleep /\ f \notin Occupants(s) /\ slot[f] \in active \cap halted /\ Occupants(slot[f]) = {f}
    BY <1>1, <2>1 DEF IInv, AsleepHalted
  <2>3. slot[f] # s
    BY <2>2
  <2> QED BY <2>2, <2>3
<1>4. /\ halted' \subseteq active' \cup early' /\ halted' \subseteq Tasks
      /\ asleep' \subseteq Funs /\ inherits' \subseteq Funs /\ early' \subseteq Tasks
  BY <1>1 DEF IInv, TypeOK, HaltedBits
<1> QED BY <1>1, <1>2, <1>3, <1>4 DEF BitsSet

\* tasknext changes no bit.
LEMMA TaskNextStep == ASSUME IInv, TaskNext PROVE IInv'
<1>1. pc = "run" /\ UNCHANGED <<active, halted, asleep, early, inherits>> /\ EnterNext
  BY DEF TaskNext
<1>2. BitsSet
  BY <1>1 DEF BitsSet, IInv, HaltedBits, AsleepHalted, HaltedByRequest, TypeOK
<1> QED BY <1>1, <1>2, EnterStep

\* A task that is stopped leaves neither bit behind.
LEMMA TaskStopStep == ASSUME IInv, TaskStop PROVE IInv'
<1>1. PICK s \in Tasks : active' = active \ {s} /\ halted' = halted \ {s} /\ Forget(s)
  BY DEF TaskStop, StillHalted
<1>2. pc = "run" /\ EnterNext
  BY DEF TaskStop
<1> QED BY <1>1, <1>2, Forgotten, EnterStep

\* A task wakes up, if it was asleep.
LEMMA TaskContStep == ASSUME IInv, TaskCont PROVE IInv'
<1>1. PICK s \in Tasks : halted' = halted \ {s} /\ Forget(s)
  BY DEF TaskCont
<1>2. pc = "run" /\ EnterNext /\ active' = active
  BY DEF TaskCont
<1> QED BY <1>1, <1>2, Forgotten, EnterStep

\* A task is put to sleep, or an empty slot is halted.
LEMMA TaskHaltStep == ASSUME IInv, TaskHalt PROVE IInv'
<1>1. PICK s \in Tasks : /\ halted' = halted \cup {s}
                         /\ asleep' = IF s \in active THEN asleep \cup Occupants(s) ELSE asleep
                         /\ early' = IF s \in active THEN early ELSE early \cup {s}
  BY DEF TaskHalt
<1>2. pc = "run" /\ EnterNext /\ active' = active /\ inherits' = inherits
  BY DEF TaskHalt
<1>3. /\ active' \subseteq active /\ halted' \subseteq Tasks /\ halted' \subseteq active' \cup early'
      /\ asleep' \subseteq Funs /\ inherits' \subseteq Funs /\ early' \subseteq Tasks
  BY <1>1, <1>2, OccupantsFuns DEF IInv, HaltedBits, TypeOK
<1>4. \A u \in active' \cap halted' : Occupants(u) \subseteq asleep' \cup inherits'
  BY <1>1, <1>2 DEF IInv, HaltedByRequest
<1>5. \A f \in asleep' : slot[f] \in active' \cap halted' /\ Occupants(slot[f]) = {f}
  BY <1>1, <1>2, OccupantsFuns DEF IInv, AsleepHalted
<1>6. BitsSet
  BY <1>3, <1>4, <1>5 DEF BitsSet
<1> QED BY <1>2, <1>6, EnterStep

-----------------------------------------------------------------------------
(* The loop of the scheduler, and the start of a task *)

\* The search goes on, or ends at a task that may run.
LEMMA ScanStep == ASSUME IInv, Scan PROVE IInv'
<1>1. /\ pc = "scan" /\ t' = AfterSlot(t)
      /\ UNCHANGED <<active, halted, jmp, slot, starts, asleep, early, inherits>>
  BY DEF Scan
<1>2. t' \in Tasks
  BY <1>1, AfterInRange DEF IInv, TypeOK
<1>3. CASE ~ Eligible(t')
  <2>1. UNCHANGED <<cur, running, pc>>
    BY <1>3 DEF Scan
  <2> QED BY <1>1, <1>2, <2>1 DEF IInv, TypeOK, Alone, ContextsOwn, ContextsLast, RunsLast, HaltedBits,
             AsleepHalted, HaltedSleeps, HaltedByRequest, Last, Occupants
<1>4. CASE Eligible(t')
  <2>1. cur' = t' /\ running' = jmp[t'] /\ pc' = "run" /\ t' \in active /\ t' \notin halted
    BY <1>4 DEF Scan, Eligible
  <2>2. \A s \in active : Last(jmp[s], s)
    BY <1>1 DEF IInv, ContextsLast
  <2>3. TypeOK'
    BY <1>1, <1>2, <2>1, <2>2 DEF IInv, TypeOK, Last
  <2>4. \A s : Occupants(s)' = Occupants(s)
    BY <1>1, <2>1 DEF Occupants
  <2>5. HaltedByRequest' /\ AsleepHalted'
    BY <1>1, <2>4 DEF IInv, HaltedByRequest, AsleepHalted
  <2>6. HaltedSleeps'
    BY <1>1, <2>1, <2>2 DEF IInv, AsleepHalted, HaltedSleeps, Last
  <2>7. RunsLast' /\ ContextsLast'
    BY <1>1, <2>1, <2>2 DEF RunsLast, ContextsLast, Last
  <2> QED BY <1>1, <2>1, <2>3, <2>5, <2>6, <2>7 DEF IInv, Alone, HaltedBits, ContextsOwn
<1> QED BY <1>3, <1>4

\* No slot is free: the main program becomes task 0 if it was not, and runs on.
LEMMA StartNoneStep ==
  ASSUME IInv, pc = "run",
         active' = (IF active = {} THEN {0} ELSE active),
         cur' = (IF active = {} THEN 0 ELSE cur),
         UNCHANGED <<halted, jmp, running, slot, starts, asleep, early, inherits, pc, t>>
  PROVE  IInv'
<1>1. cur' = cur /\ active \subseteq active' /\ (active = {} => halted = {} /\ cur = 0)
  BY DEF IInv, Alone
<1>2. TypeOK'
  BY <1>1, Ranges DEF IInv, TypeOK
<1>3. Alone' /\ RunsLast' /\ ContextsOwn' /\ HaltedBits' /\ HaltedSleeps'
  BY <1>1 DEF IInv, HaltedSleeps, HaltedBits, Alone, RunsLast, ContextsOwn, Last
<1>4. ContextsLast' /\ HaltedByRequest' /\ AsleepHalted'
  BY <1>1 DEF IInv, ContextsLast, HaltedByRequest, AsleepHalted, Occupants, Last
<1> QED BY <1>2, <1>3, <1>4 DEF IInv

\* A function is started in slot s: the starting task is saved, and a task
\* that was in the slot is gone.
LEMMA StartedStep ==
  ASSUME IInv, pc = "run", starts < MaxStarts, NEW s \in Tasks,
         active' = (IF active = {} THEN {0} ELSE active) \cup {s},
         cur' = s, Started(IF active = {} THEN {0} ELSE active, s),
         starts' = starts + 1, running' = starts + 1,
         slot' = [slot EXCEPT ![starts + 1] = s],
         asleep' = asleep \ Occupants(s), early' = early \ {s},
         inherits' = (inherits \ Occupants(s))
                      \cup (IF s \in (active \cap halted) \cup early THEN {starts + 1} ELSE {}),
         UNCHANGED <<halted, pc, t>>
  PROVE  IInv'
<1>1. /\ jmp \in [Tasks -> Funs \cup {Nobody}] /\ slot \in [Funs -> Tasks] /\ cur \in Tasks
      /\ starts \in Funs /\ active \subseteq Tasks /\ asleep \subseteq Funs /\ inherits \subseteq Funs
  BY DEF IInv, TypeOK
<1>2. jmp' = [jmp EXCEPT ![cur] = running] /\ (active = {} => cur = 0 /\ halted = {})
  BY DEF IInv, Alone, Started
<1>3. Last(running, cur)
  BY DEF IInv, RunsLast
<1>4. starts + 1 \in Funs /\ \A f \in Funs : f <= starts => f # starts + 1
  BY <1>1, Ranges DEF Funs
<1>5. slot'[starts + 1] = s /\ \A f \in Funs : f <= starts => slot'[f] = slot[f]
  BY <1>1, <1>4
<1>6. TypeOK'
  BY <1>1, <1>2, <1>3, <1>4, Ranges DEF IInv, TypeOK, Last
<1>7. ASSUME NEW f, NEW u \in Tasks, Last(f, u), u # s PROVE Last(f, u)'
  <2>1. f \in Funs /\ f <= starts /\ slot[f] = u /\ \A g \in Funs : f < g /\ g <= starts => slot[g] # u
    BY <1>7 DEF Last
  <2>2. f <= starts'
    BY <2>1, <1>1, Ranges
  <2>3. ASSUME NEW g \in Funs, f < g, g <= starts' PROVE slot'[g] # u
    <3>1. g <= starts \/ g = starts + 1
      BY <2>3, <1>1, Ranges
    <3> QED BY <3>1, <2>1, <2>3, <1>5, <1>7
  <2> QED BY <2>1, <2>2, <2>3, <1>5 DEF Last
<1>8. RunsLast'
  <2>1. \A g \in Funs : ~ (starts + 1 < g /\ g <= starts + 1)
    BY <1>1, Ranges
  <2>2. starts + 1 <= starts + 1
    BY <1>1, Ranges
  <2> QED BY <2>1, <2>2, <1>4, <1>5 DEF RunsLast, Last
<1>9. jmp'[cur] = running /\ \A u \in Tasks \ {cur} : jmp'[u] = jmp[u]
  BY <1>1, <1>2
<1>10. ContextsLast'
  <2>1. SUFFICES ASSUME NEW u \in active', u # s PROVE Last(jmp[u], u)'
    BY DEF ContextsLast
  <2>2. u \in Tasks /\ (u # cur => u \in active)
    BY <1>1, <1>2, <2>1, Ranges
  <2>3. Last(jmp[u], u) \/ u = cur
    BY <2>2 DEF IInv, ContextsLast
  <2>4. PICK f \in Funs : f = jmp'[u] /\ Last(f, u)
    BY <1>3, <1>9, <2>2, <2>3 DEF Last
  <2>5. Last(f, u)'
    BY <1>7, <2>1, <2>2, <2>4
  <2> QED BY <2>4, <2>5 DEF Last
<1>11. ContextsOwn'
  <2>1. SUFFICES ASSUME NEW u \in Tasks, jmp'[u] # Nobody
                 PROVE  jmp'[u] \in Funs /\ jmp'[u] <= starts' /\ slot'[jmp'[u]] = u
    BY DEF ContextsOwn
  <2>2. jmp'[u] \in Funs /\ slot[jmp'[u]] = u /\ jmp'[u] <= starts
    BY <1>3, <1>9, <2>1 DEF IInv, ContextsOwn, Last
  <2>3. jmp'[u] <= starts'
    <3>1. jmp'[u] \in Int /\ starts \in Int
      BY <2>2, <1>1, Ranges
    <3> QED BY <3>1, <2>2
  <2> QED BY <2>2, <2>3, <1>5
<1>12. ASSUME NEW u \in active, u # s PROVE Occupants(u)' = Occupants(u)
  BY <1>1, <1>9, <1>12 DEF Occupants
<1>13. HaltedByRequest'
  <2>1. SUFFICES ASSUME NEW u \in active' \cap halted' PROVE Occupants(u)' \subseteq asleep' \cup inherits'
    BY DEF HaltedByRequest
  <2>2. CASE u = s
    <3>1. Occupants(u)' = {starts + 1}
      BY <2>2 DEF Occupants
    <3>2. s \in (active \cap halted) \cup early
      BY <2>1, <2>2 DEF IInv, HaltedBits
    <3> QED BY <3>1, <3>2
  <2>3. CASE u # s
    <3>1. u \in active \cap halted
      BY <1>2, <2>1, <2>3
    <3>2. Occupants(u) \subseteq asleep' \cup inherits'
      BY <2>3, <3>1, StillAsleep
    <3> QED BY <2>3, <3>1, <3>2, <1>12
  <2> QED BY <2>2, <2>3
<1>14. AsleepHalted'
  <2>1. SUFFICES ASSUME NEW f \in asleep'
                 PROVE  slot'[f] \in active' \cap halted' /\ Occupants(slot[f])' = {f} /\ slot'[f] = slot[f]
    BY DEF AsleepHalted
  <2>2. f \in asleep /\ f \notin Occupants(s) /\ slot[f] \in active \cap halted /\ Occupants(slot[f]) = {f}
    BY <2>1 DEF IInv, AsleepHalted
  <2>3. slot[f] # s /\ f \in Funs /\ f <= starts
    BY <1>1, <2>2, OccupantsFuns
  <2>4. slot'[f] = slot[f]
    BY <1>5, <2>3
  <2>5. slot[f] \in active' /\ slot[f] \in halted'
    BY <2>2
  <2> QED BY <2>2, <2>3, <2>4, <2>5, <1>12 DEF Occupants
<1>15. HaltedSleeps'
  <2>1. \A f \in asleep : f <= starts /\ f \in Funs
    BY <1>1, OccupantsFuns DEF IInv, AsleepHalted
  <2> QED BY <2>1, <1>4 DEF HaltedSleeps
<1>16. HaltedBits' /\ Alone'
  BY <1>2 DEF IInv, HaltedBits, Alone
<1> QED BY <1>6, <1>8, <1>10, <1>11, <1>13, <1>14, <1>15, <1>16 DEF IInv

\* A slot is found or given, or there is none.
LEMMA TaskStartStep == ASSUME IInv, TaskStart PROVE IInv'
<1>1. pc = "run" /\ starts < MaxStarts
  BY DEF TaskStart
<1>2. \/ /\ active' = (IF active = {} THEN {0} ELSE active)
         /\ cur' = (IF active = {} THEN 0 ELSE cur)
         /\ UNCHANGED <<halted, jmp, running, slot, starts, asleep, early, inherits, pc, t>>
      \/ \E s \in Tasks :
           /\ active' = (IF active = {} THEN {0} ELSE active) \cup {s}
           /\ cur' = s /\ Started(IF active = {} THEN {0} ELSE active, s)
           /\ starts' = starts + 1 /\ running' = starts + 1
           /\ slot' = [slot EXCEPT ![starts + 1] = s]
           /\ asleep' = asleep \ Occupants(s) /\ early' = early \ {s}
           /\ inherits' = (inherits \ Occupants(s))
                           \cup (IF s \in (active \cap halted) \cup early THEN {starts + 1} ELSE {})
           /\ UNCHANGED <<halted, pc, t>>
  BY DEF TaskStart
<1> QED BY <1>1, <1>2, StartNoneStep, StartedStep

\* Every step keeps the invariant.
LEMMA NextInv == ASSUME IInv, [Next]_vars PROVE IInv'
<1>1. CASE UNCHANGED vars
  BY <1>1 DEF vars, IInv, TypeOK, Alone, ContextsOwn, ContextsLast, RunsLast, HaltedBits, AsleepHalted,
              HaltedSleeps, HaltedByRequest, Last, Occupants
<1>2. CASE Next
  BY <1>2, TaskNextStep, TaskStopStep, TaskHaltStep, TaskContStep, TaskStartStep, ScanStep DEF Next
<1> QED BY <1>1, <1>2

-----------------------------------------------------------------------------
(* The theorems *)

\* The contexts, the bits and the running task agree after every call.
THEOREM TasksInOrder == Spec => []IInv
<1>1. IInv /\ [Next]_vars => IInv'
  BY NextInv
<1> QED BY <1>1, InitInv, PTL DEF Spec

\* No slot, function or context is ever out of range: a longjmp goes to a
\* context that some setjmp has filled.
THEOREM TypeCorrect == Spec => []TypeOK
<1>1. IInv => TypeOK
  BY DEF IInv
<1> QED BY <1>1, TasksInOrder, PTL

\* A switch resumes the function last started in the slot, never an earlier one.
THEOREM ResumesItsOwn == Spec => []ResumesOwn
<1>1. IInv => ResumesOwn
  BY DEF IInv, RunsLast, Last, ResumesOwn
<1> QED BY <1>1, TasksInOrder, PTL

\* A function that was halted does not run again before it is continued.
THEOREM HaltedTasksSleep == Spec => []HaltedSleeps
<1>1. IInv => HaltedSleeps
  BY DEF IInv
<1> QED BY <1>1, TasksInOrder, PTL

\* A task has the halted bit on request only, or from a start in a halted slot.
THEOREM HaltsOnlyOnRequest == Spec => []HaltedByRequest
<1>1. IInv => HaltedByRequest
  BY DEF IInv
<1> QED BY <1>1, TasksInOrder, PTL
=============================================================================
