-------------------------------- MODULE Task --------------------------------
(***************************************************************************)
(* The cooperative tasks of include/libsys/task.c: up to NumTasks contexts *)
(* on one cog, switched with setjmp and longjmp when the running task      *)
(* calls into the scheduler.  A task slot may be used again; each function *)
(* started gets a number of its own here, so that a context left over from *)
(* an earlier use of a slot can be told from the present one.              *)
(***************************************************************************)
EXTENDS Integers

CONSTANTS
  NumTasks,   \* NUM_TASKS: slots
  MaxStarts   \* bound: calls of __builtin_taskstartv, the main program included

ASSUME TaskAssumption == NumTasks \in Nat \ {0} /\ MaxStarts \in Nat \ {0}

Tasks == 0 .. NumTasks - 1
Funs == 1 .. MaxStarts
Nobody == 0

VARIABLES
  active,     \* active_tasks, as a set of slots
  halted,     \* halted_tasks, as a set of slots
  cur,        \* cur_task
  jmp,        \* jmp[t]: the function whose context __task[t].j holds, or Nobody
  running,    \* the function the processor executes
  slot,       \* slot[f]: the slot function f was started in
  starts,     \* functions started so far
  asleep,     \* functions halted on request and not continued since
  early,      \* slots without a task halted on request and not continued since
  inherits,   \* functions started in a slot that was halted and not continued since
  pc,         \* "run", "scan" (the loop of tasknext) or "exit"
  t           \* the local t of tasknext

vars == <<active, halted, cur, jmp, running, slot, starts, asleep, early, inherits, pc, t>>

Init ==                  \* the main program, before its first call
  /\ active = {} /\ halted = {} /\ cur = 0
  /\ jmp = [s \in Tasks |-> Nobody]
  /\ running = 1
  /\ slot = [f \in Funs |-> 0]
  /\ starts = 1
  /\ asleep = {} /\ early = {} /\ inherits = {}
  /\ pc = "run"
  /\ t = 0

\* The function whose slot s is, if the slot is active.
Occupants(s) == IF s = cur /\ pc = "run" THEN {running} ELSE {jmp[s]}

-----------------------------------------------------------------------------
(* __builtin_tasknext, entered with the sets already updated.              *)

Runnable(s) == s \in active' /\ s \notin halted'

\* Mutant: the switch forgets to save the caller.
SaveNothing == jmp' = jmp
Save == jmp' = [jmp EXCEPT ![cur] = running]

\* Mutant: the search starts from the first slot each time.
SearchFromZero == 0
SearchFrom == cur

\* Up to the loop: the program ends when no task is active, otherwise the
\* caller's context is saved in its slot.
EnterNext ==
  /\ IF active' = {} THEN pc' = "exit" /\ UNCHANGED <<jmp, t>>
                     ELSE pc' = "scan" /\ t' = SearchFrom /\ Save
  /\ UNCHANGED <<cur, running, slot, starts>>

\* Mutant: the loop looks at the active set only.
EligibleActive(s) == s \in active
Eligible(s) == s \in active /\ s \notin halted

AfterSlot(s) == (s + 1) % NumTasks

\* One turn of for (;;), and the longjmp when it ends.
Scan ==
  /\ pc = "scan"
  /\ t' = AfterSlot(t)
  /\ IF Eligible(t')
     THEN /\ cur' = t'
          /\ running' = jmp[t']
          /\ pc' = "run"
     ELSE UNCHANGED <<cur, running, pc>>
  /\ UNCHANGED <<active, halted, jmp, slot, starts, asleep, early, inherits>>

-----------------------------------------------------------------------------
(* The calls of the running task.                                          *)

\* The function in slot s is gone, or awake; the slot is not halted any more.
Forget(s) ==
  /\ asleep' = asleep \ Occupants(s) /\ inherits' = inherits \ Occupants(s)
  /\ early' = early \ {s}

TaskNext ==
  /\ pc = "run"
  /\ UNCHANGED <<active, halted, asleep, early, inherits>>
  /\ EnterNext

\* Mutant: the halted bit outlives the task.
StillHaltedKept(s) == halted
StillHalted(s) == halted \ {s}

\* __builtin_taskstop(task); a function that returns does the same to its own
\* slot.
TaskStop ==
  /\ pc = "run"
  /\ \E s \in Tasks :
       /\ active' = active \ {s}
       /\ halted' = StillHalted(s)
       /\ Forget(s)
  /\ EnterNext

TaskHalt ==              \* __builtin_taskhalt(task)
  /\ pc = "run"
  /\ \E s \in Tasks :
       /\ halted' = halted \cup {s}
       /\ asleep' = IF s \in active THEN asleep \cup Occupants(s) ELSE asleep
       /\ early' = IF s \in active THEN early ELSE early \cup {s}
  /\ UNCHANGED <<active, inherits>>
  /\ EnterNext

TaskCont ==              \* __builtin_taskcont(task)
  /\ pc = "run"
  /\ \E s \in Tasks : halted' = halted \ {s} /\ Forget(s)
  /\ UNCHANGED active
  /\ EnterNext

\* The slot task -1 gets: the first free one, or NumTasks.
FirstFree(a) ==
  IF Tasks \subseteq a THEN NumTasks
                      ELSE CHOOSE s \in Tasks \ a : \A u \in Tasks \ a : s <= u

\* Mutant: the starting task is not saved before the stack is switched.
StartedTooEarly(a, s) == jmp' = jmp
Started(a, s) == jmp' = [jmp EXCEPT ![IF active = {} THEN 0 ELSE cur] = running]

\* __builtin_taskstartv(task, stackbot, func, argc, argv): the first call
\* makes the caller task 0; a slot that is given is used whatever runs in it;
\* without a slot the call returns -1.  The new function runs at once, and the
\* halted bit of the slot stays as it is.
TaskStart ==
  /\ pc = "run" /\ starts < MaxStarts
  /\ LET a == IF active = {} THEN {0} ELSE active
         here == IF active = {} THEN 0 ELSE cur
     IN \E task \in Tasks \cup {-1} :
          LET s == IF task = -1 THEN FirstFree(a) ELSE task IN
          \/ /\ s \notin Tasks
             /\ active' = a /\ cur' = here
             /\ UNCHANGED <<halted, jmp, running, slot, starts, asleep, early, inherits, pc, t>>
          \/ /\ s \in Tasks
             /\ active' = a \cup {s}
             /\ cur' = s
             /\ Started(a, s)
             /\ starts' = starts + 1
             /\ running' = starts + 1
             /\ slot' = [slot EXCEPT ![starts + 1] = s]
             /\ asleep' = asleep \ Occupants(s)
             /\ early' = early \ {s}
             /\ inherits' = (inherits \ Occupants(s))
                             \cup (IF s \in (active \cap halted) \cup early THEN {starts + 1} ELSE {})
             /\ UNCHANGED <<halted, pc, t>>

Next == TaskNext \/ TaskStop \/ TaskHalt \/ TaskCont \/ TaskStart \/ Scan

\* The loop runs on, and a task calls tasknext again and again ("tasks must
\* periodically give up control").
Fairness == WF_vars(Scan) /\ WF_vars(TaskNext)
Spec == Init /\ [][Next]_vars /\ Fairness

-----------------------------------------------------------------------------
\* The sets, the slots and the contexts stay in range: what runs is always a
\* function that was started.
TypeOK ==
  /\ active \in SUBSET Tasks /\ halted \in SUBSET Tasks
  /\ cur \in Tasks /\ t \in Tasks
  /\ jmp \in [Tasks -> Funs \cup {Nobody}]
  /\ running \in Funs /\ starts \in Funs
  /\ slot \in [Funs -> Tasks]
  /\ asleep \in SUBSET Funs /\ inherits \in SUBSET Funs /\ early \in SUBSET Tasks
  /\ pc \in {"run", "scan", "exit"}

\* A slot's saved context is never one of an earlier use of the slot, and is
\* never resumed on behalf of another slot: what runs is the function last
\* started in the current slot.
ResumesOwn ==
  pc = "run" =>
    /\ running \in Funs /\ slot[running] = cur
    /\ \A f \in Funs : running < f /\ f <= starts => slot[f] # cur

\* doc/c.md: "While a task is halted it will not be given time."  A function
\* that was halted does not run before it is continued, whatever is started,
\* replaced, stopped or continued in whichever slot meanwhile.
HaltedSleeps == pc = "run" => running \notin asleep

\* A task is halted only if somebody halted it since it was started, or halted
\* the slot it was started in, with the task it replaced or without one:
\* stopping a task leaves nothing behind for the next one in its slot.
HaltedByRequest ==
  \A s \in active \cap halted : Occupants(s) \subseteq asleep \cup inherits

\* No task that stays active and not halted is passed over for ever.
NoStarvation ==
  \A s \in Tasks :
    s \in active \ halted ~> (cur = s /\ pc = "run") \/ s \notin active \ halted
=============================================================================
