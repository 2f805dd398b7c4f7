-------------------------------- MODULE Bcir --------------------------------
(***************************************************************************)
(* The optimiser of the P1 bytecode backend (backends/bytecode/bcir.c).    *)
(* The code of a function is a doubly linked list of operations in which   *)
(* jumps point at label operations.  Ten passes run over the list again    *)
(* and again until none of them did anything; each removes, moves or       *)
(* changes operations in place while its cursor stands on one of them.     *)
(* Then every jump gets the shorter encoding if that reaches its label,    *)
(* which depends on the encodings of the jumps between.                    *)
(*                                                                         *)
(* Left out: the switches that turn passes off, multiple results, aborts,  *)
(* CASE, the jumps of TJZ and of a REPEAT's step (DJNZ stands for the      *)
(* loops), and the data appended to a function.                            *)
(***************************************************************************)
EXTENDS Integers, Sequences

CONSTANTS Programs,      \* the functions compiled: sequences of operations
          MoveThreshold, \* MOVE_SINGLE_JUMP_THRESHOLD
          MaxIterations, \* BCOPT_MAX_ITERATIONS
          Reach,         \* a short jump goes from -Reach - 1 to Reach bytes
          FarBack,       \* beyond this a backward jump is long (bc_spin1.c)
          EffSize        \* the bytes of an "eff" operation

VARIABLES
  c,      \* the list: op, next and prev of every node, head and tail
  pass,   \* what runs: a pass of the optimiser, "size", "force" or "done"
  ir,     \* the node the loop of the pass has come to, 0 at its end
  didWork,
  iterations,
  size    \* the size of a jump, -1 if it is not determined
vars == <<c, pass, ir, didWork, iterations, size>>

Nil == 0

\* Operations: "label"; "jump", "jz" and "jnz" to the label `to', which pop a
\* value if they are conditional; "const" pushes v; "pop" pops v and then v
\* values; "read" pushes the result variable, "write" pops into it, "modify"
\* writes it and pushes it if v = 1; "cond" pushes a value nobody knows;
\* "eff" is any operation with an effect; "ret" returns the result variable
\* and "retpop" the top of the stack.  A conditional jump with v = 1 is known
\* to be taken (logicallyTerminal); a jump with v > 0 is a GOTO that leaves v
\* hidden variables on the stack.  "djnz" ends a counted loop, which keeps its
\* counter on the stack; nobody knows how often it goes back.
Op(k, v, to) == [k |-> k, v |-> v, to |-> to]
Kinds == {"label", "jump", "jz", "jnz", "djnz", "const", "pop", "read", "write", "modify",
          "cond", "eff", "ret", "retpop"}

Conditional == {"jz", "jnz"}
BCIR_UsesLabel(o) == o.k \in {"jump", "djnz"} \cup Conditional
BCIR_IsTerminalOp(o) ==
  \/ o.k \in {"jump", "ret", "retpop"}
  \/ o.k \in Conditional /\ o.v = 1
BCIR_CanReplaceJumpToOpWithItself(o, stackDirty) ==
  \/ o.k = "ret"
  \/ o.k = "retpop" /\ ~ stackDirty
BCIR_CanRemoveBeforeReturn(o) == o.k \in {"const", "pop"}

\* A function has an operation at least, and its jumps lead to its labels.
ASSUME BcirAssumption ==
  /\ \A p \in Programs :
       /\ p \in Seq([k : Kinds, v : Int, to : Nat]) /\ p # <<>>
       /\ \A i \in 1 .. Len(p) : BCIR_UsesLabel(p[i]) =>
            p[i].v \in Nat /\ p[i].to \in 1 .. Len(p) /\ p[p[i].to].k = "label"
  /\ MoveThreshold \in Nat /\ MaxIterations \in Nat \ {0}
  /\ Reach \in Nat /\ FarBack \in Nat /\ EffSize \in Nat

-----------------------------------------------------------------------------
(* The list *)

Kind(d, n) == IF n = Nil THEN "nil" ELSE d.op[n].k

\* The nodes that the links lead through from the node n on, k at most.
Walk(links, n, k) ==
  LET from[i \in 0 .. k] ==
        [m \in DOMAIN links \cup {Nil} |->
           IF i = 0 \/ m = Nil THEN <<>> ELSE <<m>> \o from[i - 1][links[m]]]
  IN from[k][n]

From(d, n) == Walk(d.next, n, Len(d.op))
Back(d, n) == Walk(d.prev, n, Len(d.op))
Elements(s) == {s[i] : i \in 1 .. Len(s)}
Chain(d) == From(d, d.head)
InChain(d) == Elements(Chain(d))

SetNext(d, n, to) == IF n = Nil THEN [d EXCEPT !.head = to] ELSE [d EXCEPT !.next[n] = to]
SetPrev(d, n, to) == IF n = Nil THEN [d EXCEPT !.tail = to] ELSE [d EXCEPT !.prev[n] = to]

\* Mutant: what follows keeps its link to what was removed.
BIRB_RemoveBlockForward(d, first, last) == SetNext(d, d.prev[first], d.next[last])
BIRB_RemoveBlock(d, first, last) ==
  SetNext(SetPrev(d, d.next[last], d.prev[first]), d.prev[first], d.next[last])
BIRB_Remove(d, n) == BIRB_RemoveBlock(d, n, n)

\* The block, out of the list already, goes behind the node target.
PutBehind(d, target, first, last) ==
  [SetPrev(d, d.next[target], last) EXCEPT
     !.next = [d.next EXCEPT ![last] = d.next[target], ![target] = first],
     !.prev[first] = target]

\* The new node n knows its successor but not its predecessor.
BIRB_InsertBefore(d, target, n) ==
  SetPrev(SetNext([d EXCEPT !.next[n] = target], d.prev[target], n), target, n)

\* The nodes of a program, followed by two spare ones.
Pushed(p) ==
  LET n == Len(p)
  IN [op |-> [i \in 1 .. n + 2 |-> IF i <= n THEN p[i] ELSE Op("const", 0, Nil)],
      next |-> [i \in 1 .. n + 2 |-> IF i < n THEN i + 1 ELSE Nil],
      prev |-> [i \in 1 .. n + 2 |-> IF i <= n THEN i - 1 ELSE Nil],
      head |-> 1, tail |-> n]

\* What a GOTO leaves on the stack is popped before it; a program has at most
\* one that leaves anything.
BCIR_ResolveNamedLabels(d, n) ==
  IF \A j \in InChain(d) : d.op[j].k # "jump" \/ d.op[j].v = 0 THEN d
  ELSE LET j == CHOOSE j \in InChain(d) : d.op[j].k = "jump" /\ d.op[j].v > 0
           e == [d EXCEPT !.op = [@ EXCEPT ![n + 1] = Op("const", d.op[j].v, Nil),
                                           ![n + 2] = Op("pop", 0, Nil), ![j].v = 0]]
       IN BIRB_InsertBefore(BIRB_InsertBefore(e, j, n + 1), j, n + 2)

-----------------------------------------------------------------------------
(* The passes.  An iteration that finds nothing only moves the cursor, so a
   step is the next one that finds something. *)

Passes == <<"DeadCode", "PointlessJump", "UnusedLabel", "MoveSingleJumpLabel",
            "ContractWriteRead", "ContractReturn", "JumpOverJump", "JumpToJump",
            "ReplaceJumpToOpWithItself", "RemoveBeforeReturn">>

BCIR_AnyRef(l) == {j \in InChain(c) : BCIR_UsesLabel(c.op[j]) /\ c.op[j].to = l}

\* The block that follows the label l, up to its terminal op, if it has one.
BlockAt(l) ==
  LET s == From(c, c.next[l])
      ends == {i \in 1 .. Len(s) : BCIR_IsTerminalOp(c.op[s[i]])}
  IN {SubSeq(s, 1, i) : i \in {j \in ends : \A h \in ends : j <= h}}

\* Mutant: a block that is also reached from above is moved.
MovableAlways(n) ==
  /\ Kind(c, n) = "label"
  /\ \E jump \in BCIR_AnyRef(n), block \in BlockAt(n) :
       /\ BCIR_AnyRef(n) = {jump} /\ Kind(c, jump) = "jump"
       /\ block[Len(block)] # jump /\ Len(block) <= MoveThreshold

Movable(n) ==
  /\ Kind(c, n) = "label" /\ c.prev[n] # Nil /\ BCIR_IsTerminalOp(c.op[c.prev[n]])
  /\ \E jump \in BCIR_AnyRef(n), block \in BlockAt(n) :
       /\ BCIR_AnyRef(n) = {jump} /\ Kind(c, jump) = "jump"
       /\ block[Len(block)] # jump /\ Len(block) <= MoveThreshold

\* The code reads through the node after the label without looking; a function
\* ends in a return, so there is one.
Replaceable(n) ==
  LET o == c.op[n]
  IN /\ o.k = "jump" \/ (o.k \in Conditional /\ o.v = 1)
     /\ c.next[o.to] # Nil
     /\ BCIR_CanReplaceJumpToOpWithItself(c.op[c.next[o.to]], o.k # "jump")

Finds(p, n) ==
  LET after == c.next[n]
      o == c.op[n]
  IN CASE p = "DeadCode" -> BCIR_IsTerminalOp(o) /\ Kind(c, after) \notin {"nil", "label"}
       [] p = "PointlessJump" -> o.k = "jump" /\ o.to = after
       [] p = "UnusedLabel" -> o.k = "label" /\ (BCIR_AnyRef(n) = {} \/ Kind(c, after) = "label")
       [] p = "MoveSingleJumpLabel" -> Movable(n)
       [] p = "ContractWriteRead" ->
            (o.k = "write" \/ (o.k = "modify" /\ o.v = 0)) /\ Kind(c, after) = "read"
       [] p = "ContractReturn" ->
            \/ o.k = "ret" /\ Kind(c, c.prev[n]) = "write"
            \/ o.k = "retpop" /\ Kind(c, c.prev[n]) = "read"
       [] p = "JumpOverJump" ->
            o.k \in Conditional /\ Kind(c, after) = "jump" /\ c.next[after] = o.to
       [] p = "JumpToJump" ->
            BCIR_UsesLabel(o) /\ c.next[o.to] # n /\ Kind(c, c.next[o.to]) = "jump"
       [] p = "ReplaceJumpToOpWithItself" -> Replaceable(n)
       [] p = "RemoveBeforeReturn" ->
            o.k = "ret" /\ c.prev[n] # Nil /\ BCIR_CanRemoveBeforeReturn(c.op[c.prev[n]])

\* The node of S from which all of S is reached: a set of one node or none.
First(S) == {n \in S : S \subseteq Elements(From(c, n))}

\* The next operation of the loop at which the pass finds something.
Hits == First({n \in Elements(From(c, ir)) : Finds(pass, n)})

\* The list becomes d and the cursor goes on at m.
Did(d, m) ==
  /\ c' = d /\ ir' = m /\ didWork' = TRUE
  /\ UNCHANGED <<pass, iterations, size>>

DeadCode ==
  /\ pass = "DeadCode"
  /\ \E n \in Hits : Did(BIRB_Remove(c, c.next[n]), n)

PointlessJump ==
  /\ pass = "PointlessJump"
  /\ \E n \in Hits : Did(BIRB_Remove(c, n), c.next[n])

\* A label without a reference goes; one that is followed by another takes
\* the references of that one over, and stays to look again.
UnusedLabel ==
  /\ pass = "UnusedLabel"
  /\ \E n \in Hits : \E refs \in {BCIR_AnyRef(c.next[n])} :
     LET m == c.next[n]
         taken == [c EXCEPT !.op = [j \in DOMAIN c.op |->
                     IF j \in refs THEN [c.op[j] EXCEPT !.to = n] ELSE c.op[j]]]
     IN IF BCIR_AnyRef(n) = {} THEN Did(BIRB_Remove(c, n), m)
                               ELSE \E d \in {taken} : Did(BIRB_Remove(d, m), n)

\* The block a label heads moves behind the one jump to it (BIRB_MoveBlock),
\* which goes as the label does; the loop goes on behind where the block was.
MoveSingleJumpLabel ==
  /\ pass = "MoveSingleJumpLabel"
  /\ \E n \in Hits : \E block \in BlockAt(n), jump \in BCIR_AnyRef(n) :
       LET first == block[1]
           last == block[Len(block)]
           rest == c.next[last]
       IN \E e \in {BIRB_Remove(c, n)} : \E g \in {BIRB_RemoveBlock(e, first, last)} :
          \E h \in {PutBehind(g, jump, first, last)} : \E d \in {BIRB_Remove(h, jump)} :
            Did(d, IF rest = Nil \/ d.prev[rest] = Nil THEN Nil ELSE d.next[d.prev[rest]])

ContractWriteRead ==
  /\ pass = "ContractWriteRead"
  /\ \E n \in Hits :
       Did([BIRB_Remove(c, c.next[n]) EXCEPT !.op[n] = Op("modify", 1, Nil)], c.next[c.next[n]])

ContractReturn ==
  /\ pass = "ContractReturn"
  /\ \E n \in Hits :
       Did([BIRB_Remove(c, c.prev[n]) EXCEPT
               !.op[n].k = IF c.op[n].k = "ret" THEN "retpop" ELSE "ret"], c.next[n])

JumpOverJump ==
  /\ pass = "JumpOverJump"
  /\ \E n \in Hits : \E over \in {c.next[n]} :
       Did([BIRB_Remove(c, over) EXCEPT
              !.op[n].to = c.op[over].to,
              !.op[n].k = IF c.op[n].k = "jz" THEN "jnz" ELSE "jz"], c.next[over])

JumpToJump ==
  /\ pass = "JumpToJump"
  /\ \E n \in Hits :
       Did([c EXCEPT !.op[n].to = c.op[c.next[c.op[n].to]].to], c.next[n])

ReplaceJumpToOpWithItself ==
  /\ pass = "ReplaceJumpToOpWithItself"
  /\ \E n \in Hits :
       Did([c EXCEPT !.op[n] = c.op[c.next[c.op[n].to]]], c.next[n])

RemoveBeforeReturn ==
  /\ pass = "RemoveBeforeReturn"
  /\ \E n \in Hits : Did(BIRB_Remove(c, c.prev[n]), n)

\* The pass is over: the next one, or the passes again if one did something.
NextPass ==
  /\ \E i \in 1 .. Len(Passes) :
       /\ pass = Passes[i] /\ Hits = {}
       /\ IF i < Len(Passes)
          THEN pass' = Passes[i + 1] /\ UNCHANGED <<didWork, iterations>>
          ELSE /\ iterations' = IF didWork THEN iterations + 1 ELSE iterations
               /\ pass' = IF didWork /\ iterations' < MaxIterations THEN Passes[1] ELSE "size"
               /\ didWork' = FALSE
  /\ ir' = c.head
  /\ UNCHANGED <<c, size>>

-----------------------------------------------------------------------------
(* Sizes: a jump takes two bytes or three, an operation what it takes. *)

FixedBytes(n) ==
  CASE Kind(c, n) = "label" -> 0
    [] Kind(c, n) = "eff" -> EffSize
    [] OTHER -> 1
Undetermined(n) == BCIR_UsesLabel(c.op[n]) /\ size[n] < 0
Bytes(open) ==
  [n \in DOMAIN c.op |-> IF Undetermined(n) THEN open
                         ELSE IF BCIR_UsesLabel(c.op[n]) THEN size[n] ELSE FixedBytes(n)]
Low == Bytes(2)
High == Bytes(3)

\* The bytes of the nodes that the links lead through from n on to l, k at most.
Distance(links, bytes, n, l, k) ==
  LET sum[i \in 0 .. k] ==
        [m \in DOMAIN links \cup {Nil} |->
           IF i = 0 \/ m \in {l, Nil} THEN 0 ELSE bytes[m] + sum[i - 1][links[m]]]
  IN sum[k][n]

\* The distance of a jump from the operation behind it, if each operation takes
\* that many bytes: forward to its label, or backward, itself included.
BCIR_GetJumpOffset(n, bytes) ==
  IF c.op[n].to \in Elements(From(c, c.next[n]))
  THEN Distance(c.next, bytes, c.next[n], c.op[n].to, Len(c.op))
  ELSE -Distance(c.prev, bytes, n, c.op[n].to, Len(c.op))

\* Mutant: the open jumps between are taken for short ones.
GetSizeBoundMin(n) ==
  IF BCIR_GetJumpOffset(n, Low) \in -Reach - 1 .. Reach THEN {2} ELSE {3}

\* The sizes a jump may have, as the jumps that are not determined leave it.
GetSizeBound(n) ==
  LET minDist == BCIR_GetJumpOffset(n, Low)
      maxDist == BCIR_GetJumpOffset(n, High)
  IN IF maxDist <= Reach /\ maxDist >= -Reach - 1 THEN {2}
     ELSE IF minDist > Reach \/ minDist < -FarBack THEN {3}
     ELSE {2, 3}

\* The next jump of the loop whose size follows from the others'.
SizeHits == First({n \in Elements(From(c, ir)) : Undetermined(n) /\ GetSizeBound(n) # {2, 3}})
\* Mutant: the end of the work looks at unconditional jumps only.
OpenJumps == {n \in InChain(c) : Undetermined(n) /\ Kind(c, n) = "jump"}
Open == {n \in InChain(c) : Undetermined(n)}

DetermineSizes ==
  /\ pass = "size"
  /\ \E n \in SizeHits :
       /\ \E s \in GetSizeBound(n) : size' = [size EXCEPT ![n] = s]
       /\ ir' = c.next[n]
  /\ didWork' = TRUE
  /\ UNCHANGED <<c, pass, iterations>>

\* At the end of the list: again if something was determined.
SizesAgain ==
  /\ pass = "size" /\ SizeHits = {}
  /\ ir' = c.head /\ didWork' = FALSE
  /\ pass' = IF didWork THEN "size" ELSE IF Open = {} THEN "done" ELSE "force"
  /\ UNCHANGED <<c, iterations, size>>

\* Nothing follows: the first jump that is open gets the longer form.
ForceSize ==
  /\ pass = "force"
  /\ \E n \in First(Open) : size' = [size EXCEPT ![n] = 3]
  /\ pass' = "size"
  /\ UNCHANGED <<c, ir, didWork, iterations>>

-----------------------------------------------------------------------------
Init ==
  /\ \E p \in Programs : c = BCIR_ResolveNamedLabels(Pushed(p), Len(p))
  /\ pass = Passes[1] /\ ir = c.head /\ didWork = FALSE /\ iterations = 0
  /\ size = [n \in DOMAIN c.op |-> -1]

Done == pass = "done" /\ UNCHANGED vars

Next ==
  \/ DeadCode \/ PointlessJump \/ UnusedLabel \/ MoveSingleJumpLabel
  \/ ContractWriteRead \/ ContractReturn \/ JumpOverJump \/ JumpToJump
  \/ ReplaceJumpToOpWithItself \/ RemoveBeforeReturn \/ NextPass
  \/ DetermineSizes \/ SizesAgain \/ ForceSize \/ Done

Spec == Init /\ [][Next]_vars

\* One thread that does not wait for anything.
FairSpec == Spec /\ WF_vars(Next)

-----------------------------------------------------------------------------

\* The list can be walked from both ends with the same result, and every jump
\* of it goes to a label of it, after each removal, move and replacement.
Linked ==
  LET s == Chain(c)
      b == Back(c, c.tail)
  IN /\ Len(b) = Len(s) /\ \A i \in 1 .. Len(s) : b[i] = s[Len(s) + 1 - i]
     /\ \A n \in InChain(c) :
          BCIR_UsesLabel(c.op[n]) => c.op[n].to \in InChain(c) /\ Kind(c, c.op[n].to) = "label"

\* No jump is given an encoding its distance does not fit, whatever sizes the
\* jumps between got later.
EncodingFits ==
  pass = "done" => \A n \in InChain(c) :
    size[n] = 2 => BCIR_GetJumpOffset(n, Low) \in -Reach - 1 .. Reach

\* The passes and the sizing come to an end, and every jump has a size.
Finishes == <>(pass = "done" /\ \A n \in InChain(c) : ~ Undetermined(n))
=============================================================================
