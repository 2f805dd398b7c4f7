---------------------------- MODULE BcirMeaning ----------------------------
(***************************************************************************)
(* What a list of operations does when it runs, as far as it can be        *)
(* observed: up to Depth events.                                           *)
(***************************************************************************)
EXTENDS Bcir

Depth == 4

\* Unknown values, effects and the value returned, from node n with a stack,
\* the result variable, the events seen and the steps left until the next.
RECURSIVE Traces(_, _, _, _, _, _)
Traces(d, n, stack, res, seen, fuel) ==
  IF Len(seen) = Depth THEN {seen}
  ELSE IF n = Nil \/ fuel = 0 THEN {Append(seen, IF n = Nil THEN <<"end">> ELSE <<"loop">>)}
  ELSE
  LET o == d.op[n]
      top == IF stack = <<>> THEN -1 ELSE stack[Len(stack)]
      Pop(k) == IF k <= Len(stack) THEN SubSeq(stack, 1, Len(stack) - k) ELSE <<>>
      To(m, s, r) == Traces(d, m, s, r, seen, fuel - 1)
      See(m, s, event) == Traces(d, m, s, res, Append(seen, event), 2 * Len(d.op))
  IN CASE o.k = "label" -> To(d.next[n], stack, res)
       [] o.k = "jump" -> To(o.to, Pop(o.v), res)
       [] o.k \in Conditional ->
            To(IF (top = 0) = (o.k = "jz") THEN o.to ELSE d.next[n], Pop(1), res)
       [] o.k = "const" -> To(d.next[n], Append(stack, o.v), res)
       [] o.k = "pop" -> To(d.next[n], Pop(1 + top), res)
       [] o.k = "read" -> To(d.next[n], Append(stack, res), res)
       [] o.k = "write" -> To(d.next[n], Pop(1), top)
       [] o.k = "modify" -> To(d.next[n], IF o.v = 1 THEN stack ELSE Pop(1), top)
       [] o.k = "cond" -> UNION {See(d.next[n], Append(stack, b), <<"cond", b>>) : b \in {0, 1}}
       [] o.k = "djnz" -> See(o.to, stack, <<"again">>) \cup See(d.next[n], Pop(1), <<"over">>)
       [] o.k = "eff" -> See(d.next[n], stack, <<"eff", o.v>>)
       [] o.k = "ret" -> {Append(seen, <<"returns", res>>)}
       [] o.k = "retpop" -> {Append(seen, <<"returns", top>>)}

Meaning(d) == Traces(d, d.head, <<>>, 0, <<>>, 2 * Len(d.op))

\* A step of the optimiser leaves what the function does: the same effects in the
\* same order for the same values met, and the same value returned.
SameMeaning == [][c' # c => Meaning(c') = Meaning(c)]_vars
=============================================================================
