------------------------------- MODULE MCBcir -------------------------------
(***************************************************************************)
(* The functions given to the optimiser: two blocks with every body and    *)
(* end, a last one, and the return that ends every function; and counted   *)
(* loops of two blocks.                                                    *)
(***************************************************************************)
EXTENDS BcirMeaning

Plain(k) == Op(k, 0, Nil)
Label == Plain("label")
Counter == Op("const", 4, Nil)
To(k, t) == <<Op(k, 0, t)>>   \* t is a block until the blocks are laid out
Quit == <<Op("jnz", 1, 3)>>

Bodies(b) == {<<>>, <<Op("eff", b, Nil)>>, <<Plain("cond"), Plain("write")>>}
Ends(b) ==
  {<<>>, <<Plain("ret")>>, <<Plain("read"), Plain("retpop")>>, <<Plain("cond"), Plain("retpop")>>}
  \cup {To("jump", t) : t \in 1 .. 3}
  \cup {<<Plain(IF b = 1 THEN "cond" ELSE "read")>> \o To(IF b = 1 THEN "jz" ELSE "jnz", t) : t \in 1 .. 3}
LastBlocks ==
  {<<Plain("ret")>>, <<Op("eff", 3, Nil)>> \o To("jump", 1), <<Plain("read"), Plain("retpop")>>}

\* What is in a counted loop, whose counter a GOTO or a jump would have to pop.
LoopEnds(b) ==
  {<<>>, <<Plain("ret")>>, Quit} \cup {To("jump", 2)}
  \cup (IF b = 1 THEN {<<Plain("cond")>> \o To("jz", 2)} ELSE {})

Laid(first, b1, b2, b3) ==
  LET at == <<Len(first) + 1, Len(first) + Len(b1) + 2, Len(first) + Len(b1) + Len(b2) + 3>>
      s == first \o <<Label>> \o b1 \o <<Label>> \o b2 \o <<Label>> \o b3 \o <<Plain("ret")>>
  IN [i \in 1 .. Len(s) |-> IF s[i].to = Nil THEN s[i] ELSE [s[i] EXCEPT !.to = at[s[i].to]]]

\* Conditional jumps across each other, none of whose sizes follows until one
\* is chosen.
If(n) == <<Plain("cond"), Op("jz", 0, n)>>
Knot ==
  <<Label>> \o If(12) \o <<Label>> \o If(15) \o <<Label>> \o If(1) \o If(7)
  \o <<Label>> \o If(4) \o <<Label, Plain("ret")>>

\* A jump that just reaches its label if the jump it crosses, whose label is
\* far, were short.
Bit == <<Plain("cond"), Plain("write")>>
Brink ==
  If(12) \o Bit \o Bit \o Bit \o <<Plain("cond"), Op("modify", 1, Nil)>> \o To("jz", 15)
  \o <<Label, Op("eff", 1, Nil), Op("eff", 2, Nil), Label, Plain("ret")>>

MCPrograms ==
  {Laid(<<>>, x1 \o e1, x2 \o e2, b3) :
     x1 \in Bodies(1), x2 \in Bodies(2), e1 \in Ends(1), e2 \in Ends(2), b3 \in LastBlocks}
  \cup
  {Laid(<<Counter>>, x1 \o e1, x2 \o e2 \o To("djnz", 1), b3) :
     x1 \in Bodies(1), x2 \in Bodies(2), e1 \in LoopEnds(1), e2 \in LoopEnds(2),
     b3 \in {<<>>, <<Op("eff", 3, Nil)>>}}
  \cup {Knot, Brink}

\* A GOTO out of a loop that keeps one hidden variable, to a label before the
\* return.
GotoPrograms ==
  {<<Op("eff", 1, Nil), Op("const", 7, Nil), Plain("label"), Plain("cond"), Op("jz", 0, 3),
     Op("jump", 1, 7), Plain("label"), Plain("ret")>>}
=============================================================================
