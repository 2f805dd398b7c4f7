---------------------------- MODULE BcirProofs -----------------------------
(***************************************************************************)
(* The optimiser of the bytecode backend, for functions of every length    *)
(* and all limits: every pass leaves a list that is whole in both          *)
(* directions, whose jumps lead to labels in it, and no jump gets a form   *)
(* too short for its distance.                                             *)
(***************************************************************************)
EXTENDS Bcir, FiniteSetTheorems, WellFoundedInduction, TLAPS

-----------------------------------------------------------------------------
(* Induction and recursion over the naturals, stated about sets *)

LEMMA Least == ASSUME NEW T \in SUBSET Nat, T # {}
  PROVE \E m \in T : \A k \in T : m <= k
<1> DEFINE R == {ss \in Nat \X Nat : ss[1] < ss[2]}
<1>1. IsWellFoundedOn(R, Nat)
  BY NatLessThanWellFounded DEF OpToRel
<1>2. \A x \in Nat, y \in Nat : y < x => <<y, x>> \in R
  OBVIOUS
<1> HIDE DEF R
<1>3. PICK x \in T : \A y \in T : ~ (<<y, x>> \in R)
  BY <1>1, WFMin
<1>4. \A y \in T : x <= y
  <2> SUFFICES ASSUME NEW y \in T PROVE ~ (y < x)
    OBVIOUS
  <2> QED BY <1>2, <1>3
<1> QED BY <1>4

\* A step function has iterates.
Iterates(W, w, G, k, f) ==
  /\ f \in [0 .. k -> W] /\ f[0] = w
  /\ \A i \in 0 .. k - 1 : f[i + 1] = G[f[i]]

LEMMA SomeIterates == ASSUME NEW W, NEW w \in W, NEW G \in [W -> W], NEW k \in Nat
  PROVE \E f : Iterates(W, w, G, k, f)
<1> DEFINE T == {h \in Nat : ~ \E f : Iterates(W, w, G, h, f)}
<1>1. SUFFICES ASSUME T # {} PROVE FALSE
  OBVIOUS
<1>2. PICK h \in T : \A j \in T : h <= j
  BY <1>1, Least
<1>3. h # 0
  <2>1. Iterates(W, w, G, 0, [i \in 0 .. 0 |-> w])
    BY DEF Iterates
  <2> QED BY <2>1
<1>4. h - 1 \in Nat /\ h - 1 \notin T
  BY <1>2, <1>3
<1>5. PICK f : Iterates(W, w, G, h - 1, f)
  BY <1>4
<1> DEFINE g == [i \in 0 .. h |-> IF i = h THEN G[f[h - 1]] ELSE f[i]]
<1>6. g \in [0 .. h -> W]
  <2>1. f[h - 1] \in W /\ \A i \in 0 .. h : i # h => f[i] \in W
    BY <1>4, <1>5 DEF Iterates
  <2> QED BY <2>1
<1>7. g[0] = w
  BY <1>3, <1>5 DEF Iterates
<1>8. \A i \in 0 .. h - 1 : g[i + 1] = G[g[i]]
  <2> SUFFICES ASSUME NEW i \in 0 .. h - 1 PROVE g[i + 1] = G[g[i]]
    OBVIOUS
  <2>1. CASE i = h - 1
    BY <2>1, <1>4
  <2>2. CASE i # h - 1
    <3>1. i \in 0 .. (h - 1) - 1 /\ f[i + 1] = G[f[i]]
      BY <2>2, <1>4, <1>5 DEF Iterates
    <3> QED BY <2>2, <3>1, <1>4
  <2> QED BY <2>1, <2>2
<1>9. Iterates(W, w, G, h, g)
  BY <1>6, <1>7, <1>8 DEF Iterates
<1> QED BY <1>9, <1>2

LEMMA OneIterates ==
  ASSUME NEW W, NEW w \in W, NEW G \in [W -> W], NEW k \in Nat, NEW f, Iterates(W, w, G, k, f),
         NEW h \in Nat, NEW g, Iterates(W, w, G, h, g), NEW i \in 0 .. k, i \in 0 .. h
  PROVE f[i] = g[i]
<1> DEFINE T == {j \in 0 .. i : f[j] # g[j]}
<1>1. SUFFICES ASSUME T # {} PROVE FALSE
  OBVIOUS
<1>2. PICK j \in T : \A t \in T : j <= t
  <2>1. T \in SUBSET Nat
    OBVIOUS
  <2> HIDE DEF T
  <2> QED BY <1>1, <2>1, Least
<1>3. j # 0
  BY DEF Iterates
<1>4. j - 1 \in 0 .. k - 1 /\ j - 1 \in 0 .. h - 1 /\ j - 1 \in 0 .. i /\ j - 1 + 1 = j
  BY <1>3
<1>5. f[j - 1] = g[j - 1]
  BY <1>2, <1>4
<1>6. f[j] = G[f[j - 1]]
  BY <1>4 DEF Iterates
<1>7. g[j] = G[g[j - 1]]
  BY <1>4 DEF Iterates
<1> QED BY <1>5, <1>6, <1>7

AllIterates(W, w, G, F) ==
  /\ F \in [Nat -> W] /\ F[0] = w
  /\ \A i \in Nat : F[i + 1] = G[F[i]]

LEMMA Recursion == ASSUME NEW W, NEW w, w \in W, NEW G, G \in [W -> W]
  PROVE \E F : AllIterates(W, w, G, F)
<1> DEFINE P(k) == CHOOSE f : Iterates(W, w, G, k, f)
<1>1. \A k \in Nat : Iterates(W, w, G, k, P(k))
  BY SomeIterates
<1> HIDE DEF P
<1> DEFINE F == [i \in Nat |-> P(i)[i]]
<1>2. F \in [Nat -> W]
  <2> SUFFICES ASSUME NEW i \in Nat PROVE P(i)[i] \in W
    OBVIOUS
  <2>1. P(i) \in [0 .. i -> W] /\ i \in 0 .. i
    BY <1>1 DEF Iterates
  <2> QED BY <2>1
<1>3. F[0] = w
  BY <1>1 DEF Iterates
<1>4. \A i \in Nat : F[i + 1] = G[F[i]]
  <2> SUFFICES ASSUME NEW i \in Nat PROVE F[i + 1] = G[F[i]]
    OBVIOUS
  <2>1. P(i)[i] = P(i + 1)[i]
    BY <1>1, OneIterates
  <2>2. P(i + 1)[i + 1] = G[P(i + 1)[i]]
    <3>1. i \in 0 .. (i + 1) - 1 /\ i + 1 \in Nat
      OBVIOUS
    <3> QED BY <1>1, <3>1 DEF Iterates
  <2> QED BY <2>1, <2>2
<1>5. AllIterates(W, w, G, F)
  BY <1>2, <1>3, <1>4 DEF AllIterates
<1> QED BY <1>5

-----------------------------------------------------------------------------
(* Walks along the links of m nodes *)

LEMMA LinksDomain == ASSUME NEW m \in Nat, NEW links, links \in [1 .. m -> 0 .. m]
  PROVE DOMAIN links \cup {Nil} = 0 .. m
BY DEF Nil

\* The walks from every node that are one step longer than those of g.
Longer(m, links, g) == [n \in 0 .. m |-> IF n = Nil THEN <<>> ELSE <<n>> \o g[links[n]]]

LEMMA LongerType ==
  ASSUME NEW m \in Nat, NEW links, links \in [1 .. m -> 0 .. m],
         NEW g, g \in [0 .. m -> Seq(1 .. m)]
  PROVE Longer(m, links, g) \in [0 .. m -> Seq(1 .. m)]
<1>1. ASSUME NEW n \in 0 .. m, n # Nil PROVE <<n>> \o g[links[n]] \in Seq(1 .. m)
  <2>1. n \in 1 .. m
    BY <1>1 DEF Nil
  <2>2. links[n] \in 0 .. m
    BY <2>1
  <2>3. g[links[n]] \in Seq(1 .. m)
    BY <2>2
  <2> QED BY <2>1, <2>3
<1>2. <<>> \in Seq(1 .. m)
  OBVIOUS
<1>3. \A n \in 0 .. m : (IF n = Nil THEN <<>> ELSE <<n>> \o g[links[n]]) \in Seq(1 .. m)
  BY <1>1, <1>2, Zenon
<1> QED BY <1>3 DEF Longer

Walks(m, links, F) ==
  /\ F \in [Nat -> [0 .. m -> Seq(1 .. m)]]
  /\ F[0] = [n \in 0 .. m |-> <<>>]
  /\ \A i \in Nat : F[i + 1] = Longer(m, links, F[i])

LEMMA WalkIterates ==
  ASSUME NEW m \in Nat, NEW links, links \in [1 .. m -> 0 .. m]
  PROVE \E F : Walks(m, links, F)
<1> DEFINE W == [0 .. m -> Seq(1 .. m)]
           w == [n \in 0 .. m |-> <<>>]
           G == [g \in W |-> Longer(m, links, g)]
<1>1. w \in W
  OBVIOUS
<1>2. G \in [W -> W]
  BY LongerType
<1>3. PICK F : AllIterates(W, w, G, F)
  <2> HIDE DEF W, w, G
  <2> QED BY <1>1, <1>2, Recursion
<1>5. F \in [Nat -> W] /\ F[0] = w
  BY <1>3 DEF AllIterates
<1>4. \A i \in Nat : F[i + 1] = Longer(m, links, F[i])
  <2> SUFFICES ASSUME NEW i \in Nat PROVE F[i + 1] = Longer(m, links, F[i])
    OBVIOUS
  <2>1. F[i] \in W /\ F[i + 1] = G[F[i]]
    <3> HIDE DEF W, w, G
    <3> QED BY <1>3 DEF AllIterates
  <2> QED BY <2>1
<1> QED BY <1>4, <1>5 DEF Walks

LEMMA WalkIs ==
  ASSUME NEW m \in Nat, NEW links, links \in [1 .. m -> 0 .. m],
         NEW F, Walks(m, links, F), NEW k \in Nat, NEW n \in 0 .. m
  PROVE Walk(links, n, k) = F[k][n]
<1> USE DEF Walks
<1> DEFINE from == CHOOSE f : f = [i \in 0 .. k |-> [j \in DOMAIN links \cup {Nil} |->
                      IF i = 0 \/ j = Nil THEN <<>> ELSE <<j>> \o f[i - 1][links[j]]]]
           it == [i \in 0 .. k |-> F[i]]
<1>1. DOMAIN links \cup {Nil} = 0 .. m
  BY LinksDomain
<1>2. \A i \in 0 .. k : F[i] = [j \in 0 .. m |->
                IF i = 0 \/ j = Nil THEN <<>> ELSE <<j>> \o it[i - 1][links[j]]]
  <2> SUFFICES ASSUME NEW i \in 0 .. k
               PROVE F[i] = [j \in 0 .. m |-> IF i = 0 \/ j = Nil THEN <<>>
                                              ELSE <<j>> \o it[i - 1][links[j]]]
    OBVIOUS
  <2>1. CASE i = 0
    BY <2>1
  <2>2. CASE i # 0
    <3>1. i - 1 \in Nat /\ (i - 1) + 1 = i /\ it[i - 1] = F[i - 1]
      BY <2>2
    <3>2. F[i] = Longer(m, links, F[i - 1])
      BY <3>1
    <3> HIDE DEF it
    <3> QED BY <2>2, <3>1, <3>2 DEF Longer
  <2> QED BY <2>1, <2>2
<1>3. it = [i \in 0 .. k |-> [j \in DOMAIN links \cup {Nil} |->
              IF i = 0 \/ j = Nil THEN <<>> ELSE <<j>> \o it[i - 1][links[j]]]]
  BY <1>1, <1>2
<1>4. from = [i \in 0 .. k |-> [j \in 0 .. m |->
                IF i = 0 \/ j = Nil THEN <<>> ELSE <<j>> \o from[i - 1][links[j]]]]
  <2>1. from = [i \in 0 .. k |-> [j \in DOMAIN links \cup {Nil} |->
                  IF i = 0 \/ j = Nil THEN <<>> ELSE <<j>> \o from[i - 1][links[j]]]]
    <3> HIDE DEF it
    <3> QED BY <1>3
  <2> HIDE DEF from
  <2> QED BY <2>1, <1>1
<1>5. Walk(links, n, k) = from[k][n]
  BY DEF Walk
<1> HIDE DEF from
<1> DEFINE T == {i \in 0 .. k : from[i] # F[i]}
<1>6. T = {}
  <2> SUFFICES ASSUME T # {} PROVE FALSE
    OBVIOUS
  <2>1. PICK i \in T : \A t \in T : i <= t
    <3>1. T \in SUBSET Nat
      OBVIOUS
    <3> HIDE DEF T
    <3> QED BY <3>1, Least
  <2>2. i \in 0 .. k /\ from[i] # F[i]
    OBVIOUS
  <2>3. from[i] = [j \in 0 .. m |-> IF i = 0 \/ j = Nil THEN <<>> ELSE <<j>> \o from[i - 1][links[j]]]
    BY <1>4, <2>2
  <2>4. CASE i = 0
    BY <2>2, <2>3, <2>4
  <2>5. CASE i # 0
    <3>1. i - 1 \in Nat /\ (i - 1) + 1 = i /\ i - 1 \in 0 .. k /\ ~ (i <= i - 1)
      BY <2>2, <2>5
    <3>2. i - 1 \notin T
      <4> HIDE DEF T
      <4> QED BY <2>1, <3>1
    <3>3. from[i - 1] = F[i - 1]
      BY <3>1, <3>2
    <3>4. F[i] = Longer(m, links, F[i - 1])
      BY <3>1
    <3> QED BY <2>2, <2>3, <2>5, <3>3, <3>4 DEF Longer
  <2> QED BY <2>4, <2>5
<1>7. k \in 0 .. k
  OBVIOUS
<1>8. from[k] = F[k]
  BY <1>6, <1>7
<1> QED BY <1>5, <1>8

\* One step of a walk.
LEMMA WalkStep ==
  ASSUME NEW m \in Nat, NEW links, links \in [1 .. m -> 0 .. m], NEW n \in 0 .. m, NEW k \in Nat
  PROVE /\ Walk(links, n, k) \in Seq(1 .. m)
        /\ Walk(links, n, 0) = <<>>
        /\ Walk(links, Nil, k) = <<>>
        /\ n # Nil => Walk(links, n, k + 1) = <<n>> \o Walk(links, links[n], k)
<1>1. PICK F : Walks(m, links, F)
  BY WalkIterates
<1>2. \A x \in 0 .. m, i \in Nat : Walk(links, x, i) = F[i][x]
  BY <1>1, WalkIs
<1>3. /\ \A i \in Nat : F[i] \in [0 .. m -> Seq(1 .. m)]
      /\ F[0] = [x \in 0 .. m |-> <<>>]
  BY <1>1 DEF Walks
<1>4. \A x \in 0 .. m, i \in Nat :
        F[i + 1][x] = IF x = Nil THEN <<>> ELSE <<x>> \o F[i][links[x]]
  BY <1>1 DEF Walks, Longer
<1>5. 0 \in 0 .. m /\ Nil \in 0 .. m
  BY DEF Nil
<1>6. Walk(links, n, k) \in Seq(1 .. m)
  <2>1. F[k][n] \in Seq(1 .. m)
    BY <1>3
  <2> QED BY <1>2, <2>1
<1>7. Walk(links, n, 0) = <<>>
  <2>1. Walk(links, n, 0) = F[0][n]
    BY <1>2
  <2> QED BY <1>3, <2>1
<1>8. Walk(links, Nil, k) = <<>>
  <2>1. Walk(links, Nil, k) = F[k][Nil]
    BY <1>2, <1>5
  <2>2. CASE k = 0
    BY <1>3, <1>5, <2>1, <2>2
  <2>3. CASE k # 0
    <3>1. k - 1 \in Nat /\ (k - 1) + 1 = k
      BY <2>3
    <3>2. F[(k - 1) + 1][Nil] = <<>>
      BY <1>4, <1>5, <3>1
    <3> QED BY <2>1, <3>1, <3>2
  <2> QED BY <2>2, <2>3
<1>9. ASSUME n # Nil PROVE Walk(links, n, k + 1) = <<n>> \o Walk(links, links[n], k)
  <2>1. n \in 1 .. m
    BY <1>9 DEF Nil
  <2>2. links[n] \in 0 .. m
    BY <2>1
  <2>3. Walk(links, n, k + 1) = F[k + 1][n]
    BY <1>2
  <2>4. Walk(links, links[n], k) = F[k][links[n]]
    BY <1>2, <2>2
  <2> QED BY <1>4, <1>9, <2>3, <2>4
<1> QED BY <1>6, <1>7, <1>8, <1>9

-----------------------------------------------------------------------------
(* Distances *)

\* The distances from every node that are one step longer than those of g.
Farther(m, links, bytes, l, g) ==
  [n \in 0 .. m |-> IF n \in {l, Nil} THEN 0 ELSE bytes[n] + g[links[n]]]

LEMMA FartherType ==
  ASSUME NEW m \in Nat, NEW links, links \in [1 .. m -> 0 .. m], NEW l,
         NEW bytes, bytes \in [1 .. m -> Nat], NEW g, g \in [0 .. m -> Nat]
  PROVE Farther(m, links, bytes, l, g) \in [0 .. m -> Nat]
<1>1. ASSUME NEW n \in 0 .. m, n \notin {l, Nil} PROVE bytes[n] + g[links[n]] \in Nat
  <2>1. n \in 1 .. m
    BY <1>1 DEF Nil
  <2>2. links[n] \in 0 .. m
    BY <2>1
  <2>3. g[links[n]] \in Nat /\ bytes[n] \in Nat
    BY <2>1, <2>2
  <2> QED BY <2>3
<1>2. \A n \in 0 .. m : (IF n \in {l, Nil} THEN 0 ELSE bytes[n] + g[links[n]]) \in Nat
  BY <1>1
<1> QED BY <1>2 DEF Farther

Measured(m, links, bytes) ==
  m \in Nat /\ links \in [1 .. m -> 0 .. m] /\ bytes \in [1 .. m -> Nat]

Distances(m, links, bytes, l, F) ==
  /\ F \in [Nat -> [0 .. m -> Nat]]
  /\ F[0] = [n \in 0 .. m |-> 0]
  /\ \A i \in Nat : F[i + 1] = Farther(m, links, bytes, l, F[i])

LEMMA DistanceIterates ==
  ASSUME NEW m, NEW links, NEW bytes, Measured(m, links, bytes), NEW l
  PROVE \E F : Distances(m, links, bytes, l, F)
<1> DEFINE W == [0 .. m -> Nat]
           w == [n \in 0 .. m |-> 0]
           G == [g \in W |-> Farther(m, links, bytes, l, g)]
<1> USE DEF Measured
<1>1. w \in W
  OBVIOUS
<1>2. G \in [W -> W]
  BY FartherType
<1>3. PICK F : AllIterates(W, w, G, F)
  <2> HIDE DEF W, w, G
  <2> QED BY <1>1, <1>2, Recursion
<1>4. F \in [Nat -> W] /\ F[0] = w
  BY <1>3 DEF AllIterates
<1>5. \A i \in Nat : F[i + 1] = Farther(m, links, bytes, l, F[i])
  <2> SUFFICES ASSUME NEW i \in Nat PROVE F[i + 1] = Farther(m, links, bytes, l, F[i])
    OBVIOUS
  <2>1. F[i] \in W /\ F[i + 1] = G[F[i]]
    <3> HIDE DEF W, w, G
    <3> QED BY <1>3 DEF AllIterates
  <2> QED BY <2>1
<1> QED BY <1>4, <1>5 DEF Distances

LEMMA DistanceIs ==
  ASSUME NEW m, NEW links, NEW bytes, Measured(m, links, bytes), NEW l,
         NEW F, Distances(m, links, bytes, l, F), NEW k \in Nat, NEW n \in 0 .. m
  PROVE Distance(links, bytes, n, l, k) = F[k][n]
<1>9. m \in Nat /\ links \in [1 .. m -> 0 .. m]
  BY DEF Measured
<1>10. F[0] = [x \in 0 .. m |-> 0] /\ \A i \in Nat : F[i + 1] = Farther(m, links, bytes, l, F[i])
  BY DEF Distances
<1> DEFINE sum == CHOOSE f : f = [i \in 0 .. k |-> [j \in DOMAIN links \cup {Nil} |->
                     IF i = 0 \/ j \in {l, Nil} THEN 0 ELSE bytes[j] + f[i - 1][links[j]]]]
           it == [i \in 0 .. k |-> F[i]]
<1>1. DOMAIN links \cup {Nil} = 0 .. m
  BY <1>9, LinksDomain
<1>2. \A i \in 0 .. k : F[i] = [j \in 0 .. m |->
                IF i = 0 \/ j \in {l, Nil} THEN 0 ELSE bytes[j] + it[i - 1][links[j]]]
  <2> SUFFICES ASSUME NEW i \in 0 .. k
               PROVE F[i] = [j \in 0 .. m |-> IF i = 0 \/ j \in {l, Nil} THEN 0
                                              ELSE bytes[j] + it[i - 1][links[j]]]
    OBVIOUS
  <2>1. CASE i = 0
    BY <1>10, <2>1
  <2>2. CASE i # 0
    <3>1. i - 1 \in Nat /\ (i - 1) + 1 = i /\ it[i - 1] = F[i - 1]
      BY <2>2
    <3>2. F[i] = Farther(m, links, bytes, l, F[i - 1])
      BY <1>10, <3>1
    <3> HIDE DEF it
    <3> QED BY <2>2, <3>1, <3>2 DEF Farther
  <2> QED BY <2>1, <2>2
<1>3. it = [i \in 0 .. k |-> [j \in DOMAIN links \cup {Nil} |->
              IF i = 0 \/ j \in {l, Nil} THEN 0 ELSE bytes[j] + it[i - 1][links[j]]]]
  BY <1>1, <1>2
<1>4. sum = [i \in 0 .. k |-> [j \in 0 .. m |->
                IF i = 0 \/ j \in {l, Nil} THEN 0 ELSE bytes[j] + sum[i - 1][links[j]]]]
  <2>1. sum = [i \in 0 .. k |-> [j \in DOMAIN links \cup {Nil} |->
                  IF i = 0 \/ j \in {l, Nil} THEN 0 ELSE bytes[j] + sum[i - 1][links[j]]]]
    <3> HIDE DEF it
    <3> QED BY <1>3
  <2> HIDE DEF sum
  <2> QED BY <2>1, <1>1
<1>5. Distance(links, bytes, n, l, k) = sum[k][n]
  BY DEF Distance
<1> HIDE DEF sum
<1> DEFINE T == {i \in 0 .. k : sum[i] # F[i]}
<1>6. T = {}
  <2> SUFFICES ASSUME T # {} PROVE FALSE
    OBVIOUS
  <2>1. PICK i \in T : \A t \in T : i <= t
    <3>1. T \in SUBSET Nat
      OBVIOUS
    <3> HIDE DEF T
    <3> QED BY <3>1, Least
  <2>2. i \in 0 .. k /\ sum[i] # F[i]
    OBVIOUS
  <2>3. sum[i] = [j \in 0 .. m |-> IF i = 0 \/ j \in {l, Nil} THEN 0
                                   ELSE bytes[j] + sum[i - 1][links[j]]]
    BY <1>4, <2>2
  <2>4. CASE i = 0
    BY <1>10, <2>2, <2>3, <2>4
  <2>5. CASE i # 0
    <3>1. i - 1 \in Nat /\ (i - 1) + 1 = i /\ i - 1 \in 0 .. k /\ ~ (i <= i - 1)
      BY <2>2, <2>5
    <3>2. i - 1 \notin T
      <4> HIDE DEF T
      <4> QED BY <2>1, <3>1
    <3>3. sum[i - 1] = F[i - 1]
      BY <3>1, <3>2
    <3>4. F[i] = Farther(m, links, bytes, l, F[i - 1])
      BY <1>10, <3>1
    <3> QED BY <2>2, <2>3, <2>5, <3>3, <3>4 DEF Farther
  <2> QED BY <2>4, <2>5
<1>7. k \in 0 .. k
  OBVIOUS
<1>8. sum[k] = F[k]
  BY <1>6, <1>7
<1> QED BY <1>5, <1>8

\* One step of a distance.
LEMMA DistanceStep ==
  ASSUME NEW m, NEW links, NEW bytes, Measured(m, links, bytes), NEW l, NEW k \in Nat, NEW n \in 0 .. m
  PROVE /\ Distance(links, bytes, n, l, k) \in Nat
        /\ Distance(links, bytes, n, l, 0) = 0
        /\ n \in {l, Nil} => Distance(links, bytes, n, l, k) = 0
        /\ n \notin {l, Nil} => Distance(links, bytes, n, l, k + 1) =
                                  bytes[n] + Distance(links, bytes, links[n], l, k)
<1>1. PICK F : Distances(m, links, bytes, l, F)
  BY DistanceIterates
<1>2. \A x \in 0 .. m, i \in Nat : Distance(links, bytes, x, l, i) = F[i][x]
  BY <1>1, DistanceIs
<1>9. m \in Nat /\ links \in [1 .. m -> 0 .. m]
  BY DEF Measured
<1>3. /\ \A i \in Nat : F[i] \in [0 .. m -> Nat]
      /\ F[0] = [x \in 0 .. m |-> 0]
  BY <1>1 DEF Distances
<1>4. \A x \in 0 .. m, i \in Nat :
        F[i + 1][x] = IF x \in {l, Nil} THEN 0 ELSE bytes[x] + F[i][links[x]]
  <2>1. \A i \in Nat : F[i + 1] = Farther(m, links, bytes, l, F[i])
    BY <1>1 DEF Distances
  <2> QED BY <2>1 DEF Farther
<1>5. Distance(links, bytes, n, l, k) \in Nat
  <2>1. F[k][n] \in Nat
    BY <1>3
  <2> QED BY <1>2, <2>1
<1>6. Distance(links, bytes, n, l, 0) = 0
  <2>1. Distance(links, bytes, n, l, 0) = F[0][n]
    BY <1>2
  <2> QED BY <1>3, <2>1
<1>7. ASSUME n \in {l, Nil} PROVE Distance(links, bytes, n, l, k) = 0
  <2>1. Distance(links, bytes, n, l, k) = F[k][n]
    BY <1>2
  <2>2. CASE k = 0
    BY <1>3, <2>1, <2>2
  <2>3. CASE k # 0
    <3>1. k - 1 \in Nat /\ (k - 1) + 1 = k
      BY <2>3
    <3>2. F[(k - 1) + 1][n] = 0
      BY <1>4, <1>7, <3>1
    <3> QED BY <2>1, <3>1, <3>2
  <2> QED BY <2>2, <2>3
<1>8. ASSUME n \notin {l, Nil}
      PROVE Distance(links, bytes, n, l, k + 1) = bytes[n] + Distance(links, bytes, links[n], l, k)
  <2>1. n \in 1 .. m
    BY <1>8, <1>9 DEF Nil
  <2>2. links[n] \in 0 .. m
    BY <1>9, <2>1
  <2>3. Distance(links, bytes, n, l, k + 1) = F[k + 1][n]
    BY <1>2
  <2>4. Distance(links, bytes, links[n], l, k) = F[k][links[n]]
    BY <1>2, <2>2
  <2> QED BY <1>4, <1>8, <2>3, <2>4
<1> QED BY <1>5, <1>6, <1>7, <1>8

\* The more bytes the operations take, the longer the distances.
LEMMA DistanceMonotone ==
  ASSUME NEW m, NEW links, NEW low, Measured(m, links, low), NEW high, Measured(m, links, high),
         NEW l,
         \A x \in 1 .. m : low[x] <= high[x], NEW k \in Nat, NEW n \in 0 .. m
  PROVE Distance(links, low, n, l, k) <= Distance(links, high, n, l, k)
<1> DEFINE L(x, i) == Distance(links, low, x, l, i)
           H(x, i) == Distance(links, high, x, l, i)
           T == {i \in Nat : ~ \A x \in 0 .. m : L(x, i) <= H(x, i)}
<1>1. SUFFICES ASSUME T # {} PROVE FALSE
  OBVIOUS
<1>2. PICK i \in T : \A t \in T : i <= t
  <2> HIDE DEF T
  <2>1. T \in SUBSET Nat
    BY DEF T
  <2> QED BY <1>1, <2>1, Least
<1>3. i \in Nat
  OBVIOUS
<1>4. PICK x \in 0 .. m : ~ (L(x, i) <= H(x, i))
  OBVIOUS
<1>5. i # 0
  <2>1. L(x, 0) = 0 /\ H(x, 0) = 0
    BY DistanceStep
  <2> QED BY <1>4, <2>1
<1>6. i - 1 \in Nat /\ (i - 1) + 1 = i /\ ~ (i <= i - 1)
  BY <1>3, <1>5
<1>7. i - 1 \notin T
  <2> HIDE DEF T
  <2> QED BY <1>2, <1>6
<1>8. x \notin {l, Nil}
  <2>1. x \in {l, Nil} => L(x, i) = 0 /\ H(x, i) = 0
    BY <1>3, DistanceStep
  <2> QED BY <1>4, <2>1
<1>9. x \in 1 .. m /\ links[x] \in 0 .. m
  BY <1>8 DEF Nil, Measured
<1>10. L(links[x], i - 1) <= H(links[x], i - 1)
  BY <1>6, <1>7, <1>9
<1>11. L(x, (i - 1) + 1) = low[x] + L(links[x], i - 1)
  <2>1. \A j \in Nat : L(x, j + 1) = low[x] + L(links[x], j)
    BY <1>8, DistanceStep
  <2> HIDE DEF L
  <2> QED BY <1>6, <2>1
<1>12. H(x, (i - 1) + 1) = high[x] + H(links[x], i - 1)
  <2>1. \A j \in Nat : H(x, j + 1) = high[x] + H(links[x], j)
    BY <1>8, DistanceStep
  <2> HIDE DEF H
  <2> QED BY <1>6, <2>1
<1>13. /\ L(links[x], i - 1) \in Nat /\ H(links[x], i - 1) \in Nat
       /\ low[x] \in Nat /\ high[x] \in Nat /\ low[x] <= high[x]
  BY <1>6, <1>9, DistanceStep DEF Measured
<1> HIDE DEF L, H
<1>14. L(x, i) <= H(x, i)
  BY <1>6, <1>10, <1>11, <1>12, <1>13
<1> QED BY <1>4, <1>14

-----------------------------------------------------------------------------
(* Lists of m nodes *)

Ops == [k : Kinds, v : Int, to : Nat]
Lists(m) == [op : [1 .. m -> Ops], next : [1 .. m -> 0 .. m], prev : [1 .. m -> 0 .. m],
             head : 0 .. m, tail : 0 .. m]

\* Every jump, in the list or out of it, goes to a node.
JumpsInside(m, d) == \A n \in 1 .. m : BCIR_UsesLabel(d.op[n]) => d.op[n].to \in 1 .. m

LEMMA ListLength == ASSUME NEW m \in Nat, NEW d, d \in Lists(m)
  PROVE Len(d.op) = m /\ DOMAIN d.op = 1 .. m
<1>1. d.op \in [1 .. m -> Ops]
  BY DEF Lists
<1> QED BY <1>1

LEMMA SetNextType ==
  ASSUME NEW m \in Nat, NEW d, d \in Lists(m), NEW n \in 0 .. m, NEW to \in 0 .. m
  PROVE SetNext(d, n, to) \in Lists(m) /\ SetNext(d, n, to).op = d.op
<1>1. CASE n = Nil
  BY <1>1 DEF SetNext, Lists
<1>2. CASE n # Nil
  <2>1. n \in 1 .. m
    BY <1>2 DEF Nil
  <2> QED BY <1>2, <2>1 DEF SetNext, Lists
<1> QED BY <1>1, <1>2

LEMMA SetPrevType ==
  ASSUME NEW m \in Nat, NEW d, d \in Lists(m), NEW n \in 0 .. m, NEW to \in 0 .. m
  PROVE SetPrev(d, n, to) \in Lists(m) /\ SetPrev(d, n, to).op = d.op
<1>1. CASE n = Nil
  BY <1>1 DEF SetPrev, Lists
<1>2. CASE n # Nil
  <2>1. n \in 1 .. m
    BY <1>2 DEF Nil
  <2> QED BY <1>2, <2>1 DEF SetPrev, Lists
<1> QED BY <1>1, <1>2

LEMMA RemoveType ==
  ASSUME NEW m \in Nat, NEW d, d \in Lists(m), NEW first \in 1 .. m, NEW last \in 1 .. m
  PROVE /\ BIRB_RemoveBlock(d, first, last) \in Lists(m)
        /\ BIRB_RemoveBlock(d, first, last).op = d.op
<1>1. d.next[last] \in 0 .. m /\ d.prev[first] \in 0 .. m
  BY DEF Lists
<1> DEFINE e == SetPrev(d, d.next[last], d.prev[first])
<1>2. e \in Lists(m) /\ e.op = d.op
  BY <1>1, SetPrevType
<1> HIDE DEF e
<1>3. SetNext(e, d.prev[first], d.next[last]) \in Lists(m)
      /\ SetNext(e, d.prev[first], d.next[last]).op = d.op
  BY <1>1, <1>2, SetNextType
<1> QED BY <1>3 DEF BIRB_RemoveBlock, e

LEMMA PutBehindType ==
  ASSUME NEW m \in Nat, NEW d, d \in Lists(m), NEW target \in 1 .. m,
         NEW first \in 1 .. m, NEW last \in 1 .. m
  PROVE /\ PutBehind(d, target, first, last) \in Lists(m)
        /\ PutBehind(d, target, first, last).op = d.op
<1>1. d.next[target] \in 0 .. m /\ last \in 0 .. m /\ d.next \in [1 .. m -> 0 .. m]
  BY DEF Lists
<1> DEFINE e == SetPrev(d, d.next[target], last)
           links == [d.next EXCEPT ![last] = d.next[target], ![target] = first]
<1>2. e \in Lists(m) /\ e.op = d.op
  BY <1>1, SetPrevType
<1>3. links \in [1 .. m -> 0 .. m]
  BY <1>1
<1>4. PutBehind(d, target, first, last) = [e EXCEPT !.next = links, !.prev[first] = target]
  BY DEF PutBehind
<1> HIDE DEF e, links
<1>5. [e EXCEPT !.next = links] \in Lists(m) /\ [e EXCEPT !.next = links].op = d.op
  BY <1>2, <1>3 DEF Lists
<1> DEFINE f == [e EXCEPT !.next = links]
<1>6. PutBehind(d, target, first, last) = [f EXCEPT !.prev[first] = target]
  BY <1>4
<1> HIDE DEF f
<1>7. [f EXCEPT !.prev[first] = target] \in Lists(m) /\ [f EXCEPT !.prev[first] = target].op = d.op
  <2>1. f \in Lists(m) /\ f.op = d.op
    BY <1>5 DEF f
  <2>2. f.prev \in [1 .. m -> 0 .. m] /\ target \in 0 .. m
    BY <2>1 DEF Lists
  <2>3. [f.prev EXCEPT ![first] = target] \in [1 .. m -> 0 .. m]
    BY <2>2
  <2> QED BY <2>1, <2>3 DEF Lists
<1> QED BY <1>6, <1>7

LEMMA InsertBeforeType ==
  ASSUME NEW m \in Nat, NEW d, d \in Lists(m), NEW target \in 1 .. m, NEW n \in 1 .. m
  PROVE BIRB_InsertBefore(d, target, n) \in Lists(m) /\ BIRB_InsertBefore(d, target, n).op = d.op
<1> DEFINE d1 == [d EXCEPT !.next[n] = target]
           d2 == SetNext(d1, d.prev[target], n)
<1>1. d1 \in Lists(m) /\ d1.op = d.op
  <2>1. target \in 0 .. m
    OBVIOUS
  <2> QED BY <2>1 DEF Lists
<1>2. d.prev[target] \in 0 .. m /\ target \in 0 .. m /\ n \in 0 .. m
  <2>1. d.prev \in [1 .. m -> 0 .. m]
    BY DEF Lists
  <2> QED BY <2>1
<1> HIDE DEF d1
<1>3. d2 \in Lists(m) /\ d2.op = d.op
  BY <1>1, <1>2, SetNextType
<1> HIDE DEF d2
<1>4. SetPrev(d2, target, n) \in Lists(m) /\ SetPrev(d2, target, n).op = d.op
  BY <1>2, <1>3, SetPrevType
<1> QED BY <1>4 DEF BIRB_InsertBefore, d1, d2

\* The nodes that a walk comes to are nodes.
LEMMA FromType == ASSUME NEW m \in Nat, NEW d, d \in Lists(m), NEW n \in 0 .. m
  PROVE /\ From(d, n) \in Seq(1 .. m) /\ Elements(From(d, n)) \subseteq 1 .. m
        /\ Back(d, n) \in Seq(1 .. m)
<1>1. d.next \in [1 .. m -> 0 .. m] /\ d.prev \in [1 .. m -> 0 .. m]
  BY DEF Lists
<1>2. Len(d.op) \in Nat
  BY ListLength
<1>3. From(d, n) \in Seq(1 .. m) /\ Back(d, n) \in Seq(1 .. m)
  BY <1>1, <1>2, WalkStep DEF From, Back
<1>4. \A s \in Seq(1 .. m) : Elements(s) \subseteq 1 .. m
  BY DEF Elements
<1> QED BY <1>3, <1>4

LEMMA ChainType == ASSUME NEW m \in Nat, NEW d, d \in Lists(m)
  PROVE Chain(d) \in Seq(1 .. m) /\ InChain(d) \subseteq 1 .. m
<1>1. d.head \in 0 .. m
  BY DEF Lists
<1> QED BY <1>1, FromType DEF Chain, InChain

-----------------------------------------------------------------------------
(* Types *)

Work == {"size", "force", "done"}

Typed(m) ==
  /\ c \in Lists(m) /\ JumpsInside(m, c)
  /\ ir \in 0 .. m
  /\ size \in [1 .. m -> {-1, 2, 3}]
  /\ pass \in {Passes[i] : i \in 1 .. Len(Passes)} \cup Work
  /\ didWork \in BOOLEAN /\ iterations \in Nat

TypeOK == \E m \in Nat : Typed(m)

LEMMA OpType ==
  ASSUME NEW m \in Nat, NEW d, d \in Lists(m), JumpsInside(m, d), NEW n \in 1 .. m,
         NEW o, o \in Ops, BCIR_UsesLabel(o) => o.to \in 1 .. m
  PROVE LET e == [d EXCEPT !.op[n] = o] IN e \in Lists(m) /\ JumpsInside(m, e)
<1> DEFINE e == [d EXCEPT !.op[n] = o]
<1>1. d.op \in [1 .. m -> Ops]
  BY DEF Lists
<1>2. [d.op EXCEPT ![n] = o] \in [1 .. m -> Ops]
  BY <1>1
<1>3. e = [d EXCEPT !.op = [d.op EXCEPT ![n] = o]]
  OBVIOUS
<1>4. e \in Lists(m) /\ e.op = [d.op EXCEPT ![n] = o]
  BY <1>2, <1>3 DEF Lists
<1> HIDE DEF e
<1>5. ASSUME NEW i \in 1 .. m, BCIR_UsesLabel(e.op[i]) PROVE e.op[i].to \in 1 .. m
  <2>1. CASE i = n
    BY <1>1, <1>4, <1>5, <2>1
  <2>2. CASE i # n
    BY <1>1, <1>4, <1>5, <2>2 DEF JumpsInside
  <2> QED BY <2>1, <2>2
<1>6. JumpsInside(m, e)
  BY <1>5 DEF JumpsInside
<1> QED BY <1>4, <1>6 DEF e

\* The fields of a typed list.
LEMMA Fields == ASSUME NEW m \in Nat, NEW d, d \in Lists(m)
  PROVE /\ d.op \in [1 .. m -> Ops] /\ d.next \in [1 .. m -> 0 .. m] /\ d.prev \in [1 .. m -> 0 .. m]
        /\ d.head \in 0 .. m /\ d.tail \in 0 .. m
        /\ \A n \in 1 .. m : /\ d.op[n] \in Ops /\ d.op[n].k \in Kinds /\ d.op[n].v \in Int
                             /\ d.op[n].to \in Nat
                             /\ d.next[n] \in 0 .. m /\ d.prev[n] \in 0 .. m
<1>1. /\ d.op \in [1 .. m -> Ops] /\ d.next \in [1 .. m -> 0 .. m] /\ d.prev \in [1 .. m -> 0 .. m]
      /\ d.head \in 0 .. m /\ d.tail \in 0 .. m
  BY DEF Lists
<1>2. \A n \in 1 .. m : /\ d.op[n] \in Ops /\ d.next[n] \in 0 .. m /\ d.prev[n] \in 0 .. m
  BY <1>1
<1>3. \A o \in Ops : o.k \in Kinds /\ o.v \in Int /\ o.to \in Nat
  BY DEF Ops
<1> QED BY <1>1, <1>2, <1>3

LEMMA RemoveTyped ==
  ASSUME NEW m \in Nat, NEW d, d \in Lists(m), JumpsInside(m, d), NEW n \in 1 .. m
  PROVE /\ BIRB_Remove(d, n) \in Lists(m) /\ JumpsInside(m, BIRB_Remove(d, n))
        /\ BIRB_Remove(d, n).op = d.op
BY RemoveType DEF BIRB_Remove, JumpsInside

LEMMA DidType ==
  ASSUME NEW m \in Nat, Typed(m), NEW d, d \in Lists(m), JumpsInside(m, d), NEW x \in 0 .. m,
         Did(d, x)
  PROVE Typed(m)'
BY DEF Typed, Did, Lists, JumpsInside, Ops

\* What a pass finds is a node, and it is what the pass looks for.
LEMMA Found == ASSUME NEW m \in Nat, Typed(m), NEW n \in Hits
  PROVE n \in 1 .. m /\ n \in Elements(From(c, ir)) /\ Finds(pass, n)
<1>1. n \in Elements(From(c, ir)) /\ Finds(pass, n)
  BY DEF Hits, First
<1>2. Elements(From(c, ir)) \subseteq 1 .. m
  BY FromType DEF Typed
<1> QED BY <1>1, <1>2

LEMMA RefType == ASSUME NEW m \in Nat, Typed(m), NEW l, NEW j \in BCIR_AnyRef(l)
  PROVE /\ j \in 1 .. m /\ j \in InChain(c)
        /\ BCIR_UsesLabel(c.op[j]) /\ c.op[j].to = l
BY ChainType DEF Typed, BCIR_AnyRef

LEMMA DeadCodeType == ASSUME NEW m \in Nat, Typed(m), DeadCode PROVE Typed(m)'
<1>1. PICK n \in Hits : Did(BIRB_Remove(c, c.next[n]), n)
  BY DEF DeadCode
<1>2. n \in 1 .. m /\ Finds("DeadCode", n)
  BY <1>1, Found DEF DeadCode
<1>3. c \in Lists(m) /\ JumpsInside(m, c)
  BY DEF Typed
<1>4. c.next[n] # Nil
  BY <1>2 DEF Finds, Kind
<1>5. c.next[n] \in 1 .. m
  BY <1>2, <1>3, <1>4, Fields DEF Nil
<1> QED BY <1>1, <1>2, <1>3, <1>5, RemoveTyped, DidType

LEMMA PointlessJumpType == ASSUME NEW m \in Nat, Typed(m), PointlessJump PROVE Typed(m)'
<1>1. PICK n \in Hits : Did(BIRB_Remove(c, n), c.next[n])
  BY DEF PointlessJump
<1>2. n \in 1 .. m
  BY <1>1, Found
<1>3. c \in Lists(m) /\ JumpsInside(m, c)
  BY DEF Typed
<1>4. c.next[n] \in 0 .. m
  BY <1>2, <1>3, Fields
<1> QED BY <1>1, <1>2, <1>3, <1>4, RemoveTyped, DidType

LEMMA UnusedLabelType == ASSUME NEW m \in Nat, Typed(m), UnusedLabel PROVE Typed(m)'
<1> DEFINE Taken(n) == [c EXCEPT !.op = [j \in DOMAIN c.op |->
                          IF j \in BCIR_AnyRef(c.next[n]) THEN [c.op[j] EXCEPT !.to = n]
                                                          ELSE c.op[j]]]
<1>1. PICK n \in Hits :
        IF BCIR_AnyRef(n) = {} THEN Did(BIRB_Remove(c, n), c.next[n])
                               ELSE Did(BIRB_Remove(Taken(n), c.next[n]), n)
  BY DEF UnusedLabel
<1>2. n \in 1 .. m /\ Finds("UnusedLabel", n)
  BY <1>1, Found DEF UnusedLabel
<1>3. c \in Lists(m) /\ JumpsInside(m, c)
  BY DEF Typed
<1>4. c.next[n] \in 0 .. m
  BY <1>2, <1>3, Fields
<1>5. CASE BCIR_AnyRef(n) = {}
  BY <1>1, <1>2, <1>3, <1>4, <1>5, RemoveTyped, DidType
<1>6. CASE BCIR_AnyRef(n) # {}
  <2>1. Kind(c, c.next[n]) = "label"
    BY <1>2, <1>6 DEF Finds
  <2>2. c.next[n] \in 1 .. m
    BY <1>4, <2>1 DEF Kind, Nil
  <2> DEFINE op == [j \in 1 .. m |-> IF j \in BCIR_AnyRef(c.next[n]) THEN [c.op[j] EXCEPT !.to = n]
                                                                     ELSE c.op[j]]
  <2>3. Taken(n) = [c EXCEPT !.op = op]
    BY <1>3, ListLength
  <2>4. \A j \in 1 .. m : [c.op[j] EXCEPT !.to = n] \in Ops /\ c.op[j] \in Ops
    <3>1. \A j \in 1 .. m : c.op[j] \in Ops
      BY <1>3, Fields
    <3>2. \A o \in Ops : [o EXCEPT !.to = n] \in Ops
      BY <1>2 DEF Ops
    <3> QED BY <3>1, <3>2
  <2>5. op \in [1 .. m -> Ops]
    BY <2>4
  <2>6. \A j \in 1 .. m : BCIR_UsesLabel(op[j]) => op[j].to \in 1 .. m
    <3> SUFFICES ASSUME NEW j \in 1 .. m, BCIR_UsesLabel(op[j]) PROVE op[j].to \in 1 .. m
      OBVIOUS
    <3>1. CASE j \in BCIR_AnyRef(c.next[n])
      BY <1>2, <2>4, <3>1 DEF Ops
    <3>2. CASE j \notin BCIR_AnyRef(c.next[n])
      BY <1>3, <3>2 DEF JumpsInside
    <3> QED BY <3>1, <3>2
  <2> HIDE DEF op, Taken
  <2>7. Taken(n) \in Lists(m) /\ Taken(n).op = op
    BY <1>3, <2>3, <2>5 DEF Lists
  <2>8. JumpsInside(m, Taken(n))
    BY <2>6, <2>7 DEF JumpsInside
  <2>9. n \in 0 .. m
    BY <1>2
  <2> QED BY <1>1, <1>6, <2>2, <2>7, <2>8, <2>9, RemoveTyped, DidType
<1> QED BY <1>5, <1>6

\* The block behind a label is part of the walk from there, up to the first
\* terminal operation.
LEMMA BlockType == ASSUME NEW m \in Nat, Typed(m), NEW n \in 1 .. m, NEW block \in BlockAt(n)
  PROVE \E i \in 1 .. Len(From(c, c.next[n])) :
          LET s == From(c, c.next[n])
          IN /\ block = SubSeq(s, 1, i) /\ Len(block) = i
             /\ \A h \in 1 .. i : block[h] = s[h] /\ s[h] \in 1 .. m
             /\ BCIR_IsTerminalOp(c.op[s[i]])
             /\ \A h \in 1 .. i - 1 : ~ BCIR_IsTerminalOp(c.op[s[h]])
<1> DEFINE s == From(c, c.next[n])
           ends == {i \in 1 .. Len(s) : BCIR_IsTerminalOp(c.op[s[i]])}
<1>1. PICK i \in ends : (\A h \in ends : i <= h) /\ block = SubSeq(s, 1, i)
  BY DEF BlockAt
<1>2. c.next[n] \in 0 .. m
  BY Fields DEF Typed
<1>3. s \in Seq(1 .. m)
  BY <1>2, FromType DEF Typed
<1> HIDE DEF s
<1>4. i \in 1 .. Len(s) /\ BCIR_IsTerminalOp(c.op[s[i]])
  OBVIOUS
<1>5. \A h \in 1 .. i - 1 : ~ BCIR_IsTerminalOp(c.op[s[h]])
  <2> SUFFICES ASSUME NEW h \in 1 .. i - 1, BCIR_IsTerminalOp(c.op[s[h]]) PROVE FALSE
    OBVIOUS
  <2>1. h \in 1 .. Len(s) /\ ~ (i <= h)
    BY <1>3, <1>4
  <2>2. h \in ends
    BY <2>1
  <2> HIDE DEF ends
  <2> QED BY <1>1, <2>1, <2>2
<1>6. Len(block) = i /\ \A h \in 1 .. i : block[h] = s[h] /\ s[h] \in 1 .. m
  BY <1>1, <1>3, <1>4
<1> QED BY <1>1, <1>4, <1>5, <1>6 DEF s

LEMMA MoveType == ASSUME NEW m \in Nat, Typed(m), MoveSingleJumpLabel PROVE Typed(m)'
<1>1. PICK n \in Hits : \E block \in BlockAt(n), jump \in BCIR_AnyRef(n) :
       LET first == block[1]
           last == block[Len(block)]
           rest == c.next[last]
       IN \E e \in {BIRB_Remove(c, n)} : \E g \in {BIRB_RemoveBlock(e, first, last)} :
          \E h \in {PutBehind(g, jump, first, last)} : \E d \in {BIRB_Remove(h, jump)} :
            Did(d, IF rest = Nil \/ d.prev[rest] = Nil THEN Nil ELSE d.next[d.prev[rest]])
  BY DEF MoveSingleJumpLabel
<1>2. PICK block \in BlockAt(n), jump \in BCIR_AnyRef(n) :
       LET first == block[1]
           last == block[Len(block)]
           rest == c.next[last]
       IN \E e \in {BIRB_Remove(c, n)} : \E g \in {BIRB_RemoveBlock(e, first, last)} :
          \E h \in {PutBehind(g, jump, first, last)} : \E d \in {BIRB_Remove(h, jump)} :
            Did(d, IF rest = Nil \/ d.prev[rest] = Nil THEN Nil ELSE d.next[d.prev[rest]])
  BY <1>1
<1> DEFINE first == block[1]
           last == block[Len(block)]
           rest == c.next[last]
           e == BIRB_Remove(c, n)
           g == BIRB_RemoveBlock(e, first, last)
           h == PutBehind(g, jump, first, last)
           d == BIRB_Remove(h, jump)
           x == IF rest = Nil \/ d.prev[rest] = Nil THEN Nil ELSE d.next[d.prev[rest]]
<1>3. Did(d, x)
  BY <1>2
<1>4. n \in 1 .. m
  BY Found
<1>5. first \in 1 .. m /\ last \in 1 .. m
  <2>1. PICK i \in 1 .. Len(From(c, c.next[n])) :
          LET s == From(c, c.next[n])
          IN /\ block = SubSeq(s, 1, i) /\ Len(block) = i
             /\ \A k \in 1 .. i : block[k] = s[k] /\ s[k] \in 1 .. m
    BY <1>4, BlockType
  <2>2. 1 \in 1 .. i /\ i \in 1 .. i
    <3>1. Len(From(c, c.next[n])) \in Nat
      BY <1>4, Fields, FromType DEF Typed
    <3> QED BY <3>1
  <2> QED BY <2>1, <2>2
<1>6. jump \in 1 .. m
  BY RefType
<1>7. c \in Lists(m) /\ JumpsInside(m, c)
  BY DEF Typed
<1>8. rest \in 0 .. m
  BY <1>5, <1>7, Fields
<1> HIDE DEF first, last, rest
<1>9. e \in Lists(m) /\ JumpsInside(m, e)
  BY <1>4, <1>7, RemoveTyped
<1> HIDE DEF e
<1>10. g \in Lists(m) /\ JumpsInside(m, g)
  <2>1. g \in Lists(m) /\ g.op = e.op
    BY <1>5, <1>9, RemoveType
  <2> HIDE DEF g
  <2> QED BY <1>9, <2>1 DEF JumpsInside
<1> HIDE DEF g
<1>11. h \in Lists(m) /\ JumpsInside(m, h)
  <2>1. h \in Lists(m) /\ h.op = g.op
    BY <1>5, <1>6, <1>10, PutBehindType
  <2> HIDE DEF h
  <2> QED BY <1>10, <2>1 DEF JumpsInside
<1> HIDE DEF h
<1>12. d \in Lists(m) /\ JumpsInside(m, d)
  BY <1>6, <1>11, RemoveTyped
<1> HIDE DEF d
<1>13. x \in 0 .. m
  <2>1. CASE rest = Nil \/ d.prev[rest] = Nil
    BY <2>1 DEF Nil
  <2>2. CASE rest # Nil /\ d.prev[rest] # Nil
    <3>1. rest \in 1 .. m
      BY <1>8, <2>2 DEF Nil
    <3>2. d.prev[rest] \in 0 .. m
      BY <1>12, <3>1, Fields
    <3>3. d.prev[rest] \in 1 .. m
      BY <2>2, <3>2 DEF Nil
    <3>4. d.next[d.prev[rest]] \in 0 .. m
      BY <1>12, <3>3, Fields
    <3> QED BY <2>2, <3>4
  <2> QED BY <2>1, <2>2
<1> HIDE DEF x
<1> QED BY <1>3, <1>12, <1>13, DidType

LEMMA ContractWriteReadType == ASSUME NEW m \in Nat, Typed(m), ContractWriteRead PROVE Typed(m)'
<1>1. PICK n \in Hits :
        Did([BIRB_Remove(c, c.next[n]) EXCEPT !.op[n] = Op("modify", 1, Nil)], c.next[c.next[n]])
  BY DEF ContractWriteRead
<1>2. n \in 1 .. m /\ Finds("ContractWriteRead", n)
  BY <1>1, Found DEF ContractWriteRead
<1>3. c \in Lists(m) /\ JumpsInside(m, c)
  BY DEF Typed
<1>4. Kind(c, c.next[n]) = "read"
  BY <1>2 DEF Finds
<1>5. c.next[n] \in 1 .. m
  <2>1. c.next[n] \in 0 .. m
    BY <1>2, <1>3, Fields
  <2> QED BY <1>4, <2>1 DEF Kind, Nil
<1>6. c.next[c.next[n]] \in 0 .. m
  BY <1>3, <1>5, Fields
<1>7. Op("modify", 1, Nil) \in Ops /\ ~ BCIR_UsesLabel(Op("modify", 1, Nil))
  BY DEF Op, Ops, Kinds, Nil, BCIR_UsesLabel, Conditional
<1> DEFINE e == BIRB_Remove(c, c.next[n])
<1>8. e \in Lists(m) /\ JumpsInside(m, e)
  BY <1>3, <1>5, RemoveTyped
<1> HIDE DEF e
<1>9. LET d == [e EXCEPT !.op[n] = Op("modify", 1, Nil)] IN d \in Lists(m) /\ JumpsInside(m, d)
  BY <1>2, <1>7, <1>8, OpType
<1> QED BY <1>1, <1>6, <1>9, DidType DEF e

LEMMA ContractReturnType == ASSUME NEW m \in Nat, Typed(m), ContractReturn PROVE Typed(m)'
<1>1. PICK n \in Hits :
       Did([BIRB_Remove(c, c.prev[n]) EXCEPT
               !.op[n].k = IF c.op[n].k = "ret" THEN "retpop" ELSE "ret"], c.next[n])
  BY DEF ContractReturn
<1>2. n \in 1 .. m /\ Finds("ContractReturn", n)
  BY <1>1, Found DEF ContractReturn
<1>3. c \in Lists(m) /\ JumpsInside(m, c)
  BY DEF Typed
<1>4. Kind(c, c.prev[n]) \in {"write", "read"}
  BY <1>2 DEF Finds
<1>5. c.prev[n] \in 1 .. m
  <2>1. c.prev[n] \in 0 .. m
    BY <1>2, <1>3, Fields
  <2> QED BY <1>4, <2>1 DEF Kind, Nil
<1>6. c.next[n] \in 0 .. m
  BY <1>2, <1>3, Fields
<1> DEFINE e == BIRB_Remove(c, c.prev[n])
           k == IF c.op[n].k = "ret" THEN "retpop" ELSE "ret"
           o == [e.op[n] EXCEPT !.k = k]
<1>7. e \in Lists(m) /\ JumpsInside(m, e)
  BY <1>3, <1>5, RemoveTyped
<1>8. k \in {"ret", "retpop"}
  OBVIOUS
<1> HIDE DEF e, k
<1>9. e.op[n] \in Ops
  BY <1>2, <1>7, Fields
<1>10. o \in Ops /\ ~ BCIR_UsesLabel(o)
  BY <1>8, <1>9 DEF Ops, Kinds, BCIR_UsesLabel, Conditional
<1>11. [e EXCEPT !.op[n].k = k] = [e EXCEPT !.op[n] = o]
  OBVIOUS
<1> HIDE DEF o
<1>12. LET d == [e EXCEPT !.op[n] = o] IN d \in Lists(m) /\ JumpsInside(m, d)
  BY <1>2, <1>7, <1>10, OpType
<1>13. Did([e EXCEPT !.op[n].k = k], c.next[n])
  BY <1>1 DEF e, k
<1> QED BY <1>6, <1>11, <1>12, <1>13, DidType

LEMMA JumpOverJumpType == ASSUME NEW m \in Nat, Typed(m), JumpOverJump PROVE Typed(m)'
<1>1. PICK n \in Hits :
       Did([BIRB_Remove(c, c.next[n]) EXCEPT
              !.op[n].to = c.op[c.next[n]].to,
              !.op[n].k = IF c.op[n].k = "jz" THEN "jnz" ELSE "jz"], c.next[c.next[n]])
  BY DEF JumpOverJump
<1>2. n \in 1 .. m /\ Finds("JumpOverJump", n)
  BY <1>1, Found DEF JumpOverJump
<1>3. c \in Lists(m) /\ JumpsInside(m, c)
  BY DEF Typed
<1>4. Kind(c, c.next[n]) = "jump"
  BY <1>2 DEF Finds
<1>5. c.next[n] \in 1 .. m /\ c.op[c.next[n]].k = "jump"
  <2>1. c.next[n] \in 0 .. m
    BY <1>2, <1>3, Fields
  <2> QED BY <1>4, <2>1 DEF Kind, Nil
<1>6. c.op[c.next[n]].to \in 1 .. m
  BY <1>3, <1>5 DEF JumpsInside, BCIR_UsesLabel
<1>7. c.next[c.next[n]] \in 0 .. m
  BY <1>3, <1>5, Fields
<1> DEFINE e == BIRB_Remove(c, c.next[n])
           k == IF c.op[n].k = "jz" THEN "jnz" ELSE "jz"
           to == c.op[c.next[n]].to
           o == [e.op[n] EXCEPT !.to = to, !.k = k]
<1>8. e \in Lists(m) /\ JumpsInside(m, e)
  BY <1>3, <1>5, RemoveTyped
<1>9. k \in {"jz", "jnz"}
  OBVIOUS
<1>10. Did([e EXCEPT !.op[n].to = to, !.op[n].k = k], c.next[c.next[n]])
  BY <1>1
<1>11. to \in 1 .. m
  BY <1>6
<1> HIDE DEF e, k, to
<1>12. e.op[n] \in Ops /\ e.op \in [1 .. m -> Ops]
  BY <1>2, <1>8, Fields
<1>13. o \in Ops /\ o.to \in 1 .. m
  <2>1. k \in Kinds /\ to \in Nat
    BY <1>9, <1>11 DEF Kinds
  <2>2. \A p \in Ops : LET q == [p EXCEPT !.to = to, !.k = k] IN q \in Ops /\ q.to = to
    BY <2>1 DEF Ops
  <2> QED BY <1>11, <1>12, <2>2
<1>14. [e EXCEPT !.op[n].to = to, !.op[n].k = k] = [e EXCEPT !.op[n] = o]
  BY <1>2, <1>8, <1>12 DEF Lists
<1> HIDE DEF o
<1>15. LET d == [e EXCEPT !.op[n] = o] IN d \in Lists(m) /\ JumpsInside(m, d)
  BY <1>2, <1>8, <1>13, OpType
<1> QED BY <1>7, <1>10, <1>14, <1>15, DidType

\* Where a jump leads to there is a node.
LEMMA TargetType == ASSUME NEW m \in Nat, Typed(m), NEW n \in 1 .. m, BCIR_UsesLabel(c.op[n])
  PROVE c.op[n].to \in 1 .. m /\ c.next[c.op[n].to] \in 0 .. m
<1>1. c \in Lists(m) /\ c.op[n].to \in 1 .. m
  BY DEF Typed, JumpsInside
<1> QED BY <1>1, Fields

LEMMA JumpToJumpType == ASSUME NEW m \in Nat, Typed(m), JumpToJump PROVE Typed(m)'
<1>1. PICK n \in Hits :
       Did([c EXCEPT !.op[n].to = c.op[c.next[c.op[n].to]].to], c.next[n])
  BY DEF JumpToJump
<1>2. n \in 1 .. m /\ Finds("JumpToJump", n)
  BY <1>1, Found DEF JumpToJump
<1>3. c \in Lists(m) /\ JumpsInside(m, c)
  BY DEF Typed
<1>4. BCIR_UsesLabel(c.op[n]) /\ Kind(c, c.next[c.op[n].to]) = "jump"
  BY <1>2 DEF Finds
<1> DEFINE over == c.next[c.op[n].to]
           to == c.op[over].to
           o == [c.op[n] EXCEPT !.to = to]
<1>5. over \in 1 .. m /\ c.op[over].k = "jump"
  <2>1. over \in 0 .. m
    BY <1>2, <1>4, TargetType
  <2> HIDE DEF over
  <2>2. Kind(c, over) = "jump"
    BY <1>4 DEF over
  <2> QED BY <2>1, <2>2 DEF Kind, Nil
<1>6. to \in 1 .. m
  <2> HIDE DEF over
  <2> QED BY <1>3, <1>5 DEF JumpsInside, BCIR_UsesLabel
<1>7. c.next[n] \in 0 .. m /\ c.op[n] \in Ops
  BY <1>2, <1>3, Fields
<1>8. Did([c EXCEPT !.op[n].to = to], c.next[n])
  BY <1>1
<1> HIDE DEF over, to
<1>9. o \in Ops /\ o.to \in 1 .. m
  BY <1>6, <1>7 DEF Ops
<1>10. [c EXCEPT !.op[n].to = to] = [c EXCEPT !.op[n] = o]
  OBVIOUS
<1> HIDE DEF o
<1>11. LET d == [c EXCEPT !.op[n] = o] IN d \in Lists(m) /\ JumpsInside(m, d)
  BY <1>2, <1>3, <1>9, OpType
<1> QED BY <1>7, <1>8, <1>10, <1>11, DidType

LEMMA ReplaceType == ASSUME NEW m \in Nat, Typed(m), ReplaceJumpToOpWithItself PROVE Typed(m)'
<1>1. PICK n \in Hits :
       Did([c EXCEPT !.op[n] = c.op[c.next[c.op[n].to]]], c.next[n])
  BY DEF ReplaceJumpToOpWithItself
<1>2. n \in 1 .. m /\ Finds("ReplaceJumpToOpWithItself", n)
  BY <1>1, Found DEF ReplaceJumpToOpWithItself
<1>3. c \in Lists(m) /\ JumpsInside(m, c)
  BY DEF Typed
<1>4. Replaceable(n)
  BY <1>2 DEF Finds
<1>5. BCIR_UsesLabel(c.op[n])
  BY <1>4 DEF Replaceable, BCIR_UsesLabel
<1> DEFINE over == c.next[c.op[n].to]
<1>6. over \in 1 .. m
  <2>1. over \in 0 .. m
    BY <1>2, <1>5, TargetType
  <2> QED BY <1>4, <2>1 DEF Replaceable, Nil
<1>7. c.op[over].k \in {"ret", "retpop"}
  BY <1>4 DEF Replaceable, BCIR_CanReplaceJumpToOpWithItself
<1>8. Did([c EXCEPT !.op[n] = c.op[over]], c.next[n])
  BY <1>1
<1> HIDE DEF over
<1>9. c.op[over] \in Ops /\ ~ BCIR_UsesLabel(c.op[over])
  BY <1>3, <1>6, <1>7, Fields DEF BCIR_UsesLabel, Conditional
<1>10. LET d == [c EXCEPT !.op[n] = c.op[over]] IN d \in Lists(m) /\ JumpsInside(m, d)
  BY <1>2, <1>3, <1>9, OpType
<1>11. c.next[n] \in 0 .. m
  BY <1>2, <1>3, Fields
<1> QED BY <1>8, <1>10, <1>11, DidType

LEMMA RemoveBeforeReturnType ==
  ASSUME NEW m \in Nat, Typed(m), RemoveBeforeReturn PROVE Typed(m)'
<1>1. PICK n \in Hits : Did(BIRB_Remove(c, c.prev[n]), n)
  BY DEF RemoveBeforeReturn
<1>2. n \in 1 .. m /\ Finds("RemoveBeforeReturn", n)
  BY <1>1, Found DEF RemoveBeforeReturn
<1>3. c \in Lists(m) /\ JumpsInside(m, c)
  BY DEF Typed
<1>4. c.prev[n] # Nil
  BY <1>2 DEF Finds
<1>5. c.prev[n] \in 1 .. m
  BY <1>2, <1>3, <1>4, Fields DEF Nil
<1> QED BY <1>1, <1>2, <1>3, <1>5, RemoveTyped, DidType

LEMMA NextPassType == ASSUME NEW m \in Nat, Typed(m), NextPass PROVE Typed(m)'
<1>1. PICK i \in 1 .. Len(Passes) :
       /\ pass = Passes[i]
       /\ IF i < Len(Passes)
          THEN pass' = Passes[i + 1] /\ UNCHANGED <<didWork, iterations>>
          ELSE /\ iterations' = IF didWork THEN iterations + 1 ELSE iterations
               /\ pass' = IF didWork /\ iterations' < MaxIterations THEN Passes[1] ELSE "size"
               /\ didWork' = FALSE
  BY DEF NextPass
<1>2. ir' \in 0 .. m /\ c' = c /\ size' = size
  BY Fields DEF NextPass, Typed
<1>3. Len(Passes) = 10
  BY DEF Passes
<1>4. /\ pass' \in {Passes[j] : j \in 1 .. Len(Passes)} \cup Work
      /\ didWork' \in BOOLEAN /\ iterations' \in Nat
  <2>1. CASE i < Len(Passes)
    <3>1. i + 1 \in 1 .. Len(Passes)
      BY <1>3, <2>1
    <3> QED BY <1>1, <2>1, <3>1 DEF Typed
  <2>2. CASE ~ (i < Len(Passes))
    <3>1. 1 \in 1 .. Len(Passes)
      BY <1>3
    <3>2. pass' \in {Passes[1], "size"} /\ didWork' = FALSE
      BY <1>1, <2>2
    <3>3. iterations' \in Nat
      BY <1>1, <2>2 DEF Typed
    <3> QED BY <3>1, <3>2, <3>3 DEF Work
  <2> QED BY <2>1, <2>2
<1>5. c' \in Lists(m) /\ JumpsInside(m, c')
  BY <1>2 DEF Typed
<1> QED BY <1>2, <1>4, <1>5 DEF Typed, Lists, JumpsInside, Ops

LEMMA SizeHitType == ASSUME NEW m \in Nat, Typed(m), NEW n \in SizeHits
  PROVE /\ n \in 1 .. m /\ Undetermined(n)
        /\ GetSizeBound(n) \in {{2}, {3}}
<1>1. n \in Elements(From(c, ir)) /\ Undetermined(n) /\ GetSizeBound(n) # {2, 3}
  BY DEF SizeHits, First
<1>2. Elements(From(c, ir)) \subseteq 1 .. m
  BY FromType DEF Typed
<1>3. GetSizeBound(n) \in {{2}, {3}, {2, 3}}
  BY DEF GetSizeBound
<1> QED BY <1>1, <1>2, <1>3

LEMMA DetermineSizesType == ASSUME NEW m \in Nat, Typed(m), DetermineSizes PROVE Typed(m)'
<1>1. PICK n \in SizeHits : /\ \E s \in GetSizeBound(n) : size' = [size EXCEPT ![n] = s]
                            /\ ir' = c.next[n]
  BY DEF DetermineSizes
<1>2. PICK s \in GetSizeBound(n) : size' = [size EXCEPT ![n] = s]
  BY <1>1
<1>3. n \in 1 .. m /\ s \in {2, 3}
  BY SizeHitType
<1>4. size' \in [1 .. m -> {-1, 2, 3}]
  BY <1>2, <1>3 DEF Typed
<1>5. ir' \in 0 .. m
  BY <1>1, <1>3, Fields DEF Typed
<1>6. UNCHANGED <<c, pass, iterations>> /\ didWork' = TRUE
  BY DEF DetermineSizes
<1> QED BY <1>4, <1>5, <1>6 DEF Typed, Lists, JumpsInside, Ops

LEMMA SizesAgainType == ASSUME NEW m \in Nat, Typed(m), SizesAgain PROVE Typed(m)'
<1>1. ir' \in 0 .. m
  BY Fields DEF SizesAgain, Typed
<1>2. UNCHANGED <<c, iterations, size>> /\ didWork' = FALSE /\ pass' \in Work
  BY DEF SizesAgain, Work
<1> QED BY <1>1, <1>2 DEF Typed, Lists, JumpsInside, Ops

LEMMA ForceSizeType == ASSUME NEW m \in Nat, Typed(m), ForceSize PROVE Typed(m)'
<1>1. PICK n \in First(Open) : size' = [size EXCEPT ![n] = 3]
  BY DEF ForceSize
<1>2. n \in 1 .. m
  BY ChainType DEF First, Open, Typed
<1>3. size' \in [1 .. m -> {-1, 2, 3}]
  BY <1>1, <1>2 DEF Typed
<1>4. UNCHANGED <<c, ir, didWork, iterations>> /\ pass' \in Work
  BY DEF ForceSize, Work
<1> QED BY <1>3, <1>4 DEF Typed, Lists, JumpsInside, Ops

LEMMA NextType == ASSUME NEW m \in Nat, Typed(m), [Next]_vars PROVE Typed(m)'
<1>1. CASE UNCHANGED vars
  BY <1>1 DEF vars, Typed, Lists, JumpsInside, Ops
<1>2. CASE Done
  BY <1>2 DEF Done, vars, Typed, Lists, JumpsInside, Ops
<1> QED
  BY <1>1, <1>2, DeadCodeType, PointlessJumpType, UnusedLabelType, MoveType,
     ContractWriteReadType, ContractReturnType, JumpOverJumpType, JumpToJumpType, ReplaceType,
     RemoveBeforeReturnType, NextPassType, DetermineSizesType, SizesAgainType, ForceSizeType
     DEF Next

\* A function that is given to the optimiser, with its two spare nodes.
LEMMA PushedType == ASSUME NEW p \in Programs
  PROVE LET m == Len(p) + 2
        IN /\ Len(p) \in Nat \ {0} /\ Pushed(p) \in Lists(m) /\ JumpsInside(m, Pushed(p))
           /\ \A i \in 1 .. m : Pushed(p).op[i].k = "jump" => Pushed(p).op[i].v \in Nat
<1> DEFINE n == Len(p)
<1>1. p \in Seq(Ops) /\ p # <<>>
  BY BcirAssumption DEF Ops
<1>2. n \in Nat \ {0}
  BY <1>1
<1>3. \A i \in 1 .. n : BCIR_UsesLabel(p[i]) => p[i].to \in 1 .. n /\ p[i].v \in Nat
  BY BcirAssumption
<1>4. \A i \in 1 .. n : p[i] \in Ops
  BY <1>1
<1> HIDE DEF n
<1> DEFINE op == [i \in 1 .. n + 2 |-> IF i <= n THEN p[i] ELSE Op("const", 0, Nil)]
           next == [i \in 1 .. n + 2 |-> IF i < n THEN i + 1 ELSE Nil]
           prev == [i \in 1 .. n + 2 |-> IF i <= n THEN i - 1 ELSE Nil]
<1>5. Op("const", 0, Nil) \in Ops /\ ~ BCIR_UsesLabel(Op("const", 0, Nil))
  BY DEF Op, Ops, Kinds, Nil, BCIR_UsesLabel, Conditional
<1>6. op \in [1 .. n + 2 -> Ops]
  <2>1. \A i \in 1 .. n + 2 : (IF i <= n THEN p[i] ELSE Op("const", 0, Nil)) \in Ops
    BY <1>2, <1>4, <1>5
  <2> QED BY <2>1
<1>7. next \in [1 .. n + 2 -> 0 .. n + 2]
  BY <1>2 DEF Nil
<1>8. prev \in [1 .. n + 2 -> 0 .. n + 2]
  BY <1>2 DEF Nil
<1>9. \A i \in 1 .. n + 2 : BCIR_UsesLabel(op[i]) => op[i].to \in 1 .. n + 2
  BY <1>2, <1>3, <1>5
<1>13. \A i \in 1 .. n + 2 : op[i].k = "jump" => op[i].v \in Nat
  BY <1>2, <1>3 DEF Op, BCIR_UsesLabel
<1>10. Pushed(p) = [op |-> op, next |-> next, prev |-> prev, head |-> 1, tail |-> n]
  BY DEF Pushed, n
<1> HIDE DEF op, next, prev
<1>11. Pushed(p) \in Lists(n + 2) /\ Pushed(p).op = op
  BY <1>2, <1>6, <1>7, <1>8, <1>10 DEF Lists
<1>12. JumpsInside(n + 2, Pushed(p))
  BY <1>9, <1>11 DEF JumpsInside
<1> QED BY <1>2, <1>11, <1>12, <1>13 DEF n

LEMMA ResolveType == ASSUME NEW p \in Programs
  PROVE LET d == BCIR_ResolveNamedLabels(Pushed(p), Len(p))
            m == Len(p) + 2
        IN d \in Lists(m) /\ JumpsInside(m, d)
<1> DEFINE n == Len(p)
           m == n + 2
           b == Pushed(p)
           j == CHOOSE i \in InChain(b) : b.op[i].k = "jump" /\ b.op[i].v > 0
           e == [b EXCEPT !.op = [@ EXCEPT ![n + 1] = Op("const", b.op[j].v, Nil),
                                           ![n + 2] = Op("pop", 0, Nil), ![j].v = 0]]
           f == BIRB_InsertBefore(e, j, n + 1)
           g == BIRB_InsertBefore(f, j, n + 2)
<1>1. /\ n \in Nat \ {0} /\ b \in Lists(m) /\ JumpsInside(m, b)
      /\ \A i \in 1 .. m : b.op[i].k = "jump" => b.op[i].v \in Nat
  BY PushedType
<1>2. BCIR_ResolveNamedLabels(b, n) =
        IF \A i \in InChain(b) : b.op[i].k # "jump" \/ b.op[i].v = 0 THEN b ELSE g
  BY DEF BCIR_ResolveNamedLabels
<1> HIDE DEF n, b
<1>3. CASE \A i \in InChain(b) : b.op[i].k # "jump" \/ b.op[i].v = 0
  BY <1>1, <1>2, <1>3 DEF n, b
<1>4. ASSUME NEW i \in InChain(b), ~ (b.op[i].k # "jump" \/ b.op[i].v = 0)
      PROVE g \in Lists(m) /\ JumpsInside(m, g)
  <2>1. m \in Nat /\ n + 1 \in 1 .. m /\ n + 2 \in 1 .. m
    BY <1>1
  <2>2. InChain(b) \subseteq 1 .. m
    BY <1>1, <2>1, ChainType
  <2>3. b.op[i].k = "jump" /\ b.op[i].v > 0
    <3>1. b.op[i].k = "jump" /\ b.op[i].v # 0
      BY <1>4
    <3>2. b.op[i].v \in Nat
      BY <1>1, <1>4, <2>2, <3>1
    <3> QED BY <3>1, <3>2
  <2>4. j \in InChain(b) /\ b.op[j].k = "jump" /\ b.op[j].v > 0
    BY <1>4, <2>3
  <2>5. j \in 1 .. m
    BY <2>2, <2>4
  <2> DEFINE o1 == Op("const", b.op[j].v, Nil)
             o2 == Op("pop", 0, Nil)
             e1 == [b EXCEPT !.op[n + 1] = o1]
             e2 == [e1 EXCEPT !.op[n + 2] = o2]
             o3 == [e2.op[j] EXCEPT !.v = 0]
             e3 == [e2 EXCEPT !.op[j] = o3]
  <2> HIDE DEF j
  <2>6. o1 \in Ops /\ ~ BCIR_UsesLabel(o1)
    <3>1. b.op[j].v \in Int
      BY <1>1, <2>1, <2>5, Fields
    <3> QED BY <3>1 DEF Op, Ops, Kinds, Nil, BCIR_UsesLabel, Conditional
  <2>7. o2 \in Ops /\ ~ BCIR_UsesLabel(o2)
    BY DEF Op, Ops, Kinds, Nil, BCIR_UsesLabel, Conditional
  <2>8. e = e3
    BY <1>1, <2>1, <2>5, Fields DEF Lists
  <2> HIDE DEF o1, o2
  <2>9. e1 \in Lists(m) /\ JumpsInside(m, e1)
    BY <1>1, <2>1, <2>6, OpType
  <2> HIDE DEF e1
  <2>10. e2 \in Lists(m) /\ JumpsInside(m, e2)
    BY <2>1, <2>7, <2>9, OpType
  <2> HIDE DEF e2
  <2>11. o3 \in Ops /\ (BCIR_UsesLabel(o3) => o3.to \in 1 .. m)
    <3>1. e2.op[j] \in Ops /\ (BCIR_UsesLabel(e2.op[j]) => e2.op[j].to \in 1 .. m)
      BY <2>1, <2>5, <2>10, Fields DEF JumpsInside
    <3>2. \A o \in Ops : LET q == [o EXCEPT !.v = 0]
                         IN q \in Ops /\ q.k = o.k /\ q.to = o.to
      BY DEF Ops
    <3> QED BY <3>1, <3>2 DEF BCIR_UsesLabel
  <2> HIDE DEF o3
  <2>12. e3 \in Lists(m) /\ JumpsInside(m, e3)
    BY <2>1, <2>5, <2>10, <2>11, OpType
  <2> HIDE DEF e3, e
  <2>13. f \in Lists(m) /\ f.op = e.op
    BY <2>1, <2>5, <2>8, <2>12, InsertBeforeType
  <2> HIDE DEF f
  <2>14. g \in Lists(m) /\ g.op = e.op
    BY <2>1, <2>5, <2>13, InsertBeforeType
  <2> HIDE DEF g
  <2> QED BY <2>8, <2>12, <2>14 DEF JumpsInside
<1> QED BY <1>1, <1>2, <1>3, <1>4 DEF n, b

LEMMA InitType == ASSUME Init PROVE \E m \in Nat : Typed(m)
<1>1. PICK p \in Programs : c = BCIR_ResolveNamedLabels(Pushed(p), Len(p))
  BY DEF Init
<1> DEFINE m == Len(p) + 2
<1>2. c \in Lists(m) /\ JumpsInside(m, c) /\ m \in Nat
  BY <1>1, ResolveType, PushedType
<1> HIDE DEF m
<1>3. DOMAIN c.op = 1 .. m /\ c.head \in 0 .. m
  BY <1>2, Fields
<1>4. size \in [1 .. m -> {-1, 2, 3}]
  BY <1>3 DEF Init
<1>5. pass \in {Passes[i] : i \in 1 .. Len(Passes)} /\ didWork \in BOOLEAN /\ iterations \in Nat
  <2>1. 1 \in 1 .. Len(Passes)
    BY DEF Passes
  <2> QED BY <2>1 DEF Init
<1>6. ir \in 0 .. m
  BY <1>3 DEF Init
<1> QED BY <1>2, <1>4, <1>5, <1>6 DEF Typed

\* The list, the cursor and the sizes stay what they are.
THEOREM Types == Spec => []TypeOK
<1>1. Init => TypeOK
  BY InitType DEF TypeOK
<1>2. TypeOK /\ [Next]_vars => TypeOK'
  <2> SUFFICES ASSUME TypeOK, [Next]_vars PROVE TypeOK'
    OBVIOUS
  <2>1. PICK m \in Nat : Typed(m)
    BY DEF TypeOK
  <2>2. Typed(m)'
    BY <2>1, NextType
  <2> QED BY <2>2 DEF TypeOK
<1> QED BY <1>1, <1>2, PTL DEF Spec

-----------------------------------------------------------------------------
(* Sizes *)

Fits(n, bytes) == BCIR_GetJumpOffset(n, bytes) \in -Reach - 1 .. Reach

\* A short jump fits even if all jumps that are open become long ones.
SizesInv ==
  /\ pass \in Work \/ \A n \in DOMAIN size : size[n] = -1
  /\ \A n \in DOMAIN size : size[n] = 2 => Fits(n, High)

LEMMA BytesType == ASSUME NEW m \in Nat, Typed(m), NEW open \in {2, 3}
  PROVE /\ Bytes(open) \in [1 .. m -> Nat]
        /\ \A n \in 1 .. m : Bytes(open)[n] = IF Undetermined(n) THEN open
                             ELSE IF BCIR_UsesLabel(c.op[n]) THEN size[n] ELSE FixedBytes(n)
<1>1. DOMAIN c.op = 1 .. m
  BY Fields DEF Typed
<1>2. ASSUME NEW n \in 1 .. m
      PROVE (IF Undetermined(n) THEN open
             ELSE IF BCIR_UsesLabel(c.op[n]) THEN size[n] ELSE FixedBytes(n)) \in Nat
  <2>1. FixedBytes(n) \in Nat
    BY BcirAssumption DEF FixedBytes
  <2>2. size[n] \in {-1, 2, 3}
    BY DEF Typed
  <2>3. BCIR_UsesLabel(c.op[n]) /\ ~ Undetermined(n) => size[n] \in Nat
    BY <2>2 DEF Undetermined
  <2> QED BY <2>1, <2>3
<1> QED BY <1>1, <1>2 DEF Bytes

LEMMA LowHigh == ASSUME NEW m \in Nat, Typed(m)
  PROVE /\ Low \in [1 .. m -> Nat] /\ High \in [1 .. m -> Nat]
        /\ \A n \in 1 .. m : Low[n] <= High[n]
<1>1. Low \in [1 .. m -> Nat] /\ High \in [1 .. m -> Nat]
  BY BytesType DEF Low, High
<1>2. ASSUME NEW n \in 1 .. m PROVE Low[n] <= High[n]
  <2>1. Low[n] = IF Undetermined(n) THEN 2
                 ELSE IF BCIR_UsesLabel(c.op[n]) THEN size[n] ELSE FixedBytes(n)
    BY BytesType DEF Low
  <2>2. High[n] = IF Undetermined(n) THEN 3
                  ELSE IF BCIR_UsesLabel(c.op[n]) THEN size[n] ELSE FixedBytes(n)
    BY BytesType DEF High
  <2>3. Low[n] \in Nat /\ High[n] \in Nat
    BY <1>1
  <2> QED BY <2>1, <2>2, <2>3
<1> QED BY <1>1, <1>2

\* What fits still fits if operations get shorter.
LEMMA FitsShorter ==
  ASSUME NEW m \in Nat, Typed(m), NEW n \in 1 .. m,
         NEW low, low \in [1 .. m -> Nat], NEW high, high \in [1 .. m -> Nat],
         \A x \in 1 .. m : low[x] <= high[x], Fits(n, high)
  PROVE Fits(n, low)
<1> DEFINE l == c.op[n].to
           k == Len(c.op)
           D(links, bytes, x) == Distance(links, bytes, x, l, k)
<1>1. k \in Nat /\ c.next[n] \in 0 .. m /\ n \in 0 .. m
  BY Fields, ListLength DEF Typed
<1>2. /\ Measured(m, c.next, low) /\ Measured(m, c.next, high)
      /\ Measured(m, c.prev, low) /\ Measured(m, c.prev, high)
  BY Fields DEF Measured, Typed
<1> HIDE DEF l, k
<1>3. /\ D(c.next, low, c.next[n]) <= D(c.next, high, c.next[n])
      /\ D(c.prev, low, n) <= D(c.prev, high, n)
  BY <1>1, <1>2, DistanceMonotone
<1>4. /\ D(c.next, low, c.next[n]) \in Nat /\ D(c.next, high, c.next[n]) \in Nat
      /\ D(c.prev, low, n) \in Nat /\ D(c.prev, high, n) \in Nat
  BY <1>1, <1>2, DistanceStep
<1>5. \A bytes : BCIR_GetJumpOffset(n, bytes) =
        IF l \in Elements(From(c, c.next[n])) THEN D(c.next, bytes, c.next[n]) ELSE -D(c.prev, bytes, n)
  BY DEF BCIR_GetJumpOffset, l, k
<1> HIDE DEF D
<1>6. Reach \in Nat
  BY BcirAssumption
<1>7. CASE l \in Elements(From(c, c.next[n]))
  <2>1. D(c.next, high, c.next[n]) \in -Reach - 1 .. Reach
    BY <1>5, <1>7 DEF Fits
  <2>2. D(c.next, low, c.next[n]) \in -Reach - 1 .. Reach
    BY <1>3, <1>4, <1>6, <2>1
  <2> QED BY <1>5, <1>7, <2>2 DEF Fits
<1>8. CASE l \notin Elements(From(c, c.next[n]))
  <2>1. -D(c.prev, high, n) \in -Reach - 1 .. Reach
    BY <1>5, <1>8 DEF Fits
  <2>2. -D(c.prev, low, n) \in -Reach - 1 .. Reach
    BY <1>3, <1>4, <1>6, <2>1
  <2> QED BY <1>5, <1>8, <2>2 DEF Fits
<1> QED BY <1>7, <1>8

\* If a jump that was open gets a size, the short jumps still fit.
LEMMA SizeGiven ==
  ASSUME NEW m \in Nat, Typed(m), SizesInv, NEW n \in 1 .. m, Undetermined(n), NEW s \in {2, 3},
         s = 2 => Fits(n, High),
         c' = c, size' = [size EXCEPT ![n] = s], Typed(m)', pass' \in Work
  PROVE SizesInv'
<1>1. PICK h : h = High'
  OBVIOUS
<1>2. h = [High EXCEPT ![n] = s]
  <2>1. DOMAIN c.op = 1 .. m /\ size \in [1 .. m -> {-1, 2, 3}]
    BY Fields DEF Typed
  <2>2. High = [x \in 1 .. m |-> IF BCIR_UsesLabel(c.op[x]) /\ size[x] < 0 THEN 3
                                ELSE IF BCIR_UsesLabel(c.op[x]) THEN size[x] ELSE FixedBytes(x)]
    BY <2>1 DEF High, Bytes, Undetermined
  <2>3. h = [x \in 1 .. m |-> IF BCIR_UsesLabel(c.op[x]) /\ size'[x] < 0 THEN 3
                             ELSE IF BCIR_UsesLabel(c.op[x]) THEN size'[x] ELSE FixedBytes(x)]
    BY <1>1, <2>1 DEF High, Bytes, Undetermined, FixedBytes, Kind
  <2>4. BCIR_UsesLabel(c.op[n]) /\ size'[n] = s /\ \A x \in 1 .. m : x # n => size'[x] = size[x]
    BY <2>1 DEF Undetermined
  <2>5. \A x \in 1 .. m :
          (IF BCIR_UsesLabel(c.op[x]) /\ size'[x] < 0 THEN 3
           ELSE IF BCIR_UsesLabel(c.op[x]) THEN size'[x] ELSE FixedBytes(x))
          = IF x = n THEN s ELSE High[x]
    BY <2>2, <2>4
  <2>6. h = [x \in 1 .. m |-> IF x = n THEN s ELSE High[x]]
    BY <2>3, <2>5
  <2>7. DOMAIN High = 1 .. m
    BY <2>2
  <2> QED BY <2>6, <2>7
<1>3. High[n] = 3
  <2>1. DOMAIN c.op = 1 .. m
    BY Fields DEF Typed
  <2> QED BY <2>1 DEF High, Bytes
<1>4. High \in [1 .. m -> Nat] /\ h \in [1 .. m -> Nat]
  <2>1. High \in [1 .. m -> Nat]
    BY LowHigh
  <2> QED BY <1>2, <2>1
<1>5. \A x \in 1 .. m : h[x] <= High[x]
  BY <1>4, <1>2, <1>3
<1>6. ASSUME NEW x \in 1 .. m, size'[x] = 2 PROVE Fits(x, High)'
  <2>1. Fits(x, High)
    BY <1>6 DEF Typed, SizesInv
  <2>2. Fits(x, h)
    BY <1>4, <1>5, <2>1, FitsShorter
  <2>3. Fits(x, High)' <=> Fits(x, h)
    BY <1>1 DEF Fits, BCIR_GetJumpOffset, From
  <2> QED BY <2>2, <2>3
<1>7. DOMAIN size' = 1 .. m
  BY DEF Typed
<1> QED BY <1>6, <1>7 DEF SizesInv

\* A pass leaves the sizes alone, which are not determined yet.
LEMMA PassSizes == ASSUME NEW m \in Nat, Typed(m), SizesInv, pass \notin Work, size' = size
  PROVE SizesInv'
<1>1. \A n \in DOMAIN size : size[n] = -1
  BY DEF SizesInv
<1> QED BY <1>1 DEF SizesInv

\* Where the list and the sizes stay the jumps still fit.
LEMMA SameSizes ==
  ASSUME NEW m \in Nat, Typed(m), SizesInv, c' = c, size' = size, pass \in Work => pass' \in Work
  PROVE SizesInv'
<1>1. \A n : Fits(n, High)' <=> Fits(n, High)
  BY DEF Fits, BCIR_GetJumpOffset, From, High, Bytes, Undetermined, FixedBytes, Kind
<1> QED BY <1>1 DEF SizesInv

LEMMA SizesInvStep == ASSUME NEW m \in Nat, Typed(m), SizesInv, [Next]_vars PROVE SizesInv'
<1>1. Typed(m)'
  BY NextType
<1>2. \A i \in 1 .. Len(Passes) : Passes[i] \notin Work
  BY DEF Passes, Work
<1>3. ASSUME DeadCode \/ PointlessJump \/ UnusedLabel \/ MoveSingleJumpLabel
             \/ ContractWriteRead \/ ContractReturn \/ JumpOverJump \/ JumpToJump
             \/ ReplaceJumpToOpWithItself \/ RemoveBeforeReturn
      PROVE SizesInv'
  <2>1. pass \notin Work
    BY <1>3 DEF DeadCode, PointlessJump, UnusedLabel, MoveSingleJumpLabel, ContractWriteRead,
                ContractReturn, JumpOverJump, JumpToJump, ReplaceJumpToOpWithItself,
                RemoveBeforeReturn, Work
  <2>2. size' = size
    BY <1>3 DEF DeadCode, PointlessJump, UnusedLabel, MoveSingleJumpLabel, ContractWriteRead,
                ContractReturn, JumpOverJump, JumpToJump, ReplaceJumpToOpWithItself,
                RemoveBeforeReturn, Did
  <2> QED BY <2>1, <2>2, PassSizes
<1>4. CASE NextPass
  <2>1. pass \notin Work
    BY <1>2, <1>4 DEF NextPass
  <2> QED BY <1>4, <2>1, PassSizes DEF NextPass
<1>5. CASE DetermineSizes
  <2>1. PICK n \in SizeHits : \E s \in GetSizeBound(n) : size' = [size EXCEPT ![n] = s]
    BY <1>5 DEF DetermineSizes
  <2>2. PICK s \in GetSizeBound(n) : size' = [size EXCEPT ![n] = s]
    BY <2>1
  <2>3. n \in 1 .. m /\ Undetermined(n) /\ s \in {2, 3}
    BY SizeHitType
  <2>4. ASSUME s = 2 PROVE Fits(n, High)
    <3>1. GetSizeBound(n) = {2}
      BY <2>4, SizeHitType
    <3>2. /\ BCIR_GetJumpOffset(n, High) <= Reach
          /\ BCIR_GetJumpOffset(n, High) >= -Reach - 1
      BY <3>1 DEF GetSizeBound
    <3>3. BCIR_GetJumpOffset(n, High) \in Int
      <4>1. Len(c.op) \in Nat /\ c.next[n] \in 0 .. m /\ n \in 0 .. m
        BY <2>3, Fields, ListLength DEF Typed
      <4>2. Measured(m, c.next, High) /\ Measured(m, c.prev, High)
        BY Fields, LowHigh DEF Measured, Typed
      <4>3. \A l : /\ Distance(c.next, High, c.next[n], l, Len(c.op)) \in Nat
                   /\ Distance(c.prev, High, n, l, Len(c.op)) \in Nat
        BY <4>1, <4>2, DistanceStep
      <4> QED BY <4>3 DEF BCIR_GetJumpOffset
    <3>4. Reach \in Nat
      BY BcirAssumption
    <3> QED BY <3>2, <3>3, <3>4 DEF Fits
  <2>5. c' = c /\ pass' \in Work
    BY <1>5 DEF DetermineSizes, Work
  <2> QED BY <1>1, <2>2, <2>3, <2>4, <2>5, SizeGiven
<1>6. CASE SizesAgain
  <2>1. c' = c /\ size' = size /\ pass' \in Work
    BY <1>6 DEF SizesAgain, Work
  <2> QED BY <2>1, SameSizes
<1>7. CASE ForceSize
  <2>1. PICK n \in First(Open) : size' = [size EXCEPT ![n] = 3]
    BY <1>7 DEF ForceSize
  <2>2. n \in 1 .. m /\ Undetermined(n)
    BY ChainType DEF First, Open, Typed
  <2>3. c' = c /\ pass' \in Work
    BY <1>7 DEF ForceSize, Work
  <2>4. PICK s : s = 3
    OBVIOUS
  <2>5. s \in {2, 3} /\ (s = 2 => Fits(n, High)) /\ size' = [size EXCEPT ![n] = s]
    BY <2>1, <2>4
  <2> QED BY <1>1, <2>2, <2>3, <2>5, SizeGiven
<1>8. CASE Done \/ UNCHANGED vars
  BY <1>8, SameSizes DEF Done, vars
<1> QED BY <1>3, <1>4, <1>5, <1>6, <1>7, <1>8 DEF Next

\* No jump of the code that comes out has an encoding its distance does not fit.
THEOREM Encodings == Spec => []EncodingFits
<1> DEFINE I == \E m \in Nat : Typed(m) /\ SizesInv
<1>1. Init => I
  <2> SUFFICES ASSUME Init PROVE I
    OBVIOUS
  <2>1. PICK m \in Nat : Typed(m)
    BY InitType
  <2>2. \A n \in DOMAIN size : size[n] = -1
    BY DEF Init
  <2> QED BY <2>1, <2>2 DEF SizesInv
<1>2. I /\ [Next]_vars => I'
  <2> SUFFICES ASSUME I, [Next]_vars PROVE I'
    OBVIOUS
  <2>1. PICK m \in Nat : Typed(m) /\ SizesInv
    OBVIOUS
  <2>2. Typed(m)' /\ SizesInv'
    BY <2>1, NextType, SizesInvStep
  <2> QED BY <2>2
<1>3. I => EncodingFits
  <2> SUFFICES ASSUME I, NEW n \in InChain(c), size[n] = 2
               PROVE BCIR_GetJumpOffset(n, Low) \in -Reach - 1 .. Reach
    BY DEF EncodingFits
  <2>1. PICK m \in Nat : Typed(m) /\ SizesInv
    OBVIOUS
  <2>2. n \in 1 .. m
    BY <2>1, ChainType DEF Typed
  <2>3. Fits(n, High)
    BY <2>1, <2>2 DEF Typed, SizesInv
  <2> QED BY <2>1, <2>2, <2>3, LowHigh, FitsShorter DEF Fits
<1> QED BY <1>1, <1>2, <1>3, PTL DEF Spec

-----------------------------------------------------------------------------
(* The list as a ring through Nil *)

Succ(d, n) == IF n = Nil THEN d.head ELSE d.next[n]
Pred(d, n) == IF n = Nil THEN d.tail ELSE d.prev[n]

\* w[1] to w[k] are the nodes of the list d in their order.
Ring(m, d, k, w) ==
  /\ k \in Nat /\ k <= m
  /\ w \in [0 .. k + 1 -> 0 .. m] /\ w[0] = Nil /\ w[k + 1] = Nil
  /\ \A i \in 1 .. k : w[i] \in 1 .. m
  /\ \A i, j \in 1 .. k : w[i] = w[j] => i = j
  /\ \A i \in 0 .. k : Succ(d, w[i]) = w[i + 1]
  /\ \A i \in 1 .. k + 1 : Pred(d, w[i]) = w[i - 1]

LEMMA RingDistinct == ASSUME NEW m \in Nat, NEW d, NEW k, NEW w, Ring(m, d, k, w)
  PROVE /\ \A i, j \in 0 .. k : w[i] = w[j] => i = j
        /\ \A i, j \in 1 .. k + 1 : w[i] = w[j] => i = j
<1>1. k \in Nat /\ w[0] = 0 /\ w[k + 1] = 0 /\ \A i \in 1 .. k : w[i] \in 1 .. m
  BY DEF Ring, Nil
<1>2. \A i, j \in 1 .. k : w[i] = w[j] => i = j
  BY DEF Ring
<1>3. \A i \in 1 .. k : w[i] # 0
  BY <1>1
<1>4. ASSUME NEW i \in 0 .. k, NEW j \in 0 .. k, w[i] = w[j] PROVE i = j
  <2>1. CASE i = 0 \/ j = 0
    BY <1>1, <1>3, <1>4, <2>1
  <2>2. CASE i # 0 /\ j # 0
    BY <1>1, <1>2, <1>4, <2>2
  <2> QED BY <2>1, <2>2
<1>5. ASSUME NEW i \in 1 .. k + 1, NEW j \in 1 .. k + 1, w[i] = w[j] PROVE i = j
  <2>1. CASE i = k + 1 \/ j = k + 1
    BY <1>1, <1>3, <1>5, <2>1
  <2>2. CASE i # k + 1 /\ j # k + 1
    BY <1>1, <1>2, <1>5, <2>2
  <2> QED BY <2>1, <2>2
<1> QED BY <1>4, <1>5

LEMMA SuccSetNext ==
  ASSUME NEW m \in Nat, NEW d, d \in Lists(m), NEW n \in 0 .. m, NEW to, NEW x \in 0 .. m
  PROVE /\ Succ(SetNext(d, n, to), x) = IF x = n THEN to ELSE Succ(d, x)
        /\ Pred(SetNext(d, n, to), x) = Pred(d, x)
<1>1. d.next \in [1 .. m -> 0 .. m]
  BY DEF Lists
<1>2. d = [op |-> d.op, next |-> d.next, prev |-> d.prev, head |-> d.head, tail |-> d.tail]
  BY DEF Lists
<1>3. CASE n = Nil
  BY <1>2, <1>3 DEF SetNext, Succ, Pred
<1>4. CASE n # Nil
  <2>1. n \in 1 .. m
    BY <1>4 DEF Nil
  <2>2. SetNext(d, n, to) = [d EXCEPT !.next = [d.next EXCEPT ![n] = to]]
    BY <1>4 DEF SetNext
  <2>3. /\ SetNext(d, n, to).next = [d.next EXCEPT ![n] = to]
        /\ SetNext(d, n, to).head = d.head /\ SetNext(d, n, to).tail = d.tail
        /\ SetNext(d, n, to).prev = d.prev
    BY <1>2, <2>2
  <2>4. x # Nil => x \in 1 .. m
    BY DEF Nil
  <2> QED BY <1>1, <1>4, <2>1, <2>3, <2>4 DEF Succ, Pred
<1> QED BY <1>3, <1>4

LEMMA PredSetPrev ==
  ASSUME NEW m \in Nat, NEW d, d \in Lists(m), NEW n \in 0 .. m, NEW to, NEW x \in 0 .. m
  PROVE /\ Pred(SetPrev(d, n, to), x) = IF x = n THEN to ELSE Pred(d, x)
        /\ Succ(SetPrev(d, n, to), x) = Succ(d, x)
<1>1. d.prev \in [1 .. m -> 0 .. m]
  BY DEF Lists
<1>2. d = [op |-> d.op, next |-> d.next, prev |-> d.prev, head |-> d.head, tail |-> d.tail]
  BY DEF Lists
<1>3. CASE n = Nil
  BY <1>2, <1>3 DEF SetPrev, Succ, Pred
<1>4. CASE n # Nil
  <2>1. n \in 1 .. m
    BY <1>4 DEF Nil
  <2>2. SetPrev(d, n, to) = [d EXCEPT !.prev = [d.prev EXCEPT ![n] = to]]
    BY <1>4 DEF SetPrev
  <2>3. /\ SetPrev(d, n, to).prev = [d.prev EXCEPT ![n] = to]
        /\ SetPrev(d, n, to).head = d.head /\ SetPrev(d, n, to).tail = d.tail
        /\ SetPrev(d, n, to).next = d.next
    BY <1>2, <2>2
  <2>4. x # Nil => x \in 1 .. m
    BY DEF Nil
  <2> QED BY <1>1, <1>4, <2>1, <2>3, <2>4 DEF Succ, Pred
<1> QED BY <1>3, <1>4

\* The ring without the positions i to j.
Cut(k, w, i, j) ==
  [h \in 0 .. k - (j - i + 1) + 1 |-> IF h < i THEN w[h] ELSE w[h + (j - i + 1)]]

LEMMA RemoveLinks ==
  ASSUME NEW m \in Nat, NEW d, d \in Lists(m), NEW k, NEW w, Ring(m, d, k, w),
         NEW i \in 1 .. k, NEW j \in i .. k, NEW x \in 0 .. m
  PROVE LET f == BIRB_RemoveBlock(d, w[i], w[j])
        IN /\ Succ(f, x) = IF x = w[i - 1] THEN w[j + 1] ELSE Succ(d, x)
           /\ Pred(f, x) = IF x = w[j + 1] THEN w[i - 1] ELSE Pred(d, x)
<1> DEFINE e == SetPrev(d, w[j + 1], w[i - 1])
           f == SetNext(e, w[i - 1], w[j + 1])
<1>1. k \in Nat /\ k <= m /\ i \in Nat /\ j \in Nat /\ 1 <= i /\ i <= j /\ j <= k
  BY DEF Ring
<1>2. /\ w \in [0 .. k + 1 -> 0 .. m] /\ w[0] = Nil /\ w[k + 1] = Nil
      /\ \A h \in 1 .. k : w[h] \in 1 .. m
      /\ \A h \in 0 .. k : Succ(d, w[h]) = w[h + 1]
      /\ \A h \in 1 .. k + 1 : Pred(d, w[h]) = w[h - 1]
  BY DEF Ring
<1>4. w[i - 1] \in 0 .. m /\ w[j + 1] \in 0 .. m
  BY <1>1, <1>2
<1>5. BIRB_RemoveBlock(d, w[i], w[j]) = f
  <2>1. w[i] # Nil /\ w[j] # Nil
    <3>1. w[i] \in 1 .. m /\ w[j] \in 1 .. m
      BY <1>1, <1>2
    <3> QED BY <3>1 DEF Nil
  <2>2. d.prev[w[i]] = w[i - 1]
    <3>1. Pred(d, w[i]) = w[i - 1]
      BY <1>1, <1>2
    <3> QED BY <2>1, <3>1 DEF Pred
  <2>3. d.next[w[j]] = w[j + 1]
    <3>1. Succ(d, w[j]) = w[j + 1]
      BY <1>1, <1>2
    <3> QED BY <2>1, <3>1 DEF Succ
  <2> QED BY <2>2, <2>3 DEF BIRB_RemoveBlock
<1>6. e \in Lists(m)
  BY <1>4, SetPrevType
<1>7. /\ Succ(e, x) = Succ(d, x)
      /\ Pred(e, x) = IF x = w[j + 1] THEN w[i - 1] ELSE Pred(d, x)
  BY <1>4, PredSetPrev
<1> HIDE DEF e
<1>8. /\ Succ(f, x) = IF x = w[i - 1] THEN w[j + 1] ELSE Succ(e, x)
      /\ Pred(f, x) = Pred(e, x)
  BY <1>4, <1>6, SuccSetNext
<1> HIDE DEF f
<1> QED BY <1>5, <1>7, <1>8

LEMMA RemoveRing ==
  ASSUME NEW m \in Nat, NEW d, d \in Lists(m), NEW k, NEW w, Ring(m, d, k, w),
         NEW i \in 1 .. k, NEW j \in i .. k
  PROVE Ring(m, BIRB_RemoveBlock(d, w[i], w[j]), k - (j - i + 1), Cut(k, w, i, j))
<1> DEFINE l == j - i + 1
           v == Cut(k, w, i, j)
           f == BIRB_RemoveBlock(d, w[i], w[j])
<1>1. k \in Nat /\ k <= m /\ i \in Nat /\ j \in Nat /\ 1 <= i /\ i <= j /\ j <= k
  BY DEF Ring
<1>2. /\ w \in [0 .. k + 1 -> 0 .. m] /\ w[0] = Nil /\ w[k + 1] = Nil
      /\ \A h \in 1 .. k : w[h] \in 1 .. m
      /\ \A h \in 0 .. k : Succ(d, w[h]) = w[h + 1]
      /\ \A h \in 1 .. k + 1 : Pred(d, w[h]) = w[h - 1]
  BY DEF Ring
<1>3. /\ \A g, h \in 0 .. k : w[g] = w[h] => g = h
      /\ \A g, h \in 1 .. k + 1 : w[g] = w[h] => g = h
  BY RingDistinct
<1>4. w[i - 1] \in 0 .. m /\ w[j + 1] \in 0 .. m
  BY <1>1, <1>2
<1>7. \A x \in 0 .. m : /\ Succ(f, x) = IF x = w[i - 1] THEN w[j + 1] ELSE Succ(d, x)
                        /\ Pred(f, x) = IF x = w[j + 1] THEN w[i - 1] ELSE Pred(d, x)
  BY RemoveLinks
<1> HIDE DEF f
<1> DEFINE n == k - l
<1>8. n \in Nat /\ n <= m /\ l \in Nat /\ l >= 1 /\ n = k - l /\ l = j - i + 1
  BY <1>1
<1>9. v = [h \in 0 .. n + 1 |-> IF h < i THEN w[h] ELSE w[h + l]]
  BY DEF Cut
<1> HIDE DEF l, n, v
<1>10. \A h \in 0 .. n + 1 : v[h] = IF h < i THEN w[h] ELSE w[h + l]
  BY <1>9
<1>11. v \in [0 .. n + 1 -> 0 .. m]
  <2>1. \A h \in 0 .. n + 1 : (IF h < i THEN w[h] ELSE w[h + l]) \in 0 .. m
    BY <1>1, <1>2, <1>8
  <2> QED BY <1>9, <2>1
<1>12. v[0] = Nil /\ v[n + 1] = Nil
  BY <1>1, <1>2, <1>8, <1>10
<1>13. \A h \in 1 .. n : v[h] \in 1 .. m
  <2> SUFFICES ASSUME NEW h \in 1 .. n PROVE v[h] \in 1 .. m
    OBVIOUS
  <2>1. h \in 0 .. n + 1 /\ (h < i => h \in 1 .. k) /\ h + l \in 1 .. k
    BY <1>1, <1>8
  <2> QED BY <1>2, <1>10, <2>1
<1>14. ASSUME NEW g \in 1 .. n, NEW h \in 1 .. n, v[g] = v[h] PROVE g = h
  <2> DEFINE G == IF g < i THEN g ELSE g + l
             H == IF h < i THEN h ELSE h + l
  <2>1. G \in 0 .. k /\ H \in 0 .. k /\ (G = H => g = h)
    BY <1>1, <1>8
  <2>2. v[g] = w[G] /\ v[h] = w[H]
    BY <1>8, <1>10
  <2> HIDE DEF G, H
  <2> QED BY <1>3, <1>14, <2>1, <2>2
<1>15. ASSUME NEW h \in 0 .. n PROVE Succ(f, v[h]) = v[h + 1]
  <2>1. h + 1 \in 0 .. n + 1 /\ h \in 0 .. n + 1
    BY <1>8
  <2>2. CASE h < i
    <3>1. v[h] = w[h] /\ h \in 0 .. k /\ i - 1 \in 0 .. k /\ w[h] \in 0 .. m
      BY <1>1, <1>2, <1>8, <1>10, <2>1, <2>2
    <3>2. CASE h = i - 1
      <4>1. v[h + 1] = w[j + 1]
        BY <1>1, <1>8, <1>10, <2>1, <3>2
      <4> QED BY <1>7, <3>1, <3>2, <4>1
    <3>3. CASE h # i - 1
      <4>1. w[h] # w[i - 1]
        BY <1>3, <3>1, <3>3
      <4>2. v[h + 1] = w[h + 1]
        BY <1>1, <1>10, <2>1, <2>2, <3>3
      <4>3. Succ(d, w[h]) = w[h + 1]
        BY <1>2, <3>1
      <4> QED BY <1>7, <3>1, <4>1, <4>2, <4>3
    <3> QED BY <3>2, <3>3
  <2>3. CASE ~ (h < i)
    <3>1. /\ v[h] = w[h + l] /\ h + l \in 0 .. k /\ i - 1 \in 0 .. k /\ h + l # i - 1
          /\ w[h + l] \in 0 .. m
      BY <1>1, <1>2, <1>8, <1>10, <2>1, <2>3
    <3>2. w[h + l] # w[i - 1]
      BY <1>3, <3>1
    <3>3. v[h + 1] = w[(h + l) + 1]
      BY <1>1, <1>8, <1>10, <2>1, <2>3
    <3>4. Succ(d, w[h + l]) = w[(h + l) + 1]
      BY <1>2, <3>1
    <3> QED BY <1>7, <3>1, <3>2, <3>3, <3>4
  <2> QED BY <2>2, <2>3
<1>16. ASSUME NEW h \in 1 .. n + 1 PROVE Pred(f, v[h]) = v[h - 1]
  <2>1. h - 1 \in 0 .. n + 1 /\ h \in 0 .. n + 1
    BY <1>8
  <2>2. CASE h < i
    <3>1. /\ v[h] = w[h] /\ h \in 1 .. k + 1 /\ j + 1 \in 1 .. k + 1 /\ h # j + 1
          /\ w[h] \in 0 .. m
      BY <1>1, <1>2, <1>8, <1>10, <2>1, <2>2
    <3>2. w[h] # w[j + 1]
      BY <1>3, <3>1
    <3>3. v[h - 1] = w[h - 1]
      BY <1>1, <1>10, <2>1, <2>2
    <3>4. Pred(d, w[h]) = w[h - 1]
      BY <1>2, <3>1
    <3> QED BY <1>7, <3>1, <3>2, <3>3, <3>4
  <2>3. CASE ~ (h < i)
    <3>1. /\ v[h] = w[h + l] /\ h + l \in 1 .. k + 1 /\ j + 1 \in 1 .. k + 1
          /\ w[h + l] \in 0 .. m
      BY <1>1, <1>2, <1>8, <1>10, <2>1, <2>3
    <3>2. CASE h = i
      <4>1. h + l = j + 1 /\ v[h - 1] = w[i - 1]
        BY <1>1, <1>8, <1>10, <2>1, <3>2
      <4> QED BY <1>7, <3>1, <4>1
    <3>3. CASE h # i
      <4>1. h + l # j + 1 /\ v[h - 1] = w[(h + l) - 1]
        BY <1>1, <1>8, <1>10, <2>1, <2>3, <3>3
      <4>2. w[h + l] # w[j + 1]
        BY <1>3, <3>1, <4>1
      <4>3. Pred(d, w[h + l]) = w[(h + l) - 1]
        BY <1>2, <3>1
      <4> QED BY <1>7, <3>1, <4>1, <4>2, <4>3
    <3> QED BY <3>2, <3>3
  <2> QED BY <2>2, <2>3
<1>17. Ring(m, f, n, v)
  BY <1>8, <1>11, <1>12, <1>13, <1>14, <1>15, <1>16 DEF Ring
<1> QED BY <1>17 DEF n, l, v, f

\* The ring with the nodes b[1] to b[l] behind its position q.
Joined(k, w, q, b, l) ==
  [h \in 0 .. k + l + 1 |-> IF h <= q THEN w[h] ELSE IF h <= q + l THEN b[h - q] ELSE w[h - l]]

\* A block that is out of the list and linked in itself.
Block(m, d, b, l) ==
  /\ l \in Nat \ {0} /\ b \in [1 .. l -> 1 .. m]
  /\ \A i, j \in 1 .. l : b[i] = b[j] => i = j
  /\ \A i \in 1 .. l - 1 : Succ(d, b[i]) = b[i + 1] /\ Pred(d, b[i + 1]) = b[i]

LEMMA PutBehindLinks ==
  ASSUME NEW m \in Nat, NEW d, d \in Lists(m), NEW target \in 1 .. m, NEW first \in 1 .. m,
         NEW last \in 1 .. m, target # last, d.next[target] # first, NEW x \in 0 .. m
  PROVE LET e == PutBehind(d, target, first, last)
            after == d.next[target]
        IN /\ Succ(e, x) = IF x = target THEN first ELSE IF x = last THEN after ELSE Succ(d, x)
           /\ Pred(e, x) = IF x = first THEN target ELSE IF x = after THEN last ELSE Pred(d, x)
<1> DEFINE after == d.next[target]
           e == SetPrev(d, after, last)
           links == [d.next EXCEPT ![last] = after, ![target] = first]
           f == PutBehind(d, target, first, last)
<1>1. after \in 0 .. m /\ d.next \in [1 .. m -> 0 .. m]
  BY Fields
<1>2. links \in [1 .. m -> 0 .. m \cup {after, first}]
      /\ \A y \in 1 .. m : links[y] = IF y = target THEN first ELSE IF y = last THEN after
                                                                ELSE d.next[y]
  BY <1>1
<1>3. last \in 0 .. m
  OBVIOUS
<1>4. e \in Lists(m)
  BY <1>1, <1>3, SetPrevType
<1>5. /\ Pred(e, x) = IF x = after THEN last ELSE Pred(d, x)
      /\ Succ(e, x) = Succ(d, x)
  BY <1>1, PredSetPrev
<1>6. e.head = d.head
  BY DEF SetPrev
<1>7. f = [e EXCEPT !.next = links, !.prev[first] = target]
  BY DEF PutBehind
<1> HIDE DEF e, links
<1>8. /\ f.next = links /\ f.head = e.head /\ f.tail = e.tail
      /\ f.prev = [e.prev EXCEPT ![first] = target]
  BY <1>4, <1>7 DEF Lists
<1>9. e.prev \in [1 .. m -> 0 .. m]
  BY <1>4, Fields
<1> HIDE DEF f
<1>10. x # Nil => x \in 1 .. m
  BY DEF Nil
<1>11. target # Nil /\ last # Nil /\ first # Nil
  BY DEF Nil
<1>12. Succ(f, x) = IF x = target THEN first ELSE IF x = last THEN after ELSE Succ(d, x)
  BY <1>2, <1>6, <1>8, <1>10, <1>11 DEF Succ
<1>13. Pred(f, x) = IF x = first THEN target ELSE Pred(e, x)
  BY <1>8, <1>9, <1>10, <1>11 DEF Pred
<1> QED BY <1>5, <1>12, <1>13 DEF f

LEMMA JoinRing ==
  ASSUME NEW m \in Nat, NEW d, d \in Lists(m), NEW k, NEW w, Ring(m, d, k, w),
         NEW q \in 1 .. k, NEW b, NEW l, Block(m, d, b, l), k + l <= m,
         \A i \in 1 .. k, j \in 1 .. l : w[i] # b[j]
  PROVE Ring(m, PutBehind(d, w[q], b[1], b[l]), k + l, Joined(k, w, q, b, l))
<1> DEFINE f == PutBehind(d, w[q], b[1], b[l])
           n == k + l
           v == Joined(k, w, q, b, l)
<1>1. k \in Nat /\ l \in Nat /\ l >= 1 /\ 1 <= q /\ q <= k /\ n = k + l /\ n \in Nat /\ n <= m
  BY DEF Ring, Block
<1>2. /\ w \in [0 .. k + 1 -> 0 .. m] /\ w[0] = Nil /\ w[k + 1] = Nil
      /\ \A h \in 1 .. k : w[h] \in 1 .. m
      /\ \A h \in 0 .. k : Succ(d, w[h]) = w[h + 1]
      /\ \A h \in 1 .. k + 1 : Pred(d, w[h]) = w[h - 1]
  BY DEF Ring
<1>3. /\ \A g, h \in 0 .. k : w[g] = w[h] => g = h
      /\ \A g, h \in 1 .. k + 1 : w[g] = w[h] => g = h
  BY RingDistinct
<1>4. /\ \A h \in 1 .. l : b[h] \in 1 .. m
      /\ \A g, h \in 1 .. l : b[g] = b[h] => g = h
      /\ \A h \in 1 .. l - 1 : Succ(d, b[h]) = b[h + 1] /\ Pred(d, b[h + 1]) = b[h]
  BY DEF Block
<1>5. \A i \in 0 .. k + 1, j \in 1 .. l : w[i] # b[j]
  <2>1. \A j \in 1 .. l : b[j] # Nil
    BY <1>4 DEF Nil
  <2>2. \A i \in 0 .. k + 1 : i \in 1 .. k \/ i = 0 \/ i = k + 1
    BY <1>1
  <2> QED BY <1>2, <2>1, <2>2
<1>6. w[q] \in 1 .. m /\ b[1] \in 1 .. m /\ b[l] \in 1 .. m /\ 1 \in 1 .. l /\ l \in 1 .. l
  BY <1>1, <1>2, <1>4
<1>7. d.next[w[q]] = w[q + 1]
  <2>1. Succ(d, w[q]) = w[q + 1] /\ w[q] # Nil
    BY <1>1, <1>2, <1>6 DEF Nil
  <2> QED BY <2>1 DEF Succ
<1>8. w[q] # b[l] /\ w[q + 1] # b[1]
  <2>1. q \in 0 .. k + 1 /\ q + 1 \in 0 .. k + 1
    BY <1>1
  <2> QED BY <1>5, <1>6, <2>1
<1>9. \A x \in 0 .. m :
        /\ Succ(f, x) = IF x = w[q] THEN b[1] ELSE IF x = b[l] THEN w[q + 1] ELSE Succ(d, x)
        /\ Pred(f, x) = IF x = b[1] THEN w[q] ELSE IF x = w[q + 1] THEN b[l] ELSE Pred(d, x)
  BY <1>6, <1>7, <1>8, PutBehindLinks
<1>10. v = [h \in 0 .. n + 1 |-> IF h <= q THEN w[h] ELSE IF h <= q + l THEN b[h - q] ELSE w[h - l]]
  BY DEF Joined
<1> HIDE DEF f, n, v
<1>11. \A h \in 0 .. n + 1 : v[h] = IF h <= q THEN w[h] ELSE IF h <= q + l THEN b[h - q] ELSE w[h - l]
  BY <1>10
<1>12. ASSUME NEW h \in 0 .. n + 1
       PROVE \/ h <= q /\ v[h] = w[h] /\ h \in 0 .. k
             \/ h > q /\ h <= q + l /\ v[h] = b[h - q] /\ h - q \in 1 .. l
             \/ h > q + l /\ v[h] = w[h - l] /\ h - l \in q + 1 .. k + 1
  BY <1>1, <1>11
<1>13. v \in [0 .. n + 1 -> 0 .. m]
  <2>1. \A h \in 0 .. n + 1 :
          (IF h <= q THEN w[h] ELSE IF h <= q + l THEN b[h - q] ELSE w[h - l]) \in 0 .. m
    <3> SUFFICES ASSUME NEW h \in 0 .. n + 1 PROVE v[h] \in 0 .. m
      BY <1>11
    <3>1. CASE h <= q
      BY <1>1, <1>2, <1>12, <3>1
    <3>2. CASE h > q /\ h <= q + l
      <4>1. v[h] \in 1 .. m
        BY <1>1, <1>4, <1>11, <3>2
      <4> QED BY <4>1
    <3>3. CASE h > q + l
      <4>1. h - l \in 0 .. k + 1 /\ v[h] = w[h - l]
        BY <1>1, <1>11, <3>3
      <4> QED BY <1>2, <4>1
    <3> QED BY <1>1, <3>1, <3>2, <3>3
  <2> QED BY <1>10, <2>1
<1>14. v[0] = Nil /\ v[n + 1] = Nil
  BY <1>1, <1>2, <1>11
<1>15. \A h \in 1 .. n : v[h] \in 1 .. m
  <2> SUFFICES ASSUME NEW h \in 1 .. n PROVE v[h] \in 1 .. m
    OBVIOUS
  <2>1. CASE h <= q
    <3>1. h \in 1 .. k /\ v[h] = w[h]
      BY <1>1, <1>11, <2>1
    <3> QED BY <1>2, <3>1
  <2>2. CASE h > q /\ h <= q + l
    BY <1>1, <1>4, <1>11, <2>2
  <2>3. CASE h > q + l
    <3>1. h - l \in 1 .. k /\ v[h] = w[h - l]
      BY <1>1, <1>11, <2>3
    <3> QED BY <1>2, <3>1
  <2> QED BY <1>1, <2>1, <2>2, <2>3
<1>16. ASSUME NEW g \in 1 .. n, NEW h \in 1 .. n, v[g] = v[h] PROVE g = h
  <2>1. \A x \in 1 .. n : x \in 0 .. n + 1
    BY <1>1
  <2>2. \A x \in 1 .. n : \/ x <= q /\ v[x] = w[x] /\ x \in 0 .. k
                          \/ x > q /\ x <= q + l /\ v[x] = b[x - q] /\ x - q \in 1 .. l
                          \/ x > q + l /\ v[x] = w[x - l] /\ x - l \in q + 1 .. k
    BY <1>1, <1>12, <2>1
  <2>3. CASE g > q /\ g <= q + l
    <3>1. v[g] = b[g - q] /\ g - q \in 1 .. l
      BY <1>1, <2>2, <2>3
    <3>2. CASE h > q /\ h <= q + l
      <4>1. v[h] = b[h - q] /\ h - q \in 1 .. l
        BY <1>1, <2>2, <3>2
      <4>2. g - q = h - q
        BY <1>4, <1>16, <3>1, <4>1
      <4> QED BY <1>1, <4>2
    <3>3. CASE ~ (h > q /\ h <= q + l)
      <4>1. \E x \in 0 .. k + 1 : v[h] = w[x]
        BY <1>1, <2>2, <3>3
      <4> QED BY <1>5, <1>16, <3>1, <4>1
    <3> QED BY <3>2, <3>3
  <2>4. CASE ~ (g > q /\ g <= q + l)
    <3> DEFINE G == IF g <= q THEN g ELSE g - l
               H == IF h <= q THEN h ELSE h - l
    <3>1. G \in 0 .. k /\ v[g] = w[G]
      BY <1>1, <2>2, <2>4
    <3>2. CASE h > q /\ h <= q + l
      <4>1. v[h] = b[h - q] /\ h - q \in 1 .. l
        BY <1>1, <2>2, <3>2
      <4>2. G \in 0 .. k + 1
        BY <1>1, <3>1
      <4> HIDE DEF G
      <4> QED BY <1>5, <1>16, <3>1, <4>1, <4>2
    <3>3. CASE ~ (h > q /\ h <= q + l)
      <4>1. H \in 0 .. k /\ v[h] = w[H]
        BY <1>1, <2>2, <3>3
      <4>2. G = H => g = h
        BY <1>1, <2>4, <3>3
      <4> HIDE DEF G, H
      <4> QED BY <1>3, <1>16, <3>1, <4>1, <4>2
    <3> QED BY <3>2, <3>3
  <2> QED BY <2>3, <2>4
<1>17. ASSUME NEW h \in 0 .. n PROVE Succ(f, v[h]) = v[h + 1]
  <2>1. h \in 0 .. n + 1 /\ h + 1 \in 0 .. n + 1 /\ v[h] \in 0 .. m
    BY <1>1, <1>13
  <2>2. CASE h = q
    <3>1. v[h] = w[q] /\ v[h + 1] = b[1]
      BY <1>1, <1>11, <2>1, <2>2
    <3> QED BY <1>9, <2>1, <3>1
  <2>3. CASE h < q
    <3>1. v[h] = w[h] /\ v[h + 1] = w[h + 1] /\ h \in 0 .. k /\ q \in 0 .. k /\ h # q
      BY <1>1, <1>11, <2>1, <2>3
    <3>2. w[h] # w[q]
      BY <1>3, <3>1
    <3>3. w[h] # b[l]
      <4>1. h \in 0 .. k + 1
        BY <1>1, <3>1
      <4> QED BY <1>5, <1>6, <4>1
    <3>4. Succ(d, w[h]) = w[h + 1]
      BY <1>2, <3>1
    <3> QED BY <1>9, <2>1, <3>1, <3>2, <3>3, <3>4
  <2>4. CASE h > q /\ h < q + l
    <3>1. v[h] = b[h - q] /\ v[h + 1] = b[(h - q) + 1] /\ h - q \in 1 .. l - 1 /\ h - q \in 1 .. l
      BY <1>1, <1>11, <2>1, <2>4
    <3>2. b[h - q] # w[q] /\ b[h - q] # b[l]
      <4>1. q \in 0 .. k + 1 /\ h - q # l
        BY <1>1, <2>4
      <4> QED BY <1>4, <1>5, <1>6, <3>1, <4>1
    <3>3. Succ(d, b[h - q]) = b[(h - q) + 1]
      BY <1>4, <3>1
    <3> QED BY <1>9, <2>1, <3>1, <3>2, <3>3
  <2>5. CASE h = q + l
    <3>1. v[h] = b[l] /\ v[h + 1] = w[q + 1]
      BY <1>1, <1>11, <2>1, <2>5
    <3> QED BY <1>8, <1>9, <2>1, <3>1
  <2>6. CASE h > q + l
    <3>1. v[h] = w[h - l] /\ v[h + 1] = w[(h - l) + 1] /\ h - l \in 0 .. k /\ q \in 0 .. k /\ h - l # q
      BY <1>1, <1>11, <2>1, <2>6
    <3>2. w[h - l] # w[q]
      BY <1>3, <3>1
    <3>4. w[h - l] # b[l]
      <4>1. h - l \in 0 .. k + 1
        BY <1>1, <3>1
      <4> QED BY <1>5, <1>6, <4>1
    <3>3. Succ(d, w[h - l]) = w[(h - l) + 1]
      BY <1>2, <3>1
    <3> QED BY <1>9, <2>1, <3>1, <3>2, <3>3, <3>4
  <2> QED BY <1>1, <2>2, <2>3, <2>4, <2>5, <2>6
<1>18. ASSUME NEW h \in 1 .. n + 1 PROVE Pred(f, v[h]) = v[h - 1]
  <2>1. h \in 0 .. n + 1 /\ h - 1 \in 0 .. n + 1 /\ v[h] \in 0 .. m
    BY <1>1, <1>13
  <2>2. CASE h = q + 1
    <3>1. v[h] = b[1] /\ v[h - 1] = w[q]
      BY <1>1, <1>11, <2>1, <2>2
    <3> QED BY <1>9, <2>1, <3>1
  <2>3. CASE h <= q
    <3>1. /\ v[h] = w[h] /\ v[h - 1] = w[h - 1] /\ h \in 1 .. k + 1 /\ h \in 0 .. k + 1
          /\ q + 1 \in 1 .. k + 1 /\ h # q + 1
      BY <1>1, <1>11, <2>1, <2>3
    <3>2. w[h] # w[q + 1] /\ w[h] # b[1]
      BY <1>3, <1>5, <1>6, <3>1
    <3>3. Pred(d, w[h]) = w[h - 1]
      BY <1>2, <3>1
    <3> QED BY <1>9, <2>1, <3>1, <3>2, <3>3
  <2>4. CASE h > q + 1 /\ h <= q + l
    <3>1. /\ v[h] = b[h - q] /\ v[h - 1] = b[(h - q) - 1] /\ h - q \in 1 .. l
          /\ (h - q) - 1 \in 1 .. l - 1 /\ ((h - q) - 1) + 1 = h - q
      BY <1>1, <1>11, <2>1, <2>4
    <3>2. b[h - q] # w[q + 1] /\ b[h - q] # b[1]
      <4>1. q + 1 \in 0 .. k + 1 /\ h - q # 1
        BY <1>1, <2>4
      <4> QED BY <1>4, <1>5, <1>6, <3>1, <4>1
    <3>3. Pred(d, b[h - q]) = b[(h - q) - 1]
      <4>1. Pred(d, b[((h - q) - 1) + 1]) = b[(h - q) - 1]
        BY <1>4, <3>1
      <4> QED BY <3>1, <4>1
    <3> QED BY <1>9, <2>1, <3>1, <3>2, <3>3
  <2>5. CASE h = q + l + 1
    <3>1. v[h] = w[q + 1] /\ v[h - 1] = b[l]
      BY <1>1, <1>11, <2>1, <2>5
    <3> QED BY <1>8, <1>9, <2>1, <3>1
  <2>6. CASE h > q + l + 1
    <3>1. /\ v[h] = w[h - l] /\ v[h - 1] = w[(h - l) - 1] /\ h - l \in 1 .. k + 1
          /\ h - l \in 0 .. k + 1 /\ q + 1 \in 1 .. k + 1 /\ h - l # q + 1
      BY <1>1, <1>11, <2>1, <2>6
    <3>2. w[h - l] # w[q + 1] /\ w[h - l] # b[1]
      BY <1>3, <1>5, <1>6, <3>1
    <3>3. Pred(d, w[h - l]) = w[(h - l) - 1]
      BY <1>2, <3>1
    <3> QED BY <1>9, <2>1, <3>1, <3>2, <3>3
  <2> QED BY <1>1, <2>2, <2>3, <2>4, <2>5, <2>6
<1>19. Ring(m, f, n, v)
  BY <1>1, <1>13, <1>14, <1>15, <1>16, <1>17, <1>18 DEF Ring
<1> QED BY <1>19 DEF f, n, v

-----------------------------------------------------------------------------
(* What a walk along the ring meets *)

LEMMA Walking ==
  ASSUME NEW m \in Nat, NEW links, links \in [1 .. m -> 0 .. m]
  PROVE /\ \A i \in Nat : Walk(links, Nil, i) = <<>>
        /\ \A n \in 0 .. m, i \in Nat : Walk(links, n, i) \in Seq(1 .. m)
        /\ \A n \in 1 .. m, i \in Nat :
             i # 0 => Walk(links, n, i) = <<n>> \o Walk(links, links[n], i - 1)
<1>1. Nil \in 0 .. m /\ \A n \in 1 .. m : n \in 0 .. m /\ n # Nil
  BY DEF Nil
<1>2. ASSUME NEW n \in 1 .. m, NEW i \in Nat, i # 0
      PROVE Walk(links, n, i) = <<n>> \o Walk(links, links[n], i - 1)
  <2>1. n \in 0 .. m /\ n # Nil
    BY <1>1
  <2>2. \A j \in Nat : Walk(links, n, j + 1) = <<n>> \o Walk(links, links[n], j)
    BY <2>1, WalkStep
  <2>3. i - 1 \in Nat /\ (i - 1) + 1 = i
    BY <1>2
  <2> HIDE DEF Walk
  <2>4. Walk(links, n, (i - 1) + 1) = <<n>> \o Walk(links, links[n], i - 1)
    BY <2>2, <2>3
  <2> QED BY <2>3, <2>4
<1>3. \A i \in Nat : Walk(links, Nil, i) = <<>>
  BY <1>1, WalkStep
<1>4. \A n \in 0 .. m, i \in Nat : Walk(links, n, i) \in Seq(1 .. m)
  BY WalkStep
<1> QED BY <1>2, <1>3, <1>4

\* From the place g on, a walk meets v[g] to v[t] and ends.
Along(links, v, t, g) ==
  \A L \in Nat : L >= t + 1 - g =>
    /\ Len(Walk(links, v[g], L)) = t + 1 - g
    /\ \A h \in 1 .. t + 1 - g : Walk(links, v[g], L)[h] = v[g + h - 1]

LEMMA AlongEnd ==
  ASSUME NEW m \in Nat, NEW links, links \in [1 .. m -> 0 .. m], NEW t \in Nat, NEW v,
         v[t + 1] = Nil
  PROVE Along(links, v, t, t + 1)
<1>2. \A L \in Nat : Walk(links, v[t + 1], L) = <<>>
  BY Walking
<1>3. t + 1 - (t + 1) = 0
  OBVIOUS
<1> QED BY <1>2, <1>3 DEF Along

LEMMA Concat == ASSUME NEW S, NEW a \in S, NEW r \in Seq(S)
  PROVE /\ <<a>> \o r \in Seq(S) /\ Len(<<a>> \o r) = Len(r) + 1
        /\ (<<a>> \o r)[1] = a
        /\ \A h \in 1 .. Len(r) : (<<a>> \o r)[h + 1] = r[h]
OBVIOUS

\* The links lead from v[1] to v[t] and end there.
Path(m, links, t, v) ==
  /\ t \in Nat /\ t <= m /\ links \in [1 .. m -> 0 .. m] /\ v[t + 1] = Nil
  /\ \A h \in 1 .. t : v[h] \in 1 .. m /\ links[v[h]] = v[h + 1]

LEMMA AlongStep ==
  ASSUME NEW m \in Nat, NEW links, NEW t, NEW v, Path(m, links, t, v), NEW g \in 1 .. t,
         v[g + 1] \in 0 .. m, Along(links, v, t, g + 1)
  PROVE Along(links, v, t, g)
<1>11. links \in [1 .. m -> 0 .. m]
  BY DEF Path
<1>12. \A n \in 1 .. m, i \in Nat :
         i # 0 => Walk(links, n, i) = <<n>> \o Walk(links, links[n], i - 1)
  BY <1>11, Walking
<1>13. t \in Nat /\ v[g] \in 1 .. m /\ links[v[g]] = v[g + 1]
  BY DEF Path
<1> SUFFICES ASSUME NEW L \in Nat, L >= t + 1 - g
             PROVE /\ Len(Walk(links, v[g], L)) = t + 1 - g
                   /\ \A h \in 1 .. t + 1 - g : Walk(links, v[g], L)[h] = v[g + h - 1]
  BY DEF Along
<1> DEFINE r == Walk(links, v[g + 1], L - 1)
<1>1. L - 1 \in Nat /\ (L - 1) + 1 = L /\ L - 1 >= t + 1 - (g + 1)
  BY <1>13
<1>2. /\ Len(r) = t + 1 - (g + 1)
      /\ \A h \in 1 .. t + 1 - (g + 1) : r[h] = v[(g + 1) + h - 1]
  BY <1>1 DEF Along
<1>4. Walk(links, v[g], L) = <<v[g]>> \o r
  <2>1. L # 0
    BY <1>13
  <2>2. Walk(links, v[g], L) = <<v[g]>> \o Walk(links, links[v[g]], L - 1)
    BY <1>12, <1>13, <2>1
  <2> QED BY <1>13, <2>2
<1>5. r \in Seq(1 .. m)
  BY <1>1, <1>11, Walking
<1> HIDE DEF r
<1>6. PICK s : s = <<v[g]>> \o r
  OBVIOUS
<1>7. Len(s) = Len(r) + 1 /\ s[1] = v[g] /\ \A h \in 1 .. Len(r) : s[h + 1] = r[h]
  BY <1>5, <1>6, <1>13, Concat
<1>8. Len(r) = t - g
  BY <1>2, <1>13
<1>9. ASSUME NEW h \in 1 .. t + 1 - g PROVE s[h] = v[g + h - 1]
  <2>1. CASE h = 1
    BY <1>7, <1>13, <2>1
  <2>2. CASE h # 1
    <3>1. h - 1 \in 1 .. t + 1 - (g + 1) /\ (g + 1) + (h - 1) - 1 = g + h - 1
          /\ h - 1 \in 1 .. Len(r) /\ (h - 1) + 1 = h
      BY <1>8, <1>13, <2>2
    <3>2. r[h - 1] = v[g + h - 1]
      BY <1>2, <3>1
    <3>3. s[(h - 1) + 1] = r[h - 1]
      BY <1>7, <3>1
    <3> QED BY <3>1, <3>2, <3>3
  <2> QED BY <2>1, <2>2
<1>10. Len(s) = t + 1 - g
  <2>1. Len(s) = Len(r) + 1
    BY <1>7
  <2> QED BY <1>8, <1>13, <2>1
<1> QED BY <1>4, <1>6, <1>9, <1>10

LEMMA WalkAlong == ASSUME NEW m \in Nat, NEW links, NEW t, NEW v, Path(m, links, t, v)
  PROVE /\ Len(Walk(links, v[1], m)) = t
        /\ \A h \in 1 .. t : Walk(links, v[1], m)[h] = v[h]
<1>9. /\ t \in Nat /\ t <= m /\ links \in [1 .. m -> 0 .. m] /\ v[t + 1] = Nil
      /\ \A h \in 1 .. t : v[h] \in 1 .. m /\ links[v[h]] = v[h + 1]
  BY DEF Path
<1> DEFINE T == {s \in 0 .. t : ~ Along(links, v, t, t + 1 - s)}
<1>1. T = {}
  <2> SUFFICES ASSUME T # {} PROVE FALSE
    OBVIOUS
  <2>1. PICK s \in T : \A y \in T : s <= y
    <3>1. T \in SUBSET Nat
      BY <1>9
    <3> HIDE DEF T
    <3> QED BY <3>1, Least
  <2>2. s \in 0 .. t /\ ~ Along(links, v, t, t + 1 - s)
    BY <2>1
  <2>3. s # 0
    <3>1. Along(links, v, t, t + 1)
      BY <1>9, AlongEnd
    <3>2. s = 0 => t + 1 - s = t + 1
      OBVIOUS
    <3> QED BY <2>2, <3>1, <3>2
  <2>4. s - 1 \in 0 .. t /\ ~ (s <= s - 1)
    BY <1>9, <2>2, <2>3
  <2>5. s - 1 \notin T
    <3> HIDE DEF T
    <3> QED BY <2>1, <2>4
  <2>6. PICK g : g = t + 1 - s
    OBVIOUS
  <2>7. g \in 1 .. t /\ t + 1 - (s - 1) = g + 1
    BY <1>9, <2>2, <2>3, <2>6
  <2>8. Along(links, v, t, g + 1)
    BY <2>4, <2>5, <2>7
  <2>9. v[g] \in 1 .. m /\ v[g + 1] \in 0 .. m
    BY <1>9, <2>7 DEF Nil
  <2> HIDE DEF T
  <2>10. Along(links, v, t, g)
    BY <1>9, <2>7, <2>8, <2>9, AlongStep
  <2> QED BY <2>2, <2>6, <2>10
<1>2. t \in 0 .. t /\ t + 1 - t = 1
  BY <1>9
<1>3. Along(links, v, t, 1)
  BY <1>1, <1>2
<1>4. m >= t + 1 - 1 /\ t + 1 - 1 = t /\ \A h \in 1 .. t : 1 + h - 1 = h
  BY <1>9
<1>5. /\ Len(Walk(links, v[1], m)) = t + 1 - 1
      /\ \A h \in 1 .. t + 1 - 1 : Walk(links, v[1], m)[h] = v[1 + h - 1]
  BY <1>3, <1>4 DEF Along
<1> QED BY <1>4, <1>5

\* The nodes of a ring.
Nodes(k, w) == {w[i] : i \in 1 .. k}

LEMMA RingLinks == ASSUME NEW m \in Nat, NEW d, d \in Lists(m), NEW k, NEW w, Ring(m, d, k, w)
  PROVE /\ d.head = w[1] /\ d.tail = w[k] /\ k \in Nat
        /\ \A i \in 1 .. k : w[i] \in 1 .. m /\ d.next[w[i]] = w[i + 1] /\ d.prev[w[i]] = w[i - 1]
<1>1. /\ k \in Nat /\ w[0] = Nil /\ w[k + 1] = Nil
      /\ \A i \in 1 .. k : w[i] \in 1 .. m
      /\ \A i \in 0 .. k : Succ(d, w[i]) = w[i + 1]
      /\ \A i \in 1 .. k + 1 : Pred(d, w[i]) = w[i - 1]
  BY DEF Ring
<1>2. Succ(d, w[0]) = w[0 + 1] /\ Pred(d, w[k + 1]) = w[(k + 1) - 1]
  <2>1. 0 \in 0 .. k /\ k + 1 \in 1 .. k + 1
    BY <1>1
  <2> QED BY <1>1, <2>1
<1>3. d.head = w[1] /\ d.tail = w[k]
  BY <1>1, <1>2 DEF Succ, Pred
<1>4. ASSUME NEW i \in 1 .. k
      PROVE w[i] \in 1 .. m /\ d.next[w[i]] = w[i + 1] /\ d.prev[w[i]] = w[i - 1]
  <2>1. w[i] \in 1 .. m /\ w[i] # Nil
    BY <1>1 DEF Nil
  <2>2. Succ(d, w[i]) = w[i + 1] /\ Pred(d, w[i]) = w[i - 1]
    BY <1>1
  <2> QED BY <2>1, <2>2 DEF Succ, Pred
<1> QED BY <1>1, <1>3, <1>4

LEMMA FromRing ==
  ASSUME NEW m \in Nat, NEW d, d \in Lists(m), NEW k, NEW w, Ring(m, d, k, w),
         NEW i \in 1 .. k + 1
  PROVE /\ From(d, w[i]) \in Seq(1 .. m)
        /\ Len(From(d, w[i])) = k + 1 - i
        /\ \A h \in 1 .. k + 1 - i : From(d, w[i])[h] = w[i + h - 1]
<1> DEFINE t == k + 1 - i
           v == [h \in 1 .. t + 1 |-> w[i + h - 1]]
<1>1. /\ k \in Nat /\ k <= m /\ w[k + 1] = Nil
      /\ \A h \in 1 .. k : w[h] \in 1 .. m /\ d.next[w[h]] = w[h + 1]
  <2>1. k <= m /\ w[k + 1] = Nil
    BY DEF Ring
  <2> QED BY <2>1, RingLinks
<1>2. t \in Nat /\ t <= m /\ i + (t + 1) - 1 = k + 1
  BY <1>1
<1>3. v[t + 1] = Nil /\ v[1] = w[i]
  BY <1>1, <1>2
<1>4. ASSUME NEW h \in 1 .. t PROVE v[h] \in 1 .. m /\ d.next[v[h]] = v[h + 1]
  <2>1. i + h - 1 \in 1 .. k /\ h \in 1 .. t + 1 /\ h + 1 \in 1 .. t + 1
        /\ i + (h + 1) - 1 = (i + h - 1) + 1
    BY <1>1
  <2>2. v[h] = w[i + h - 1] /\ v[h + 1] = w[(i + h - 1) + 1]
    BY <2>1
  <2> QED BY <1>1, <2>1, <2>2
<1>5. d.next \in [1 .. m -> 0 .. m] /\ Len(d.op) = m
  BY Fields, ListLength
<1>6. \A h \in 1 .. t : v[h] = w[i + h - 1]
  BY <1>2
<1>7. w[i] \in 0 .. m
  BY DEF Ring
<1> HIDE DEF t, v
<1>8. /\ Len(Walk(d.next, v[1], m)) = t
      /\ \A h \in 1 .. t : Walk(d.next, v[1], m)[h] = v[h]
  <2>1. Path(m, d.next, t, v)
    BY <1>1, <1>2, <1>3, <1>4, <1>5 DEF Path
  <2> QED BY <2>1, WalkAlong
<1>9. From(d, w[i]) = Walk(d.next, v[1], m)
  BY <1>3, <1>5 DEF From
<1>10. From(d, w[i]) \in Seq(1 .. m)
  BY <1>7, FromType
<1> QED BY <1>6, <1>8, <1>9, <1>10 DEF t

LEMMA ElementsRing ==
  ASSUME NEW m \in Nat, NEW d, d \in Lists(m), NEW k, NEW w, Ring(m, d, k, w),
         NEW i \in 1 .. k + 1
  PROVE Elements(From(d, w[i])) = {w[h] : h \in i .. k}
<1> DEFINE s == From(d, w[i])
<1>1. k \in Nat /\ Len(s) = k + 1 - i /\ \A h \in 1 .. k + 1 - i : s[h] = w[i + h - 1]
  <2>1. k \in Nat
    BY DEF Ring
  <2>2. Len(s) = k + 1 - i
    BY FromRing
  <2>3. \A h \in 1 .. k + 1 - i : s[h] = w[i + h - 1]
    BY FromRing
  <2> QED BY <2>1, <2>2, <2>3
<1> HIDE DEF s
<1>2. ASSUME NEW h \in 1 .. Len(s) PROVE s[h] \in {w[g] : g \in i .. k}
  <2>1. i + h - 1 \in i .. k /\ s[h] = w[i + h - 1]
    BY <1>1
  <2> QED BY <2>1
<1>3. ASSUME NEW h \in i .. k PROVE w[h] \in {s[g] : g \in 1 .. Len(s)}
  <2>1. h - i + 1 \in 1 .. Len(s) /\ i + (h - i + 1) - 1 = h
    BY <1>1
  <2>2. s[h - i + 1] = w[h]
    BY <1>1, <2>1
  <2> QED BY <2>1, <2>2
<1> QED BY <1>2, <1>3 DEF Elements, s

LEMMA BackRing ==
  ASSUME NEW m \in Nat, NEW d, d \in Lists(m), NEW k, NEW w, Ring(m, d, k, w)
  PROVE /\ Len(Back(d, d.tail)) = k
        /\ \A h \in 1 .. k : Back(d, d.tail)[h] = w[k + 1 - h]
<1> DEFINE v == [h \in 1 .. k + 1 |-> w[k + 1 - h]]
<1>1. /\ k \in Nat /\ k <= m /\ w[0] = Nil /\ d.tail = w[k]
      /\ \A h \in 1 .. k : w[h] \in 1 .. m /\ d.prev[w[h]] = w[h - 1]
  <2>1. k <= m /\ w[0] = Nil
    BY DEF Ring
  <2> QED BY <2>1, RingLinks
<1>2. v[k + 1] = Nil /\ v[1] = d.tail
  <2>1. k + 1 \in 1 .. k + 1 /\ 1 \in 1 .. k + 1 /\ k + 1 - (k + 1) = 0 /\ k + 1 - 1 = k
    BY <1>1
  <2>2. v[k + 1] = w[k + 1 - (k + 1)] /\ v[1] = w[k + 1 - 1]
    BY <2>1
  <2> QED BY <1>1, <2>1, <2>2
<1>3. ASSUME NEW h \in 1 .. k PROVE v[h] \in 1 .. m /\ d.prev[v[h]] = v[h + 1]
  <2>1. k + 1 - h \in 1 .. k /\ h \in 1 .. k + 1 /\ h + 1 \in 1 .. k + 1
        /\ k + 1 - (h + 1) = (k + 1 - h) - 1
    BY <1>1
  <2>2. v[h] = w[k + 1 - h] /\ v[h + 1] = w[(k + 1 - h) - 1]
    BY <2>1
  <2> QED BY <1>1, <2>1, <2>2
<1>4. d.prev \in [1 .. m -> 0 .. m] /\ Len(d.op) = m
  BY Fields, ListLength
<1>5. \A h \in 1 .. k : v[h] = w[k + 1 - h]
  BY <1>1
<1> HIDE DEF v
<1>6. /\ Len(Walk(d.prev, v[1], m)) = k
      /\ \A h \in 1 .. k : Walk(d.prev, v[1], m)[h] = v[h]
  <2>1. Path(m, d.prev, k, v)
    BY <1>1, <1>2, <1>3, <1>4, <1>5 DEF Path
  <2> QED BY <2>1, WalkAlong
<1>7. Back(d, d.tail) = Walk(d.prev, v[1], m)
  BY <1>2, <1>4 DEF Back
<1> QED BY <1>5, <1>6, <1>7
-----------------------------------------------------------------------------
(* The list as the set of its nodes *)

\* The list d is a ring of the nodes S.
Holds(m, d, S) == \E k, w : Ring(m, d, k, w) /\ S = Nodes(k, w)

LEMMA Position == ASSUME NEW m \in Nat, NEW d, NEW k, NEW w, Ring(m, d, k, w)
  PROVE /\ k \in Nat
        /\ \A i \in 0 .. k + 1 : w[i] \in Nodes(k, w) \cup {Nil}
        /\ \A i \in 1 .. k : w[i] \in Nodes(k, w)
        /\ \A x \in Nodes(k, w) : x \in 1 .. m /\ \E i \in 1 .. k : x = w[i]
<1>1. k \in Nat /\ w[0] = Nil /\ w[k + 1] = Nil /\ \A i \in 1 .. k : w[i] \in 1 .. m
  BY DEF Ring
<1>2. \A i \in 1 .. k : w[i] \in Nodes(k, w)
  BY DEF Nodes
<1>3. \A i \in 0 .. k + 1 : i = 0 \/ i = k + 1 \/ i \in 1 .. k
  BY <1>1
<1>4. \A x \in Nodes(k, w) : \E i \in 1 .. k : x = w[i]
  BY DEF Nodes
<1> QED BY <1>1, <1>2, <1>3, <1>4

LEMMA Neighbours ==
  ASSUME NEW m \in Nat, NEW d, d \in Lists(m), NEW S, Holds(m, d, S), NEW x \in S
  PROVE /\ x \in 1 .. m
        /\ d.next[x] \in S \cup {Nil} /\ d.prev[x] \in S \cup {Nil}
        /\ d.next[x] # x /\ d.prev[x] # x
        /\ d.next[x] # Nil => d.prev[d.next[x]] = x
        /\ d.prev[x] # Nil => d.next[d.prev[x]] = x
        /\ d.next[x] # Nil => d.next[x] # d.prev[x]
<1>1. PICK k, w : Ring(m, d, k, w) /\ S = Nodes(k, w)
  BY DEF Holds
<1>2. PICK i \in 1 .. k : x = w[i]
  BY <1>1, Position
<1>3. k \in Nat /\ w[0] = Nil /\ w[k + 1] = Nil
  BY <1>1 DEF Ring
<1>4. \A h \in 1 .. k : w[h] \in 1 .. m /\ d.next[w[h]] = w[h + 1] /\ d.prev[w[h]] = w[h - 1]
  BY <1>1, RingLinks
<1>5. x \in 1 .. m /\ d.next[x] = w[i + 1] /\ d.prev[x] = w[i - 1]
  BY <1>2, <1>4
<1>6. w[i + 1] \in S \cup {Nil} /\ w[i - 1] \in S \cup {Nil}
  <2>1. i + 1 \in 0 .. k + 1 /\ i - 1 \in 0 .. k + 1
    BY <1>3
  <2> QED BY <1>1, <2>1, Position
<1>7. /\ \A g, h \in 0 .. k : w[g] = w[h] => g = h
      /\ \A g, h \in 1 .. k + 1 : w[g] = w[h] => g = h
  BY <1>1, RingDistinct
<1>8. w[i + 1] # x
  <2>1. i \in 1 .. k + 1 /\ i + 1 \in 1 .. k + 1 /\ i # i + 1
    BY <1>3
  <2> QED BY <1>2, <1>7, <2>1
<1>9. w[i - 1] # x
  <2>1. i \in 0 .. k /\ i - 1 \in 0 .. k /\ i # i - 1
    BY <1>3
  <2> QED BY <1>2, <1>7, <2>1
<1>10. w[i + 1] # Nil => i + 1 \in 1 .. k /\ (i + 1) - 1 = i
  BY <1>3
<1>11. w[i - 1] # Nil => i - 1 \in 1 .. k /\ (i - 1) + 1 = i
  BY <1>3
<1>12. w[i + 1] # Nil => d.prev[w[i + 1]] = x
  <2> SUFFICES ASSUME w[i + 1] # Nil PROVE d.prev[w[i + 1]] = x
    OBVIOUS
  <2>1. d.prev[w[i + 1]] = w[(i + 1) - 1]
    BY <1>4, <1>10
  <2> QED BY <1>2, <1>10, <2>1
<1>13. w[i - 1] # Nil => d.next[w[i - 1]] = x
  <2> SUFFICES ASSUME w[i - 1] # Nil PROVE d.next[w[i - 1]] = x
    OBVIOUS
  <2>1. d.next[w[i - 1]] = w[(i - 1) + 1]
    BY <1>4, <1>11
  <2> QED BY <1>2, <1>11, <2>1
<1>14. w[i + 1] # Nil => w[i + 1] # w[i - 1]
  <2> SUFFICES ASSUME w[i + 1] # Nil PROVE w[i + 1] # w[i - 1]
    OBVIOUS
  <2>1. i + 1 \in 0 .. k /\ i - 1 \in 0 .. k /\ i + 1 # i - 1
    BY <1>3, <1>10
  <2> QED BY <1>7, <2>1
<1> QED BY <1>5, <1>6, <1>8, <1>9, <1>12, <1>13, <1>14

LEMMA Reached == ASSUME NEW m \in Nat, NEW d, d \in Lists(m), NEW S, Holds(m, d, S)
  PROVE /\ S \subseteq 1 .. m /\ InChain(d) = S /\ d.head \in S \cup {Nil}
        /\ \A x \in S \cup {Nil} : Elements(From(d, x)) \subseteq S
<1>1. PICK k, w : Ring(m, d, k, w) /\ S = Nodes(k, w)
  BY DEF Holds
<1>2. k \in Nat /\ w[k + 1] = Nil
  BY <1>1 DEF Ring
<1>3. d.head = w[1]
  BY <1>1, RingLinks
<1>4. 1 \in 1 .. k + 1 /\ 1 \in 0 .. k + 1 /\ k + 1 \in 1 .. k + 1
  BY <1>2
<1>5. InChain(d) = S
  <2>1. Elements(From(d, w[1])) = {w[h] : h \in 1 .. k}
    BY <1>1, <1>4, ElementsRing
  <2> QED BY <1>1, <1>3, <2>1 DEF InChain, Chain, Nodes
<1>6. d.head \in S \cup {Nil} /\ S \subseteq 1 .. m
  BY <1>1, <1>3, <1>4, Position
<1>7. ASSUME NEW x \in S \cup {Nil} PROVE Elements(From(d, x)) \subseteq S
  <2>1. PICK i \in 1 .. k + 1 : x = w[i]
    <3>1. CASE x = Nil
      BY <1>2, <1>4, <3>1
    <3>2. CASE x \in S
      <4>1. PICK i \in 1 .. k : x = w[i]
        BY <1>1, <3>2, Position
      <4>2. i \in 1 .. k + 1
        BY <1>2
      <4> QED BY <4>1, <4>2
    <3> QED BY <3>1, <3>2
  <2>2. Elements(From(d, x)) = {w[h] : h \in i .. k}
    BY <1>1, <2>1, ElementsRing
  <2>3. i .. k \subseteq 1 .. k
    BY <1>2
  <2> QED BY <1>1, <2>2, <2>3 DEF Nodes
<1> QED BY <1>5, <1>6, <1>7

LEMMA CutNodes ==
  ASSUME NEW m \in Nat, NEW d, NEW k, NEW w, Ring(m, d, k, w), NEW i \in 1 .. k, NEW j \in i .. k
  PROVE Nodes(k - (j - i + 1), Cut(k, w, i, j)) = Nodes(k, w) \ {w[h] : h \in i .. j}
<1> DEFINE l == j - i + 1
           n == k - l
           v == Cut(k, w, i, j)
<1>1. k \in Nat /\ \A g, h \in 1 .. k : w[g] = w[h] => g = h
  BY DEF Ring
<1>2. n \in Nat /\ l \in Nat /\ l >= 1 /\ n = k - l /\ l = j - i + 1
  BY <1>1
<1>3. v = [h \in 0 .. n + 1 |-> IF h < i THEN w[h] ELSE w[h + l]]
  BY DEF Cut
<1> HIDE DEF l, n, v
<1>4. \A h \in 1 .. n : v[h] = IF h < i THEN w[h] ELSE w[h + l]
  BY <1>2, <1>3
<1>5. ASSUME NEW h \in 1 .. n PROVE v[h] \in {w[g] : g \in 1 .. k} \ {w[g] : g \in i .. j}
  <2>1. PICK g : g = IF h < i THEN h ELSE h + l
    OBVIOUS
  <2>2. g \in 1 .. k /\ g \notin i .. j /\ i .. j \subseteq 1 .. k
    BY <1>1, <1>2, <2>1
  <2>3. v[h] = w[g]
    BY <1>4, <2>1
  <2>4. w[g] \notin {w[x] : x \in i .. j}
    BY <1>1, <2>2
  <2> QED BY <2>2, <2>3, <2>4
<1>6. ASSUME NEW g \in 1 .. k, w[g] \notin {w[x] : x \in i .. j}
      PROVE w[g] \in {v[h] : h \in 1 .. n}
  <2>1. g \notin i .. j
    BY <1>6
  <2>2. CASE g < i
    <3>1. g \in 1 .. n /\ v[g] = w[g]
      BY <1>1, <1>2, <1>4, <2>2
    <3> QED BY <3>1
  <2>3. CASE g > j
    <3>1. g - l \in 1 .. n /\ ~ (g - l < i) /\ (g - l) + l = g
      BY <1>1, <1>2, <2>3
    <3>2. v[g - l] = w[g]
      BY <1>4, <3>1
    <3> QED BY <3>1, <3>2
  <2> QED BY <1>1, <2>1, <2>2, <2>3
<1>7. {v[h] : h \in 1 .. n} = {w[g] : g \in 1 .. k} \ {w[g] : g \in i .. j}
  BY <1>5, <1>6
<1> QED BY <1>7 DEF Nodes, n, l, v

LEMMA JoinedNodes ==
  ASSUME NEW m \in Nat, NEW d, NEW k, NEW w, Ring(m, d, k, w), NEW q \in 1 .. k,
         NEW b, NEW l \in Nat
  PROVE Nodes(k + l, Joined(k, w, q, b, l)) = Nodes(k, w) \cup {b[h] : h \in 1 .. l}
<1> DEFINE n == k + l
           v == Joined(k, w, q, b, l)
<1>1. k \in Nat /\ n \in Nat /\ n = k + l
  BY DEF Ring
<1>2. v = [h \in 0 .. n + 1 |-> IF h <= q THEN w[h] ELSE IF h <= q + l THEN b[h - q] ELSE w[h - l]]
  BY DEF Joined
<1> HIDE DEF n, v
<1>3. \A h \in 1 .. n : v[h] = IF h <= q THEN w[h] ELSE IF h <= q + l THEN b[h - q] ELSE w[h - l]
  BY <1>1, <1>2
<1>4. ASSUME NEW h \in 1 .. n PROVE v[h] \in {w[g] : g \in 1 .. k} \cup {b[g] : g \in 1 .. l}
  <2>1. CASE h <= q
    BY <1>1, <1>3, <2>1
  <2>2. CASE h > q /\ h <= q + l
    <3>1. h - q \in 1 .. l /\ v[h] = b[h - q]
      BY <1>1, <1>3, <2>2
    <3> QED BY <3>1
  <2>3. CASE h > q + l
    <3>1. h - l \in 1 .. k /\ v[h] = w[h - l]
      BY <1>1, <1>3, <2>3
    <3> QED BY <3>1
  <2> QED BY <1>1, <2>1, <2>2, <2>3
<1>5. ASSUME NEW g \in 1 .. k PROVE w[g] \in {v[h] : h \in 1 .. n}
  <2>1. CASE g <= q
    <3>1. g \in 1 .. n /\ v[g] = w[g]
      BY <1>1, <1>3, <2>1
    <3> QED BY <3>1
  <2>2. CASE g > q
    <3>1. g + l \in 1 .. n /\ (g + l) - l = g /\ ~ (g + l <= q) /\ ~ (g + l <= q + l)
      BY <1>1, <2>2
    <3>2. v[g + l] = w[g]
      BY <1>3, <3>1
    <3> QED BY <3>1, <3>2
  <2> QED BY <1>1, <2>1, <2>2
<1>6. ASSUME NEW g \in 1 .. l PROVE b[g] \in {v[h] : h \in 1 .. n}
  <2>1. g + q \in 1 .. n /\ (g + q) - q = g /\ ~ (g + q <= q) /\ g + q <= q + l
    BY <1>1
  <2>2. v[g + q] = b[g]
    BY <1>3, <2>1
  <2> QED BY <2>1, <2>2
<1>7. {v[h] : h \in 1 .. n} = {w[g] : g \in 1 .. k} \cup {b[g] : g \in 1 .. l}
  BY <1>4, <1>5, <1>6
<1> QED BY <1>7 DEF Nodes, n, v

\* Once its neighbours are linked to each other, a block still is linked in itself.
LEMMA TakeBlock ==
  ASSUME NEW m \in Nat, NEW d, d \in Lists(m), NEW k, NEW w, Ring(m, d, k, w),
         NEW i \in 1 .. k, NEW j \in i .. k, NEW l, l = j - i + 1,
         NEW b \in [1 .. l -> 1 .. m], \A h \in 1 .. l : b[h] = w[i + h - 1]
  PROVE Block(m, BIRB_RemoveBlock(d, w[i], w[j]), b, l)
<1> DEFINE f == BIRB_RemoveBlock(d, w[i], w[j])
<1>1. /\ k \in Nat
      /\ \A g, h \in 1 .. k : w[g] = w[h] => g = h
      /\ \A h \in 1 .. k : w[h] \in 1 .. m
      /\ \A h \in 0 .. k : Succ(d, w[h]) = w[h + 1]
      /\ \A h \in 1 .. k + 1 : Pred(d, w[h]) = w[h - 1]
  BY DEF Ring
<1>2. /\ \A g, h \in 0 .. k : w[g] = w[h] => g = h
      /\ \A g, h \in 1 .. k + 1 : w[g] = w[h] => g = h
  BY RingDistinct
<1>3. \A x \in 0 .. m : /\ Succ(f, x) = IF x = w[i - 1] THEN w[j + 1] ELSE Succ(d, x)
                        /\ Pred(f, x) = IF x = w[j + 1] THEN w[i - 1] ELSE Pred(d, x)
  BY RemoveLinks
<1> HIDE DEF f
<1>4. l \in Nat \ {0}
  BY <1>1
<1>5. ASSUME NEW g \in 1 .. l, NEW h \in 1 .. l, b[g] = b[h] PROVE g = h
  <2>1. i + g - 1 \in 1 .. k /\ i + h - 1 \in 1 .. k
    BY <1>1
  <2>2. w[i + g - 1] = w[i + h - 1]
    BY <1>5
  <2>3. i + g - 1 = i + h - 1
    BY <1>1, <2>1, <2>2
  <2> QED BY <1>4, <2>3
<1>6. ASSUME NEW h \in 1 .. l - 1 PROVE Succ(f, b[h]) = b[h + 1] /\ Pred(f, b[h + 1]) = b[h]
  <2> DEFINE g == i + h - 1
  <2>1. /\ g \in 0 .. k /\ i - 1 \in 0 .. k /\ g # i - 1 /\ g + 1 \in 1 .. k + 1
        /\ j + 1 \in 1 .. k + 1 /\ g + 1 # j + 1 /\ (g + 1) - 1 = g
        /\ g \in 1 .. k /\ g + 1 \in 1 .. k
    BY <1>1, <1>4
  <2>2. b[h] = w[g] /\ b[h + 1] = w[g + 1]
    <3>1. h \in 1 .. l /\ h + 1 \in 1 .. l /\ i + (h + 1) - 1 = g + 1
      BY <1>4
    <3> QED BY <3>1
  <2> HIDE DEF g
  <2>6. w[g] # w[i - 1] /\ w[g + 1] # w[j + 1]
    BY <1>2, <2>1
  <2>7. w[g] \in 0 .. m /\ w[g + 1] \in 0 .. m
    <3>1. w[g] \in 1 .. m /\ w[g + 1] \in 1 .. m
      BY <1>1, <2>1
    <3> QED BY <3>1
  <2>4. Succ(d, w[g]) = w[g + 1] /\ Pred(d, w[g + 1]) = w[(g + 1) - 1]
    BY <1>1, <2>1
  <2>5. Succ(f, w[g]) = w[g + 1] /\ Pred(f, w[g + 1]) = w[g]
    BY <1>3, <2>1, <2>4, <2>6, <2>7
  <2> QED BY <2>2, <2>5
<1>7. Block(m, f, b, l)
  BY <1>4, <1>5, <1>6 DEF Block
<1> QED BY <1>7 DEF f

LEMMA RemoveHolds ==
  ASSUME NEW m \in Nat, NEW d, d \in Lists(m), NEW S, Holds(m, d, S), NEW n \in S
  PROVE Holds(m, BIRB_Remove(d, n), S \ {n})
<1>1. PICK k, w : Ring(m, d, k, w) /\ S = Nodes(k, w)
  BY DEF Holds
<1>2. PICK i \in 1 .. k : n = w[i]
  BY <1>1, Position
<1>3. i \in i .. i /\ i .. i = {i} /\ i \in i .. k
  BY <1>1 DEF Ring
<1>4. Ring(m, BIRB_RemoveBlock(d, w[i], w[i]), k - (i - i + 1), Cut(k, w, i, i))
  BY <1>1, <1>3, RemoveRing
<1>5. Nodes(k - (i - i + 1), Cut(k, w, i, i)) = Nodes(k, w) \ {w[h] : h \in i .. i}
  BY <1>1, <1>3, CutNodes
<1>6. {w[h] : h \in i .. i} = {n}
  BY <1>2, <1>3
<1> QED BY <1>1, <1>2, <1>4, <1>5, <1>6 DEF Holds, BIRB_Remove

LEMMA BehindHolds ==
  ASSUME NEW m \in Nat, NEW d, d \in Lists(m), NEW S, Holds(m, d, S), NEW n \in S,
         NEW b, NEW l, Block(m, d, b, l), \A h \in 1 .. l : b[h] \notin S
  PROVE Holds(m, PutBehind(d, n, b[1], b[l]), S \cup Nodes(l, b))
<1>1. PICK k, w : Ring(m, d, k, w) /\ S = Nodes(k, w)
  BY DEF Holds
<1>2. PICK q \in 1 .. k : n = w[q]
  BY <1>1, Position
<1>3. l \in Nat
  BY DEF Block
<1>4. \A i \in 1 .. k, j \in 1 .. l : w[i] # b[j]
  BY <1>1, Position
<1>5. k + l <= m
  <2> SUFFICES ASSUME m < k + l PROVE FALSE
    BY <1>1, <1>3 DEF Ring
  <2>1. k \in Nat /\ \A i \in 1 .. k : w[i] \in 1 .. m
    BY <1>1 DEF Ring
  <2>2. \A j \in 1 .. l : b[j] \in 1 .. m
    BY DEF Block
  <2> DEFINE v == [h \in 1 .. k + l |-> IF h <= k THEN w[h] ELSE b[h - k]]
  <2>3. \A h \in 1 .. k + l : IF h <= k THEN h \in 1 .. k ELSE h - k \in 1 .. l
    <3>1. k \in Nat /\ l \in Nat
      BY <1>3, <2>1
    <3> QED BY <3>1
  <2>4. v \in [1 .. k + l -> 1 .. m]
    BY <2>1, <2>2, <2>3
  <2>5. \A h \in 1 .. k + l : v[h] = IF h <= k THEN w[h] ELSE b[h - k]
    OBVIOUS
  <2> HIDE DEF v
  <2>6. /\ IsFiniteSet(1 .. k + l) /\ Cardinality(1 .. k + l) = k + l
        /\ IsFiniteSet(1 .. m) /\ Cardinality(1 .. m) = m
    <3>1. /\ 1 > k + l => k + l = 0
          /\ 1 > m => m = 0
          /\ k + l - 1 + 1 = k + l /\ m - 1 + 1 = m
      BY <1>3, <2>1
    <3>2. k + l \in Int /\ m \in Int /\ 1 \in Int
      BY <1>3, <2>1
    <3> QED BY <3>1, <3>2, FS_Interval
  <2>7. PICK x \in 1 .. k + l, y \in 1 .. k + l : x # y /\ v[x] = v[y]
    BY <2>4, <2>6, FS_PigeonHole
  <2>8. CASE x <= k /\ y <= k
    <3>1. x \in 1 .. k /\ y \in 1 .. k /\ w[x] = w[y]
      BY <2>3, <2>5, <2>7, <2>8
    <3> QED BY <1>1, <2>7, <3>1 DEF Ring
  <2>9. CASE ~ (x <= k) /\ ~ (y <= k)
    <3>1. x - k \in 1 .. l /\ y - k \in 1 .. l /\ b[x - k] = b[y - k]
      BY <2>3, <2>5, <2>7, <2>9
    <3>2. x - k = y - k
      BY <3>1 DEF Block
    <3> QED BY <2>1, <2>7, <3>2
  <2>10. CASE x <= k /\ ~ (y <= k)
    <3>1. x \in 1 .. k /\ y - k \in 1 .. l /\ w[x] = b[y - k]
      BY <2>3, <2>5, <2>7, <2>10
    <3> QED BY <1>4, <3>1
  <2>11. CASE ~ (x <= k) /\ y <= k
    <3>1. y \in 1 .. k /\ x - k \in 1 .. l /\ w[y] = b[x - k]
      BY <2>3, <2>5, <2>7, <2>11
    <3> QED BY <1>4, <3>1
  <2> QED BY <2>8, <2>9, <2>10, <2>11
<1>6. Ring(m, PutBehind(d, w[q], b[1], b[l]), k + l, Joined(k, w, q, b, l))
  BY <1>1, <1>4, <1>5, JoinRing
<1>7. Nodes(k + l, Joined(k, w, q, b, l)) = Nodes(k, w) \cup {b[h] : h \in 1 .. l}
  BY <1>1, <1>3, JoinedNodes
<1>8. Nodes(l, b) = {b[h] : h \in 1 .. l}
  BY DEF Nodes
<1> QED BY <1>1, <1>2, <1>6, <1>7, <1>8 DEF Holds
-----------------------------------------------------------------------------
(* The passes keep the list and its labels *)

Labelled(d, S) ==
  \A x \in S : BCIR_UsesLabel(d.op[x]) => d.op[x].to \in S /\ d.op[d.op[x].to].k = "label"

\* The list holds the nodes S and the labels of its jumps; the cursor is on one.
Whole(m, d, x, S) == Holds(m, d, S) /\ x \in S \cup {Nil} /\ Labelled(d, S)

Kept(m) == \E S : Whole(m, c, ir, S)

LEMMA DidKept ==
  ASSUME NEW m \in Nat, NEW d, NEW x, NEW S, Whole(m, d, x, S), Did(d, x)
  PROVE Kept(m)'
<1>1. c' = d /\ ir' = x
  BY DEF Did
<1>2. Whole(m, c', ir', S)
  BY <1>1
<1> QED BY <1>2 DEF Kept

LEMMA HitKept ==
  ASSUME NEW m \in Nat, Typed(m), NEW S, Whole(m, c, ir, S), NEW n \in Hits
  PROVE n \in S /\ n \in 1 .. m /\ Finds(pass, n)
<1>1. n \in Elements(From(c, ir)) /\ Finds(pass, n) /\ n \in 1 .. m
  BY Found
<1>2. Elements(From(c, ir)) \subseteq S
  BY Reached DEF Whole, Typed
<1> QED BY <1>1, <1>2

LEMMA SameLinks ==
  ASSUME NEW m \in Nat, NEW d, NEW e, NEW S, Holds(m, d, S),
         e.next = d.next, e.prev = d.prev, e.head = d.head, e.tail = d.tail
  PROVE Holds(m, e, S)
<1>1. PICK k, w : Ring(m, d, k, w) /\ S = Nodes(k, w)
  BY DEF Holds
<1>2. \A x : Succ(e, x) = Succ(d, x) /\ Pred(e, x) = Pred(d, x)
  BY DEF Succ, Pred
<1>3. Ring(m, e, k, w)
  BY <1>1, <1>2 DEF Ring
<1> QED BY <1>1, <1>3 DEF Holds

\* A node that no other one refers to may go.
LEMMA RemoveKept ==
  ASSUME NEW m \in Nat, NEW d, d \in Lists(m), NEW S, Holds(m, d, S), Labelled(d, S),
         NEW n \in S, \A x \in S \ {n} : BCIR_UsesLabel(d.op[x]) => d.op[x].to # n,
         NEW x \in (S \ {n}) \cup {Nil}
  PROVE Whole(m, BIRB_Remove(d, n), x, S \ {n})
<1>1. Holds(m, BIRB_Remove(d, n), S \ {n})
  BY RemoveHolds
<1>2. n \in 1 .. m
  BY Neighbours
<1>3. BIRB_Remove(d, n).op = d.op
  BY <1>2, RemoveType DEF BIRB_Remove
<1>4. Labelled(BIRB_Remove(d, n), S \ {n})
  BY <1>3 DEF Labelled
<1> QED BY <1>1, <1>4 DEF Whole

\* So may a node that is not a label.
LEMMA RemoveOther ==
  ASSUME NEW m \in Nat, NEW d, d \in Lists(m), NEW S, Holds(m, d, S), Labelled(d, S),
         NEW n \in S, d.op[n].k # "label", NEW x \in (S \ {n}) \cup {Nil}
  PROVE Whole(m, BIRB_Remove(d, n), x, S \ {n})
<1>1. \A y \in S \ {n} : BCIR_UsesLabel(d.op[y]) => d.op[y].to # n
  BY DEF Labelled
<1> QED BY <1>1, RemoveKept

\* A node that is not a label may become another one that is well labelled.
LEMMA ChangeKept ==
  ASSUME NEW m \in Nat, NEW d, d \in Lists(m), NEW x, NEW S, Whole(m, d, x, S), NEW n \in S,
         d.op[n].k # "label", NEW o,
         BCIR_UsesLabel(o) => o.to \in S /\ d.op[o.to].k = "label"
  PROVE Whole(m, [d EXCEPT !.op[n] = o], x, S)
<1> DEFINE e == [d EXCEPT !.op[n] = o]
<1>1. n \in 1 .. m /\ d.op \in [1 .. m -> Ops] /\ S \subseteq 1 .. m
  BY Neighbours, Fields, Reached DEF Whole
<1>2. e = [d EXCEPT !.op = [d.op EXCEPT ![n] = o]]
  OBVIOUS
<1>3. /\ e.next = d.next /\ e.prev = d.prev /\ e.head = d.head /\ e.tail = d.tail
      /\ e.op = [d.op EXCEPT ![n] = o]
  BY <1>2 DEF Lists
<1> HIDE DEF e
<1>4. Holds(m, e, S)
  BY <1>3, SameLinks DEF Whole
<1>5. \A y \in S : e.op[y] = IF y = n THEN o ELSE d.op[y]
  BY <1>1, <1>3
<1>6. Labelled(e, S)
  <2> SUFFICES ASSUME NEW y \in S, BCIR_UsesLabel(e.op[y])
               PROVE e.op[y].to \in S /\ e.op[e.op[y].to].k = "label"
    BY DEF Labelled
  <2>1. e.op[y].to \in S /\ d.op[e.op[y].to].k = "label"
    BY <1>5 DEF Whole, Labelled
  <2>2. e.op[y].to # n
    BY <2>1
  <2> QED BY <1>5, <2>1, <2>2
<1> QED BY <1>4, <1>6 DEF Whole, e

LEMMA DeadCodeKept == ASSUME NEW m \in Nat, Typed(m), Kept(m), DeadCode PROVE Kept(m)'
<1>1. PICK S : Whole(m, c, ir, S)
  BY DEF Kept
<1>2. PICK n \in Hits : Did(BIRB_Remove(c, c.next[n]), n)
  BY DEF DeadCode
<1>3. n \in S /\ Finds("DeadCode", n)
  BY <1>1, <1>2, HitKept DEF DeadCode
<1>4. c \in Lists(m) /\ Holds(m, c, S) /\ Labelled(c, S)
  BY <1>1 DEF Typed, Whole
<1>5. c.next[n] # Nil /\ c.op[c.next[n]].k # "label"
  BY <1>3 DEF Finds, Kind
<1>6. c.next[n] \in S /\ c.next[n] # n
  BY <1>3, <1>4, <1>5, Neighbours
<1>7. Whole(m, BIRB_Remove(c, c.next[n]), n, S \ {c.next[n]})
  BY <1>3, <1>4, <1>5, <1>6, RemoveOther
<1> QED BY <1>2, <1>7, DidKept

LEMMA PointlessJumpKept ==
  ASSUME NEW m \in Nat, Typed(m), Kept(m), PointlessJump PROVE Kept(m)'
<1>1. PICK S : Whole(m, c, ir, S)
  BY DEF Kept
<1>2. PICK n \in Hits : Did(BIRB_Remove(c, n), c.next[n])
  BY DEF PointlessJump
<1>3. n \in S /\ Finds("PointlessJump", n)
  BY <1>1, <1>2, HitKept DEF PointlessJump
<1>4. c \in Lists(m) /\ Holds(m, c, S) /\ Labelled(c, S)
  BY <1>1 DEF Typed, Whole
<1>5. c.op[n].k # "label"
  BY <1>3 DEF Finds
<1>6. c.next[n] \in (S \ {n}) \cup {Nil}
  BY <1>3, <1>4, Neighbours
<1>7. Whole(m, BIRB_Remove(c, n), c.next[n], S \ {n})
  BY <1>3, <1>4, <1>5, <1>6, RemoveOther
<1> QED BY <1>2, <1>7, DidKept

LEMMA ContractWriteReadKept ==
  ASSUME NEW m \in Nat, Typed(m), Kept(m), ContractWriteRead PROVE Kept(m)'
<1>1. PICK S : Whole(m, c, ir, S)
  BY DEF Kept
<1>2. PICK n \in Hits :
        Did([BIRB_Remove(c, c.next[n]) EXCEPT !.op[n] = Op("modify", 1, Nil)], c.next[c.next[n]])
  BY DEF ContractWriteRead
<1>3. n \in S /\ Finds("ContractWriteRead", n)
  BY <1>1, <1>2, HitKept DEF ContractWriteRead
<1>4. c \in Lists(m) /\ Holds(m, c, S) /\ Labelled(c, S)
  BY <1>1 DEF Typed, Whole
<1>5. Kind(c, c.next[n]) = "read" /\ c.op[n].k \in {"write", "modify"}
  BY <1>3 DEF Finds
<1>6. c.next[n] # Nil /\ c.op[c.next[n]].k # "label" /\ c.op[n].k # "label"
  BY <1>5 DEF Kind
<1>7. c.next[n] \in S /\ c.next[n] # n
  BY <1>3, <1>4, <1>6, Neighbours
<1>8. c.next[c.next[n]] \in (S \ {c.next[n]}) \cup {Nil}
  BY <1>4, <1>7, Neighbours
<1> DEFINE e == BIRB_Remove(c, c.next[n])
           o == Op("modify", 1, Nil)
<1>9. Whole(m, e, c.next[c.next[n]], S \ {c.next[n]})
  BY <1>4, <1>6, <1>7, <1>8, RemoveOther
<1>10. e \in Lists(m) /\ e.op = c.op
  BY <1>4, <1>7, Reached, RemoveType DEF BIRB_Remove
<1>11. ~ BCIR_UsesLabel(o)
  BY DEF Op, BCIR_UsesLabel, Conditional
<1>12. Did([e EXCEPT !.op[n] = o], c.next[c.next[n]])
  BY <1>2
<1> HIDE DEF e, o
<1>13. Whole(m, [e EXCEPT !.op[n] = o], c.next[c.next[n]], S \ {c.next[n]})
  BY <1>3, <1>6, <1>7, <1>9, <1>10, <1>11, ChangeKept
<1> QED BY <1>12, <1>13, DidKept

LEMMA ContractReturnKept ==
  ASSUME NEW m \in Nat, Typed(m), Kept(m), ContractReturn PROVE Kept(m)'
<1>1. PICK S : Whole(m, c, ir, S)
  BY DEF Kept
<1>2. PICK n \in Hits :
       Did([BIRB_Remove(c, c.prev[n]) EXCEPT
               !.op[n].k = IF c.op[n].k = "ret" THEN "retpop" ELSE "ret"], c.next[n])
  BY DEF ContractReturn
<1>3. n \in S /\ n \in 1 .. m /\ Finds("ContractReturn", n)
  BY <1>1, <1>2, HitKept DEF ContractReturn
<1>4. c \in Lists(m) /\ Holds(m, c, S) /\ Labelled(c, S)
  BY <1>1 DEF Typed, Whole
<1>5. Kind(c, c.prev[n]) \in {"read", "write"} /\ c.op[n].k \in {"ret", "retpop"}
  BY <1>3 DEF Finds
<1>6. c.prev[n] # Nil /\ c.op[c.prev[n]].k # "label" /\ c.op[n].k # "label"
  BY <1>5 DEF Kind
<1>7. c.prev[n] \in S /\ c.prev[n] # n
  BY <1>3, <1>4, <1>6, Neighbours
<1>8. c.next[n] \in (S \ {c.prev[n]}) \cup {Nil}
  BY <1>3, <1>4, Neighbours
<1> DEFINE e == BIRB_Remove(c, c.prev[n])
           k == IF c.op[n].k = "ret" THEN "retpop" ELSE "ret"
           o == [e.op[n] EXCEPT !.k = k]
<1>9. Whole(m, e, c.next[n], S \ {c.prev[n]})
  BY <1>4, <1>6, <1>7, <1>8, RemoveOther
<1>10. e \in Lists(m) /\ e.op = c.op
  BY <1>4, <1>7, Reached, RemoveType DEF BIRB_Remove
<1>11. k \in {"ret", "retpop"}
  OBVIOUS
<1>12. Did([e EXCEPT !.op[n].k = k], c.next[n])
  BY <1>2
<1> HIDE DEF e, k
<1>13. e.op[n] \in Ops
  BY <1>3, <1>10, Fields
<1>14. ~ BCIR_UsesLabel(o)
  BY <1>11, <1>13 DEF Ops, BCIR_UsesLabel, Conditional
<1>15. [e EXCEPT !.op[n].k = k] = [e EXCEPT !.op[n] = o]
  OBVIOUS
<1> HIDE DEF o
<1>16. Whole(m, [e EXCEPT !.op[n] = o], c.next[n], S \ {c.prev[n]})
  BY <1>3, <1>6, <1>7, <1>9, <1>10, <1>14, ChangeKept
<1> QED BY <1>12, <1>15, <1>16, DidKept

LEMMA JumpOverJumpKept ==
  ASSUME NEW m \in Nat, Typed(m), Kept(m), JumpOverJump PROVE Kept(m)'
<1>1. PICK S : Whole(m, c, ir, S)
  BY DEF Kept
<1>2. PICK n \in Hits :
       Did([BIRB_Remove(c, c.next[n]) EXCEPT
              !.op[n].to = c.op[c.next[n]].to,
              !.op[n].k = IF c.op[n].k = "jz" THEN "jnz" ELSE "jz"], c.next[c.next[n]])
  BY DEF JumpOverJump
<1>3. n \in S /\ n \in 1 .. m /\ Finds("JumpOverJump", n)
  BY <1>1, <1>2, HitKept DEF JumpOverJump
<1>4. c \in Lists(m) /\ Holds(m, c, S) /\ Labelled(c, S)
  BY <1>1 DEF Typed, Whole
<1>5. Kind(c, c.next[n]) = "jump" /\ c.op[n].k \in Conditional
  BY <1>3 DEF Finds
<1>6. c.next[n] # Nil /\ c.op[c.next[n]].k = "jump" /\ c.op[n].k # "label"
  BY <1>5 DEF Kind, Conditional
<1>7. c.next[n] \in S /\ c.next[n] # n
  BY <1>3, <1>4, <1>6, Neighbours
<1>8. c.next[c.next[n]] \in (S \ {c.next[n]}) \cup {Nil}
  BY <1>4, <1>7, Neighbours
<1> DEFINE e == BIRB_Remove(c, c.next[n])
           k == IF c.op[n].k = "jz" THEN "jnz" ELSE "jz"
           to == c.op[c.next[n]].to
           o == [e.op[n] EXCEPT !.to = to, !.k = k]
<1>9. to \in S /\ c.op[to].k = "label"
  BY <1>4, <1>6, <1>7 DEF Labelled, BCIR_UsesLabel
<1>10. to \in S \ {c.next[n]}
  BY <1>6, <1>9
<1>11. Whole(m, e, c.next[c.next[n]], S \ {c.next[n]})
  BY <1>4, <1>6, <1>7, <1>8, RemoveOther
<1>12. e \in Lists(m) /\ e.op = c.op
  BY <1>4, <1>7, Reached, RemoveType DEF BIRB_Remove
<1>13. Did([e EXCEPT !.op[n].to = to, !.op[n].k = k], c.next[c.next[n]])
  BY <1>2
<1> HIDE DEF e, k, to
<1>14. e.op[n] \in Ops /\ e.op \in [1 .. m -> Ops]
  BY <1>3, <1>12, Fields
<1>15. o.to = to
  BY <1>14 DEF Ops
<1>16. [e EXCEPT !.op[n].to = to, !.op[n].k = k] = [e EXCEPT !.op[n] = o]
  BY <1>3, <1>12, <1>14 DEF Lists
<1> HIDE DEF o
<1>17. Whole(m, [e EXCEPT !.op[n] = o], c.next[c.next[n]], S \ {c.next[n]})
  BY <1>3, <1>6, <1>7, <1>9, <1>10, <1>11, <1>12, <1>15, ChangeKept
<1> QED BY <1>13, <1>16, <1>17, DidKept

LEMMA JumpToJumpKept ==
  ASSUME NEW m \in Nat, Typed(m), Kept(m), JumpToJump PROVE Kept(m)'
<1>1. PICK S : Whole(m, c, ir, S)
  BY DEF Kept
<1>2. PICK n \in Hits :
       Did([c EXCEPT !.op[n].to = c.op[c.next[c.op[n].to]].to], c.next[n])
  BY DEF JumpToJump
<1>3. n \in S /\ n \in 1 .. m /\ Finds("JumpToJump", n)
  BY <1>1, <1>2, HitKept DEF JumpToJump
<1>4. c \in Lists(m) /\ Holds(m, c, S) /\ Labelled(c, S)
  BY <1>1 DEF Typed, Whole
<1>5. BCIR_UsesLabel(c.op[n]) /\ Kind(c, c.next[c.op[n].to]) = "jump"
  BY <1>3 DEF Finds
<1>6. c.op[n].k # "label"
  BY <1>5 DEF BCIR_UsesLabel, Conditional
<1> DEFINE over == c.next[c.op[n].to]
           to == c.op[over].to
           o == [c.op[n] EXCEPT !.to = to]
<1>7. c.op[n].to \in S
  BY <1>3, <1>4, <1>5 DEF Labelled
<1>8. over \in S /\ c.op[over].k = "jump"
  <2>1. over \in S \cup {Nil}
    BY <1>4, <1>7, Neighbours
  <2> QED BY <1>5, <2>1 DEF Kind
<1>9. Did([c EXCEPT !.op[n].to = to], c.next[n])
  BY <1>2
<1> HIDE DEF over
<1>10. to \in S /\ c.op[to].k = "label"
  BY <1>4, <1>8 DEF Labelled, BCIR_UsesLabel
<1>11. c.op[n] \in Ops
  BY <1>3, <1>4, Fields
<1> HIDE DEF to
<1>12. o.to = to
  BY <1>11 DEF Ops
<1>13. [c EXCEPT !.op[n].to = to] = [c EXCEPT !.op[n] = o]
  OBVIOUS
<1> HIDE DEF o
<1>14. Whole(m, c, c.next[n], S)
  BY <1>3, <1>4, Neighbours DEF Whole
<1>15. Whole(m, [c EXCEPT !.op[n] = o], c.next[n], S)
  BY <1>3, <1>4, <1>6, <1>10, <1>12, <1>14, ChangeKept
<1> QED BY <1>9, <1>13, <1>15, DidKept

LEMMA ReplaceKept ==
  ASSUME NEW m \in Nat, Typed(m), Kept(m), ReplaceJumpToOpWithItself PROVE Kept(m)'
<1>1. PICK S : Whole(m, c, ir, S)
  BY DEF Kept
<1>2. PICK n \in Hits : Did([c EXCEPT !.op[n] = c.op[c.next[c.op[n].to]]], c.next[n])
  BY DEF ReplaceJumpToOpWithItself
<1>3. n \in S /\ Finds("ReplaceJumpToOpWithItself", n)
  BY <1>1, <1>2, HitKept DEF ReplaceJumpToOpWithItself
<1>4. c \in Lists(m) /\ Holds(m, c, S) /\ Labelled(c, S)
  BY <1>1 DEF Typed, Whole
<1>5. Replaceable(n)
  BY <1>3 DEF Finds
<1>6. c.op[n].k # "label"
  BY <1>5 DEF Replaceable, Conditional
<1> DEFINE o == c.op[c.next[c.op[n].to]]
<1>7. o.k \in {"ret", "retpop"}
  BY <1>5 DEF Replaceable, BCIR_CanReplaceJumpToOpWithItself
<1>8. Did([c EXCEPT !.op[n] = o], c.next[n])
  BY <1>2
<1> HIDE DEF o
<1>9. ~ BCIR_UsesLabel(o)
  BY <1>7 DEF BCIR_UsesLabel, Conditional
<1>10. Whole(m, c, c.next[n], S)
  BY <1>3, <1>4, Neighbours DEF Whole
<1>11. Whole(m, [c EXCEPT !.op[n] = o], c.next[n], S)
  BY <1>3, <1>4, <1>6, <1>9, <1>10, ChangeKept
<1> QED BY <1>8, <1>11, DidKept

LEMMA RemoveBeforeReturnKept ==
  ASSUME NEW m \in Nat, Typed(m), Kept(m), RemoveBeforeReturn PROVE Kept(m)'
<1>1. PICK S : Whole(m, c, ir, S)
  BY DEF Kept
<1>2. PICK n \in Hits : Did(BIRB_Remove(c, c.prev[n]), n)
  BY DEF RemoveBeforeReturn
<1>3. n \in S /\ Finds("RemoveBeforeReturn", n)
  BY <1>1, <1>2, HitKept DEF RemoveBeforeReturn
<1>4. c \in Lists(m) /\ Holds(m, c, S) /\ Labelled(c, S)
  BY <1>1 DEF Typed, Whole
<1>5. c.prev[n] # Nil /\ c.op[c.prev[n]].k # "label"
  BY <1>3 DEF Finds, BCIR_CanRemoveBeforeReturn
<1>6. c.prev[n] \in S /\ c.prev[n] # n
  BY <1>3, <1>4, <1>5, Neighbours
<1>7. Whole(m, BIRB_Remove(c, c.prev[n]), n, S \ {c.prev[n]})
  BY <1>3, <1>4, <1>5, <1>6, RemoveOther
<1> QED BY <1>2, <1>7, DidKept

LEMMA UnusedLabelKept ==
  ASSUME NEW m \in Nat, Typed(m), Kept(m), UnusedLabel PROVE Kept(m)'
<1> DEFINE Taken(n) == [c EXCEPT !.op = [j \in DOMAIN c.op |->
                          IF j \in BCIR_AnyRef(c.next[n]) THEN [c.op[j] EXCEPT !.to = n]
                                                          ELSE c.op[j]]]
<1>1. PICK S : Whole(m, c, ir, S)
  BY DEF Kept
<1>2. PICK n \in Hits :
        IF BCIR_AnyRef(n) = {} THEN Did(BIRB_Remove(c, n), c.next[n])
                               ELSE Did(BIRB_Remove(Taken(n), c.next[n]), n)
  BY DEF UnusedLabel
<1>3. n \in S /\ n \in 1 .. m /\ Finds("UnusedLabel", n)
  BY <1>1, <1>2, HitKept DEF UnusedLabel
<1>4. c \in Lists(m) /\ Holds(m, c, S) /\ Labelled(c, S)
  BY <1>1 DEF Typed, Whole
<1>5. S \subseteq 1 .. m /\ InChain(c) = S
  BY <1>4, Reached
<1>6. c.op[n].k = "label"
  BY <1>3 DEF Finds
<1>7. \A l, x : x \in BCIR_AnyRef(l) <=> x \in S /\ BCIR_UsesLabel(c.op[x]) /\ c.op[x].to = l
  BY <1>5 DEF BCIR_AnyRef
<1>8. CASE BCIR_AnyRef(n) = {}
  <2>1. \A x \in S \ {n} : BCIR_UsesLabel(c.op[x]) => c.op[x].to # n
    BY <1>7, <1>8
  <2>2. c.next[n] \in (S \ {n}) \cup {Nil}
    BY <1>3, <1>4, Neighbours
  <2>3. Whole(m, BIRB_Remove(c, n), c.next[n], S \ {n})
    BY <1>3, <1>4, <2>1, <2>2, RemoveKept
  <2> QED BY <1>2, <1>8, <2>3, DidKept
<1>9. CASE BCIR_AnyRef(n) # {}
  <2>1. Kind(c, c.next[n]) = "label"
    BY <1>3, <1>9 DEF Finds
  <2>2. c.next[n] # Nil
    BY <2>1 DEF Kind
  <2>3. c.next[n] \in S /\ c.next[n] # n
    BY <1>3, <1>4, <2>2, Neighbours
  <2> DEFINE refs == BCIR_AnyRef(c.next[n])
             op == [j \in 1 .. m |-> IF j \in refs THEN [c.op[j] EXCEPT !.to = n] ELSE c.op[j]]
             t == Taken(n)
  <2>4. t = [c EXCEPT !.op = op]
    BY <1>4, ListLength
  <2>5. \A j \in 1 .. m : c.op[j] \in Ops
    BY <1>4, Fields
  <2>6. \A o \in Ops : LET q == [o EXCEPT !.to = n] IN q \in Ops /\ q.k = o.k /\ q.to = n
    BY <1>3 DEF Ops
  <2>7. op \in [1 .. m -> Ops]
    <3>1. \A j \in 1 .. m : (IF j \in refs THEN [c.op[j] EXCEPT !.to = n] ELSE c.op[j]) \in Ops
      BY <2>5, <2>6
    <3> QED BY <3>1
  <2>8. \A j \in 1 .. m : /\ op[j].k = c.op[j].k
                          /\ op[j].to = IF j \in refs THEN n ELSE c.op[j].to
    BY <2>5, <2>6
  <2> HIDE DEF op, t
  <2>9. /\ t \in Lists(m) /\ t.op = op /\ t.next = c.next /\ t.prev = c.prev
        /\ t.head = c.head /\ t.tail = c.tail
    BY <1>4, <2>4, <2>7 DEF Lists
  <2>10. Holds(m, t, S)
    BY <1>4, <2>9, SameLinks
  <2>11. \A j \in 1 .. m : BCIR_UsesLabel(t.op[j]) <=> BCIR_UsesLabel(c.op[j])
    BY <2>8, <2>9 DEF BCIR_UsesLabel
  <2>12. Labelled(t, S)
    <3> SUFFICES ASSUME NEW x \in S, BCIR_UsesLabel(t.op[x])
                 PROVE t.op[x].to \in S /\ t.op[t.op[x].to].k = "label"
      BY DEF Labelled
    <3>1. x \in 1 .. m /\ BCIR_UsesLabel(c.op[x])
      BY <1>5, <2>11
    <3>2. t.op[x].to = IF x \in refs THEN n ELSE c.op[x].to
      BY <2>8, <2>9, <3>1
    <3>3. c.op[x].to \in S /\ c.op[c.op[x].to].k = "label"
      BY <1>4, <3>1 DEF Labelled
    <3>4. t.op[x].to \in S /\ c.op[t.op[x].to].k = "label"
      BY <1>3, <1>6, <3>2, <3>3
    <3> QED BY <1>5, <2>8, <2>9, <3>4
  <2>13. \A x \in S \ {c.next[n]} : BCIR_UsesLabel(t.op[x]) => t.op[x].to # c.next[n]
    <3> SUFFICES ASSUME NEW x \in S, BCIR_UsesLabel(t.op[x]) PROVE t.op[x].to # c.next[n]
      OBVIOUS
    <3>1. x \in 1 .. m /\ BCIR_UsesLabel(c.op[x])
      BY <1>5, <2>11
    <3>2. t.op[x].to = IF x \in refs THEN n ELSE c.op[x].to
      BY <2>8, <2>9, <3>1
    <3>3. x \in refs <=> c.op[x].to = c.next[n]
      BY <1>7, <3>1
    <3> QED BY <2>3, <3>2, <3>3
  <2>14. n \in (S \ {c.next[n]}) \cup {Nil}
    BY <1>3, <2>3
  <2>15. Whole(m, BIRB_Remove(t, c.next[n]), n, S \ {c.next[n]})
    BY <2>3, <2>9, <2>10, <2>12, <2>13, <2>14, RemoveKept
  <2>16. Did(BIRB_Remove(t, c.next[n]), n)
    BY <1>2, <1>9 DEF t
  <2> QED BY <2>15, <2>16, DidKept
<1> QED BY <1>8, <1>9

\* The block behind a label of the ring lies behind it there, and no jump that
\* is not its last operation is in it.
LEMMA BlockRing ==
  ASSUME NEW m \in Nat, Typed(m), NEW k, NEW w, Ring(m, c, k, w), NEW i \in 1 .. k,
         NEW block \in BlockAt(w[i])
  PROVE LET l == Len(block)
        IN /\ l \in Nat \ {0} /\ i + l <= k /\ block \in [1 .. l -> 1 .. m]
           /\ \A h \in 1 .. l : block[h] = w[i + h]
           /\ \A h \in 1 .. l - 1 : ~ BCIR_IsTerminalOp(c.op[block[h]])
<1> DEFINE s == From(c, c.next[w[i]])
<1>1. c \in Lists(m)
  BY DEF Typed
<1>2. k \in Nat /\ w[i] \in 1 .. m /\ c.next[w[i]] = w[i + 1]
  BY <1>1, RingLinks
<1>3. i + 1 \in 1 .. k + 1 /\ k + 1 - (i + 1) = k - i
  BY <1>2
<1>4. /\ s \in Seq(1 .. m) /\ Len(s) = k + 1 - (i + 1)
      /\ \A h \in 1 .. k + 1 - (i + 1) : s[h] = w[(i + 1) + h - 1]
  <2>1. \A x \in 1 .. k + 1 : /\ From(c, w[x]) \in Seq(1 .. m) /\ Len(From(c, w[x])) = k + 1 - x
                               /\ \A h \in 1 .. k + 1 - x : From(c, w[x])[h] = w[x + h - 1]
    BY <1>1, FromRing
  <2> HIDE DEF From
  <2>2. s = From(c, w[i + 1])
    BY <1>2
  <2> HIDE DEF s
  <2>3. /\ From(c, w[i + 1]) \in Seq(1 .. m) /\ Len(From(c, w[i + 1])) = k + 1 - (i + 1)
        /\ \A h \in 1 .. k + 1 - (i + 1) : From(c, w[i + 1])[h] = w[(i + 1) + h - 1]
    BY <1>3, <2>1
  <2> QED BY <2>2, <2>3
<1>5. PICK l \in 1 .. Len(s) :
             /\ block = SubSeq(s, 1, l) /\ Len(block) = l
             /\ \A h \in 1 .. l : block[h] = s[h] /\ s[h] \in 1 .. m
             /\ \A h \in 1 .. l - 1 : ~ BCIR_IsTerminalOp(c.op[s[h]])
  <2>1. PICK n \in 1 .. m : n = w[i]
    BY <1>2
  <2>2. block \in BlockAt(n)
    BY <2>1
  <2>3. PICK l \in 1 .. Len(From(c, c.next[n])) :
          LET r == From(c, c.next[n])
          IN /\ block = SubSeq(r, 1, l) /\ Len(block) = l
             /\ \A h \in 1 .. l : block[h] = r[h] /\ r[h] \in 1 .. m
             /\ BCIR_IsTerminalOp(c.op[r[l]])
             /\ \A h \in 1 .. l - 1 : ~ BCIR_IsTerminalOp(c.op[r[h]])
    BY <2>2, BlockType
  <2> QED BY <2>1, <2>3
<1> HIDE DEF s
<1>6. l \in Nat \ {0} /\ i + l <= k
  BY <1>2, <1>4, <1>5
<1>7. ASSUME NEW h \in 1 .. l PROVE block[h] = w[i + h]
  <2>1. h \in 1 .. k + 1 - (i + 1) /\ (i + 1) + h - 1 = i + h
    BY <1>2, <1>3, <1>6
  <2>2. s[h] = w[i + h]
    BY <1>4, <2>1
  <2> QED BY <1>5, <2>2
<1>8. \A h \in 1 .. l - 1 : ~ BCIR_IsTerminalOp(c.op[block[h]])
  <2>1. \A h \in 1 .. l - 1 : h \in 1 .. l
    BY <1>6
  <2> QED BY <1>5, <2>1
<1>9. block \in [1 .. l -> 1 .. m]
  <2>1. block \in Seq(1 .. m)
    BY <1>4, <1>5, <1>6
  <2>2. Len(block) = l
    BY <1>5
  <2> QED BY <2>1, <2>2
<1> QED BY <1>5, <1>6, <1>7, <1>8, <1>9

LEMMA OneBlock ==
  ASSUME NEW m \in Nat, Typed(m), NEW n \in 1 .. m, NEW a \in BlockAt(n), NEW b \in BlockAt(n)
  PROVE a = b
<1> DEFINE s == From(c, c.next[n])
           ends == {i \in 1 .. Len(s) : BCIR_IsTerminalOp(c.op[s[i]])}
<1>1. PICK i \in ends : (\A h \in ends : i <= h) /\ a = SubSeq(s, 1, i)
  BY DEF BlockAt
<1>2. PICK j \in ends : (\A h \in ends : j <= h) /\ b = SubSeq(s, 1, j)
  BY DEF BlockAt
<1>3. i <= j /\ j <= i /\ i \in Int /\ j \in Int
  BY <1>1, <1>2
<1>4. i = j
  BY <1>3
<1> QED BY <1>1, <1>2, <1>4

LEMMA RemovedPrev ==
  ASSUME NEW m \in Nat, NEW d, d \in Lists(m), NEW S, Holds(m, d, S), NEW n \in S
  PROVE BIRB_Remove(d, n).prev[n] = d.prev[n]
<1>1. PICK k, w : Ring(m, d, k, w) /\ S = Nodes(k, w)
  BY DEF Holds
<1>2. PICK i \in 1 .. k : n = w[i]
  BY <1>1, Position
<1>3. k \in Nat /\ i \in i .. k /\ w[i] \in 1 .. m /\ d.next[w[i]] = w[i + 1]
  <2>1. k \in Nat
    BY <1>1 DEF Ring
  <2>2. w[i] \in 1 .. m /\ d.next[w[i]] = w[i + 1]
    BY <1>1, RingLinks
  <2> QED BY <2>1, <2>2
<1>4. w[i] \in 0 .. m /\ w[i] # Nil
  BY <1>3 DEF Nil
<1>5. Pred(BIRB_RemoveBlock(d, w[i], w[i]), w[i]) =
        IF w[i] = w[i + 1] THEN w[i - 1] ELSE Pred(d, w[i])
  BY <1>1, <1>3, <1>4, RemoveLinks
<1>6. w[i] # w[i + 1]
  BY <1>2, <1>3, Neighbours
<1> QED BY <1>2, <1>4, <1>5, <1>6 DEF Pred, BIRB_Remove

\* The list after the block moved behind the jump and the label n went.
Moved(m, S, n, block, jump) ==
  LET last == block[Len(block)]
      h == PutBehind(BIRB_RemoveBlock(BIRB_Remove(c, n), block[1], last), jump, block[1], last)
  IN /\ h \in Lists(m) /\ h.op = c.op /\ Holds(m, h, S \ {n})
     /\ c.next[last] \in (S \ {n}) \cup {Nil}

LEMMA MoveHolds ==
  ASSUME NEW m \in Nat, Typed(m), NEW S, Holds(m, c, S), NEW n \in S, NEW block \in BlockAt(n),
         NEW jump \in S, jump # n, \A x \in 1 .. Len(block) : block[x] # jump
  PROVE Moved(m, S, n, block, jump)
<1> DEFINE l == Len(block)
           e == BIRB_Remove(c, n)
           g == BIRB_RemoveBlock(e, block[1], block[l])
           h == PutBehind(g, jump, block[1], block[l])
           B == {block[x] : x \in 1 .. l}
<1>1. PICK k, w : Ring(m, c, k, w) /\ S = Nodes(k, w)
  BY DEF Holds
<1>2. PICK i \in 1 .. k : n = w[i]
  BY <1>1, Position
<1>3. c \in Lists(m) /\ k \in Nat /\ S \subseteq 1 .. m
  BY <1>1, Reached DEF Ring, Typed
<1>4. /\ l \in Nat \ {0} /\ i + l <= k /\ block \in [1 .. l -> 1 .. m]
      /\ \A x \in 1 .. l : block[x] = w[i + x]
  <2>1. block \in BlockAt(w[i])
    BY <1>2
  <2>2. \A b \in BlockAt(w[i]) :
          /\ Len(b) \in Nat \ {0} /\ i + Len(b) <= k /\ b \in [1 .. Len(b) -> 1 .. m]
          /\ \A x \in 1 .. Len(b) : b[x] = w[i + x]
    BY <1>1, BlockRing
  <2> QED BY <2>1, <2>2
<1> HIDE DEF l
<1>5. block[1] \in 1 .. m /\ block[l] \in 1 .. m
  BY <1>4
<1>6. e \in Lists(m) /\ e.op = c.op
  BY <1>3, RemoveType DEF BIRB_Remove
<1>7. g \in Lists(m) /\ g.op = c.op
  <2> HIDE DEF e
  <2> QED BY <1>5, <1>6, RemoveType
<1>8. h \in Lists(m) /\ h.op = c.op
  <2>1. jump \in 1 .. m
    BY <1>3
  <2> HIDE DEF e, g
  <2>2. h \in Lists(m) /\ h.op = g.op
    BY <1>5, <1>7, <2>1, PutBehindType
  <2> QED BY <1>7, <2>2
<1> DEFINE v == Cut(k, w, i, i)
           j == i + l - 1
<1>9. Ring(m, e, k - 1, v) /\ Nodes(k - 1, v) = S \ {n}
  <2>1. i \in i .. k /\ i - i + 1 = 1 /\ i .. i = {i}
    BY <1>3
  <2>2. Ring(m, BIRB_RemoveBlock(c, w[i], w[i]), k - (i - i + 1), Cut(k, w, i, i))
    BY <1>1, <1>3, <2>1, RemoveRing
  <2>3. Nodes(k - (i - i + 1), Cut(k, w, i, i)) = Nodes(k, w) \ {w[x] : x \in i .. i}
    BY <1>1, <2>1, CutNodes
  <2>4. {w[x] : x \in i .. i} = {n}
    BY <1>2, <2>1
  <2> QED BY <1>1, <1>2, <2>1, <2>2, <2>3, <2>4 DEF BIRB_Remove
<1>10. \A x \in 1 .. l : block[x] = v[i + x - 1]
  <2> SUFFICES ASSUME NEW x \in 1 .. l PROVE block[x] = v[i + x - 1]
    OBVIOUS
  <2>1. /\ i + x - 1 \in 0 .. k - (i - i + 1) + 1 /\ ~ (i + x - 1 < i)
        /\ (i + x - 1) + (i - i + 1) = i + x
    BY <1>3, <1>4
  <2>2. v[i + x - 1] = w[(i + x - 1) + (i - i + 1)]
    BY <2>1 DEF Cut
  <2> QED BY <1>4, <2>1, <2>2
<1>11. /\ i \in 1 .. k - 1 /\ j \in i .. k - 1 /\ l = j - i + 1 /\ i + 1 - 1 = i /\ i + l - 1 = j
       /\ 1 \in 1 .. l /\ l \in 1 .. l
  BY <1>3, <1>4
<1>12. block[1] = v[i] /\ block[l] = v[j]
  BY <1>10, <1>11
<1> HIDE DEF e, g, h, v, j
<1>13. g = BIRB_RemoveBlock(e, v[i], v[j])
  BY <1>12 DEF g
<1>14. Block(m, g, block, l)
  BY <1>4, <1>6, <1>9, <1>10, <1>11, <1>13, TakeBlock
<1>15. {v[x] : x \in i .. j} = B
  <2>1. ASSUME NEW x \in i .. j PROVE v[x] \in B
    <3>1. x - i + 1 \in 1 .. l /\ i + (x - i + 1) - 1 = x
      BY <1>3, <1>11
    <3>2. block[x - i + 1] = v[x]
      BY <1>10, <3>1
    <3> QED BY <3>1, <3>2
  <2>2. ASSUME NEW x \in 1 .. l PROVE block[x] \in {v[y] : y \in i .. j}
    <3>1. i + x - 1 \in i .. j
      BY <1>3, <1>4, <1>11
    <3> QED BY <1>10, <3>1
  <2> QED BY <2>1, <2>2
<1>16. Holds(m, g, (S \ {n}) \ B)
  <2>1. Ring(m, BIRB_RemoveBlock(e, v[i], v[j]), (k - 1) - (j - i + 1), Cut(k - 1, v, i, j))
    BY <1>6, <1>9, <1>11, RemoveRing
  <2>2. Nodes((k - 1) - (j - i + 1), Cut(k - 1, v, i, j)) =
          Nodes(k - 1, v) \ {v[x] : x \in i .. j}
    BY <1>9, <1>11, CutNodes
  <2> QED BY <1>9, <1>13, <1>15, <2>1, <2>2 DEF Holds
<1>17. jump \in (S \ {n}) \ B /\ \A x \in 1 .. l : block[x] \notin (S \ {n}) \ B
  BY DEF l
<1>18. B \subseteq S \ {n}
  <2>1. \A x \in i .. j : v[x] \in S \ {n}
    <3>1. \A x \in i .. j : x \in 1 .. k - 1
      BY <1>3, <1>11
    <3> QED BY <1>9, <3>1 DEF Nodes
  <2> QED BY <1>15, <2>1
<1>19. Holds(m, h, S \ {n})
  <2>1. Holds(m, PutBehind(g, jump, block[1], block[l]), ((S \ {n}) \ B) \cup B)
    <3>1. PICK T : T = (S \ {n}) \ B
      OBVIOUS
    <3>2. Holds(m, g, T) /\ jump \in T /\ \A x \in 1 .. l : block[x] \notin T
      BY <1>16, <1>17, <3>1
    <3>3. Holds(m, PutBehind(g, jump, block[1], block[l]), T \cup Nodes(l, block))
      BY <1>7, <1>14, <3>2, BehindHolds
    <3> QED BY <3>1, <3>3 DEF Nodes
  <2>2. ((S \ {n}) \ B) \cup B = S \ {n}
    BY <1>18
  <2> QED BY <2>1, <2>2 DEF h
<1>20. c.next[block[l]] \in (S \ {n}) \cup {Nil}
  <2>1. i + l \in 1 .. k /\ (i + l) + 1 \in 1 .. k + 1 /\ (i + l) + 1 \in 0 .. k + 1
        /\ i \in 1 .. k + 1 /\ (i + l) + 1 # i
    BY <1>3, <1>4
  <2>2. c.next[block[l]] = w[(i + l) + 1]
    <3>1. block[l] = w[i + l]
      BY <1>4, <1>11
    <3>2. \A x \in 1 .. k : c.next[w[x]] = w[x + 1]
      BY <1>1, <1>3, RingLinks
    <3> QED BY <2>1, <3>1, <3>2
  <2>3. w[(i + l) + 1] # w[i]
    <3>1. \A x, y \in 1 .. k + 1 : w[x] = w[y] => x = y
      BY <1>1, RingDistinct
    <3> QED BY <2>1, <3>1
  <2>4. w[(i + l) + 1] \in S \cup {Nil}
    BY <1>1, <2>1, Position
  <2> QED BY <1>2, <2>2, <2>3, <2>4
<1> QED BY <1>8, <1>19, <1>20 DEF e, g, h, l, Moved

LEMMA MoveKept == ASSUME NEW m \in Nat, Typed(m), Kept(m), MoveSingleJumpLabel PROVE Kept(m)'
<1>1. PICK S : Whole(m, c, ir, S)
  BY DEF Kept
<1>2. PICK n \in Hits : \E block \in BlockAt(n), jump \in BCIR_AnyRef(n) :
       LET first == block[1]
           last == block[Len(block)]
           rest == c.next[last]
       IN \E e \in {BIRB_Remove(c, n)} : \E g \in {BIRB_RemoveBlock(e, first, last)} :
          \E h \in {PutBehind(g, jump, first, last)} : \E d \in {BIRB_Remove(h, jump)} :
            Did(d, IF rest = Nil \/ d.prev[rest] = Nil THEN Nil ELSE d.next[d.prev[rest]])
  BY DEF MoveSingleJumpLabel
<1>3. PICK block \in BlockAt(n), jump \in BCIR_AnyRef(n) :
       LET first == block[1]
           last == block[Len(block)]
           rest == c.next[last]
       IN \E e \in {BIRB_Remove(c, n)} : \E g \in {BIRB_RemoveBlock(e, first, last)} :
          \E h \in {PutBehind(g, jump, first, last)} : \E d \in {BIRB_Remove(h, jump)} :
            Did(d, IF rest = Nil \/ d.prev[rest] = Nil THEN Nil ELSE d.next[d.prev[rest]])
  BY <1>2
<1> DEFINE l == Len(block)
           rest == c.next[block[l]]
           e == BIRB_Remove(c, n)
           g == BIRB_RemoveBlock(e, block[1], block[l])
           h == PutBehind(g, jump, block[1], block[l])
           d == BIRB_Remove(h, jump)
           x == IF rest = Nil \/ d.prev[rest] = Nil THEN Nil ELSE d.next[d.prev[rest]]
           T == (S \ {n}) \ {jump}
<1>4. Did(d, x)
  BY <1>3
<1>5. n \in S /\ n \in 1 .. m /\ Finds("MoveSingleJumpLabel", n)
  BY <1>1, <1>2, HitKept DEF MoveSingleJumpLabel
<1>6. c \in Lists(m) /\ Holds(m, c, S) /\ Labelled(c, S)
  BY <1>1 DEF Typed, Whole
<1>7. S \subseteq 1 .. m /\ InChain(c) = S
  BY <1>6, Reached
<1>8. jump \in S /\ c.op[jump].to = n
  BY <1>7, RefType
<1>9. Movable(n)
  BY <1>5 DEF Finds
<1>10. /\ BCIR_AnyRef(n) = {jump} /\ Kind(c, jump) = "jump" /\ Kind(c, n) = "label"
       /\ block[l] # jump
  <2>1. PICK other \in BCIR_AnyRef(n), b \in BlockAt(n) :
          /\ BCIR_AnyRef(n) = {other} /\ Kind(c, other) = "jump" /\ b[Len(b)] # other
    BY <1>9 DEF Movable
  <2>2. b = block
    BY <1>5, OneBlock
  <2>3. other = jump
    BY <2>1
  <2> QED BY <1>9, <2>1, <2>2, <2>3 DEF Movable
<1>11. c.op[jump].k = "jump" /\ c.op[n].k = "label"
  <2>1. jump # Nil /\ n # Nil
    BY <1>5, <1>7, <1>8 DEF Nil
  <2> QED BY <1>10, <2>1 DEF Kind
<1>12. jump # n
  BY <1>11
<1>13. \A y \in 1 .. l : block[y] # jump
  <2>1. PICK k, w : Ring(m, c, k, w) /\ S = Nodes(k, w)
    BY <1>6 DEF Holds
  <2>2. PICK i \in 1 .. k : n = w[i]
    BY <1>5, <2>1, Position
  <2>3. l \in Nat \ {0} /\ \A y \in 1 .. l - 1 : ~ BCIR_IsTerminalOp(c.op[block[y]])
    BY <2>1, <2>2, BlockRing
  <2>4. BCIR_IsTerminalOp(c.op[jump])
    BY <1>11 DEF BCIR_IsTerminalOp
  <2> HIDE DEF l
  <2>5. \A y \in 1 .. l : y = l \/ y \in 1 .. l - 1
    BY <2>3
  <2> QED BY <1>10, <2>3, <2>4, <2>5
<1>14. /\ h \in Lists(m) /\ h.op = c.op /\ Holds(m, h, S \ {n})
       /\ rest \in (S \ {n}) \cup {Nil}
  <2>1. Holds(m, c, S) /\ jump # n /\ n \in S /\ jump \in S
    BY <1>5, <1>6, <1>8, <1>12
  <2>2. \A y \in 1 .. Len(block) : block[y] # jump
    BY <1>13
  <2> HIDE DEF l, rest, e, g, h, d, x, T
  <2>3. Moved(m, S, n, block, jump)
    BY <2>1, <2>2, MoveHolds
  <2> QED BY <2>3 DEF Moved, l, rest, e, g, h
<1> HIDE DEF h, rest
<1>15. jump \in S \ {n}
  BY <1>8, <1>12
<1>16. d \in Lists(m) /\ d.op = c.op /\ Holds(m, d, T)
  <2>1. Holds(m, d, T)
    BY <1>14, <1>15, RemoveHolds
  <2>2. d \in Lists(m) /\ d.op = h.op
    BY <1>7, <1>8, <1>14, RemoveType DEF BIRB_Remove
  <2> QED BY <1>14, <2>1, <2>2
<1>17. Labelled(d, T)
  <2> SUFFICES ASSUME NEW y \in T, BCIR_UsesLabel(c.op[y])
               PROVE c.op[y].to \in T /\ c.op[c.op[y].to].k = "label"
    BY <1>16 DEF Labelled
  <2>1. c.op[y].to \in S /\ c.op[c.op[y].to].k = "label"
    BY <1>6 DEF Labelled
  <2>2. c.op[y].to # n
    BY <1>7, <1>10 DEF BCIR_AnyRef
  <2>3. c.op[y].to # jump
    BY <1>11, <2>1
  <2> QED BY <2>1, <2>2, <2>3
<1>18. d.prev[jump] \in T \cup {Nil}
  <2>1. d.prev[jump] = h.prev[jump]
    BY <1>14, <1>15, RemovedPrev
  <2>2. h.prev[jump] \in (S \ {n}) \cup {Nil} /\ h.prev[jump] # jump
    BY <1>14, <1>15, Neighbours
  <2> QED BY <2>1, <2>2
<1> HIDE DEF d
<1>19. x \in T \cup {Nil}
  <2>1. CASE rest = Nil \/ d.prev[rest] = Nil
    BY <2>1
  <2>2. CASE rest # Nil /\ d.prev[rest] # Nil
    <3>1. rest = jump \/ rest \in T
      BY <1>14, <2>2
    <3>2. rest \in T => d.prev[rest] \in T \cup {Nil}
      BY <1>16, Neighbours
    <3>3. d.prev[rest] \in T
      BY <1>18, <2>2, <3>1, <3>2
    <3>4. d.next[d.prev[rest]] \in T \cup {Nil}
      BY <1>16, <3>3, Neighbours
    <3> QED BY <2>2, <3>4
  <2> QED BY <2>1, <2>2
<1> HIDE DEF x, T
<1>20. Whole(m, d, x, T)
  BY <1>16, <1>17, <1>19 DEF Whole
<1> QED BY <1>4, <1>20, DidKept

\* What leaves the list alone and puts the cursor into it.
LEMMA StillKept ==
  ASSUME NEW m \in Nat, NEW S, Holds(m, c, S), Labelled(c, S), c' = c, ir' \in S \cup {Nil}
  PROVE Kept(m)'
<1>1. Whole(m, c', ir', S)
  BY DEF Whole
<1> QED BY <1>1 DEF Kept

LEMMA KeptStep == ASSUME NEW m \in Nat, Typed(m), Kept(m), [Next]_vars PROVE Kept(m)'
<1>1. PICK S : Whole(m, c, ir, S)
  BY DEF Kept
<1>2. c \in Lists(m) /\ Holds(m, c, S) /\ Labelled(c, S) /\ ir \in S \cup {Nil}
  BY <1>1 DEF Whole, Typed
<1>3. c.head \in S \cup {Nil}
  BY <1>2, Reached
<1>4. CASE NextPass \/ SizesAgain
  <2>1. c' = c /\ ir' = c.head
    BY <1>4 DEF NextPass, SizesAgain
  <2>2. ir' \in S \cup {Nil}
    BY <1>3, <2>1
  <2> QED BY <1>2, <2>1, <2>2, StillKept
<1>5. CASE DetermineSizes
  <2>1. PICK n \in SizeHits : ir' = c.next[n]
    BY <1>5 DEF DetermineSizes
  <2>2. n \in Elements(From(c, ir))
    BY <2>1 DEF SizeHits, First
  <2>3. n \in S
    BY <1>2, <2>2, Reached
  <2>4. ir' \in S \cup {Nil}
    BY <1>2, <2>1, <2>3, Neighbours
  <2>5. c' = c
    BY <1>5 DEF DetermineSizes
  <2> QED BY <1>2, <2>4, <2>5, StillKept
<1>6. CASE ForceSize \/ Done \/ UNCHANGED vars
  <2>1. c' = c /\ ir' = ir
    BY <1>6 DEF ForceSize, Done, vars
  <2>2. ir' \in S \cup {Nil}
    BY <1>2, <2>1
  <2> QED BY <1>2, <2>1, <2>2, StillKept
<1> QED
  BY <1>4, <1>5, <1>6, DeadCodeKept, PointlessJumpKept, UnusedLabelKept, MoveKept,
     ContractWriteReadKept, ContractReturnKept, JumpOverJumpKept, JumpToJumpKept, ReplaceKept,
     RemoveBeforeReturnKept DEF Next

\* No GOTO leaves anything on the stack: nothing is inserted before one.
NothingHidden == \A p \in Programs : \A i \in 1 .. Len(p) : p[i].k = "jump" => p[i].v = 0

\* The operations of a function follow each other as the parser gave them.
LEMMA PushedHolds == ASSUME NEW p \in Programs
  PROVE LET n == Len(p)
        IN Holds(n + 2, Pushed(p), 1 .. n) /\ Labelled(Pushed(p), 1 .. n)
<1> DEFINE n == Len(p)
           m == n + 2
           d == Pushed(p)
           w == [i \in 0 .. n + 1 |-> IF i = n + 1 THEN 0 ELSE i]
<1>1. n \in Nat \ {0} /\ d \in Lists(m)
  BY PushedType
<1>2. \A i \in 1 .. n : BCIR_UsesLabel(p[i]) => p[i].to \in 1 .. n /\ p[p[i].to].k = "label"
  BY BcirAssumption
<1>3. /\ d.op = [i \in 1 .. n + 2 |-> IF i <= n THEN p[i] ELSE Op("const", 0, Nil)]
      /\ d.next = [i \in 1 .. n + 2 |-> IF i < n THEN i + 1 ELSE Nil]
      /\ d.prev = [i \in 1 .. n + 2 |-> IF i <= n THEN i - 1 ELSE Nil]
      /\ d.head = 1 /\ d.tail = n
  BY DEF Pushed
<1> HIDE DEF n, d
<1>4. /\ \A i \in 1 .. n : d.op[i] = p[i]
      /\ \A i \in 1 .. n : d.next[i] = (IF i < n THEN i + 1 ELSE 0) /\ d.prev[i] = i - 1
  BY <1>1, <1>3 DEF Nil
<1>5. \A i \in 0 .. n + 1 : w[i] = IF i = n + 1 THEN 0 ELSE i
  OBVIOUS
<1>6. w \in [0 .. n + 1 -> 0 .. m] /\ w[0] = 0 /\ w[n + 1] = 0
  BY <1>1
<1> HIDE DEF w
<1>7. /\ \A i \in 1 .. n : w[i] \in 1 .. m
      /\ \A i, j \in 1 .. n : w[i] = w[j] => i = j
  BY <1>1, <1>5
<1>8. ASSUME NEW i \in 0 .. n PROVE Succ(d, w[i]) = w[i + 1]
  <2>1. w[i] = i /\ w[i + 1] = IF i + 1 = n + 1 THEN 0 ELSE i + 1
    BY <1>1, <1>5
  <2>2. CASE i = 0
    BY <1>1, <1>3, <2>1, <2>2 DEF Succ, Nil
  <2>3. CASE i # 0
    <3>1. d.next[i] = IF i < n THEN i + 1 ELSE 0
      BY <1>1, <1>4, <2>3
    <3> QED BY <1>1, <2>1, <2>3, <3>1 DEF Succ, Nil
  <2> QED BY <2>2, <2>3
<1>9. ASSUME NEW i \in 1 .. n + 1 PROVE Pred(d, w[i]) = w[i - 1]
  <2>1. w[i - 1] = i - 1 /\ w[i] = IF i = n + 1 THEN 0 ELSE i
    BY <1>1, <1>5
  <2>2. CASE i = n + 1
    BY <1>1, <1>3, <2>1, <2>2 DEF Pred, Nil
  <2>3. CASE i # n + 1
    <3>1. d.prev[i] = i - 1
      BY <1>1, <1>4, <2>3
    <3> QED BY <1>1, <2>1, <2>3, <3>1 DEF Pred, Nil
  <2> QED BY <2>2, <2>3
<1>10. Ring(m, d, n, w)
  BY <1>1, <1>6, <1>7, <1>8, <1>9 DEF Ring, Nil
<1>11. Nodes(n, w) = 1 .. n
  <2>1. \A i \in 1 .. n : w[i] = i
    BY <1>1, <1>5
  <2> QED BY <2>1 DEF Nodes
<1>12. Labelled(d, 1 .. n)
  BY <1>2, <1>4 DEF Labelled
<1> QED BY <1>10, <1>11, <1>12 DEF Holds, n, d

LEMMA InitKept == ASSUME NothingHidden, Init PROVE \E m \in Nat : Typed(m) /\ Kept(m)
<1>1. PICK p \in Programs : c = BCIR_ResolveNamedLabels(Pushed(p), Len(p))
  BY DEF Init
<1> DEFINE n == Len(p)
           m == n + 2
           d == Pushed(p)
<1>2. n \in Nat \ {0} /\ d \in Lists(m) /\ Holds(m, d, 1 .. n) /\ Labelled(d, 1 .. n)
  BY PushedType, PushedHolds
<1>3. c = d
  <2>1. InChain(d) = 1 .. n
    BY <1>2, Reached
  <2>2. \A i \in 1 .. n : d.op[i] = p[i]
    BY <1>2 DEF Pushed
  <2>3. \A i \in 1 .. n : p[i].k = "jump" => p[i].v = 0
    BY DEF NothingHidden
  <2>4. \A i \in InChain(d) : d.op[i].k # "jump" \/ d.op[i].v = 0
    BY <2>1, <2>2, <2>3
  <2> QED BY <1>1, <2>4 DEF BCIR_ResolveNamedLabels
<1>4. PICK k \in Nat : Typed(k)
  BY InitType
<1> HIDE DEF n, d
<1>5. k = m
  <2>1. c.op \in [1 .. k -> Ops] /\ c.op \in [1 .. m -> Ops]
    BY <1>2, <1>3, <1>4, Fields DEF Typed
  <2>2. 1 .. k = 1 .. m
    BY <2>1
  <2> QED BY <1>2, <1>4, <2>2
<1>6. ir \in (1 .. n) \cup {Nil}
  <2>1. c.head \in (1 .. n) \cup {Nil}
    BY <1>2, <1>3, Reached
  <2> QED BY <2>1 DEF Init
<1>7. Whole(m, c, ir, 1 .. n)
  BY <1>2, <1>3, <1>6 DEF Whole
<1> QED BY <1>4, <1>5, <1>7 DEF Kept

\* A list that holds its nodes can be walked from both ends.
LEMMA KeptLinked == ASSUME NEW m \in Nat, Typed(m), Kept(m) PROVE Linked
<1>1. PICK S : Whole(m, c, ir, S)
  BY DEF Kept
<1>2. c \in Lists(m) /\ Holds(m, c, S) /\ Labelled(c, S)
  BY <1>1 DEF Whole, Typed
<1>3. PICK k, w : Ring(m, c, k, w)
  BY <1>2 DEF Holds
<1>4. S \subseteq 1 .. m /\ InChain(c) = S
  BY <1>2, Reached
<1>5. k \in Nat /\ c.head = w[1]
  BY <1>2, <1>3, RingLinks
<1>6. Len(Chain(c)) = k /\ \A i \in 1 .. k : Chain(c)[i] = w[i]
  <2>1. \A x \in 1 .. k + 1 : /\ Len(From(c, w[x])) = k + 1 - x
                              /\ \A h \in 1 .. k + 1 - x : From(c, w[x])[h] = w[x + h - 1]
    <3>1. c \in Lists(m) /\ Ring(m, c, k, w)
      BY <1>2, <1>3
    <3>2. ASSUME NEW x \in 1 .. k + 1
          PROVE /\ Len(From(c, w[x])) = k + 1 - x
                /\ \A h \in 1 .. k + 1 - x : From(c, w[x])[h] = w[x + h - 1]
      BY <3>1, FromRing
    <3> QED BY <3>2
  <2>2. 1 \in 1 .. k + 1 /\ k + 1 - 1 = k /\ \A i \in 1 .. k : 1 + i - 1 = i
    BY <1>5
  <2>3. /\ Len(From(c, w[1])) = k + 1 - 1
        /\ \A h \in 1 .. k + 1 - 1 : From(c, w[1])[h] = w[1 + h - 1]
    BY <2>1, <2>2
  <2> QED BY <1>5, <2>2, <2>3 DEF Chain
<1>7. Len(Back(c, c.tail)) = k /\ \A i \in 1 .. k : Back(c, c.tail)[i] = w[k + 1 - i]
  BY <1>2, <1>3, BackRing
<1>8. \A i \in 1 .. k : Back(c, c.tail)[i] = Chain(c)[k + 1 - i]
  <2>1. \A i \in 1 .. k : k + 1 - i \in 1 .. k
    BY <1>5
  <2> QED BY <1>6, <1>7, <2>1
<1>9. \A x \in S : BCIR_UsesLabel(c.op[x]) => c.op[x].to \in S /\ Kind(c, c.op[x].to) = "label"
  <2>1. \A x \in S : x # Nil
    BY <1>4 DEF Nil
  <2> QED BY <1>2, <2>1 DEF Labelled, Kind
<1> QED BY <1>4, <1>6, <1>7, <1>8, <1>9 DEF Linked

\* The list stays in order, and every jump in it leads to a label in it, through
\* all passes, unless a GOTO leaves hidden variables (BIRB_InsertBefore).
THEOREM ListInOrder == ASSUME NothingHidden PROVE Spec => []Linked
<1> DEFINE I == \E m \in Nat : Typed(m) /\ Kept(m)
<1>1. Init => I
  BY InitKept
<1>2. I /\ [Next]_vars => I'
  <2> SUFFICES ASSUME I, [Next]_vars PROVE I'
    OBVIOUS
  <2>1. PICK m \in Nat : Typed(m) /\ Kept(m)
    OBVIOUS
  <2>2. Typed(m)' /\ Kept(m)'
    BY <2>1, NextType, KeptStep
  <2> QED BY <2>2
<1>3. I => Linked
  BY KeptLinked
<1> QED BY <1>1, <1>2, <1>3, PTL DEF Spec
=============================================================================
