---------------------------- MODULE FilesProofs -----------------------------
(***************************************************************************)
(* Every file system is started as often as it is in the mount table, and  *)
(* an open file belongs to one that runs, for every number of slots,       *)
(* descriptors, names and file systems.  The slots implement the map of    *)
(* Namespace if no name begins with another one.                           *)
(***************************************************************************)
EXTENDS Files, FiniteSetTheorems, SequenceTheorems, WellFoundedInduction, TLAPS

\* The slots that point to a file system.
Where(v) == {i \in Slots : vfstab[i] = v}

TypeOK ==
  /\ mounttab \in [Slots -> Names \cup {NoName}] /\ vfstab \in [Slots -> Systems \cup {NoFs}]
  /\ live \in [Systems -> Nat] /\ filetab \in [Fds -> Systems \cup {NoFs, Root}]

\* A slot without a name points to no file system that was told to start.
FreeUnhooked == \A i \in Slots : mounttab[i] = NoName => vfstab[i] \notin Hooked

Counted == \A v \in Hooked : live[v] = Cardinality(Where(v))

\* The file system of an open file is in the table under a name.
OpenMounted ==
  \A fd \in Fds : filetab[fd] \in Hooked => Where(filetab[fd]) # {}

IInv == TypeOK /\ FreeUnhooked /\ Counted /\ OpenMounted

-----------------------------------------------------------------------------
(* The lowest of some slots *)

Less == {ss \in Nat \X Nat : ss[1] < ss[2]}

\* Every set of slots that is not empty has a lowest one.
LEMMA LowestIn ==
  ASSUME NEW S \in SUBSET Nat, S # {}
  PROVE  Lowest(S) \in S
<1>1. IsWellFoundedOn(Less, Nat)
  BY NatLessThanWellFounded DEF Less, OpToRel
<1>2. PICK i \in S : \A j \in S : <<j, i>> \notin Less
  BY <1>1, WFMin
<1>3. \A j \in S : i <= j
  <2>1. TAKE j \in S
  <2>2. <<j, i>> \in Nat \X Nat /\ <<j, i>> \notin Less /\ i \in Nat /\ j \in Nat
    BY <1>2
  <2>3. ~ (j < i)
    BY <2>2 DEF Less
  <2> QED BY <2>2, <2>3
<1> QED BY <1>3 DEF Lowest

\* The slot of a mount is one that holds the name or that is free.
LEMMA SlotsForProperties ==
  ASSUME NEW name, NEW i \in SlotsFor(name)
  PROVE  i \in Slots /\ (i \in Holding(name) \/ mounttab[i] = NoName)
<1> DEFINE free == {j \in Slots : mounttab[j] = NoName}
           lowHeld == Lowest(Holding(name))
           lowFree == Lowest(free)
<1>1. i \in IF Holding(name) # {} THEN {lowHeld} ELSE IF free # {} THEN {lowFree} ELSE {}
  BY DEF SlotsFor
<1>2. Holding(name) \in SUBSET Nat /\ free \in SUBSET Nat /\ Holding(name) \subseteq Slots
  BY FilesAssumption DEF Holding
<1>3. /\ Holding(name) # {} => lowHeld \in Holding(name)
      /\ free # {} => lowFree \in free
  BY <1>2, LowestIn
<1> HIDE DEF lowHeld, lowFree
<1> QED BY <1>1, <1>2, <1>3

-----------------------------------------------------------------------------
(* A slot is given another file system, or none *)

\* What a change of a slot does to the counts.
LEMMA SlotChanged ==
  ASSUME IInv, NEW i \in Slots, NEW w \in Systems \cup {NoFs},
         vfstab' = [vfstab EXCEPT ![i] = w],
         live' = IF w \in Hooked THEN [Stopped(vfstab[i]) EXCEPT ![w] = @ + 1] ELSE Stopped(vfstab[i])
  PROVE  Counted' /\ live' \in [Systems -> Nat]
<1>1. /\ vfstab \in [Slots -> Systems \cup {NoFs}] /\ live \in [Systems -> Nat] /\ Hooked \subseteq Systems
      /\ NoFs \notin Hooked
  BY FilesAssumption DEF IInv, TypeOK
<1>2. \A v : IsFiniteSet(Where(v)) /\ Cardinality(Where(v)) \in Nat
  <2>1. TAKE v
  <2>2. Where(v) \in SUBSET Slots /\ IsFiniteSet(Slots)
    BY FilesAssumption DEF Where
  <2> QED BY <2>2, FS_Subset, FS_CardinalityType
<1> DEFINE x == vfstab[i]
<1>3. \A v : Where(v)' = IF v = w THEN Where(v) \cup {i} ELSE Where(v) \ {i}
  BY <1>1 DEF Where
<1>4. \A v : i \in Where(v) <=> v = x
  BY DEF Where
<1>5. ASSUME NEW v
      PROVE  Cardinality(Where(v)') = IF v = w THEN IF v = x THEN Cardinality(Where(v)) ELSE Cardinality(Where(v)) + 1
                                      ELSE IF v = x THEN Cardinality(Where(v)) - 1 ELSE Cardinality(Where(v))
  <2>1. CASE v = w
    BY <2>1, <1>2, <1>3, <1>4, FS_AddElement
  <2>2. CASE v # w
    BY <2>2, <1>2, <1>3, <1>4, FS_RemoveElement
  <2> QED BY <2>1, <2>2
<1>6. \A v \in Hooked : live[v] = Cardinality(Where(v)) /\ (v = x => live[v] > 0)
  <2>1. TAKE v \in Hooked
  <2>2. live[v] = Cardinality(Where(v))
    BY DEF IInv, Counted
  <2>3. v = x => Where(v) # {}
    BY <1>4
  <2>4. v = x => Cardinality(Where(v)) # 0
    BY <2>3, <1>2, FS_EmptySet
  <2> QED BY <2>2, <2>4, <1>2
<1> DEFINE l == Stopped(x)
<1>7. l \in [Systems -> Nat] /\ \A v \in Hooked : l[v] = IF v = x THEN live[v] - 1 ELSE live[v]
  <2>1. CASE x \in Hooked
    <3>1. l = [live EXCEPT ![x] = @ - 1] /\ live[x] - 1 \in Nat
      BY <2>1, <1>1, <1>6 DEF Stopped
    <3> QED BY <3>1, <2>1, <1>1
  <2>2. CASE x \notin Hooked
    BY <2>2, <1>1 DEF Stopped
  <2> QED BY <2>1, <2>2
<1> HIDE DEF l
<1>8. live' \in [Systems -> Nat]
      /\ \A v \in Hooked : live'[v] = IF v = w THEN l[v] + 1 ELSE l[v]
  <2>1. CASE w \in Hooked
    <3>1. live' = [l EXCEPT ![w] = @ + 1] /\ l[w] + 1 \in Nat
      BY <2>1, <1>1, <1>7 DEF l
    <3> QED BY <3>1, <2>1, <1>1, <1>7
  <2>2. CASE w \notin Hooked
    BY <2>2, <1>7 DEF l
  <2> QED BY <2>1, <2>2
<1> HIDE DEF x
<1>9. ASSUME NEW v \in Hooked PROVE live'[v] = Cardinality(Where(v)')
  <2>1. live[v] \in Nat /\ live[v] = Cardinality(Where(v))
    BY <1>1, <1>6
  <2>2. live'[v] = IF v = w THEN IF v = x THEN live[v] - 1 + 1 ELSE live[v] + 1
                            ELSE IF v = x THEN live[v] - 1 ELSE live[v]
    BY <1>7, <1>8
  <2> QED BY <2>1, <2>2, <1>5
<1> QED BY <1>8, <1>9 DEF Counted

\* The open files of other names keep their file system.
LEMMA OthersOpen ==
  ASSUME IInv, NEW name, Idle(name), NEW i \in Slots, i \in Holding(name) \/ mounttab[i] = NoName,
         NEW w, vfstab' = [vfstab EXCEPT ![i] = w], filetab' = filetab
  PROVE  OpenMounted'
<1>1. SUFFICES ASSUME NEW fd \in Fds, filetab[fd] \in Hooked PROVE Where(filetab[fd])' # {}
  BY DEF OpenMounted
<1>2. PICK j \in Slots : vfstab[j] = filetab[fd]
  BY <1>1 DEF IInv, OpenMounted, Where
<1>3. filetab[fd] # NoFs
  BY <1>1, FilesAssumption
<1>4. i # j
  <2>1. SUFFICES ASSUME i = j PROVE FALSE
    OBVIOUS
  <2>2. mounttab[i] # NoName
    BY <2>1, <1>1, <1>2 DEF IInv, FreeUnhooked
  <2>3. i \in Holding(name)
    BY <2>2
  <2> QED BY <2>1, <2>3, <1>2, <1>3 DEF Idle
<1>5. vfstab'[j] = vfstab[j]
  BY <1>4 DEF IInv, TypeOK
<1> QED BY <1>2, <1>5 DEF Where

\* mount: the slot is one of the name or a free one, and the new file system
\* has started or leaves it empty.
LEMMA MountStep ==
  ASSUME IInv, NEW name \in Names, NEW v \in Systems, Mount(name, v)
  PROVE  IInv'
<1>1. Idle(name) /\ filetab' = filetab
  BY DEF Mount
<1>2. CASE name \in LongNames \/ SlotsFor(name) = {}
  <2>1. UNCHANGED <<mounttab, vfstab, live>>
    BY <1>2 DEF Mount
  <2> QED BY <1>1, <2>1 DEF IInv, TypeOK, FreeUnhooked, Counted, OpenMounted, Where
<1>3. CASE ~ (name \in LongNames \/ SlotsFor(name) = {})
  <2>1. PICK i \in SlotsFor(name), starts \in {TRUE, v \notin Hooked} :
          /\ vfstab' = [vfstab EXCEPT ![i] = IF starts THEN v ELSE NoFs]
          /\ mounttab' = [mounttab EXCEPT ![i] = IF starts THEN name ELSE NoName]
          /\ live' = IF starts THEN Started(Stopped(vfstab[i]), v) ELSE Stopped(vfstab[i])
    BY <1>3 DEF Mount
  <2>2. i \in Slots /\ (i \in Holding(name) \/ mounttab[i] = NoName)
    BY SlotsForProperties
  <2> DEFINE w == IF starts THEN v ELSE NoFs
  <2>3. /\ w \in Systems \cup {NoFs} /\ NoFs \notin Hooked
        /\ vfstab' = [vfstab EXCEPT ![i] = w]
        /\ live' = IF w \in Hooked THEN [Stopped(vfstab[i]) EXCEPT ![w] = @ + 1] ELSE Stopped(vfstab[i])
    BY <2>1, FilesAssumption DEF Started
  <2>4. mounttab'[i] = NoName => w \notin Hooked
    BY <2>1, <2>2, <2>3, FilesAssumption DEF IInv, TypeOK
  <2>5. mounttab' \in [Slots -> Names \cup {NoName}]
    BY <2>1 DEF IInv, TypeOK
  <2> HIDE DEF w
  <2>6. Counted' /\ live' \in [Systems -> Nat]
    BY <2>2, <2>3, SlotChanged
  <2>7. OpenMounted'
    BY <1>1, <2>2, <2>3, OthersOpen
  <2>8. TypeOK'
    BY <1>1, <2>3, <2>5, <2>6 DEF IInv, TypeOK
  <2>9. FreeUnhooked'
    <3>1. \A j \in Slots \ {i} : mounttab'[j] = mounttab[j] /\ vfstab'[j] = vfstab[j]
      BY <2>1, <2>3 DEF IInv, TypeOK
    <3>2. vfstab'[i] = w
      BY <2>2, <2>3 DEF IInv, TypeOK
    <3> QED BY <3>1, <3>2, <2>4 DEF IInv, FreeUnhooked
  <2> QED BY <2>6, <2>7, <2>8, <2>9 DEF IInv
<1> QED BY <1>2, <1>3

\* umount: the file system is stopped and its slot free.
LEMMA UmountStep ==
  ASSUME IInv, NEW name \in Names, Umount(name)
  PROVE  IInv'
<1>1. Idle(name) /\ filetab' = filetab
  BY DEF Umount
<1>2. CASE Holding(name) = {}
  <2>1. UNCHANGED <<mounttab, vfstab, live>>
    BY <1>2 DEF Umount
  <2> QED BY <1>1, <2>1 DEF IInv, TypeOK, FreeUnhooked, Counted, OpenMounted, Where
<1>3. CASE Holding(name) # {}
  <2> DEFINE i == Lowest(Holding(name))
             w == IF vfstab[i] \in Hooked THEN NoFs ELSE vfstab[i]
  <2>1. i \in Holding(name) /\ i \in Slots
    <3>1. Holding(name) \in SUBSET Nat /\ Holding(name) \subseteq Slots
      BY FilesAssumption DEF Holding
    <3> QED BY <3>1, <1>3, LowestIn
  <2>2. /\ live' = Stopped(vfstab[i]) /\ mounttab' = [mounttab EXCEPT ![i] = NoName]
        /\ vfstab' = [vfstab EXCEPT ![i] = IF @ \in Hooked THEN NoFs ELSE @]
    BY <1>3 DEF Umount
  <2> HIDE DEF i
  <2>3. w \in Systems \cup {NoFs} /\ w \notin Hooked /\ vfstab' = [vfstab EXCEPT ![i] = w]
    BY <2>1, <2>2, FilesAssumption DEF IInv, TypeOK
  <2> HIDE DEF w
  <2>4. Counted' /\ live' \in [Systems -> Nat]
    BY <2>1, <2>2, <2>3, SlotChanged
  <2>5. OpenMounted'
    BY <1>1, <2>1, <2>3, OthersOpen
  <2>6. TypeOK'
    BY <1>1, <2>2, <2>3, <2>4 DEF IInv, TypeOK
  <2>7. FreeUnhooked'
    <3>1. \A j \in Slots \ {i} : mounttab'[j] = mounttab[j] /\ vfstab'[j] = vfstab[j]
      BY <2>2, <2>3 DEF IInv, TypeOK
    <3>2. vfstab'[i] = w
      BY <2>1, <2>3 DEF IInv, TypeOK
    <3> QED BY <3>1, <3>2, <2>3 DEF IInv, FreeUnhooked
  <2> QED BY <2>4, <2>5, <2>6, <2>7 DEF IInv
<1> QED BY <1>2, <1>3

\* open: the descriptor gets the file system of a slot, or the root.
LEMMA OpenStep ==
  ASSUME IInv, NEW name, NEW leaf, OpenFile(name, leaf)
  PROVE  IInv'
<1> DEFINE path == Append(name, leaf)
           i == Lowest(Holding(path))
           fd == Lowest(FreeFds)
           v == VfsFor(path)
<1>1. UNCHANGED <<mounttab, vfstab, live>>
  BY DEF OpenFile
<1>2. \/ filetab' = filetab
      \/ FreeFds # {} /\ filetab' = [filetab EXCEPT ![fd] = v]
  BY DEF OpenFile
<1>3. FreeFds \in SUBSET Nat /\ Holding(path) \in SUBSET Nat /\ Holding(path) \subseteq Slots /\ FreeFds \subseteq Fds
  BY FilesAssumption DEF FreeFds, Holding
<1>4. v = IF Holding(path) = {} THEN Root ELSE vfstab[i]
  BY DEF VfsFor
<1>5. Holding(path) # {} => i \in Slots
  BY <1>3, LowestIn
<1> HIDE DEF path, i, v
<1>6. v \in Systems \cup {NoFs, Root} /\ (v \in Hooked => Where(v) # {})
  BY <1>4, <1>5, FilesAssumption DEF IInv, TypeOK, Where
<1>7. CASE filetab' = filetab
  BY <1>1, <1>7 DEF IInv, TypeOK, FreeUnhooked, Counted, OpenMounted, Where
<1>8. CASE FreeFds # {} /\ filetab' = [filetab EXCEPT ![fd] = v]
  <2>1. fd \in Fds
    BY <1>3, <1>8, LowestIn
  <2> HIDE DEF fd
  <2>2. TypeOK'
    BY <1>1, <1>6, <1>8 DEF IInv, TypeOK
  <2>3. \A g \in Fds : filetab'[g] = filetab[g] \/ filetab'[g] = v
    BY <1>8 DEF IInv, TypeOK
  <2>4. OpenMounted'
    BY <1>1, <1>6, <2>3 DEF IInv, OpenMounted, Where
  <2> QED BY <1>1, <2>2, <2>4 DEF IInv, FreeUnhooked, Counted, Where
<1> QED BY <1>2, <1>7, <1>8

\* close: a descriptor is free.
LEMMA CloseStep ==
  ASSUME IInv, NEW fd \in Fds, CloseFile(fd)
  PROVE  IInv'
<1>1. UNCHANGED <<mounttab, vfstab, live>> /\ filetab' = [filetab EXCEPT ![fd] = NoFs]
  BY DEF CloseFile
<1>2. \A g \in Fds : filetab'[g] = filetab[g] \/ filetab'[g] = NoFs
  BY <1>1 DEF IInv, TypeOK
<1>3. NoFs \notin Hooked
  BY FilesAssumption
<1>4. OpenMounted'
  BY <1>1, <1>2, <1>3 DEF IInv, OpenMounted, Where
<1> QED BY <1>1, <1>4 DEF IInv, TypeOK, FreeUnhooked, Counted, Where

\* Before the first call the table is empty.
LEMMA InitInv == ASSUME Init PROVE IInv
<1>1. NoFs \notin Hooked /\ Hooked \subseteq Systems
  BY FilesAssumption
<1>2. TypeOK
  BY DEF Init, TypeOK
<1>3. \A i \in Slots : vfstab[i] = NoFs
  BY DEF Init
<1>4. \A v \in Hooked : Where(v) = {} /\ live[v] = 0
  BY <1>1, <1>3 DEF Init, Where
<1>5. Counted
  BY <1>4, FS_EmptySet DEF Counted
<1>6. FreeUnhooked /\ OpenMounted
  BY <1>1, <1>3 DEF Init, FreeUnhooked, OpenMounted
<1> QED BY <1>2, <1>5, <1>6 DEF IInv

\* Every call keeps the invariant.
LEMMA NextInv == ASSUME IInv, [Next]_vars PROVE IInv'
<1>1. CASE UNCHANGED vars
  BY <1>1 DEF vars, IInv, TypeOK, FreeUnhooked, Counted, OpenMounted, Where
<1>2. CASE Next
  BY <1>2, MountStep, UmountStep, OpenStep, CloseStep DEF Next
<1> QED BY <1>1, <1>2

-----------------------------------------------------------------------------
(* The theorems *)

\* The two tables and the starts agree after every call.
THEOREM TablesInOrder == Spec => []IInv
<1>1. Init => IInv
  BY InitInv
<1>2. IInv /\ [Next]_vars => IInv'
  BY NextInv
<1> QED BY <1>1, <1>2, PTL DEF Spec

\* _mount and _umount stop what they replace or give up, and start it once.
THEOREM StartsCounted == Spec => []StartsBalanced
<1>1. ASSUME IInv PROVE StartsBalanced
  <2>1. ASSUME NEW v \in Hooked PROVE {i \in Slots : mounttab[i] # NoName /\ vfstab[i] = v} = Where(v)
    BY <1>1, <2>1 DEF IInv, FreeUnhooked, Where
  <2> QED BY <1>1, <2>1 DEF IInv, Counted, StartsBalanced
<1> QED BY <1>1, TablesInOrder, PTL

\* The file system of an open file runs.
THEOREM OpenFilesRun == Spec => []OpenFilesLive
<1>1. ASSUME IInv PROVE OpenFilesLive
  <2>1. SUFFICES ASSUME NEW fd \in Fds, filetab[fd] \in Hooked PROVE live[filetab[fd]] > 0
    BY DEF OpenFilesLive
  <2> DEFINE v == filetab[fd]
  <2>2. Where(v) # {} /\ live[v] = Cardinality(Where(v))
    BY <1>1, <2>1 DEF IInv, OpenMounted, Counted
  <2>3. Where(v) \in SUBSET Slots /\ IsFiniteSet(Slots)
    BY FilesAssumption DEF Where
  <2>4. IsFiniteSet(Where(v)) /\ Cardinality(Where(v)) \in Nat
    BY <2>3, FS_Subset, FS_CardinalityType
  <2>5. Cardinality(Where(v)) # 0
    BY <2>2, <2>4, FS_EmptySet
  <2> QED BY <2>2, <2>4, <2>5
<1> QED BY <1>1, TablesInOrder, PTL

-----------------------------------------------------------------------------
(* The tables implement a map from names to file systems *)

\* No name begins with another one.
Flat == \A m, n \in Names : Begins(n, m) => m = n

\* The names that fit into a slot.
Usable == Names \ LongNames

\* A name is in one slot, and with a file system.
NamesOnce ==
  /\ \A i, j \in Slots : mounttab[i] = mounttab[j] /\ mounttab[i] # NoName => i = j
  /\ \A i \in Slots : mounttab[i] # NoName => vfstab[i] # NoFs /\ mounttab[i] \in Usable

\* The components of the names and of what follows them.
Components == Leaves \cup UNION {{name[i] : i \in DOMAIN name} : name \in Names}

\* The names are sequences of them.
LEMMA NamesTyped == Names \subseteq Seq(Components)
<1>1. SUFFICES ASSUME NEW name \in Names PROVE name \in Seq(Components)
  OBVIOUS
<1> DEFINE C == {name[i] : i \in DOMAIN name}
<1>2. name \in Seq(C)
  BY FilesAssumption
<1>3. C \subseteq Components
  BY DEF Components
<1> HIDE DEF C
<1> QED BY <1>2, <1>3, SeqMonotonic

\* What each name stands for.
at == [name \in Names |-> At(name)]

\* Two sequences that agree on their first elements begin with the same ones.
LEMMA SameBeginning ==
  ASSUME NEW S, NEW s \in Seq(S), NEW t \in Seq(S), NEW k \in 0 .. Len(s), k <= Len(t),
         \A i \in 1 .. k : s[i] = t[i]
  PROVE  SubSeq(s, 1, k) = SubSeq(t, 1, k)
<1>1. 1 \in Int /\ k \in Int /\ Len(s) \in Nat /\ Len(t) \in Nat /\ k - 1 + 1 = k
  BY LenProperties
<1>2. (\A i \in 1 .. k : s[i] \in S) /\ (\A i \in 1 .. k : t[i] \in S)
  BY <1>1, ElementOfSeq
<1>3. /\ SubSeq(s, 1, k) \in Seq(S) /\ Len(SubSeq(s, 1, k)) = IF 1 <= k THEN k - 1 + 1 ELSE 0
      /\ \A i \in 1 .. k - 1 + 1 : SubSeq(s, 1, k)[i] = s[1 + i - 1]
  BY <1>1, <1>2, SubSeqProperties
<1>4. /\ SubSeq(t, 1, k) \in Seq(S) /\ Len(SubSeq(t, 1, k)) = IF 1 <= k THEN k - 1 + 1 ELSE 0
      /\ \A i \in 1 .. k - 1 + 1 : SubSeq(t, 1, k)[i] = t[1 + i - 1]
  BY <1>1, <1>2, SubSeqProperties
<1> DEFINE a == SubSeq(s, 1, k)
           b == SubSeq(t, 1, k)
<1>5. a \in Seq(S) /\ b \in Seq(S) /\ Len(a) = Len(b) /\ Len(a) = k
  BY <1>1, <1>3, <1>4
<1>6. \A i \in 1 .. k : a[i] = s[i] /\ b[i] = t[i]
  BY <1>1, <1>3, <1>4
<1> HIDE DEF a, b
<1>7. a = b
  BY <1>5, <1>6, SeqEqual
<1> QED BY <1>7 DEF a, b

\* The slots of a name are those that hold just that name.
LEMMA HoldingName ==
  ASSUME Flat, TypeOK, NEW name \in Names
  PROVE  Holding(name) = {i \in Slots : mounttab[i] = name}
<1>1. name \in Seq(Components) /\ name # NoName
  BY FilesAssumption, NamesTyped
<1>2. Begins(name, name)
  BY <1>1 DEF Begins
<1>3. \A i \in Slots : mounttab[i] \in Names \cup {NoName}
  BY DEF TypeOK
<1> QED BY <1>1, <1>2, <1>3 DEF Holding, Flat

\* And so are those of a path that goes on after the name.
LEMMA HoldingPath ==
  ASSUME Flat, TypeOK, NEW name \in Names, NEW leaf \in Leaves
  PROVE  Holding(Append(name, leaf)) = {i \in Slots : mounttab[i] = name}
<1> DEFINE path == Append(name, leaf)
<1>1. name \in Seq(Components) /\ leaf \in Components /\ name # NoName
  BY FilesAssumption, NamesTyped DEF Components
<1>2. /\ path \in Seq(Components) /\ Len(path) = Len(name) + 1 /\ Len(name) \in Nat
      /\ \A i \in 1 .. Len(name) : path[i] = name[i]
      /\ path[Len(name) + 1] = leaf
  <2>1. /\ path \in Seq(Components) /\ Len(path) = Len(name) + 1
        /\ \A i \in 1 .. Len(name) : path[i] = name[i]
        /\ path[Len(name) + 1] = leaf
    BY <1>1, AppendProperties
  <2>2. Len(name) \in Nat
    BY <1>1, LenProperties
  <2> QED BY <2>1, <2>2
<1> HIDE DEF path
<1>6. SubSeq(path, 1, Len(name)) = name
  <2>1. SubSeq(path, 1, Len(name)) = SubSeq(name, 1, Len(name))
    BY <1>1, <1>2, SameBeginning
  <2> QED BY <1>1, <2>1, SubSeqFull
<1>3. Begins(path, name)
  BY <1>1, <1>2, <1>6 DEF Begins
<1>4. ASSUME NEW m \in Names, Begins(path, m) PROVE m = name
  <2>1. m \in Seq(Components) /\ Len(m) <= Len(path) /\ SubSeq(path, 1, Len(m)) = m
    BY <1>4, NamesTyped DEF Begins
  <2>2. CASE Len(m) <= Len(name)
    <3>1. SubSeq(name, 1, Len(m)) = m
      <4>1. Len(m) \in 0 .. Len(name) /\ Len(m) <= Len(path) /\ \A i \in 1 .. Len(m) : name[i] = path[i]
        BY <1>2, <2>1, <2>2
      <4> QED BY <1>1, <1>2, <2>1, <4>1, SameBeginning
    <3> QED BY <1>4, <2>2, <3>1 DEF Flat, Begins
  <2>3. CASE Len(m) = Len(name) + 1
    <3>1. m = path
      BY <1>2, <2>1, <2>3, SubSeqFull
    <3>2. Begins(m, name)
      BY <1>3, <3>1
    <3> QED BY <1>4, <3>2 DEF Flat
  <2>4. Len(m) \in Nat
    BY <2>1, LenProperties
  <2>5. Len(m) <= Len(name) \/ Len(m) = Len(name) + 1
    <3>1. Len(m) <= Len(name) + 1 /\ Len(name) \in Nat
      BY <1>2, <2>1
    <3> QED BY <2>4, <3>1
  <2> QED BY <2>2, <2>3, <2>5
<1>5. \A i \in Slots : mounttab[i] \in Names \cup {NoName}
  BY DEF TypeOK
<1> QED BY <1>1, <1>3, <1>4, <1>5 DEF Holding, path

\* A name takes its own slot again, else a free one if there is one.
LEMMA SlotsForName ==
  ASSUME NEW name
  PROVE  /\ \A i \in SlotsFor(name) : Holding(name) # {} => i \in Holding(name)
         /\ SlotsFor(name) = {} => Holding(name) = {} /\ \A i \in Slots : mounttab[i] # NoName
<1> DEFINE free == {j \in Slots : mounttab[j] = NoName}
           lowStop == Lowest(Holding(name))
           lowFree == Lowest(free)
<1>1. SlotsFor(name) = IF Holding(name) # {} THEN {lowStop} ELSE IF free # {} THEN {lowFree} ELSE {}
  BY DEF SlotsFor
<1>2. Holding(name) \in SUBSET Nat
  BY FilesAssumption DEF Holding
<1>3. Holding(name) # {} => lowStop \in Holding(name)
  BY <1>2, LowestIn
<1> HIDE DEF lowStop, lowFree
<1>4. CASE Holding(name) # {}
  BY <1>1, <1>3, <1>4
<1>5. CASE Holding(name) = {} /\ free # {}
  BY <1>1, <1>5
<1>6. CASE Holding(name) = {} /\ free = {}
  BY <1>1, <1>6
<1> QED BY <1>4, <1>5, <1>6

\* What a name stands for is in its slot.
LEMMA AtSlot ==
  ASSUME NEW i \in Slots, NEW name, mounttab[i] = name,
         \A j \in Slots : mounttab[j] = name => j = i
  PROVE  At(name) = vfstab[i]
<1>1. {j \in Slots : mounttab[j] = name} = {i}
  OBVIOUS
<1>2. {i} \in SUBSET Nat
  BY FilesAssumption
<1>3. Lowest({i}) = i
  BY <1>2, LowestIn
<1> QED BY <1>1, <1>3 DEF At

\* A name without a slot stands for nothing.
LEMMA AtNone ==
  ASSUME NEW name, \A j \in Slots : mounttab[j] # name
  PROVE  At(name) = NoFs
BY DEF At

\* A slot of a name, or a free one if the name has none, is given to the name
\* or freed: no other name stands for anything else than before.
LEMMA SlotRenamed ==
  ASSUME TypeOK, NamesOnce, NEW name \in Usable, NEW i \in Slots,
         \/ mounttab[i] = name
         \/ mounttab[i] = NoName /\ \A j \in Slots : mounttab[j] # name,
         NEW m \in {name, NoName}, NEW w \in Systems \cup {NoFs}, m = name => w # NoFs,
         mounttab' = [mounttab EXCEPT ![i] = m], vfstab' = [vfstab EXCEPT ![i] = w]
  PROVE  NamesOnce' /\ at' = [at EXCEPT ![name] = IF m = name THEN w ELSE NoFs]
<1>1. \A j \in Slots : /\ mounttab'[j] = IF j = i THEN m ELSE mounttab[j]
                       /\ vfstab'[j] = IF j = i THEN w ELSE vfstab[j]
  BY DEF TypeOK
<1>2. name \in Names /\ name # NoName /\ \A n \in Names : n # NoName
  BY FilesAssumption DEF Usable
<1>3. \A j \in Slots : mounttab[j] = name => j = i
  BY <1>2 DEF NamesOnce
<1>4. NamesOnce'
  <2>1. ASSUME NEW j \in Slots, NEW k \in Slots, mounttab'[j] = mounttab'[k], mounttab'[j] # NoName
        PROVE  j = k
    BY <1>1, <1>3, <2>1 DEF NamesOnce
  <2>2. ASSUME NEW j \in Slots, mounttab'[j] # NoName PROVE vfstab'[j] # NoFs /\ mounttab'[j] \in Usable
    BY <1>1, <2>2 DEF NamesOnce
  <2>3. Usable' = Usable
    BY DEF Usable
  <2> QED BY <2>1, <2>2, <2>3 DEF NamesOnce
<1>5. ASSUME NEW n \in Names, n # name PROVE At(n)' = At(n)
  <2>1. \A j \in Slots : mounttab'[j] = n <=> mounttab[j] = n
    BY <1>1, <1>2, <1>5
  <2>2. CASE \E j \in Slots : mounttab[j] = n
    <3>1. PICK j \in Slots : mounttab[j] = n
      BY <2>2
    <3>2. \A k \in Slots : mounttab[k] = n => k = j
      BY <3>1, <1>2 DEF NamesOnce
    <3>3. At(n) = vfstab[j]
      BY <3>1, <3>2, AtSlot
    <3>4. At(n)' = vfstab'[j]
      <4>1. {k \in Slots : mounttab'[k] = n} = {j} /\ {k \in Slots : mounttab[k] = n} = {j}
        BY <2>1, <3>1, <3>2
      <4>2. {j} \in SUBSET Nat
        BY FilesAssumption
      <4>3. Lowest({j}) = j
        BY <4>2, LowestIn
      <4> QED BY <4>1, <4>3 DEF At
    <3>5. j # i
      BY <1>2, <1>5, <3>1
    <3> QED BY <1>1, <3>3, <3>4, <3>5
  <2>3. CASE ~ \E j \in Slots : mounttab[j] = n
    BY <2>1, <2>3 DEF At
  <2> QED BY <2>2, <2>3
<1>6. At(name)' = IF m = name THEN w ELSE NoFs
  <2>1. CASE m = name
    <3>1. {k \in Slots : mounttab'[k] = name} = {i}
      BY <1>1, <1>3, <2>1
    <3>2. {i} \in SUBSET Nat
      BY FilesAssumption
    <3>3. Lowest({i}) = i
      BY <3>2, LowestIn
    <3> QED BY <1>1, <2>1, <3>1, <3>3 DEF At
  <2>2. CASE m # name
    <3>1. {k \in Slots : mounttab'[k] = name} = {}
      BY <1>1, <1>2, <1>3, <2>2
    <3> QED BY <2>2, <3>1 DEF At
  <2> QED BY <2>1, <2>2
<1>7. at' = [n \in Names |-> At(n)']
  BY DEF at
<1>8. at' = [at EXCEPT ![name] = IF m = name THEN w ELSE NoFs]
  BY <1>2, <1>5, <1>6, <1>7 DEF at
<1> QED BY <1>4, <1>8

\* The map counts as the tables do.
LEMMA SameCount == \A S : Table!Cardinality(S) = Cardinality(S)
BY DEF Cardinality, Table!Cardinality, IsFiniteSet, Table!IsFiniteSet

\* As many names stand for something as there are slots in use.
LEMMA SlotsInUse ==
  ASSUME NamesOnce
  PROVE  /\ IsFiniteSet(Table!Mounted)
         /\ Table!Mounted = {n \in Names : \E i \in Slots : mounttab[i] = n}
         /\ Cardinality(Table!Mounted) <= Cardinality(Slots)
         /\ Cardinality(Table!Mounted) = Cardinality(Slots) <=> \A i \in Slots : mounttab[i] # NoName
<1> DEFINE U == {i \in Slots : mounttab[i] # NoName}
           T == {n \in Names : \E i \in Slots : mounttab[i] = n}
           g == [i \in U |-> mounttab[i]]
<1>1. \A n \in Names : n # NoName
  BY FilesAssumption
<1>2. ASSUME NEW n \in Names PROVE At(n) # NoFs <=> \E i \in Slots : mounttab[i] = n
  <2>1. CASE \E i \in Slots : mounttab[i] = n
    <3>1. PICK i \in Slots : mounttab[i] = n
      BY <2>1
    <3>2. \A k \in Slots : mounttab[k] = n => k = i
      BY <1>1, <3>1 DEF NamesOnce
    <3>3. At(n) = vfstab[i]
      BY <3>1, <3>2, AtSlot
    <3> QED BY <1>1, <3>1, <3>3 DEF NamesOnce
  <2>2. CASE ~ \E i \in Slots : mounttab[i] = n
    BY <2>2, AtNone
  <2> QED BY <2>1, <2>2
<1>3. Table!Mounted = T
  BY <1>2 DEF Table!Mounted
<1>4. g \in [U -> T]
  BY DEF NamesOnce, Usable
<1>5. g \in Injection(U, T)
  BY <1>4 DEF NamesOnce, Injection, IsInjective
<1>6. g \in Surjection(U, T)
  BY <1>1, <1>4 DEF Surjection
<1>7. ExistsBijection(U, T)
  BY <1>5, <1>6 DEF ExistsBijection, Bijection
<1>8. IsFiniteSet(Slots) /\ U \in SUBSET Slots
  BY FilesAssumption
<1>9. /\ IsFiniteSet(U) /\ Cardinality(U) <= Cardinality(Slots)
      /\ Cardinality(Slots) = Cardinality(U) => Slots = U
  BY <1>8, FS_Subset
<1>10. IsFiniteSet(T) /\ Cardinality(T) = Cardinality(U)
  BY <1>7, <1>9, FS_Bijection
<1>11. Slots = U <=> \A i \in Slots : mounttab[i] # NoName
  OBVIOUS
<1> HIDE DEF U, T
<1>12. Cardinality(T) = Cardinality(Slots) <=> \A i \in Slots : mounttab[i] # NoName
  BY <1>9, <1>10, <1>11
<1>13. Table!Mounted = T /\ IsFiniteSet(T) /\ Cardinality(T) <= Cardinality(Slots)
  BY <1>3, <1>9, <1>10
<1> QED BY <1>12, <1>13 DEF T

\* Before the first call no name stands for anything.
LEMMA InitMaps == ASSUME Init PROVE NamesOnce /\ Table!Init
<1>1. \A i \in Slots : mounttab[i] = NoName
  BY DEF Init
<1>2. \A n \in Names : n # NoName
  BY FilesAssumption
<1>3. \A n \in Names : At(n) = NoFs
  BY <1>1, <1>2, AtNone
<1> QED BY <1>1, <1>3 DEF Init, NamesOnce, Table!Init, Ok, Table!Ok

\* mount: a new name finds a free slot if there are fewer names than slots, and
\* is turned down otherwise.
LEMMA MountMaps ==
  ASSUME Flat, TypeOK, NamesOnce, NEW name \in Names, NEW v \in Systems, Mount(name, v)
  PROVE  NamesOnce' /\ Table!Next
<1>0. call' = <<"mount", name, v>>
  BY DEF Mount
<1>1. Holding(name) = {j \in Slots : mounttab[j] = name}
  BY HoldingName
<1>2. CASE name \in LongNames \/ SlotsFor(name) = {}
  <2>1. UNCHANGED <<mounttab, vfstab>> /\ ret' = Failed
    BY <1>2 DEF Mount
  <2>2. NamesOnce' /\ UNCHANGED at
    BY <2>1 DEF NamesOnce, at, At, Usable
  <2>3. Table!Refused(name)
    <3>1. CASE name \in LongNames
      BY <3>1 DEF Table!Refused
    <3>2. CASE SlotsFor(name) = {}
      <4>1. (\A j \in Slots : mounttab[j] # name) /\ \A j \in Slots : mounttab[j] # NoName
        BY <1>1, <3>2, SlotsForName
      <4>2. name \notin Table!Mounted /\ Cardinality(Table!Mounted) = Cardinality(Slots)
        BY <4>1, SlotsInUse
      <4> QED BY <4>2, SameCount DEF Table!Refused
    <3> QED BY <1>2, <3>1, <3>2
  <2>4. Table!Mount(name, v)
    BY <1>0, <2>1, <2>2, <2>3 DEF Table!Mount, at, Failed, Table!Failed
  <2> QED BY <2>2, <2>4 DEF Table!Next
<1>3. CASE name \notin LongNames /\ SlotsFor(name) # {}
  <2>1. PICK i \in SlotsFor(name), starts \in {TRUE, v \notin Hooked} :
          /\ vfstab' = [vfstab EXCEPT ![i] = IF starts THEN v ELSE NoFs]
          /\ mounttab' = [mounttab EXCEPT ![i] = IF starts THEN name ELSE NoName]
          /\ ret' = IF starts THEN Ok ELSE Failed
    BY <1>3 DEF Mount
  <2> DEFINE m == IF starts THEN name ELSE NoName
             w == IF starts THEN v ELSE NoFs
  <2>2. /\ name \in Usable /\ name # NoName /\ v # NoFs /\ m \in {name, NoName}
        /\ w \in Systems \cup {NoFs} /\ (m = name => w # NoFs) /\ (m = name <=> starts)
    BY <1>3, FilesAssumption DEF Usable
  <2>4. i \in Slots /\ (i \in Holding(name) \/ mounttab[i] = NoName)
    BY SlotsForProperties
  <2>5. Holding(name) # {} => i \in Holding(name)
    BY SlotsForName
  <2>6. \/ mounttab[i] = name
        \/ mounttab[i] = NoName /\ \A j \in Slots : mounttab[j] # name
    BY <1>1, <2>4, <2>5
  <2>7. mounttab' = [mounttab EXCEPT ![i] = m] /\ vfstab' = [vfstab EXCEPT ![i] = w]
    BY <2>1
  <2> HIDE DEF m, w
  <2>8. NamesOnce' /\ at' = [at EXCEPT ![name] = IF m = name THEN w ELSE NoFs]
    BY <2>2, <2>4, <2>6, <2>7, SlotRenamed
  <2>9. ~ Table!Refused(name)
    <3>1. name \in Table!Mounted \/ Cardinality(Table!Mounted) # Cardinality(Slots)
      BY <2>2, <2>4, <2>6, SlotsInUse DEF Usable
    <3> QED BY <1>3, <3>1, SameCount DEF Table!Refused
  <2>10. CASE starts
    <3>1. at' = [at EXCEPT ![name] = v] /\ ret' = Ok
      BY <2>1, <2>2, <2>8, <2>10 DEF w
    <3>2. Table!Mount(name, v)
      BY <1>0, <2>9, <3>1 DEF Table!Mount, at, Ok, Table!Ok
    <3> QED BY <2>8, <3>2 DEF Table!Next
  <2>11. CASE ~ starts
    <3>1. at' = [at EXCEPT ![name] = NoFs] /\ ret' = Failed /\ v \in Hooked
      BY <2>1, <2>2, <2>8, <2>11
    <3>2. Table!Mount(name, v)
      BY <1>0, <2>9, <3>1 DEF Table!Mount, at, Failed, Table!Failed
    <3> QED BY <2>8, <3>2 DEF Table!Next
  <2> QED BY <2>10, <2>11
<1> QED BY <1>2, <1>3

\* umount: a name that has no slot stands for nothing.
LEMMA UmountMaps ==
  ASSUME Flat, TypeOK, NamesOnce, NEW name \in Names, Umount(name)
  PROVE  NamesOnce' /\ Table!Next
<1>0. call' = <<"umount", name>>
  BY DEF Umount
<1>1. Holding(name) = {j \in Slots : mounttab[j] = name}
  BY HoldingName
<1>2. CASE Holding(name) = {}
  <2>1. UNCHANGED <<mounttab, vfstab>> /\ ret' = Failed
    BY <1>2 DEF Umount
  <2>2. NamesOnce' /\ UNCHANGED at
    BY <2>1 DEF NamesOnce, at, At, Usable
  <2>3. name \notin Table!Mounted
    BY <1>1, <1>2, SlotsInUse
  <2>4. Table!Umount(name)
    BY <1>0, <2>1, <2>2, <2>3 DEF Table!Umount, at, Failed, Table!Failed
  <2> QED BY <2>2, <2>4 DEF Table!Next
<1>3. CASE Holding(name) # {}
  <2> DEFINE i == Lowest(Holding(name))
             w == IF vfstab[i] \in Hooked THEN NoFs ELSE vfstab[i]
  <2>1. i \in Slots /\ mounttab[i] = name
    <3>1. Holding(name) \in SUBSET Nat
      BY FilesAssumption DEF Holding
    <3>2. i \in Holding(name)
      BY <3>1, <1>3, LowestIn
    <3> QED BY <1>1, <3>2
  <2>2. /\ mounttab' = [mounttab EXCEPT ![i] = NoName] /\ ret' = Ok
        /\ vfstab' = [vfstab EXCEPT ![i] = IF @ \in Hooked THEN NoFs ELSE @]
    BY <1>3 DEF Umount
  <2> HIDE DEF i
  <2>3. w \in Systems \cup {NoFs} /\ vfstab' = [vfstab EXCEPT ![i] = w]
    BY <2>1, <2>2 DEF TypeOK
  <2> HIDE DEF w
  <2>4. name # NoName /\ name \in Usable
    BY <2>1, FilesAssumption DEF NamesOnce
  <2>5. NamesOnce' /\ at' = [at EXCEPT ![name] = NoFs]
    <3> DEFINE m == NoName
    <3>1. m \in {name, NoName} /\ (m = name => w # NoFs) /\ mounttab' = [mounttab EXCEPT ![i] = m]
      BY <2>2, <2>4
    <3>2. m # name
      BY <2>4
    <3> HIDE DEF m
    <3>3. NamesOnce' /\ at' = [at EXCEPT ![name] = IF m = name THEN w ELSE NoFs]
      BY <2>1, <2>3, <2>4, <3>1, SlotRenamed
    <3> QED BY <3>2, <3>3
  <2>6. name \in Table!Mounted
    BY <2>1, SlotsInUse
  <2>7. Table!Umount(name)
    BY <1>0, <2>2, <2>5, <2>6 DEF Table!Umount, at, Ok, Table!Ok
  <2> QED BY <2>5, <2>7 DEF Table!Next
<1> QED BY <1>2, <1>3

\* open: the path belongs to its name, and the rest of it is what follows; if
\* the name is not mounted the path is the root's.
LEMMA OpenMaps ==
  ASSUME Flat, TypeOK, NamesOnce, NEW name \in Names, NEW leaf \in Leaves, OpenFile(name, leaf)
  PROVE  NamesOnce' /\ Table!Next
<1> DEFINE path == Append(name, leaf)
           i == Lowest(Holding(path))
<1>1. NamesOnce' /\ UNCHANGED at /\ call' = <<"open", name, leaf>>
  BY DEF OpenFile, NamesOnce, at, At, Usable
<1>2. ret' = Failed \/ (VfsFor(path) # NoFs /\ ret' = <<"opened", VfsFor(path), Rest(path)>>)
  BY DEF OpenFile
<1>3. Holding(path) = {j \in Slots : mounttab[j] = name}
  BY HoldingPath
<1>4. ASSUME Holding(path) # {} PROVE i \in Slots /\ mounttab[i] = name
  <2>1. Holding(path) \in SUBSET Nat
    BY FilesAssumption DEF Holding
  <2>2. i \in Holding(path)
    BY <1>4, <2>1, LowestIn
  <2> QED BY <1>3, <2>2
<1>5. name # NoName
  BY FilesAssumption
<1>6. Rest(path) = <<leaf>> \/ Holding(path) = {}
  <2>1. SUFFICES ASSUME Holding(path) # {} PROVE SubSeq(path, Len(name) + 1, Len(path)) = <<leaf>>
    BY <1>4 DEF Rest
  <2>2. name \in Seq(Components) /\ leaf \in Components
    BY NamesTyped DEF Components
  <2>3. /\ path \in Seq(Components) /\ Len(path) = Len(name) + 1 /\ path[Len(name) + 1] = leaf
    BY <2>2, AppendProperties
  <2>4. Len(name) \in Nat
    BY <2>2, LenProperties
  <2> DEFINE n == Len(name) + 1
             rest == SubSeq(path, n, n)
  <2> HIDE DEF path
  <2>5. n \in Int /\ n - n + 1 = 1 /\ n + 1 - 1 = n /\ n <= n /\ n = Len(path) /\ path[n] = leaf
    BY <2>3, <2>4
  <2> HIDE DEF n
  <2>6. \A j \in n .. n : path[j] \in Components
    BY <2>2, <2>5
  <2>7. /\ rest \in Seq(Components) /\ Len(rest) = IF n <= n THEN n - n + 1 ELSE 0
        /\ \A j \in 1 .. n - n + 1 : rest[j] = path[n + j - 1]
    BY <2>5, <2>6, SubSeqProperties
  <2> HIDE DEF rest
  <2>8. rest \in Seq(Components) /\ Len(rest) = 1 /\ rest[1] = leaf
    BY <2>5, <2>7
  <2>9. rest = <<leaf>>
    BY <2>8
  <2> QED BY <2>5, <2>9 DEF rest, n
<1>7. name \in Table!Mounted <=> Holding(path) # {}
  BY <1>3, SlotsInUse
<1> HIDE DEF i, path
<1>8. ASSUME Holding(path) # {} PROVE VfsFor(path) = at[name]
  <2>1. \A j \in Slots : mounttab[j] = name => j = i
    BY <1>4, <1>5, <1>8 DEF NamesOnce
  <2>2. At(name) = vfstab[i]
    BY <1>4, <1>8, <2>1, AtSlot
  <2> QED BY <1>8, <2>2 DEF VfsFor, at, i
<1>9. ASSUME Holding(path) = {} PROVE VfsFor(path) = Root /\ Rest(path) = Append(name, leaf)
  BY <1>9 DEF VfsFor, Rest, path
<1>10. \/ ret' = Table!Failed
       \/ ret' = Table!Meaning(name, leaf) /\ (name \in Table!Mounted \/ Root # NoFs)
  <2>1. CASE ret' = Failed
    BY <2>1 DEF Failed, Table!Failed
  <2>2. CASE VfsFor(path) # NoFs /\ ret' = <<"opened", VfsFor(path), Rest(path)>>
    <3>1. CASE Holding(path) # {}
      BY <1>6, <1>7, <1>8, <2>2, <3>1 DEF Table!Meaning, at
    <3>2. CASE Holding(path) = {}
      BY <1>7, <1>9, <2>2, <3>2 DEF Table!Meaning
    <3> QED BY <3>1, <3>2
  <2> QED BY <1>2, <2>1, <2>2
<1>11. Table!Open(name, leaf)
  BY <1>1, <1>10 DEF Table!Open, at
<1> QED BY <1>1, <1>11 DEF Table!Next

\* Every call is one of the map, or none.
LEMMA StepMaps ==
  ASSUME Flat, TypeOK, NamesOnce, [Next]_vars
  PROVE  NamesOnce' /\ [Table!Next]_(Table!vars)
<1>1. CASE UNCHANGED vars
  BY <1>1 DEF vars, NamesOnce, Table!vars, At, Usable
<1>2. ASSUME NEW fd \in Fds, CloseFile(fd) PROVE NamesOnce' /\ Table!Next
  <2>1. NamesOnce' /\ UNCHANGED at /\ ret' \in {Ok, Failed} /\ call' = <<"close", fd>>
    BY <1>2 DEF CloseFile, NamesOnce, at, At, Usable
  <2>2. Table!Close(fd)
    BY <2>1 DEF Table!Close, at, Ok, Failed, Table!Ok, Table!Failed
  <2> QED BY <2>1, <2>2 DEF Table!Next
<1>3. CASE Next
  BY <1>2, <1>3, MountMaps, UmountMaps, OpenMaps DEF Next
<1> QED BY <1>1, <1>3

\* The slots implement a map: a name stands for the file system mounted last
\* under it, if no name begins with another one (a mount under such a name
\* takes over the other one's slot, so that there the promise is not kept).
THEOREM NamespaceImplemented == ASSUME Flat PROVE Spec => ImplementsNamespace
<1>1. Init => NamesOnce /\ Table!Init
  BY InitMaps
<1>2. TypeOK /\ NamesOnce /\ [Next]_vars => NamesOnce' /\ [Table!Next]_(Table!vars)
  BY StepMaps
<1>3. IInv => TypeOK
  BY DEF IInv
<1> QED BY <1>1, <1>2, <1>3, TablesInOrder, PTL DEF Spec, ImplementsNamespace, Table!Spec

=============================================================================
