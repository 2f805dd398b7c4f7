------------------------------- MODULE Files --------------------------------
(***************************************************************************)
(* The mount table (libc/unix/_mount.c) and the descriptor table on top of *)
(* it (libc/unix/posixio.c).  A slot of the mount table holds a name and a *)
(* file system; a path belongs to the first slot whose name it begins with *)
(* and a descriptor to the file system that opened it.                     *)
(*                                                                         *)
(* A path is a sequence of components: the test of the code, that the      *)
(* bytes of the name are followed by a slash or by nothing, is that the    *)
(* name's components are the path's first.  One cog at a time makes calls. *)
(***************************************************************************)
EXTENDS Naturals, Sequences, FiniteSets

CONSTANTS Slots,       \* the slots 1 .. MAX_MOUNTS
          Fds,         \* the descriptors 0 .. _MAX_FILES - 1
          Names,       \* the names the program mounts
          LongNames,   \* those longer than MAX_MOUNT_CHARS
          Leaves,      \* what follows a name in the path of a file
          Systems,     \* the file systems
          Hooked,      \* those that are told of their start and stop
          Root,        \* what _setrootvfs was given, or NoFs
          NoName, NoFs \* the null pointers of the two tables

ASSUME FilesAssumption ==
  /\ Slots \subseteq Nat /\ IsFiniteSet(Slots) /\ Fds \subseteq Nat /\ Hooked \subseteq Systems
  /\ \A name \in Names : name \in Seq({name[i] : i \in DOMAIN name})
  /\ NoName \notin Names /\ NoFs \notin Systems /\ Root \notin Systems

VARIABLES mounttab, vfstab,
          live,      \* how often a file system was started and not stopped
          filetab,   \* the file system of each open descriptor, NoFs: state 0
          call,      \* the last call with its arguments
          ret        \* its answer
vars == <<mounttab, vfstab, live, filetab, call, ret>>

Failed == <<"failed">>
Ok == <<"ok">>

Begins(path, name) == Len(name) <= Len(path) /\ SubSeq(path, 1, Len(name)) = name
Lowest(S) == CHOOSE i \in S : \A j \in S : i <= j

\* __getvfsforfile: the slots of a path, the file system of the first of them
\* (or the one for all other paths), and what is left of the path.
Holding(path) == {i \in Slots : mounttab[i] # NoName /\ Begins(path, mounttab[i])}
VfsFor(path) == IF Holding(path) = {} THEN Root ELSE vfstab[Lowest(Holding(path))]
Rest(path) == IF Holding(path) = {} THEN path
              ELSE SubSeq(path, Len(mounttab[Lowest(Holding(path))]) + 1, Len(path))

\* Mutant: without a free slot the first one is taken.
SlotsForFirst(name) ==
  IF Holding(name) # {} THEN {Lowest(Holding(name))}
  ELSE {Lowest({i \in Slots : mounttab[i] = NoName} \cup {1})}

\* Mutant: a free slot is taken before the name has been looked for.
SlotsForFree(name) ==
  LET free == {i \in Slots : mounttab[i] = NoName}
  IN IF free # {} THEN {Lowest(free)} ELSE IF Holding(name) # {} THEN {Lowest(Holding(name))} ELSE {}

\* The slot _mount takes: the first that holds the name, else the first free
\* one.  A free slot never matches: strncmp with a null pointer answers 1.
SlotsFor(name) ==
  LET free == {i \in Slots : mounttab[i] = NoName}
  IN IF Holding(name) # {} THEN {Lowest(Holding(name))} ELSE IF free # {} THEN {Lowest(free)} ELSE {}

\* Mutant: the file system that was in the slot is not told.
StoppedNot(v) == live
Stopped(v) == IF v \in Hooked THEN [live EXCEPT ![v] = @ - 1] ELSE live
Started(l, v) == IF v \in Hooked THEN [l EXCEPT ![v] = @ + 1] ELSE l

\* A program closes the files of a name before it mounts or unmounts it.
Idle(name) == \A fd \in Fds : filetab[fd] = NoFs \/ \A i \in Holding(name) : filetab[fd] # vfstab[i]

Init ==
  /\ mounttab = [i \in Slots |-> NoName] /\ vfstab = [i \in Slots |-> NoFs]
  /\ live = [v \in Systems |-> 0] /\ filetab = [fd \in Fds |-> NoFs]
  /\ call = <<"none">> /\ ret = Ok

\* The slot's file system is stopped, then the new one started; if that fails
\* the slot is empty.
Mount(name, v) ==
  /\ Idle(name)
  /\ call' = <<"mount", name, v>>
  /\ IF name \in LongNames \/ SlotsFor(name) = {}
     THEN ret' = Failed /\ UNCHANGED <<mounttab, vfstab, live>>
     ELSE \E i \in SlotsFor(name), starts \in {TRUE, v \notin Hooked} :
            /\ vfstab' = [vfstab EXCEPT ![i] = IF starts THEN v ELSE NoFs]
            /\ mounttab' = [mounttab EXCEPT ![i] = IF starts THEN name ELSE NoName]
            /\ live' = IF starts THEN Started(Stopped(vfstab[i]), v) ELSE Stopped(vfstab[i])
            /\ ret' = IF starts THEN Ok ELSE Failed
  /\ UNCHANGED filetab

Umount(name) ==
  /\ Idle(name)
  /\ call' = <<"umount", name>>
  /\ IF Holding(name) = {}
     THEN ret' = Failed /\ UNCHANGED <<mounttab, vfstab, live>>
     ELSE LET i == Lowest(Holding(name))
          IN /\ live' = Stopped(vfstab[i])
             /\ vfstab' = [vfstab EXCEPT ![i] = IF @ \in Hooked THEN NoFs ELSE @]
             /\ mounttab' = [mounttab EXCEPT ![i] = NoName]
             /\ ret' = Ok
  /\ UNCHANGED filetab

\* _find_free_file takes the first of these.
FreeFds == {fd \in Fds : filetab[fd] = NoFs}

\* The descriptor is taken when the file system has opened or created the file.
OpenFile(name, leaf) ==
  LET path == Append(name, leaf)
  IN /\ call' = <<"open", name, leaf>>
     /\ \/ ret' = Failed /\ UNCHANGED filetab
        \/ /\ FreeFds # {} /\ VfsFor(path) # NoFs
           /\ filetab' = [filetab EXCEPT ![Lowest(FreeFds)] = VfsFor(path)]
           /\ ret' = <<"opened", VfsFor(path), Rest(path)>>
     /\ UNCHANGED <<mounttab, vfstab, live>>

\* The slot is free whatever the file system answers.
CloseFile(fd) ==
  /\ call' = <<"close", fd>>
  /\ IF filetab[fd] = NoFs THEN ret' = Failed ELSE ret' \in {Ok, Failed}
  /\ filetab' = [filetab EXCEPT ![fd] = NoFs]
  /\ UNCHANGED <<mounttab, vfstab, live>>

Next ==
  \/ \E name \in Names : Umount(name) \/ \E v \in Systems : Mount(name, v)
  \/ \E name \in Names, leaf \in Leaves : OpenFile(name, leaf)
  \/ \E fd \in Fds : CloseFile(fd)

Spec == Init /\ [][Next]_vars

-----------------------------------------------------------------------------
\* The file system of the lowest slot with exactly that name.
At(name) ==
  LET i == {j \in Slots : mounttab[j] = name} IN IF i = {} THEN NoFs ELSE vfstab[Lowest(i)]

Table == INSTANCE Namespace WITH at <- [name \in Names |-> At(name)], TooLong <- LongNames,
                                  Capacity <- Cardinality(Slots)

\* doc/general.md: "It is OK to make multiple mount calls, but they should have
\* different names."  A mount changes what its name stands for and nothing
\* else, an open leads to the file system that was mounted last under the name
\* in its path and to the rest of the path there, and only a full table or a
\* long name is turned down; whatever was mounted, replaced, unmounted or
\* failed to start in whichever slot before.
ImplementsNamespace == Table!Spec

\* A file system is started exactly as often as it is in the table: one that is
\* replaced or unmounted is stopped, none is stopped twice or left running.
StartsBalanced ==
  \A v \in Hooked : live[v] = Cardinality({i \in Slots : mounttab[i] # NoName /\ vfstab[i] = v})

\* A file that is open is one of a file system that runs: no mount or umount
\* of another name stops it.
OpenFilesLive == \A fd \in Fds : filetab[fd] \in Hooked => live[filetab[fd]] > 0
=============================================================================
