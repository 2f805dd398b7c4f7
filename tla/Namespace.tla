----------------------------- MODULE Namespace ------------------------------
(***************************************************************************)
(* What mount and umount promise: a name stands for the file system that   *)
(* was mounted under it last, and a path for the file system of the name   *)
(* it begins with.  There are no slots; only their number shows.           *)
(*                                                                         *)
(* A step is a call: call says which, ret what it answers.                 *)
(***************************************************************************)
EXTENDS Naturals, Sequences, FiniteSets

CONSTANTS Names,    \* the names used, sequences of components
          TooLong,  \* those that cannot be mounted
          Systems,  \* the file systems
          Hooked,   \* those that may fail to start
          Leaves,   \* the components that follow a name in a path
          Fds,      \* the descriptors
          Capacity, \* how many names there can be at once
          Root,     \* the file system of all other paths, or NoFs
          NoFs

VARIABLES at,   \* the file system of each name, or NoFs
          call, \* the last call with its arguments
          ret   \* its answer
vars == <<at, call, ret>>

Failed == <<"failed">>
Ok == <<"ok">>
Mounted == {n \in Names : at[n] # NoFs}

Init == at = [n \in Names |-> NoFs] /\ call = <<"none">> /\ ret = Ok

\* The one reason to turn a name down, besides its length: there is no room.
Refused(n) == n \in TooLong \/ (n \notin Mounted /\ Cardinality(Mounted) = Capacity)

\* The name is taken over from what it stood for.  If the new file system
\* does not start the name stands for nothing.
Mount(n, v) ==
  /\ call' = <<"mount", n, v>>
  /\ \/ Refused(n) /\ UNCHANGED at /\ ret' = Failed
     \/ ~ Refused(n) /\ at' = [at EXCEPT ![n] = v] /\ ret' = Ok
     \/ ~ Refused(n) /\ v \in Hooked /\ at' = [at EXCEPT ![n] = NoFs] /\ ret' = Failed

Umount(n) ==
  /\ call' = <<"umount", n>>
  /\ IF n \in Mounted THEN at' = [at EXCEPT ![n] = NoFs] /\ ret' = Ok
                      ELSE UNCHANGED at /\ ret' = Failed

\* What a path stands for: a file system and the name of the file in it.
Meaning(n, leaf) == IF n \in Mounted THEN <<"opened", at[n], <<leaf>>>>
                                     ELSE <<"opened", Root, Append(n, leaf)>>

\* The file is opened where its path leads, or the file system declines.
Open(n, leaf) ==
  /\ call' = <<"open", n, leaf>>
  /\ \/ ret' = Failed
     \/ ret' = Meaning(n, leaf) /\ (n \in Mounted \/ Root # NoFs)
  /\ UNCHANGED at

Close(fd) == call' = <<"close", fd>> /\ ret' \in {Ok, Failed} /\ UNCHANGED at

Next ==
  \/ \E n \in Names : Umount(n) \/ \E v \in Systems : Mount(n, v)
  \/ \E n \in Names, leaf \in Leaves : Open(n, leaf)
  \/ \E fd \in Fds : Close(fd)

Spec == Init /\ [][Next]_vars
=============================================================================
