------------------------------- MODULE Stream -------------------------------
(***************************************************************************)
(* What a program is promised of an open FILE: the bytes of a file and a   *)
(* position in it.  There is no buffer: a byte that was put is in the file *)
(* at once, a byte that is got is the one at the position, and reading and *)
(* writing alternate freely.  A stream opened with "a" writes at the end   *)
(* wherever its position is.                                               *)
(*                                                                         *)
(* What a call returns is in `ret': the bytes read, or one number; the     *)
(* empty sequence is EOF.  `ioerr' says that the device failed during the  *)
(* call, the only excuse for a call that does less than it should; `call'  *)
(* says which call a step is.                                              *)
(***************************************************************************)
EXTENDS Integers, Sequences

CONSTANTS Bytes,    \* the values of a byte, numbers
          Chunks,   \* the sequences of bytes that one call may write
          Counts,   \* the numbers of bytes that one call may ask for
          Offsets   \* the offsets of a seek

VARIABLES content, pos, appending, pushed, open, ret, ioerr, call
vars == <<content, pos, appending, pushed, open, ret, ioerr, call>>

EOF == <<>>
NoByte == -1

\* The bytes s with w in the place of those from offset p on.
Overlay(s, p, w) ==
  [i \in 1 .. (IF Len(s) > p + Len(w) THEN Len(s) ELSE p + Len(w)) |->
     IF i > p /\ i <= p + Len(w) THEN w[i - p] ELSE s[i]]

Start == IF appending THEN Len(content) ELSE pos
Left == Len(content) - pos

Init ==
  /\ content = <<>> /\ pos = 0 /\ appending = FALSE /\ pushed = NoByte
  /\ open = FALSE /\ ret = EOF /\ ioerr = FALSE /\ call = <<"none">>

Modes == {"r+", "w+", "a+"}

Fopen(mode) ==
  /\ ~ open
  /\ \/ /\ open' = TRUE
        /\ content' = IF mode = "w+" THEN <<>> ELSE content
        /\ pos' = 0 /\ appending' = (mode = "a+") /\ pushed' = NoByte
        /\ ret' = <<0>>
     \/ UNCHANGED <<content, pos, appending, pushed, open>> /\ ret' = <<-1>>
  /\ ioerr' = FALSE

Fclose ==
  /\ open /\ open' = FALSE
  /\ pos' = 0 /\ pushed' = NoByte /\ appending' = FALSE
  /\ ret' \in {<<0>>, <<-1>>} /\ ioerr' = FALSE
  /\ UNCHANGED content

\* The first k bytes of w are written, all of them if the device works.
Write(w, k, told) ==
  /\ open
  /\ content' = Overlay(content, Start, SubSeq(w, 1, k))
  /\ pos' = Start + k
  /\ ret' = told
  /\ ioerr' = (k < Len(w))
  /\ UNCHANGED <<appending, pushed, open>>
Putc(b) == Write(<<b>>, 1, <<b>>)
Fwrite(w) == \E k \in 0 .. Len(w) : Write(w, k, <<k>>)

Ungetc(b) ==
  /\ open
  /\ IF pushed = NoByte THEN pushed' = b /\ ret' = <<b>> ELSE ret' = EOF /\ UNCHANGED pushed
  /\ ioerr' = FALSE
  /\ UNCHANGED <<content, pos, appending, open>>

\* The byte pushed back comes first, then those at the position, as many as
\* the caller wants and the file has left, and fewer only when the device
\* gives fewer.  A read that fails moves nothing; it may lose the byte pushed
\* back.
Read(n) ==
  /\ open
  /\ LET back == IF pushed = NoByte THEN <<>> ELSE <<pushed>>
         want == IF n - Len(back) < Left THEN n - Len(back) ELSE Left
     IN \E k \in 0 .. n :
          /\ k <= want
          /\ \/ ret' = back \o SubSeq(content, pos + 1, pos + k) /\ ioerr' = (k < want)
             \/ k = 0 /\ ret' = EOF /\ ioerr' = TRUE
          /\ pos' = pos + k
  /\ pushed' = NoByte
  /\ UNCHANGED <<content, appending, open>>

\* Seeking from the start, the position or the end of the file forgets the
\* byte pushed back.  Before the start or past the end is an error.
Fseek(off, whence) ==
  /\ open
  /\ LET to == off + (CASE whence = "set" -> 0 [] whence = "cur" -> pos [] whence = "end" -> Len(content))
     IN IF to < 0 \/ to > Len(content) THEN ret' = <<-1>> /\ UNCHANGED pos
                                       ELSE ret' = <<0>> /\ pos' = to
  /\ pushed' = NoByte
  /\ ioerr' = FALSE
  /\ UNCHANGED <<content, appending, open>>

\* A call that only answers: fflush, setvbuf, and ftell below.
Answer(told) ==
  /\ open /\ ret' = told /\ ioerr' = FALSE
  /\ UNCHANGED <<content, pos, appending, pushed, open>>
Ftell == Answer(<<IF pushed # NoByte /\ pos > 0 THEN pos - 1 ELSE pos>>)

Next ==
  \/ \E mode \in Modes : Fopen(mode) /\ call' = <<"fopen", mode>>
  \/ Fclose /\ call' = <<"fclose">>
  \/ Read(1) /\ call' = <<"getc">>
  \/ Answer(<<0>>) /\ call' = <<"fflush">>
  \/ Ftell /\ call' = <<"ftell">>
  \/ \E b \in Bytes : Putc(b) /\ call' = <<"putc", b>>
  \/ \E b \in Bytes : Ungetc(b) /\ call' = <<"ungetc", b>>
  \/ \E w \in Chunks : Fwrite(w) /\ call' = <<"fwrite", w>>
  \/ \E n \in Counts : Read(n) /\ call' = <<"fread", n>>
  \/ \E off \in Offsets, whence \in {"set", "cur", "end"} :
       Fseek(off, whence) /\ call' = <<"fseek", off, whence>>
  \/ (Answer(<<0>>) \/ Answer(<<-1>>)) /\ call' = <<"setvbuf">>

Spec == Init /\ [][Next]_vars
=============================================================================
