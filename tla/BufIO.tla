------------------------------- MODULE BufIO --------------------------------
(***************************************************************************)
(* The buffer of a FILE (libc/unix/bufio.c) and the calls of stdio that go *)
(* through it or around it.  One buffer serves reading and writing: while  *)
(* the stream reads it holds the bytes the device has given and the        *)
(* program has not got, so the device is ahead of the program; while it    *)
(* writes it holds the bytes the device has not got.  Between the two, and *)
(* before fread, fwrite, fseek and ftell, which talk to the device         *)
(* themselves, the buffer is flushed.                                      *)
(*                                                                         *)
(* A C function is an operator from the record of the stream to the set of *)
(* records it may leave, one for every answer of the device.  `disk' and   *)
(* `pos' are the device's own: the bytes of the file and its offset.  Its  *)
(* lseek refuses an offset outside of the file, as the driver of the       *)
(* Parallax flash file system does.  Only one stream is open on the file,  *)
(* for reading and writing; Next says in `call' which call a step is.      *)
(***************************************************************************)
EXTENDS Integers, Sequences

CONSTANTS Bytes,       \* the values of a byte
          Newline,     \* the one that ends a line
          Chunks, Counts, Offsets,   \* what fwrite, fread and fseek are given
          Sizes,       \* the sizes setvbuf is given
          DefaultSize, \* _DEFAULT_BUFSIZ
          MaxLen,      \* BOUND: no byte is written to a longer file
          FlushFails   \* may the device refuse bytes of a flush?

ASSUME BufIOAssumption ==
  /\ Bytes \subseteq Nat /\ Newline \in Bytes
  /\ Chunks \subseteq Seq(Bytes) /\ Counts \subseteq Nat \ {0} /\ Offsets \subseteq Int
  /\ Sizes \subseteq Nat /\ DefaultSize \in Nat \ {0}
  /\ FlushFails \in BOOLEAN

VARIABLES f,     \* the stream and its device
          ret,   \* what the last call returned, the bytes read or a number
          ioerr, \* did the device give or take less than it could have?
          call   \* the last call with its arguments
vars == <<f, ret, ioerr, call>>

IONBF == 0
IOLBF == 1
IOFBF == 2
IOBUF == 4   \* or-ed to the mode of every stream that is buffered here

EOF == <<>>

Closed(disk) ==
  [inuse |-> FALSE, append |-> FALSE, needseek |-> FALSE, flags |-> {},
   buf |-> <<>>, bufsiz |-> 0, bufmode |-> 0, ungot |-> 0, disk |-> disk, pos |-> 0]

-----------------------------------------------------------------------------
(* The device: a file system driver or the host. *)

Overlay(s, p, w) ==
  [i \in 1 .. (IF Len(s) > p + Len(w) THEN Len(s) ELSE p + Len(w)) |->
     IF i > p /\ i <= p + Len(w) THEN w[i - p] ELSE s[i]]

DeviceWrite(g, w) ==
  [g EXCEPT !.disk = Overlay(g.disk, g.pos, w), !.pos = g.pos + Len(w)]

\* How many bytes a read of n gives: none only at the end of the file.
Available(g, n) ==
  LET left == Len(g.disk) - g.pos
  IN {k \in 0 .. n : k <= left /\ (k = 0 => n = 0 \/ left = 0)}

\* n, or all that are left.
Full(g, n) == IF n < Len(g.disk) - g.pos THEN n ELSE Len(g.disk) - g.pos

-----------------------------------------------------------------------------
(* bufio.c *)

\* An appending stream that was sought goes to the end before it writes.
SeekEnd(g) ==
  IF g.append /\ g.needseek
  THEN [g EXCEPT !.pos = Len(g.disk), !.needseek = FALSE] ELSE g

Emptied(g) == [g EXCEPT !.buf = <<>>, !.flags = {}]

\* Mutant: bytes read ahead are dropped and not given back.
FlushedForgets(g) ==
  IF "writing" \in g.flags /\ g.buf # <<>>
  THEN {Emptied(DeviceWrite(SeekEnd(g), g.buf))} ELSE {Emptied(g)}

Flushed(g) ==
  IF g.flags # {} /\ g.buf # <<>>
  THEN IF "writing" \in g.flags
       THEN {Emptied(DeviceWrite(SeekEnd(g), SubSeq(g.buf, 1, k))) :
               k \in IF FlushFails THEN 0 .. Len(g.buf) ELSE {Len(g.buf)}}
       ELSE {Emptied([g EXCEPT !.pos = g.pos - Len(g.buf)])}
  ELSE {Emptied(g)}

\* Mutant: the direction changes with the buffer as it is.
TurnedNot(g, from) == {g}

\* __default_putc and __default_getc flush when the direction changes.
Turned(g, from) == IF from \in g.flags THEN Flushed(g) ELSE {g}

MustFlush(g, b) ==
  \/ g.bufmode = IONBF \/ Len(g.buf) = g.bufsiz
  \/ b = Newline /\ g.bufmode = IOLBF

PutBuffered(g, b) == [g EXCEPT !.flags = g.flags \cup {"writing"}, !.buf = Append(g.buf, b)]

DefaultPutc(g, b) ==
  UNION {LET put == PutBuffered(turned, b)
         IN IF MustFlush(put, b) THEN Flushed(put) ELSE {put} : turned \in Turned(g, "reading")}

\* Mutant: a read is taken to fill the buffer.
FilledWhole(g, k) ==
  [g EXCEPT !.buf = SubSeq(g.disk, g.pos + 1, g.pos + k), !.pos = g.pos + g.bufsiz]

\* k bytes are read into the empty buffer.
Filled(g, k) ==
  [g EXCEPT !.buf = SubSeq(g.disk, g.pos + 1, g.pos + k), !.pos = g.pos + k]

Reading(g) == [g EXCEPT !.flags = g.flags \cup {"reading"}]

-----------------------------------------------------------------------------
(* stdio.  Every call is made on an open stream. *)

Init ==
  /\ f = Closed(<<>>) /\ ret = EOF /\ ioerr = FALSE /\ call = <<"none">>

\* _openraw, with the buffer of a stream that is not a terminal.
Opened(disk, append) ==
  [Closed(disk) EXCEPT !.inuse = TRUE, !.append = append, !.needseek = append,
                       !.bufmode = IOFBF + IOBUF, !.bufsiz = DefaultSize]

Modes == {"r+", "w+", "a+"}

Fopen(mode) ==
  /\ ~ f.inuse
  /\ \/ /\ f' = Opened(IF mode = "w+" THEN <<>> ELSE f.disk, mode = "a+")
        /\ ret' = <<0>>
     \/ UNCHANGED f /\ ret' = <<-1>>
  /\ ioerr' = FALSE

\* The flush's answer is dropped, the device's own to the close is returned.
Fclose ==
  /\ f.inuse
  /\ \E g \in Flushed(f) : f' = Closed(g.disk)
  /\ ret' \in {<<0>>, <<-1>>} /\ ioerr' = FALSE

Putc(b) ==
  /\ f.inuse /\ Len(f.disk) + Len(f.buf) < MaxLen
  /\ f' \in DefaultPutc(f, b)
  /\ ret' = <<b>> /\ ioerr' = FALSE

Ungetc(b) ==
  /\ f.inuse
  /\ IF f.ungot = 0 THEN f' = [f EXCEPT !.ungot = b + 1] /\ ret' = <<b>>
                    ELSE ret' = EOF /\ UNCHANGED f
  /\ ioerr' = FALSE

\* The byte pushed back, else one of the buffer, else one of a buffer filled anew.
GetUngot ==
  /\ f.inuse /\ f.ungot # 0
  /\ f' = [f EXCEPT !.ungot = 0] /\ ret' = <<f.ungot - 1>> /\ ioerr' = FALSE

GetNext(g) ==
  IF g.buf = <<>> THEN f' = g /\ ret' = EOF
                  ELSE f' = [g EXCEPT !.buf = Tail(g.buf)] /\ ret' = <<Head(g.buf)>>

Getc ==
  \/ GetUngot
  \/ /\ f.inuse /\ f.ungot = 0
     /\ \E turned \in Turned(f, "writing") :
          LET g == Reading(turned)
          IN IF g.buf # <<>> THEN GetNext(g) /\ ioerr' = FALSE
             ELSE \/ \E k \in Available(g, g.bufsiz) : GetNext(Filled(g, k)) /\ ioerr' = FALSE
                  \/ GetNext(g) /\ ioerr' = TRUE

Fflush ==
  /\ f.inuse /\ f' \in Flushed(f) /\ ret' = <<0>> /\ ioerr' = FALSE

\* The write goes to the device, which may take less or fail.
Fwrite(w) ==
  /\ f.inuse /\ Len(f.disk) + Len(f.buf) + Len(w) <= MaxLen
  /\ \E g \in (IF f.flags # {} THEN Flushed(f) ELSE {f}), k \in 0 .. Len(w) :
       /\ f' = DeviceWrite(SeekEnd(g), SubSeq(w, 1, k))
       /\ ret' = <<k>> /\ ioerr' = (k < Len(w))

\* The byte pushed back comes first.  What the buffer holds is given back and
\* the rest is read from the device; a failure is told as nothing read.
Fread(n) ==
  /\ f.inuse
  /\ LET back == IF f.ungot = 0 THEN <<>> ELSE <<f.ungot - 1>>
         want == n - Len(back)
         h == [f EXCEPT !.ungot = 0]
     IN IF want = 0 THEN f' = h /\ ret' = back /\ ioerr' = FALSE
        ELSE \E g \in (IF h.flags # {} THEN Flushed(h) ELSE {h}) :
               \/ \E k \in Available(g, want) :
                    /\ f' = [g EXCEPT !.pos = g.pos + k]
                    /\ ret' = back \o SubSeq(g.disk, g.pos + 1, g.pos + k)
                    /\ ioerr' = (k < Full(g, want))
               \/ f' = g /\ ret' = EOF /\ ioerr' = TRUE

\* Mutant: a seek leaves an appending stream where it went.
MarkedNot(g) == g

\* lseek marks an appending stream, so that it goes to the end to write again.
Marked(g) == [g EXCEPT !.needseek = g.needseek \/ g.append]

Fseek(off, whence) ==
  /\ f.inuse
  /\ \E g \in Flushed(f) :
       LET to == off + (CASE whence = "set" -> 0 [] whence = "cur" -> g.pos [] whence = "end" -> Len(g.disk))
       IN IF to < 0 \/ to > Len(g.disk)
          THEN f' = [Marked(g) EXCEPT !.ungot = 0] /\ ret' = <<-1>>
          ELSE f' = [Marked(g) EXCEPT !.ungot = 0, !.pos = to] /\ ret' = <<0>>
  /\ ioerr' = FALSE

Ftell ==
  /\ f.inuse
  /\ \E g \in Flushed(f) :
       /\ f' = Marked(g)
       /\ ret' = <<IF g.ungot # 0 /\ g.pos > 0 THEN g.pos - 1 ELSE g.pos>>
  /\ ioerr' = FALSE

\* Before the first use of the buffer, as C demands.  Without a buffer of the
\* caller's the size may come from malloc, which may fail.
Setvbuf(mode, size, given) ==
  /\ f.inuse /\ f.flags = {} /\ (given => size > 0)
  /\ \/ /\ f' = [f EXCEPT !.bufmode = IOBUF + mode,
                          !.bufsiz = IF ~ given /\ (size = 0 \/ mode = IONBF) THEN 1 ELSE size]
        /\ ret' = <<0>>
     \/ ~ given /\ size # 0 /\ mode # IONBF /\ UNCHANGED f /\ ret' = <<-1>>
  /\ ioerr' = FALSE

Next ==
  \/ \E mode \in Modes : Fopen(mode) /\ call' = <<"fopen", mode>>
  \/ Fclose /\ call' = <<"fclose">>
  \/ Getc /\ call' = <<"getc">>
  \/ Fflush /\ call' = <<"fflush">>
  \/ Ftell /\ call' = <<"ftell">>
  \/ \E b \in Bytes : Putc(b) /\ call' = <<"putc", b>>
  \/ \E b \in Bytes : Ungetc(b) /\ call' = <<"ungetc", b>>
  \/ \E w \in Chunks : Fwrite(w) /\ call' = <<"fwrite", w>>
  \/ \E n \in Counts : Fread(n) /\ call' = <<"fread", n>>
  \/ \E off \in Offsets, whence \in {"set", "cur", "end"} :
       Fseek(off, whence) /\ call' = <<"fseek", off, whence>>
  \/ \E mode \in {IONBF, IOLBF, IOFBF}, size \in Sizes, given \in BOOLEAN :
       Setvbuf(mode, size, given) /\ call' = <<"setvbuf">>

Spec == Init /\ [][Next]_vars

-----------------------------------------------------------------------------
(* What the program sees: the bytes of the file as if there were no buffer. *)

writing == "writing" \in f.flags
Content == IF writing THEN Overlay(f.disk, SeekEnd(f).pos, f.buf) ELSE f.disk
Position == IF f.buf = <<>> THEN f.pos
            ELSE IF writing THEN SeekEnd(f).pos + Len(f.buf) ELSE f.pos - Len(f.buf)

File == INSTANCE Stream WITH content <- Content, pos <- Position, appending <- f.append,
                             pushed <- f.ungot - 1, open <- f.inuse

\* Any sequence of calls, whatever the device gives or refuses of a read or a
\* direct write and wherever the buffer stands: each returns what the same
\* call with the same arguments would return on a file without a buffer, and
\* leaves its bytes and its position.
ImplementsStream == File!Spec

Streams ==
  [inuse : BOOLEAN, append : BOOLEAN, needseek : BOOLEAN,
   flags : SUBSET {"reading", "writing"}, buf : Seq(Bytes), bufsiz : Nat,
   bufmode : 0 .. 7, ungot : Nat, disk : Seq(Bytes), pos : Nat]

\* The fields of the stream and the answer of a call.
TypeOK ==
  /\ f \in Streams /\ f.pos <= Len(f.disk)
  /\ ret \in Seq(Int) /\ ioerr \in BOOLEAN

\* A stream that appends and was not sought is at the end of the file.
AtEnd(g) ==
  g.append /\ ~ g.needseek => g.pos = Len(g.disk) /\ ("reading" \in g.flags => g.buf = <<>>)

\* The bytes read ahead are those the device gave before its offset.
ReadAhead(g) ==
  "reading" \in g.flags =>
    /\ Len(g.buf) <= g.pos
    /\ \A i \in 1 .. Len(g.buf) : g.buf[i] = g.disk[g.pos - Len(g.buf) + i]

\* The buffer never reads and writes at once, never holds more than fits, is
\* empty while it does neither, and what it has read ahead can be given back.
BufferConsistent ==
  /\ f.flags # {"reading", "writing"}
  /\ f.inuse => f.bufsiz > 0
  /\ Len(f.buf) <= f.bufsiz
  /\ writing => Len(f.buf) < f.bufsiz
  /\ f.flags = {} => f.buf = <<>>
  /\ ReadAhead(f) /\ AtEnd(f)

\* Nothing a program does to a stream opened with "a" changes a byte that the
\* file has: seeks, reads and buffered bytes included.
Appends ==
  f.inuse /\ f.append =>
    /\ Len(f'.disk) >= Len(f.disk)
    /\ \A i \in 1 .. Len(f.disk) : f'.disk[i] = f.disk[i]
AppendOnly == [][Appends]_vars
=============================================================================
