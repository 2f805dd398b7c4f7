---------------------------- MODULE BufIOProofs -----------------------------
(***************************************************************************)
(* The buffer of a stream stays consistent, and a stream that appends never*)
(* changes a byte the file has, for every size of the buffer and of the    *)
(* file, every sequence of calls, and whatever the device gives or refuses.*)
(* And a buffered stream behaves as a file without a buffer, for all short *)
(* or failed reads and direct writes, provided that the device takes the   *)
(* bytes of a flush.                                                       *)
(***************************************************************************)
EXTENDS BufIO, SequenceTheorems, TLAPS

\* A stream between two steps of a call: the buffer may be full to the brim.
Sound(g) ==
  /\ g \in Streams /\ g.pos <= Len(g.disk)
  /\ g.flags # {"reading", "writing"}
  /\ g.bufsiz > 0 /\ Len(g.buf) <= g.bufsiz
  /\ ReadAhead(g) /\ AtEnd(g)

\* No byte of the file d is changed in e.
Kept(d, e) == Len(e) >= Len(d) /\ \A i \in 1 .. Len(d) : e[i] = d[i]

\* What a call on g may leave: the same stream, and no byte of a file that is
\* appended to has changed.
Follows(g, h) ==
  /\ Sound(h) /\ h.inuse = g.inuse /\ h.append = g.append
  /\ g.append => Kept(g.disk, h.disk)

\* ... with the buffer empty.
Clean(g) == g.buf = <<>> /\ g.flags = {}

-----------------------------------------------------------------------------
(* The device *)

\* The first k elements of a sequence are a sequence.
LEMMA PrefixProperties ==
  ASSUME NEW S, NEW s \in Seq(S), NEW m \in Nat, NEW k \in Nat, m + k <= Len(s)
  PROVE  /\ SubSeq(s, m + 1, m + k) \in Seq(S) /\ Len(SubSeq(s, m + 1, m + k)) = k
         /\ \A i \in 1 .. k : SubSeq(s, m + 1, m + k)[i] = s[m + i]
<1>1. m + 1 \in Int /\ m + k \in Int /\ \A i \in (m + 1) .. (m + k) : s[i] \in S
  BY LenProperties, ElementOfSeq
<1>2. /\ SubSeq(s, m + 1, m + k) \in Seq(S)
      /\ Len(SubSeq(s, m + 1, m + k)) = IF m + 1 <= m + k THEN (m + k) - (m + 1) + 1 ELSE 0
      /\ \A i \in 1 .. (m + k) - (m + 1) + 1 : SubSeq(s, m + 1, m + k)[i] = s[(m + 1) + i - 1]
  BY <1>1, SubSeqProperties
<1>3. (IF m + 1 <= m + k THEN (m + k) - (m + 1) + 1 ELSE 0) = k /\ (m + k) - (m + 1) + 1 = k
  OBVIOUS
<1>4. \A i \in 1 .. k : (m + 1) + i - 1 = m + i
  OBVIOUS
<1> QED BY <1>2, <1>3, <1>4

\* A write within or at the end of a file makes a file that ends where the
\* write does or later, and keeps all the bytes before it.
LEMMA OverlayProperties ==
  ASSUME NEW s \in Seq(Bytes), NEW w \in Seq(Bytes), NEW p \in Nat, p <= Len(s)
  PROVE  /\ Overlay(s, p, w) \in Seq(Bytes)
         /\ Len(Overlay(s, p, w)) = IF Len(s) > p + Len(w) THEN Len(s) ELSE p + Len(w)
         /\ \A i \in 1 .. p : Overlay(s, p, w)[i] = s[i]
<1> DEFINE n == IF Len(s) > p + Len(w) THEN Len(s) ELSE p + Len(w)
           o == Overlay(s, p, w)
<1>1. Len(s) \in Nat /\ Len(w) \in Nat
  BY LenProperties
<1>2. n \in Nat
  BY <1>1
<1>3. o = [i \in 1 .. n |-> IF i > p /\ i <= p + Len(w) THEN w[i - p] ELSE s[i]]
  BY DEF Overlay
<1>4. \A i \in 1 .. n : (IF i > p /\ i <= p + Len(w) THEN w[i - p] ELSE s[i]) \in Bytes
  <2>1. TAKE i \in 1 .. n
  <2>2. CASE i > p /\ i <= p + Len(w)
    <3>1. i - p \in 1 .. Len(w)
      BY <2>2, <1>1, <1>2
    <3> QED BY <3>1, <2>2, ElementOfSeq
  <2>3. CASE ~ (i > p /\ i <= p + Len(w))
    <3>1. i \in 1 .. Len(s)
      BY <2>3, <1>1, <1>2
    <3>2. s[i] \in Bytes
      BY <3>1, ElementOfSeq
    <3> QED BY <3>2, <2>3
  <2> QED BY <2>2, <2>3
<1> HIDE DEF n, o
<1>5. o \in [1 .. n -> Bytes]
  BY <1>3, <1>4
<1>6. o \in Seq(Bytes)
  BY <1>5, <1>2, SeqDef
<1>7. Len(o) = n
  <2>1. DOMAIN o = 1 .. n /\ DOMAIN o = 1 .. Len(o) /\ Len(o) \in Nat
    BY <1>3, <1>6, LenProperties
  <2> QED BY <2>1, <1>2
<1>8. \A i \in 1 .. p : o[i] = s[i]
  BY <1>1, <1>3, <1>2 DEF n
<1> QED BY <1>6, <1>7, <1>8 DEF n, o

-----------------------------------------------------------------------------
(* The operators *)

\* A file that is left alone keeps its bytes.
LEMMA KeptRefl == \A d : Len(d) \in Nat => Kept(d, d)
BY DEF Kept

\* The types of the fields of a stream.
LEMMA StreamFields ==
  ASSUME NEW g \in Streams
  PROVE  /\ g.inuse \in BOOLEAN /\ g.append \in BOOLEAN /\ g.needseek \in BOOLEAN
         /\ g.flags \in SUBSET {"reading", "writing"} /\ g.buf \in Seq(Bytes)
         /\ g.bufsiz \in Nat /\ g.bufmode \in 0 .. 7 /\ g.ungot \in Nat
         /\ g.disk \in Seq(Bytes) /\ g.pos \in Nat
         /\ Len(g.buf) \in Nat /\ Len(g.disk) \in Nat
<1>1. /\ g.inuse \in BOOLEAN /\ g.append \in BOOLEAN /\ g.needseek \in BOOLEAN
      /\ g.flags \in SUBSET {"reading", "writing"} /\ g.buf \in Seq(Bytes)
      /\ g.bufsiz \in Nat /\ g.bufmode \in 0 .. 7 /\ g.ungot \in Nat
      /\ g.disk \in Seq(Bytes) /\ g.pos \in Nat
  BY DEF Streams
<1> QED BY <1>1, LenProperties

\* After SeekEnd an appending stream is at the end of its file.
LEMMA SeekEndProperties ==
  ASSUME NEW g \in Streams, g.pos <= Len(g.disk), AtEnd(g)
  PROVE  /\ SeekEnd(g) \in Streams
         /\ SeekEnd(g).disk = g.disk /\ SeekEnd(g).pos <= Len(g.disk)
         /\ SeekEnd(g).inuse = g.inuse /\ SeekEnd(g).append = g.append
         /\ SeekEnd(g).bufsiz = g.bufsiz /\ SeekEnd(g).buf = g.buf /\ SeekEnd(g).flags = g.flags
         /\ g.append => SeekEnd(g).pos = Len(g.disk) /\ ~ SeekEnd(g).needseek
<1>1. CASE g.append /\ g.needseek
  <2>1. SeekEnd(g) = [g EXCEPT !.pos = Len(g.disk), !.needseek = FALSE]
    BY <1>1 DEF SeekEnd
  <2>2. g.disk \in Seq(Bytes) /\ Len(g.disk) \in Nat
    BY StreamFields
  <2>3. SeekEnd(g) \in Streams
    BY <2>1, <2>2 DEF Streams
  <2>4. SeekEnd(g).pos = Len(g.disk) /\ SeekEnd(g).needseek = FALSE
    BY <2>1 DEF Streams
  <2>5. /\ SeekEnd(g).disk = g.disk /\ SeekEnd(g).inuse = g.inuse /\ SeekEnd(g).append = g.append
        /\ SeekEnd(g).bufsiz = g.bufsiz /\ SeekEnd(g).buf = g.buf /\ SeekEnd(g).flags = g.flags
    BY <2>1 DEF Streams
  <2> QED BY <2>2, <2>3, <2>4, <2>5
<1>2. CASE ~ (g.append /\ g.needseek)
  <2>1. SeekEnd(g) = g
    BY <1>2 DEF SeekEnd
  <2> QED BY <2>1, <1>2, StreamFields DEF AtEnd
<1> QED BY <1>1, <1>2

\* A write where an appending stream is at the end changes no byte.
LEMMA WriteProperties ==
  ASSUME NEW g \in Streams, g.pos <= Len(g.disk), NEW w \in Seq(Bytes),
         g.append => g.pos = Len(g.disk)
  PROVE  LET h == DeviceWrite(g, w)
         IN /\ h \in Streams /\ h.pos <= Len(h.disk)
            /\ h = [g EXCEPT !.disk = h.disk, !.pos = h.pos]
            /\ g.append => h.pos = Len(h.disk) /\ Kept(g.disk, h.disk)
<1> DEFINE h == DeviceWrite(g, w)
           d == Overlay(g.disk, g.pos, w)
<1>1. /\ g.disk \in Seq(Bytes) /\ g.pos \in Nat /\ Len(g.disk) \in Nat /\ g.append \in BOOLEAN
      /\ Len(w) \in Nat
  BY StreamFields, LenProperties
<1>2. /\ d \in Seq(Bytes)
      /\ Len(d) = IF Len(g.disk) > g.pos + Len(w) THEN Len(g.disk) ELSE g.pos + Len(w)
      /\ \A i \in 1 .. g.pos : d[i] = g.disk[i]
  BY <1>1, OverlayProperties
<1>3. h = [g EXCEPT !.disk = d, !.pos = g.pos + Len(w)]
  BY DEF DeviceWrite
<1> HIDE DEF d, h
<1>4. h \in Streams /\ h.disk = d /\ h.pos = g.pos + Len(w) /\ h = [g EXCEPT !.disk = h.disk, !.pos = h.pos]
  <2>1. g.pos + Len(w) \in Nat
    BY <1>1
  <2>2. h \in Streams
    BY <1>2, <1>3, <2>1 DEF Streams
  <2>3. h.disk = d /\ h.pos = g.pos + Len(w)
    BY <1>3 DEF Streams
  <2> QED BY <2>2, <2>3, <1>3
<1>5. h.pos <= Len(h.disk)
  BY <1>1, <1>2, <1>4
<1>6. ASSUME g.append PROVE h.pos = Len(h.disk) /\ Kept(g.disk, h.disk)
  BY <1>1, <1>2, <1>4, <1>6 DEF Kept
<1> QED BY <1>4, <1>5, <1>6 DEF h

\* A stream that is emptied is otherwise as it was.
LEMMA EmptiedProperties ==
  ASSUME NEW g \in Streams
  PROVE  /\ Emptied(g) \in Streams /\ Clean(Emptied(g))
         /\ Emptied(g).disk = g.disk /\ Emptied(g).pos = g.pos
         /\ Emptied(g).inuse = g.inuse /\ Emptied(g).append = g.append
         /\ Emptied(g).needseek = g.needseek /\ Emptied(g).bufsiz = g.bufsiz
<1>1. <<>> \in Seq(Bytes)
  BY EmptySeq
<1> QED BY <1>1 DEF Emptied, Clean, Streams

\* A stream without anything in its buffer is sound if it is where it should be.
LEMMA CleanSound ==
  ASSUME NEW g \in Streams, Clean(g), g.pos <= Len(g.disk), g.bufsiz > 0,
         g.append /\ ~ g.needseek => g.pos = Len(g.disk)
  PROVE  Sound(g)
<1>1. Len(g.buf) = 0 /\ g.bufsiz \in Nat /\ g.flags = {}
  BY EmptySeq, StreamFields DEF Clean
<1> QED BY <1>1 DEF Sound, ReadAhead, AtEnd

\* A flush leaves a clean stream, and of a file that is appended to every byte.
LEMMA FlushedProperties ==
  ASSUME NEW g, Sound(g), NEW h \in Flushed(g)
  PROVE  Follows(g, h) /\ Clean(h) /\ h.bufsiz = g.bufsiz
<1>1. g \in Streams /\ g.pos <= Len(g.disk) /\ g.bufsiz > 0 /\ ReadAhead(g) /\ AtEnd(g)
  BY DEF Sound
<1>2. /\ g.buf \in Seq(Bytes) /\ g.disk \in Seq(Bytes) /\ g.pos \in Nat
      /\ Len(g.buf) \in Nat /\ Len(g.disk) \in Nat /\ g.append \in BOOLEAN
      /\ g.needseek \in BOOLEAN /\ g.flags \in SUBSET {"reading", "writing"} /\ g.inuse \in BOOLEAN
  BY <1>1, StreamFields
<1>3. CASE g.flags # {} /\ g.buf # <<>> /\ "writing" \in g.flags
  <2>1. PICK k \in 0 .. Len(g.buf) : h = Emptied(DeviceWrite(SeekEnd(g), SubSeq(g.buf, 1, k)))
    <3>1. h \in {Emptied(DeviceWrite(SeekEnd(g), SubSeq(g.buf, 1, k))) :
                  k \in IF FlushFails THEN 0 .. Len(g.buf) ELSE {Len(g.buf)}}
      BY <1>3 DEF Flushed
    <3> QED BY <3>1, <1>2
  <2> DEFINE w == SubSeq(g.buf, 0 + 1, 0 + k)
             s == SeekEnd(g)
             d == DeviceWrite(s, w)
  <2>2. w \in Seq(Bytes) /\ h = Emptied(d)
    <3>1. w \in Seq(Bytes)
      BY <1>2, PrefixProperties
    <3>2. 0 + 1 = 1 /\ 0 + k = k
      OBVIOUS
    <3> QED BY <3>1, <3>2, <2>1
  <2> HIDE DEF w
  <2>3. /\ s \in Streams /\ s.disk = g.disk /\ s.pos <= Len(s.disk)
        /\ s.inuse = g.inuse /\ s.append = g.append /\ s.bufsiz = g.bufsiz
        /\ g.append => s.pos = Len(g.disk) /\ ~ s.needseek
    BY <1>1, SeekEndProperties
  <2> HIDE DEF s
  <2>4. /\ d \in Streams /\ d.pos <= Len(d.disk)
        /\ d = [s EXCEPT !.disk = d.disk, !.pos = d.pos]
        /\ s.append => d.pos = Len(d.disk) /\ Kept(s.disk, d.disk)
    BY <2>2, <2>3, WriteProperties
  <2> HIDE DEF d
  <2>5. d.inuse = g.inuse /\ d.append = g.append /\ d.bufsiz = g.bufsiz
    BY <2>3, <2>4 DEF Streams
  <2>6. /\ h \in Streams /\ Clean(h) /\ h.disk = d.disk /\ h.pos = d.pos
        /\ h.inuse = g.inuse /\ h.append = g.append /\ h.bufsiz = g.bufsiz
    BY <2>2, <2>4, <2>5, EmptiedProperties
  <2>7. Sound(h)
    BY <2>6, <2>4, <2>3, <1>1, CleanSound
  <2> QED BY <2>6, <2>7, <2>3, <2>4 DEF Follows
<1>4. CASE g.flags # {} /\ g.buf # <<>> /\ "writing" \notin g.flags
  <2> DEFINE d == [g EXCEPT !.pos = g.pos - Len(g.buf)]
  <2>1. h = Emptied(d)
    BY <1>4 DEF Flushed
  <2>2. "reading" \in g.flags
    BY <1>4, <1>2
  <2>3. d \in Streams /\ d.pos = g.pos - Len(g.buf) /\ d.disk = g.disk /\ d.bufsiz = g.bufsiz
        /\ d.inuse = g.inuse /\ d.append = g.append /\ d.needseek = g.needseek
    <3>1. g.pos - Len(g.buf) \in Nat
      BY <1>1, <1>2, <2>2 DEF ReadAhead
    <3>2. d \in Streams
      BY <1>1, <3>1 DEF Streams
    <3> QED BY <1>1, <3>2 DEF Streams
  <2>4. ~ (g.append /\ ~ g.needseek)
    BY <1>1, <1>4, <2>2 DEF AtEnd
  <2> HIDE DEF d
  <2>5. /\ h \in Streams /\ Clean(h) /\ h.disk = g.disk /\ h.pos = g.pos - Len(g.buf)
        /\ h.inuse = g.inuse /\ h.append = g.append /\ h.needseek = g.needseek /\ h.bufsiz = g.bufsiz
    BY <2>1, <2>3, EmptiedProperties
  <2>6. h.pos <= Len(h.disk)
    BY <2>5, <1>1, <1>2
  <2>7. Sound(h)
    BY <2>4, <2>5, <2>6, <1>1, CleanSound
  <2> QED BY <2>5, <2>7, <1>2, KeptRefl DEF Follows
<1>5. CASE ~ (g.flags # {} /\ g.buf # <<>>)
  <2>1. h = Emptied(g)
    BY <1>5 DEF Flushed
  <2>2. /\ h \in Streams /\ Clean(h) /\ h.disk = g.disk /\ h.pos = g.pos
        /\ h.inuse = g.inuse /\ h.append = g.append /\ h.needseek = g.needseek /\ h.bufsiz = g.bufsiz
    BY <2>1, <1>1, EmptiedProperties
  <2>3. g.append /\ ~ g.needseek => g.pos = Len(g.disk)
    BY <1>1 DEF AtEnd
  <2>4. Sound(h)
    BY <2>2, <2>3, <1>1, CleanSound
  <2> QED BY <2>2, <2>4, <1>2, KeptRefl DEF Follows
<1> QED BY <1>3, <1>4, <1>5

\* Two steps of a call that each keep the file keep it together.
LEMMA FollowsTransitive ==
  ASSUME NEW g, NEW h, NEW k, Sound(g), Follows(g, h), Follows(h, k)
  PROVE  Follows(g, k)
<1>1. Len(g.disk) \in Nat /\ Len(h.disk) \in Nat /\ Len(k.disk) \in Nat
  BY StreamFields DEF Sound, Follows
<1>2. Kept(g.disk, h.disk) /\ Kept(h.disk, k.disk) => Kept(g.disk, k.disk)
  BY <1>1 DEF Kept
<1> QED BY <1>2 DEF Follows

\* A step that changes nothing keeps the file.
LEMMA FollowsItself == ASSUME NEW g, Sound(g) PROVE Follows(g, g)
<1>1. Len(g.disk) \in Nat
  BY StreamFields DEF Sound
<1> QED BY <1>1, KeptRefl DEF Follows

\* The buffer is clean, or it is as it was and does not go the other way.
LEMMA TurnedProperties ==
  ASSUME NEW g, Sound(g), NEW from, NEW h \in Turned(g, from)
  PROVE  /\ Follows(g, h) /\ h.bufsiz = g.bufsiz
         /\ Clean(h) \/ (h = g /\ from \notin g.flags)
<1>1. CASE from \in g.flags
  BY <1>1, FlushedProperties DEF Turned
<1>2. CASE from \notin g.flags
  BY <1>2, FollowsItself DEF Turned
<1> QED BY <1>1, <1>2

\* The device is moved under a clean buffer.
LEMMA MovedProperties ==
  ASSUME NEW g, Sound(g), Clean(g), NEW p \in Nat, p <= Len(g.disk),
         g.append /\ ~ g.needseek => p = Len(g.disk)
  PROVE  LET h == [g EXCEPT !.pos = p] IN Follows(g, h) /\ Clean(h)
<1> DEFINE h == [g EXCEPT !.pos = p]
<1>1. g \in Streams /\ g.bufsiz > 0 /\ Len(g.disk) \in Nat
  BY StreamFields DEF Sound
<1>2. h \in Streams
  BY <1>1 DEF Streams
<1>3. /\ h.pos = p /\ h.disk = g.disk /\ h.buf = g.buf /\ h.flags = g.flags /\ h.inuse = g.inuse
      /\ h.append = g.append /\ h.needseek = g.needseek /\ h.bufsiz = g.bufsiz
  BY <1>1 DEF Streams
<1> HIDE DEF h
<1>4. Clean(h)
  BY <1>3 DEF Clean
<1>5. Sound(h)
  BY <1>1, <1>2, <1>3, <1>4, CleanSound
<1> QED BY <1>1, <1>3, <1>4, <1>5, KeptRefl DEF Follows, h

\* A byte that is pushed back or forgotten and a stream that is marked for a
\* seek to its end are as sound as before.
LEMMA MarkedProperties ==
  ASSUME NEW g, Sound(g)
  PROVE  /\ Follows(g, Marked(g)) /\ Marked(g).bufsiz = g.bufsiz
         /\ Marked(g).buf = g.buf /\ Marked(g).flags = g.flags
         /\ Marked(g).disk = g.disk /\ Marked(g).pos = g.pos
         /\ ~ (Marked(g).append /\ ~ Marked(g).needseek)
<1> DEFINE h == Marked(g)
<1>1. g \in Streams /\ Len(g.disk) \in Nat /\ g.append \in BOOLEAN /\ g.needseek \in BOOLEAN
  BY StreamFields DEF Sound
<1>2. h \in Streams
  BY <1>1 DEF Streams, Marked
<1>3. /\ h.pos = g.pos /\ h.disk = g.disk /\ h.buf = g.buf /\ h.flags = g.flags /\ h.inuse = g.inuse
      /\ h.append = g.append /\ h.bufsiz = g.bufsiz
  BY <1>1 DEF Streams, Marked
<1>4. h.needseek = (g.needseek \/ g.append)
  BY <1>1 DEF Streams, Marked
<1> HIDE DEF h
<1>5. Sound(h)
  BY <1>2, <1>3, <1>4 DEF Sound, ReadAhead, AtEnd
<1> QED BY <1>1, <1>3, <1>4, <1>5, KeptRefl DEF Follows, h

\* A byte that is pushed back or got again changes nothing else.
LEMMA UngotProperties ==
  ASSUME NEW g, Sound(g), NEW n \in Nat
  PROVE  LET h == [g EXCEPT !.ungot = n]
         IN /\ Follows(g, h) /\ h.bufsiz = g.bufsiz /\ h.buf = g.buf /\ h.flags = g.flags
            /\ h.disk = g.disk /\ h.pos = g.pos /\ h.needseek = g.needseek
<1> DEFINE h == [g EXCEPT !.ungot = n]
<1>1. g \in Streams /\ Len(g.disk) \in Nat
  BY StreamFields DEF Sound
<1>2. h \in Streams
  BY <1>1 DEF Streams
<1>3. /\ h.pos = g.pos /\ h.disk = g.disk /\ h.buf = g.buf /\ h.flags = g.flags /\ h.inuse = g.inuse
      /\ h.append = g.append /\ h.bufsiz = g.bufsiz /\ h.needseek = g.needseek
  BY <1>1 DEF Streams
<1> HIDE DEF h
<1>5. Sound(h)
  BY <1>2, <1>3 DEF Sound, ReadAhead, AtEnd
<1> QED BY <1>1, <1>3, <1>5, KeptRefl DEF Follows, h

-----------------------------------------------------------------------------
(* The invariant, and the steps *)

\* Between two calls.
Resting(g) ==
  /\ Sound(g)
  /\ "writing" \in g.flags => Len(g.buf) < g.bufsiz
  /\ g.flags = {} => g.buf = <<>>

IInv == TypeOK /\ BufferConsistent

\* A stream with an empty buffer may be left to the program.
LEMMA CleanResting ==
  ASSUME NEW g, Sound(g), Clean(g)
  PROVE  Resting(g)
BY EmptySeq DEF Resting, Clean, Sound

\* The invariant, of an open stream.
LEMMA InvResting ==
  ASSUME IInv, f.inuse
  PROVE  Resting(f)
BY DEF IInv, TypeOK, BufferConsistent, Resting, Sound, writing

\* What a step on an open stream has to show.
LEMMA Goal ==
  ASSUME IInv, f.inuse, Follows(f, f'), Resting(f'), ret' \in Seq(Int), ioerr' \in BOOLEAN
  PROVE  IInv' /\ Appends
<1>1. TypeOK'
  BY DEF TypeOK, Resting, Sound
<1>2. BufferConsistent'
  BY DEF BufferConsistent, Resting, Sound, writing, ReadAhead, AtEnd
<1>3. Appends
  BY DEF Appends, Follows, Kept
<1> QED BY <1>1, <1>2, <1>3 DEF IInv

\* The answers that are one number.
LEMMA OneNumber == ASSUME NEW n \in Int PROVE <<n>> \in Seq(Int)
OBVIOUS

\* The numbers that calls answer with, and both values of ioerr.
LEMMA Answers ==
  <<0>> \in Seq(Int) /\ <<-1>> \in Seq(Int) /\ TRUE \in BOOLEAN /\ FALSE \in BOOLEAN
<1>1. 0 \in Int /\ -1 \in Int
  OBVIOUS
<1> QED BY <1>1, OneNumber

\* Before the first call.
LEMMA InitStep == ASSUME Init PROVE IInv
<1>1. <<>> \in Seq(Bytes) /\ Len(<<>>) = 0 /\ <<>> \in Seq(Int)
  BY EmptySeq
<1>2. f = Closed(<<>>) /\ ret = <<>> /\ ioerr = FALSE
  BY DEF Init, EOF
<1>3. f \in Streams /\ f.pos <= Len(f.disk)
  BY <1>1, <1>2 DEF Closed, Streams
<1>4. TypeOK
  BY <1>1, <1>2, <1>3 DEF TypeOK
<1>5. BufferConsistent
  BY <1>1, <1>2 DEF BufferConsistent, Closed, ReadAhead, AtEnd, writing
<1> QED BY <1>4, <1>5 DEF IInv

\* fopen: the buffer is empty and a stream that appends is to seek first.
LEMMA FopenStep == ASSUME IInv, NEW mode \in Modes, Fopen(mode) PROVE IInv' /\ Appends
<1>1. ~ f.inuse /\ Appends
  BY DEF Fopen, Appends
<1>2. ret' \in Seq(Int) /\ ioerr' \in BOOLEAN
  BY Answers DEF Fopen
<1>3. CASE UNCHANGED f
  BY <1>2, <1>3, <1>1 DEF IInv, TypeOK, BufferConsistent, writing
<1>4. CASE f' = Opened(IF mode = "w+" THEN <<>> ELSE f.disk, mode = "a+")
  <2>1. <<>> \in Seq(Bytes) /\ Len(<<>>) = 0 /\ f.disk \in Seq(Bytes) /\ DefaultSize \in Nat \ {0}
    BY EmptySeq, BufIOAssumption, StreamFields DEF IInv, TypeOK
  <2>2. PICK d \in Seq(Bytes), a \in BOOLEAN : f' = Opened(d, a)
    BY <2>1, <1>4
  <2>3. Len(d) \in Nat
    BY LenProperties
  <2>4. /\ f'.disk = d /\ f'.append = a /\ f'.needseek = a /\ f'.flags = {} /\ f'.buf = <<>>
        /\ f'.bufsiz = DefaultSize /\ f'.pos = 0 /\ f'.inuse
    BY <2>2 DEF Opened, Closed
  <2>5. f' \in Streams
    <3>1. Closed(d) \in Streams
      BY <2>1 DEF Closed, Streams
    <3>2. IOFBF + IOBUF \in 0 .. 7 /\ DefaultSize \in Nat
      BY <2>1 DEF IOFBF, IOBUF
    <3> QED BY <3>1, <3>2, <2>2 DEF Opened, Streams
  <2>6. TypeOK'
    <3>1. f'.pos <= Len(f'.disk)
      BY <2>3, <2>4
    <3> QED BY <2>5, <3>1, <1>2 DEF TypeOK
  <2>7. BufferConsistent'
    BY <2>1, <2>4 DEF BufferConsistent, ReadAhead, AtEnd, writing
  <2> QED BY <1>1, <2>6, <2>7 DEF IInv
<1> QED BY <1>3, <1>4 DEF Fopen

\* fclose: the buffer is flushed and the stream given up.
LEMMA FcloseStep == ASSUME IInv, Fclose PROVE IInv' /\ Appends
<1>1. PICK g \in Flushed(f) : f' = Closed(g.disk)
  BY DEF Fclose
<1>2. f.inuse /\ Sound(f)
  BY InvResting DEF Fclose, Resting
<1>3. Follows(f, g)
  BY <1>1, <1>2, FlushedProperties
<1>4. g.disk \in Seq(Bytes) /\ Len(g.disk) \in Nat
  BY <1>3, StreamFields DEF Follows, Sound
<1>5. <<>> \in Seq(Bytes) /\ Len(<<>>) = 0
  BY EmptySeq
<1>6. /\ f'.disk = g.disk /\ f'.append = FALSE /\ f'.flags = {} /\ f'.buf = <<>>
      /\ f'.bufsiz = 0 /\ f'.pos = 0 /\ f'.inuse = FALSE
  BY <1>1 DEF Closed
<1>7. f' \in Streams
  BY <1>1, <1>4, <1>5 DEF Closed, Streams
<1>8. TypeOK'
  <2>1. f'.pos <= Len(f'.disk)
    BY <1>4, <1>6
  <2>2. ret' \in Seq(Int) /\ ioerr' \in BOOLEAN
    BY Answers DEF Fclose
  <2> QED BY <1>7, <2>1, <2>2 DEF TypeOK
<1>9. BufferConsistent'
  BY <1>5, <1>6 DEF BufferConsistent, ReadAhead, AtEnd, writing
<1>10. Appends
  BY <1>3, <1>6 DEF Appends, Follows, Kept
<1> QED BY <1>8, <1>9, <1>10 DEF IInv

\* fflush: the buffer is flushed.
LEMMA FflushStep == ASSUME IInv, Fflush PROVE IInv' /\ Appends
<1>1. f.inuse /\ Sound(f) /\ f' \in Flushed(f) /\ ret' = <<0>> /\ ioerr' = FALSE
  BY InvResting DEF Fflush, Resting
<1>2. Follows(f, f') /\ Clean(f')
  BY <1>1, FlushedProperties
<1>3. Resting(f')
  BY <1>2, CleanResting DEF Follows
<1>4. ret' \in Seq(Int) /\ ioerr' \in BOOLEAN
  BY <1>1, Answers
<1> QED BY <1>1, <1>2, <1>3, <1>4, Goal

\* A byte in the buffer, which was empty or written to.
LEMMA PutProperties ==
  ASSUME NEW g, Resting(g), "reading" \notin g.flags, NEW b \in Bytes
  PROVE  LET h == PutBuffered(g, b)
         IN Follows(g, h) /\ "writing" \in h.flags
<1> DEFINE h == PutBuffered(g, b)
<1>1. g \in Streams /\ Sound(g)
  BY DEF Resting, Sound
<1>2. /\ g.flags \in SUBSET {"reading", "writing"} /\ g.buf \in Seq(Bytes) /\ Len(g.buf) \in Nat
      /\ g.bufsiz \in Nat /\ Len(g.disk) \in Nat
  BY <1>1, StreamFields
<1>3. g.flags \cup {"writing"} = {"writing"}
  BY <1>2
<1>4. Append(g.buf, b) \in Seq(Bytes) /\ Len(Append(g.buf, b)) = Len(g.buf) + 1
  BY <1>2
<1>5. h \in Streams
  BY <1>1, <1>3, <1>4 DEF PutBuffered, Streams
<1>6. /\ h.flags = {"writing"} /\ h.buf = Append(g.buf, b) /\ h.inuse = g.inuse
      /\ h.append = g.append /\ h.needseek = g.needseek /\ h.disk = g.disk /\ h.pos = g.pos
      /\ h.bufsiz = g.bufsiz
  BY <1>1, <1>3 DEF PutBuffered, Streams
<1>7. Len(g.buf) < g.bufsiz
  <2>1. CASE g.flags = {}
    BY <2>1, <1>2, EmptySeq DEF Resting, Sound
  <2>2. CASE g.flags # {}
    <3>1. "writing" \in g.flags
      BY <2>2, <1>2
    <3> QED BY <3>1 DEF Resting
  <2> QED BY <2>1, <2>2
<1> HIDE DEF h
<1>8. Sound(h)
  <2>1. h.flags # {"reading", "writing"} /\ ReadAhead(h)
    BY <1>6 DEF ReadAhead
  <2>2. Len(h.buf) <= h.bufsiz
    BY <1>2, <1>4, <1>6, <1>7
  <2>3. AtEnd(h)
    BY <1>1, <1>6 DEF Sound, AtEnd
  <2> QED BY <2>1, <2>2, <2>3, <1>1, <1>5, <1>6 DEF Sound
<1> QED BY <1>2, <1>6, <1>8, KeptRefl DEF Follows, h

\* fputc: the buffer is turned, filled, and flushed when it is full.
LEMMA PutcStep == ASSUME IInv, NEW b \in Bytes, Putc(b) PROVE IInv' /\ Appends
<1>1. f.inuse /\ Resting(f) /\ f' \in DefaultPutc(f, b) /\ ret' = <<b>> /\ ioerr' = FALSE
  BY InvResting DEF Putc
<1>2. PICK turned \in Turned(f, "reading") :
        f' \in LET put == PutBuffered(turned, b) IN IF MustFlush(put, b) THEN Flushed(put) ELSE {put}
  BY <1>1 DEF DefaultPutc
<1>3. Follows(f, turned) /\ (Clean(turned) \/ (turned = f /\ "reading" \notin f.flags))
  BY <1>1, <1>2, TurnedProperties DEF Resting
<1>4. Resting(turned) /\ "reading" \notin turned.flags
  BY <1>1, <1>3, CleanResting DEF Follows, Clean
<1> DEFINE put == PutBuffered(turned, b)
<1>5. Follows(turned, put) /\ "writing" \in put.flags
  BY <1>4, PutProperties
<1>6. f' \in IF MustFlush(put, b) THEN Flushed(put) ELSE {put}
  BY <1>2
<1> HIDE DEF put
<1>7. Sound(put) /\ Follows(f, put)
  BY <1>1, <1>3, <1>5, FollowsTransitive DEF Resting, Follows
<1>8. Follows(f, f') /\ Resting(f')
  <2>1. CASE MustFlush(put, b)
    <3>1. Follows(put, f') /\ Clean(f')
      BY <2>1, <1>6, <1>7, FlushedProperties
    <3>2. Follows(f, f')
      BY <3>1, <1>1, <1>7, FollowsTransitive DEF Resting
    <3> QED BY <3>1, <3>2, CleanResting DEF Follows
  <2>2. CASE ~ MustFlush(put, b)
    <3>1. f' = put
      BY <2>2, <1>6
    <3>2. Len(put.buf) # put.bufsiz
      BY <2>2 DEF MustFlush
    <3>3. Len(put.buf) \in Nat /\ put.bufsiz \in Nat
      BY <1>7, StreamFields DEF Sound
    <3>4. Resting(put)
      BY <3>2, <3>3, <1>5, <1>7 DEF Resting, Sound
    <3> QED BY <3>1, <3>4, <1>7
  <2> QED BY <2>1, <2>2
<1>9. ret' \in Seq(Int)
  BY <1>1, BufIOAssumption, OneNumber
<1> QED BY <1>1, <1>8, <1>9, Goal

\* The byte pushed back is in no way of the rest.
LEMMA UngotStep ==
  ASSUME IInv, f.inuse, NEW n \in Nat, f' = [f EXCEPT !.ungot = n],
         ret' \in Seq(Int), ioerr' \in BOOLEAN
  PROVE  IInv' /\ Appends
<1>1. Resting(f)
  BY InvResting
<1>2. Follows(f, f') /\ f'.bufsiz = f.bufsiz /\ f'.buf = f.buf /\ f'.flags = f.flags
  BY <1>1, UngotProperties DEF Resting
<1>3. Resting(f')
  BY <1>1, <1>2 DEF Resting, Follows
<1> QED BY <1>2, <1>3, Goal

\* ungetc: the byte is kept beside the buffer.
LEMMA UngetcStep == ASSUME IInv, NEW b \in Bytes, Ungetc(b) PROVE IInv' /\ Appends
<1>1. b \in Nat /\ b + 1 \in Nat /\ <<b>> \in Seq(Int) /\ <<>> \in Seq(Int)
  BY BufIOAssumption, OneNumber, EmptySeq
<1>2. f.inuse /\ ioerr' = FALSE
  BY DEF Ungetc
<1>3. CASE f.ungot = 0
  BY <1>1, <1>2, <1>3, UngotStep DEF Ungetc
<1>4. CASE f.ungot # 0
  <2>1. f' = f /\ ret' = <<>>
    BY <1>4 DEF Ungetc, EOF
  <2>2. Resting(f) /\ Follows(f, f')
    BY <2>1, <1>2, InvResting, FollowsItself DEF Resting
  <2> QED BY <2>1, <2>2, <1>1, <1>2, Goal
<1> QED BY <1>3, <1>4

\* A byte is taken out of the buffer, or the buffer is empty.
LEMMA GetNextProperties ==
  ASSUME NEW g, Sound(g), g.flags = {"reading"}, GetNext(g)
  PROVE  Follows(g, f') /\ Resting(f') /\ ret' \in Seq(Int)
<1>1. /\ g \in Streams /\ g.buf \in Seq(Bytes) /\ Len(g.buf) \in Nat /\ Len(g.disk) \in Nat
      /\ g.pos \in Nat /\ g.bufsiz \in Nat
  BY StreamFields DEF Sound
<1>2. CASE g.buf = <<>>
  <2>1. f' = g /\ ret' = <<>>
    BY <1>2 DEF GetNext, EOF
  <2>2. Resting(g)
    BY <1>2 DEF Resting
  <2> QED BY <2>1, <2>2, FollowsItself, EmptySeq
<1>3. CASE g.buf # <<>>
  <2>1. f' = [g EXCEPT !.buf = Tail(g.buf)] /\ ret' = <<Head(g.buf)>>
    BY <1>3 DEF GetNext
  <2>2. /\ Head(g.buf) \in Bytes /\ Tail(g.buf) \in Seq(Bytes) /\ Len(Tail(g.buf)) = Len(g.buf) - 1
        /\ \A i \in 1 .. Len(Tail(g.buf)) : Tail(g.buf)[i] = g.buf[i + 1]
    BY <1>1, <1>3, HeadTailProperties
  <2>3. f' \in Streams
    BY <2>1, <2>2, <1>1 DEF Streams
  <2>4. /\ f'.buf = Tail(g.buf) /\ f'.flags = g.flags /\ f'.disk = g.disk /\ f'.pos = g.pos
        /\ f'.inuse = g.inuse /\ f'.append = g.append /\ f'.needseek = g.needseek
        /\ f'.bufsiz = g.bufsiz
    BY <2>1, <1>1 DEF Streams
  <2>5. Len(g.buf) <= g.pos /\ \A i \in 1 .. Len(g.buf) : g.buf[i] = g.disk[g.pos - Len(g.buf) + i]
    BY DEF Sound, ReadAhead
  <2>6. ReadAhead(f')
    <3>1. Len(f'.buf) <= f'.pos
      BY <2>2, <2>4, <2>5, <1>1
    <3>2. ASSUME NEW i \in 1 .. Len(f'.buf) PROVE f'.buf[i] = f'.disk[f'.pos - Len(f'.buf) + i]
      <4>1. i + 1 \in 1 .. Len(g.buf) /\ f'.buf[i] = g.buf[i + 1]
        BY <2>2, <2>4, <1>1
      <4>2. f'.pos - Len(f'.buf) + i = g.pos - Len(g.buf) + (i + 1)
        BY <2>2, <2>4, <1>1
      <4> QED BY <4>1, <4>2, <2>4, <2>5
    <3> QED BY <3>1, <3>2 DEF ReadAhead
  <2>7. AtEnd(f')
    BY <2>4, <1>3 DEF Sound, AtEnd
  <2>8. Sound(f')
    BY <2>2, <2>3, <2>4, <2>6, <2>7, <1>1 DEF Sound
  <2>9. Resting(f')
    BY <2>4, <2>8 DEF Resting
  <2>10. ret' \in Seq(Int)
    BY <2>1, <2>2, BufIOAssumption, OneNumber
  <2> QED BY <2>4, <2>8, <2>9, <2>10, <1>1, KeptRefl DEF Follows
<1> QED BY <1>2, <1>3

\* A read of the device into the empty buffer.
LEMMA FilledProperties ==
  ASSUME NEW g, Sound(g), g.flags = {"reading"}, g.buf = <<>>, NEW k \in Available(g, g.bufsiz)
  PROVE  Follows(g, Filled(g, k)) /\ Filled(g, k).flags = {"reading"}
<1> DEFINE h == Filled(g, k)
           b == SubSeq(g.disk, g.pos + 1, g.pos + k)
<1>1. /\ g \in Streams /\ g.disk \in Seq(Bytes) /\ Len(g.disk) \in Nat /\ g.pos \in Nat /\ g.bufsiz \in Nat
  BY StreamFields DEF Sound
<1>2. k \in Nat /\ k <= g.bufsiz /\ g.pos + k <= Len(g.disk)
  BY <1>1 DEF Available
<1>3. b \in Seq(Bytes) /\ Len(b) = k /\ \A i \in 1 .. k : b[i] = g.disk[g.pos + i]
  <2>1. /\ SubSeq(g.disk, g.pos + 1, g.pos + k) \in Seq(Bytes)
        /\ Len(SubSeq(g.disk, g.pos + 1, g.pos + k)) = k
        /\ \A i \in 1 .. k : SubSeq(g.disk, g.pos + 1, g.pos + k)[i] = g.disk[g.pos + i]
    <3> DEFINE s == g.disk
               m == g.pos
    <3>1. s \in Seq(Bytes) /\ m \in Nat /\ k \in Nat /\ m + k <= Len(s)
      BY <1>1, <1>2
    <3> HIDE DEF s, m
    <3>2. /\ SubSeq(s, m + 1, m + k) \in Seq(Bytes) /\ Len(SubSeq(s, m + 1, m + k)) = k
          /\ \A i \in 1 .. k : SubSeq(s, m + 1, m + k)[i] = s[m + i]
      BY <3>1, PrefixProperties
    <3> QED BY <3>2 DEF s, m
  <2> QED BY <2>1
<1>4. h = [g EXCEPT !.buf = b, !.pos = g.pos + k]
  BY DEF Filled
<1> HIDE DEF b, h
<1>5. h \in Streams
  <2>1. g.pos + k \in Nat
    BY <1>1, <1>2
  <2> QED BY <2>1, <1>1, <1>3, <1>4 DEF Streams
<1>6. /\ h.buf = b /\ h.pos = g.pos + k /\ h.flags = g.flags /\ h.disk = g.disk /\ h.inuse = g.inuse
      /\ h.append = g.append /\ h.needseek = g.needseek /\ h.bufsiz = g.bufsiz
  BY <1>1, <1>4 DEF Streams
<1>7. ReadAhead(h)
  <2>1. h.pos - Len(h.buf) = g.pos /\ Len(h.buf) <= h.pos
    BY <1>1, <1>2, <1>3, <1>6
  <2> QED BY <2>1, <1>3, <1>6 DEF ReadAhead
<1>8. AtEnd(h)
  <2>1. SUFFICES ASSUME g.append, ~ g.needseek
                 PROVE  h.pos = Len(h.disk) /\ h.buf = <<>>
    BY <1>6 DEF AtEnd
  <2>2. g.pos = Len(g.disk)
    BY <2>1 DEF Sound, AtEnd
  <2>3. k = 0
    BY <2>2, <1>1, <1>2
  <2>4. b = <<>>
    BY <2>3, <1>3, EmptySeq
  <2> QED BY <2>2, <2>3, <2>4, <1>1, <1>6
<1>9. Sound(h)
  BY <1>2, <1>3, <1>5, <1>6, <1>7, <1>8 DEF Sound
<1> QED BY <1>6, <1>9, <1>1, KeptRefl DEF Follows, h

\* A buffer that is not written to may be read from.
LEMMA ReadingProperties ==
  ASSUME NEW g, Resting(g), "writing" \notin g.flags
  PROVE  Follows(g, Reading(g)) /\ Reading(g).flags = {"reading"}
<1> DEFINE h == Reading(g)
<1>1. g \in Streams /\ g.flags \in SUBSET {"reading", "writing"} /\ Len(g.disk) \in Nat
  BY StreamFields DEF Resting, Sound
<1>2. g.flags \cup {"reading"} = {"reading"}
  BY <1>1
<1>3. h \in Streams
  BY <1>1, <1>2 DEF Reading, Streams
<1>4. /\ h.flags = {"reading"} /\ h.buf = g.buf /\ h.pos = g.pos /\ h.disk = g.disk /\ h.inuse = g.inuse
      /\ h.append = g.append /\ h.needseek = g.needseek /\ h.bufsiz = g.bufsiz
  BY <1>1, <1>2 DEF Reading, Streams
<1>5. "reading" \in g.flags \/ g.buf = <<>>
  BY <1>1 DEF Resting
<1> HIDE DEF h
<1>6. ReadAhead(h)
  <2>1. CASE "reading" \in g.flags
    BY <2>1, <1>4 DEF Resting, Sound, ReadAhead
  <2>2. CASE g.buf = <<>>
    <3>1. Len(h.buf) = 0 /\ h.pos \in Nat
      BY <2>2, <1>1, <1>4, EmptySeq, StreamFields
    <3> QED BY <3>1 DEF ReadAhead
  <2> QED BY <2>1, <2>2, <1>5
<1>7. AtEnd(h)
  BY <1>4, <1>5 DEF Resting, Sound, AtEnd
<1>8. Sound(h)
  BY <1>3, <1>4, <1>6, <1>7 DEF Resting, Sound
<1> QED BY <1>1, <1>4, <1>8, KeptRefl DEF Follows, h

\* fgetc: the byte pushed back, or one of the buffer, which is filled if it is empty.
LEMMA GetcStep == ASSUME IInv, Getc PROVE IInv' /\ Appends
<1>1. CASE GetUngot
  <2>1. f.ungot \in Nat \ {0}
    BY <1>1, StreamFields DEF IInv, TypeOK, GetUngot
  <2>2. ret' \in Seq(Int)
    BY <1>1, <2>1, OneNumber DEF GetUngot
  <2> QED BY <1>1, <2>2, UngotStep DEF GetUngot
<1>2. CASE ~ GetUngot
  <2>1. PICK turned \in Turned(f, "writing") :
          LET g == Reading(turned)
          IN IF g.buf # <<>> THEN GetNext(g) /\ ioerr' = FALSE
             ELSE \/ \E k \in Available(g, g.bufsiz) : GetNext(Filled(g, k)) /\ ioerr' = FALSE
                  \/ GetNext(g) /\ ioerr' = TRUE
    BY <1>2 DEF Getc
  <2>2. f.inuse /\ Resting(f)
    BY <1>2, InvResting DEF Getc
  <2>3. Follows(f, turned) /\ (Clean(turned) \/ (turned = f /\ "writing" \notin f.flags))
    BY <2>1, <2>2, TurnedProperties DEF Resting
  <2>4. Resting(turned) /\ "writing" \notin turned.flags
    BY <2>2, <2>3, CleanResting DEF Follows, Clean
  <2> DEFINE g == Reading(turned)
  <2>5. Follows(turned, g) /\ g.flags = {"reading"}
    BY <2>4, ReadingProperties
  <2>6. \/ GetNext(g)
        \/ g.buf = <<>> /\ \E k \in Available(g, g.bufsiz) : GetNext(Filled(g, k))
    BY <2>1
  <2>7. ioerr' \in BOOLEAN
    BY <2>1
  <2> HIDE DEF g
  <2>8. Sound(g) /\ Follows(f, g)
    BY <2>2, <2>3, <2>5, FollowsTransitive DEF Resting, Follows
  <2>9. Follows(g, f') /\ Resting(f') /\ ret' \in Seq(Int)
    <3>1. CASE GetNext(g)
      BY <3>1, <2>5, <2>8, GetNextProperties
    <3>2. CASE g.buf = <<>> /\ \E k \in Available(g, g.bufsiz) : GetNext(Filled(g, k))
      <4>1. PICK k \in Available(g, g.bufsiz) : GetNext(Filled(g, k))
        BY <3>2
      <4>2. Follows(g, Filled(g, k)) /\ Filled(g, k).flags = {"reading"}
        BY <3>2, <2>5, <2>8, FilledProperties
      <4>3. Sound(Filled(g, k))
        BY <4>2 DEF Follows
      <4>4. Follows(Filled(g, k), f') /\ Resting(f') /\ ret' \in Seq(Int)
        BY <4>1, <4>2, <4>3, GetNextProperties
      <4> QED BY <4>2, <4>4, <2>8, FollowsTransitive
    <3> QED BY <3>1, <3>2, <2>6
  <2>10. Follows(f, f')
    BY <2>2, <2>8, <2>9, FollowsTransitive DEF Resting
  <2> QED BY <2>2, <2>7, <2>9, <2>10, Goal
<1> QED BY <1>1, <1>2

\* fread and fwrite flush a buffer that is in use.
LEMMA SyncedProperties ==
  ASSUME NEW g, Resting(g), NEW h \in (IF g.flags # {} THEN Flushed(g) ELSE {g})
  PROVE  Follows(g, h) /\ Clean(h) /\ h.bufsiz = g.bufsiz
<1>1. CASE g.flags # {}
  BY <1>1, FlushedProperties DEF Resting
<1>2. CASE g.flags = {}
  BY <1>2, FollowsItself DEF Resting, Clean
<1> QED BY <1>1, <1>2

\* fwrite: the device is written to after the buffer is flushed.
LEMMA FwriteStep == ASSUME IInv, NEW w \in Chunks, Fwrite(w) PROVE IInv' /\ Appends
<1>1. f.inuse /\ Resting(f)
  BY InvResting DEF Fwrite
<1>2. PICK g \in (IF f.flags # {} THEN Flushed(f) ELSE {f}), k \in 0 .. Len(w) :
        /\ f' = DeviceWrite(SeekEnd(g), SubSeq(w, 1, k))
        /\ ret' = <<k>> /\ ioerr' = (k < Len(w))
  BY DEF Fwrite
<1>3. Follows(f, g) /\ Clean(g) /\ Sound(g)
  BY <1>1, <1>2, SyncedProperties DEF Follows
<1> DEFINE s == SeekEnd(g)
           v == SubSeq(w, 0 + 1, 0 + k)
<1>4. w \in Seq(Bytes) /\ Len(w) \in Nat /\ k \in Nat /\ k <= Len(w)
  BY BufIOAssumption, LenProperties
<1>5. v \in Seq(Bytes) /\ f' = DeviceWrite(s, v)
  <2>1. v \in Seq(Bytes)
    BY <1>4, PrefixProperties
  <2>2. 0 + 1 = 1 /\ 0 + k = k
    BY <1>4
  <2> QED BY <2>1, <2>2, <1>2
<1>6. /\ s \in Streams /\ s.disk = g.disk /\ s.pos <= Len(s.disk)
      /\ s.inuse = g.inuse /\ s.append = g.append /\ s.bufsiz = g.bufsiz
      /\ s.buf = g.buf /\ s.flags = g.flags
      /\ g.append => s.pos = Len(g.disk) /\ ~ s.needseek
  BY <1>3, SeekEndProperties DEF Sound
<1> HIDE DEF s, v
<1>7. /\ f' \in Streams /\ f'.pos <= Len(f'.disk)
      /\ f' = [s EXCEPT !.disk = f'.disk, !.pos = f'.pos]
      /\ s.append => f'.pos = Len(f'.disk) /\ Kept(s.disk, f'.disk)
  BY <1>5, <1>6, WriteProperties
<1>8. /\ f'.inuse = g.inuse /\ f'.append = g.append /\ f'.bufsiz = g.bufsiz
      /\ f'.buf = g.buf /\ f'.flags = g.flags
  BY <1>6, <1>7 DEF Streams
<1>9. Clean(f') /\ Sound(f')
  <2>1. Clean(f')
    BY <1>3, <1>8 DEF Clean
  <2>2. f'.bufsiz > 0
    BY <1>3, <1>8 DEF Sound
  <2> QED BY <2>1, <2>2, <1>6, <1>7, <1>8, CleanSound
<1>10. Follows(g, f')
  BY <1>6, <1>7, <1>8, <1>9 DEF Follows
<1>11. Follows(f, f') /\ Resting(f')
  BY <1>1, <1>3, <1>9, <1>10, FollowsTransitive, CleanResting DEF Resting
<1>12. ret' \in Seq(Int) /\ ioerr' \in BOOLEAN
  BY <1>2, <1>4, OneNumber
<1> QED BY <1>1, <1>11, <1>12, Goal

\* fread: the device is read after the buffer is flushed.
LEMMA FreadStep == ASSUME IInv, NEW n \in Counts, Fread(n) PROVE IInv' /\ Appends
<1> DEFINE back == IF f.ungot = 0 THEN <<>> ELSE <<f.ungot - 1>>
           want == n - Len(back)
           h == [f EXCEPT !.ungot = 0]
<1>1. f.inuse /\ Resting(f) /\ f.ungot \in Nat
  BY InvResting, StreamFields DEF Fread, IInv, TypeOK
<1>2. back \in Seq(Int) /\ n \in Nat /\ Len(back) \in Nat
  <2>1. back \in Seq(Int)
    BY <1>1, EmptySeq, OneNumber
  <2> QED BY <2>1, BufIOAssumption, LenProperties
<1>3. Follows(f, h) /\ Resting(h)
  <2>1. Follows(f, h) /\ h.bufsiz = f.bufsiz /\ h.buf = f.buf /\ h.flags = f.flags
    BY <1>1, UngotProperties DEF Resting
  <2> HIDE DEF h
  <2> QED BY <2>1, <1>1 DEF Resting, Follows
<1>4. \/ f' = h /\ ret' = back /\ ioerr' = FALSE
      \/ \E g \in (IF h.flags # {} THEN Flushed(h) ELSE {h}) :
           \/ \E k \in Available(g, want) :
                /\ f' = [g EXCEPT !.pos = g.pos + k]
                /\ ret' = back \o SubSeq(g.disk, g.pos + 1, g.pos + k)
                /\ ioerr' = (k < Full(g, want))
           \/ f' = g /\ ret' = EOF /\ ioerr' = TRUE
  BY DEF Fread
<1>5. want \in Int
  BY <1>2
<1> HIDE DEF h, back, want
<1>6. CASE f' = h /\ ret' = back /\ ioerr' = FALSE
  BY <1>6, <1>1, <1>2, <1>3, Goal
<1>7. ASSUME NEW g \in (IF h.flags # {} THEN Flushed(h) ELSE {h})
      PROVE  Follows(f, g) /\ Sound(g) /\ Clean(g)
  <2>1. Follows(h, g) /\ Clean(g)
    BY <1>3, <1>7, SyncedProperties
  <2> QED BY <2>1, <1>1, <1>3, FollowsTransitive DEF Resting, Follows
<1>8. ASSUME NEW g \in (IF h.flags # {} THEN Flushed(h) ELSE {h}), NEW k \in Available(g, want),
             f' = [g EXCEPT !.pos = g.pos + k],
             ret' = back \o SubSeq(g.disk, g.pos + 1, g.pos + k), ioerr' = (k < Full(g, want))
      PROVE  IInv' /\ Appends
  <2>1. Follows(f, g) /\ Sound(g) /\ Clean(g)
    BY <1>7, <1>8
  <2>2. g.disk \in Seq(Bytes) /\ Len(g.disk) \in Nat /\ g.pos \in Nat /\ g.pos <= Len(g.disk)
    BY <2>1, StreamFields DEF Sound
  <2>3. k \in Nat /\ g.pos + k \in Nat /\ g.pos + k <= Len(g.disk)
    <3>1. k \in 0 .. want /\ k <= Len(g.disk) - g.pos
      BY <1>8 DEF Available
    <3> QED BY <3>1, <2>2, <1>5
  <2>4. g.append /\ ~ g.needseek => g.pos + k = Len(g.disk)
    BY <2>1, <2>2, <2>3 DEF Sound, AtEnd
  <2>5. Follows(g, f') /\ Clean(f')
    BY <2>1, <2>3, <2>4, <1>8, MovedProperties
  <2>6. Follows(f, f') /\ Resting(f')
    BY <2>1, <2>5, <1>1, FollowsTransitive, CleanResting DEF Resting, Follows
  <2>7. SubSeq(g.disk, g.pos + 1, g.pos + k) \in Seq(Int)
    <3>1. SubSeq(g.disk, g.pos + 1, g.pos + k) \in Seq(Bytes)
      BY <2>2, <2>3, PrefixProperties
    <3>2. Bytes \subseteq Int
      BY BufIOAssumption
    <3> QED BY <3>1, <3>2, SeqMonotonic
  <2>8. ret' \in Seq(Int) /\ ioerr' \in BOOLEAN
    BY <2>7, <1>2, <1>8, ConcatProperties
  <2> QED BY <2>6, <2>8, <1>1, Goal
<1>9. ASSUME NEW g \in (IF h.flags # {} THEN Flushed(h) ELSE {h}),
             f' = g, ret' = EOF, ioerr' = TRUE
      PROVE  IInv' /\ Appends
  <2>1. Follows(f, f') /\ Resting(f')
    BY <1>7, <1>9, CleanResting
  <2> QED BY <2>1, <1>1, <1>9, Goal, EmptySeq DEF EOF
<1> QED BY <1>4, <1>6, <1>8, <1>9

\* fseek: the device moves under an empty buffer, and an appending stream is marked.
LEMMA FseekStep ==
  ASSUME IInv, NEW off \in Offsets, NEW whence \in {"set", "cur", "end"}, Fseek(off, whence)
  PROVE  IInv' /\ Appends
<1>1. f.inuse /\ Resting(f) /\ ioerr' = FALSE
  BY InvResting DEF Fseek
<1> DEFINE To(g) == off + (CASE whence = "set" -> 0 [] whence = "cur" -> g.pos [] whence = "end" -> Len(g.disk))
<1>2. PICK g \in Flushed(f) :
        IF To(g) < 0 \/ To(g) > Len(g.disk)
        THEN f' = [Marked(g) EXCEPT !.ungot = 0] /\ ret' = <<-1>>
        ELSE f' = [Marked(g) EXCEPT !.ungot = 0, !.pos = To(g)] /\ ret' = <<0>>
  BY DEF Fseek
<1>3. Follows(f, g) /\ Clean(g) /\ Sound(g)
  BY <1>1, <1>2, FlushedProperties DEF Resting, Follows
<1>4. To(g) \in Int
  BY <1>3, BufIOAssumption, StreamFields DEF Sound
<1> HIDE DEF To
<1> DEFINE m == Marked(g)
           u == [m EXCEPT !.ungot = 0]
<1>5. /\ Follows(g, m) /\ m.buf = g.buf /\ m.flags = g.flags /\ m.disk = g.disk
      /\ ~ (m.append /\ ~ m.needseek) /\ m \in Streams
  BY <1>3, MarkedProperties DEF Follows, Sound
<1>6. \/ f' = u /\ ret' = <<-1>>
      \/ /\ To(g) >= 0 /\ To(g) <= Len(g.disk)
         /\ f' = [m EXCEPT !.ungot = 0, !.pos = To(g)] /\ ret' = <<0>>
  <2>1. Len(g.disk) \in Nat
    BY <1>3, StreamFields DEF Sound
  <2> QED BY <1>2, <1>4, <2>1
<1> HIDE DEF m
<1>7. /\ Follows(m, u) /\ u.buf = m.buf /\ u.flags = m.flags /\ u.disk = m.disk
      /\ u.needseek = m.needseek /\ u.append = m.append
  BY <1>5, UngotProperties DEF Follows
<1>8. [m EXCEPT !.ungot = 0, !.pos = To(g)] = [u EXCEPT !.pos = To(g)]
  BY <1>5 DEF Streams
<1> HIDE DEF u
<1>9. Sound(u) /\ Clean(u) /\ Follows(f, u)
  <2>1. Follows(f, m)
    BY <1>1, <1>3, <1>5, FollowsTransitive DEF Resting
  <2>2. Follows(f, u)
    BY <2>1, <1>1, <1>7, FollowsTransitive DEF Resting
  <2> QED BY <2>2, <1>3, <1>5, <1>7 DEF Clean, Follows
<1>10. CASE f' = u /\ ret' = <<-1>>
  <2>1. Resting(f') /\ Follows(f, f')
    BY <1>9, <1>10, CleanResting
  <2>2. ret' \in Seq(Int) /\ ioerr' \in BOOLEAN
    BY <1>1, <1>10, Answers
  <2> QED BY <2>1, <2>2, <1>1, Goal
<1>11. CASE To(g) >= 0 /\ To(g) <= Len(g.disk) /\ f' = [u EXCEPT !.pos = To(g)] /\ ret' = <<0>>
  <2>1. Follows(u, f') /\ Clean(f')
    BY <1>4, <1>5, <1>7, <1>9, <1>11, MovedProperties
  <2>2. Resting(f') /\ Follows(f, f')
    BY <2>1, <1>1, <1>9, FollowsTransitive, CleanResting DEF Resting, Follows
  <2>3. ret' \in Seq(Int) /\ ioerr' \in BOOLEAN
    BY <1>1, <1>11, Answers
  <2> QED BY <2>2, <2>3, <1>1, Goal
<1> QED BY <1>6, <1>8, <1>10, <1>11

\* ftell: it flushes, and marks an appending stream.
LEMMA FtellStep == ASSUME IInv, Ftell PROVE IInv' /\ Appends
<1>1. f.inuse /\ Resting(f) /\ ioerr' = FALSE
  BY InvResting DEF Ftell
<1>2. PICK g \in Flushed(f) :
        f' = Marked(g) /\ ret' = <<IF g.ungot # 0 /\ g.pos > 0 THEN g.pos - 1 ELSE g.pos>>
  BY DEF Ftell
<1>3. Follows(f, g) /\ Clean(g) /\ Sound(g)
  BY <1>1, <1>2, FlushedProperties DEF Resting, Follows
<1>4. Follows(g, f') /\ f'.buf = g.buf /\ f'.flags = g.flags
  BY <1>2, <1>3, MarkedProperties
<1>5. Follows(f, f') /\ Resting(f')
  <2>1. Clean(f') /\ Sound(f')
    BY <1>3, <1>4 DEF Clean, Follows
  <2> QED BY <2>1, <1>1, <1>3, <1>4, FollowsTransitive, CleanResting DEF Resting
<1>6. ret' \in Seq(Int)
  <2>1. (IF g.ungot # 0 /\ g.pos > 0 THEN g.pos - 1 ELSE g.pos) \in Int
    BY <1>3, StreamFields DEF Sound
  <2> QED BY <2>1, <1>2, OneNumber
<1> QED BY <1>1, <1>5, <1>6, Goal

\* setvbuf: the size changes while the buffer is not in use.
LEMMA SetvbufStep ==
  ASSUME IInv, NEW mode \in {IONBF, IOLBF, IOFBF}, NEW size \in Sizes, NEW given \in BOOLEAN,
         Setvbuf(mode, size, given)
  PROVE  IInv' /\ Appends
<1>1. f.inuse /\ Resting(f) /\ f.flags = {} /\ f.buf = <<>> /\ ioerr' = FALSE /\ size \in Nat
  BY InvResting, BufIOAssumption DEF Setvbuf, Resting
<1>2. f \in Streams /\ Sound(f) /\ Len(f.disk) \in Nat
  BY <1>1, StreamFields DEF Resting, Sound
<1>3. CASE UNCHANGED f /\ ret' = <<-1>>
  <2>1. Resting(f') /\ Follows(f, f')
    BY <1>1, <1>2, <1>3, FollowsItself
  <2>2. ret' \in Seq(Int) /\ ioerr' \in BOOLEAN
    BY <1>1, <1>3, Answers
  <2> QED BY <2>1, <2>2, <1>1, Goal
<1>4. CASE f' = [f EXCEPT !.bufmode = IOBUF + mode,
                          !.bufsiz = IF ~ given /\ (size = 0 \/ mode = IONBF) THEN 1 ELSE size]
           /\ ret' = <<0>>
  <2> DEFINE n == IF ~ given /\ (size = 0 \/ mode = IONBF) THEN 1 ELSE size
  <2>1. n \in Nat /\ n > 0
    BY <1>1 DEF Setvbuf
  <2>2. IOBUF + mode \in 0 .. 7
    BY DEF IOBUF, IONBF, IOLBF, IOFBF
  <2> HIDE DEF n
  <2>3. f' \in Streams
    BY <2>1, <2>2, <1>2, <1>4 DEF Streams, n
  <2>4. /\ f'.bufsiz = n /\ f'.buf = f.buf /\ f'.flags = f.flags /\ f'.disk = f.disk /\ f'.pos = f.pos
        /\ f'.inuse = f.inuse /\ f'.append = f.append /\ f'.needseek = f.needseek
    BY <1>2, <1>4 DEF Streams, n
  <2>5. Clean(f') /\ Sound(f')
    <3>1. Clean(f')
      BY <2>4, <1>1 DEF Clean
    <3>2. f'.pos <= Len(f'.disk) /\ (f'.append /\ ~ f'.needseek => f'.pos = Len(f'.disk))
      BY <2>4, <1>2 DEF Sound, AtEnd
    <3> QED BY <3>1, <3>2, <2>1, <2>3, <2>4, CleanSound
  <2>6. Follows(f, f')
    BY <2>4, <2>5, <1>2, KeptRefl DEF Follows
  <2>7. Resting(f')
    BY <2>5, CleanResting
  <2>8. ret' \in Seq(Int) /\ ioerr' \in BOOLEAN
    BY <1>1, <1>4, Answers
  <2> QED BY <2>6, <2>7, <2>8, <1>1, Goal
<1> QED BY <1>3, <1>4 DEF Setvbuf

\* Every call keeps the invariant and the bytes of a file that is appended to.
LEMMA Step == ASSUME IInv, [Next]_vars PROVE IInv' /\ [Appends]_vars
<1>1. CASE UNCHANGED vars
  BY <1>1 DEF IInv, TypeOK, BufferConsistent, writing, vars
<1>2. CASE \E mode \in Modes : Fopen(mode)
  BY <1>2, FopenStep
<1>3. CASE Fclose
  BY <1>3, FcloseStep
<1>4. CASE Getc
  BY <1>4, GetcStep
<1>5. CASE Fflush
  BY <1>5, FflushStep
<1>6. CASE Ftell
  BY <1>6, FtellStep
<1>7. CASE \E b \in Bytes : Putc(b) \/ Ungetc(b)
  BY <1>7, PutcStep, UngetcStep
<1>8. CASE \E w \in Chunks : Fwrite(w)
  BY <1>8, FwriteStep
<1>9. CASE \E n \in Counts : Fread(n)
  BY <1>9, FreadStep
<1>10. CASE \E off \in Offsets, whence \in {"set", "cur", "end"} : Fseek(off, whence)
  BY <1>10, FseekStep
<1>11. CASE \E mode \in {IONBF, IOLBF, IOFBF}, size \in Sizes, given \in BOOLEAN : Setvbuf(mode, size, given)
  BY <1>11, SetvbufStep
<1> QED BY <1>1, <1>2, <1>3, <1>4, <1>5, <1>6, <1>7, <1>8, <1>9, <1>10, <1>11 DEF Next

-----------------------------------------------------------------------------
(* The theorems *)

\* The stream's fields and the answers of its calls have their types, and its
\* buffer is consistent, after any sequence of calls.
THEOREM BufferKept == Spec => []IInv
<1>1. Init => IInv
  BY InitStep
<1>2. IInv /\ [Next]_vars => IInv'
  BY Step
<1> QED BY <1>1, <1>2, PTL DEF Spec

\* Types, the position included: the device is never past the end of the file.
THEOREM BufferTyped == Spec => []TypeOK
<1>1. IInv => TypeOK
  BY DEF IInv
<1> QED BY <1>1, BufferKept, PTL

\* The buffer never reads and writes at once, never overflows, and gives back
\* exactly the bytes it has read ahead (__default_putc, __default_getc, flush).
THEOREM BufferSound == Spec => []BufferConsistent
<1>1. IInv => BufferConsistent
  BY DEF IInv
<1> QED BY <1>1, BufferKept, PTL

\* A stream opened with "a" never changes a byte that the file has.
THEOREM AppendsOnly == Spec => AppendOnly
<1>1. IInv /\ [Next]_vars => [Appends]_vars
  BY Step
<1> QED BY <1>1, BufferKept, PTL DEF Spec, AppendOnly

-----------------------------------------------------------------------------
(* A file without a buffer *)

\* The device takes the bytes of a flush.
Reliable == ~ FlushFails

\* The bytes and the position the program sees in the stream g.
ContentOf(g) ==
  IF "writing" \in g.flags THEN Overlay(g.disk, SeekEnd(g).pos, g.buf) ELSE g.disk
PositionOf(g) ==
  IF g.buf = <<>> THEN g.pos
  ELSE IF "writing" \in g.flags THEN SeekEnd(g).pos + Len(g.buf) ELSE g.pos - Len(g.buf)

\* Where its next byte goes.
StartOf(g) == IF g.append THEN Len(ContentOf(g)) ELSE PositionOf(g)

\* The program cannot tell g from h.
Same(g, h) ==
  /\ ContentOf(h) = ContentOf(g) /\ PositionOf(h) = PositionOf(g)
  /\ h.append = g.append /\ h.ungot = g.ungot /\ h.inuse = g.inuse

\* A stream whose buffer, if it has anything, is used in one direction.
Settled(g) == Sound(g) /\ (g.flags = {} => g.buf = <<>>)

-----------------------------------------------------------------------------
(* Bytes laid over others *)

\* The bytes of an overlay, one by one.
LEMMA OverlayBytes ==
  ASSUME NEW s \in Seq(Bytes), NEW w \in Seq(Bytes), NEW p \in Nat, p <= Len(s)
  PROVE  \A i \in 1 .. Len(Overlay(s, p, w)) :
           Overlay(s, p, w)[i] = IF i > p /\ i <= p + Len(w) THEN w[i - p] ELSE s[i]
<1> DEFINE n == IF Len(s) > p + Len(w) THEN Len(s) ELSE p + Len(w)
           o == Overlay(s, p, w)
<1>1. o = [i \in 1 .. n |-> IF i > p /\ i <= p + Len(w) THEN w[i - p] ELSE s[i]]
  BY DEF Overlay
<1>2. Len(o) = n
  BY OverlayProperties
<1> HIDE DEF o, n
<1>3. \A i \in 1 .. n : o[i] = IF i > p /\ i <= p + Len(w) THEN w[i - p] ELSE s[i]
  BY <1>1
<1> QED BY <1>2, <1>3 DEF o

\* Nothing laid over the bytes of a file leaves them.
LEMMA OverlayNothing ==
  ASSUME NEW s \in Seq(Bytes), NEW p \in Nat, p <= Len(s)
  PROVE  Overlay(s, p, <<>>) = s
<1>1. <<>> \in Seq(Bytes) /\ Len(<<>>) = 0 /\ Len(s) \in Nat
  BY EmptySeq, LenProperties
<1> DEFINE e == <<>>
           o == Overlay(s, p, e)
<1>2. e \in Seq(Bytes) /\ Len(e) = 0
  BY <1>1
<1> HIDE DEF e
<1>3. o \in Seq(Bytes) /\ Len(o) = IF Len(s) > p + Len(e) THEN Len(s) ELSE p + Len(e)
  BY <1>2, OverlayProperties
<1>4. \A i \in 1 .. Len(o) : o[i] = IF i > p /\ i <= p + Len(e) THEN e[i - p] ELSE s[i]
  BY <1>2, OverlayBytes
<1> HIDE DEF o
<1>5. Len(o) = Len(s)
  BY <1>1, <1>2, <1>3
<1>6. \A i \in 1 .. Len(o) : o[i] = s[i]
  BY <1>1, <1>2, <1>4, <1>5
<1>7. o = s
  BY <1>3, <1>5, <1>6, SeqEqual
<1> QED BY <1>7 DEF o, e

\* A byte after those laid over the file is laid over it with them.
LEMMA OverlayAppend ==
  ASSUME NEW s \in Seq(Bytes), NEW w \in Seq(Bytes), NEW b \in Bytes, NEW p \in Nat, p <= Len(s)
  PROVE  Overlay(Overlay(s, p, w), p + Len(w), <<b>>) = Overlay(s, p, Append(w, b))
<1> DEFINE o == Overlay(s, p, w)
           v == Append(w, b)
           u == <<b>>
           q == p + Len(w)
           x == Overlay(o, q, u)
           y == Overlay(s, p, v)
<1>1. /\ v \in Seq(Bytes) /\ Len(v) = Len(w) + 1 /\ v[Len(w) + 1] = b
      /\ \A i \in 1 .. Len(w) : v[i] = w[i]
  BY AppendProperties
<1>2. u \in Seq(Bytes) /\ Len(u) = 1 /\ u[1] = b
  OBVIOUS
<1>3. Len(s) \in Nat /\ Len(w) \in Nat /\ q \in Nat
  BY LenProperties
<1> HIDE DEF u, v
<1>4. /\ o \in Seq(Bytes) /\ Len(o) = IF Len(s) > p + Len(w) THEN Len(s) ELSE p + Len(w)
  BY OverlayProperties
<1>5. \A i \in 1 .. Len(o) : o[i] = IF i > p /\ i <= p + Len(w) THEN w[i - p] ELSE s[i]
  BY OverlayBytes
<1> HIDE DEF o
<1>6. q <= Len(o)
  BY <1>3, <1>4
<1>7. /\ x \in Seq(Bytes) /\ Len(x) = IF Len(o) > q + Len(u) THEN Len(o) ELSE q + Len(u)
      /\ \A i \in 1 .. Len(x) : x[i] = IF i > q /\ i <= q + Len(u) THEN u[i - q] ELSE o[i]
  BY <1>2, <1>3, <1>4, <1>6, OverlayProperties, OverlayBytes
<1>8. /\ y \in Seq(Bytes) /\ Len(y) = IF Len(s) > p + Len(v) THEN Len(s) ELSE p + Len(v)
      /\ \A i \in 1 .. Len(y) : y[i] = IF i > p /\ i <= p + Len(v) THEN v[i - p] ELSE s[i]
  BY <1>1, OverlayProperties, OverlayBytes
<1> HIDE DEF x, y
<1>9. Len(x) = Len(y)
  BY <1>1, <1>2, <1>3, <1>4, <1>7, <1>8
<1>10. /\ q = p + Len(w) /\ q \in Nat /\ p <= q /\ Len(w) \in Nat /\ Len(u) = 1
       /\ Len(v) = Len(w) + 1 /\ p + Len(v) = q + 1 /\ q + Len(u) = q + 1
  BY <1>1, <1>2, <1>3
<1>11. Len(x) \in Nat /\ Len(o) \in Nat /\ Len(x) = IF Len(o) > q + 1 THEN Len(o) ELSE q + 1
  BY <1>4, <1>7, <1>10, LenProperties
<1> HIDE DEF q
<1>12. ASSUME NEW i \in 1 .. Len(x) PROVE x[i] = y[i]
  <2>1. i \in Nat /\ i > 0 /\ i <= Len(x)
    BY <1>11
  <2>2. /\ x[i] = IF i > q /\ i <= q + 1 THEN u[i - q] ELSE o[i]
        /\ y[i] = IF i > p /\ i <= q + 1 THEN v[i - p] ELSE s[i]
    BY <1>7, <1>8, <1>9, <1>10
  <2>3. CASE i = q + 1
    <3>1. i - q = 1 /\ i > q /\ i <= q + 1 /\ i > p
      BY <1>10, <2>3
    <3>2. i - p = Len(w) + 1
      BY <1>10, <2>3
    <3>3. x[i] = u[1] /\ y[i] = v[Len(w) + 1]
      BY <2>2, <3>1, <3>2
    <3> QED BY <1>1, <1>2, <3>3
  <2>4. CASE i # q + 1
    <3>1. i <= Len(o) /\ ~ (i > q /\ i <= q + 1)
      BY <1>6, <1>10, <1>11, <2>1, <2>4
    <3>2. o[i] = IF i > p /\ i <= q THEN w[i - p] ELSE s[i]
      <4>1. i \in 1 .. Len(o)
        BY <1>11, <2>1, <3>1
      <4> QED BY <1>5, <1>10, <4>1
    <3>3. CASE i > p /\ i <= q
      <4>1. i - p \in 1 .. Len(w) /\ i <= q + 1
        BY <1>10, <2>1, <3>3
      <4>2. o[i] = w[i - p] /\ y[i] = v[i - p]
        BY <2>2, <3>2, <3>3, <4>1
      <4>3. v[i - p] = w[i - p]
        BY <1>1, <4>1
      <4> QED BY <2>2, <3>1, <4>2, <4>3
    <3>4. CASE ~ (i > p /\ i <= q)
      <4>1. ~ (i > p /\ i <= q + 1)
        BY <1>10, <2>1, <3>1, <3>4
      <4> QED BY <2>2, <3>1, <3>2, <3>4, <4>1
    <3> QED BY <3>3, <3>4
  <2> QED BY <2>3, <2>4
<1>13. x = y
  BY <1>7, <1>8, <1>9, <1>12, SeqEqual
<1> QED BY <1>13 DEF x, y, o, q, u, v

-----------------------------------------------------------------------------
(* What the program sees of a stream *)

\* A stream at rest is settled.
LEMMA RestingSettled == ASSUME NEW g, Resting(g) PROVE Settled(g)
BY DEF Resting, Settled

\* Seeking the end does not touch the byte pushed back.
LEMMA SeekEndUngot ==
  ASSUME NEW g \in Streams
  PROVE  SeekEnd(g).ungot = g.ungot
BY DEF SeekEnd, Streams

\* A write of an appending stream is at the end of the file, another one where
\* the device is.
LEMMA SeekEndPlace ==
  ASSUME NEW g \in Streams, g.pos <= Len(g.disk), AtEnd(g)
  PROVE  SeekEnd(g).pos = IF g.append THEN Len(g.disk) ELSE g.pos
<1>1. g.append \in BOOLEAN
  BY StreamFields
<1>2. ~ g.append => SeekEnd(g) = g
  BY DEF SeekEnd
<1> QED BY <1>1, <1>2, SeekEndProperties

\* With a clean buffer the program sees what the device has.
LEMMA CleanSight ==
  ASSUME NEW g, Clean(g)
  PROVE  ContentOf(g) = g.disk /\ PositionOf(g) = g.pos
BY DEF Clean, ContentOf, PositionOf

\* While it reads too, but for the bytes read ahead.
LEMMA ReadingSight ==
  ASSUME NEW g, Sound(g), g.flags = {"reading"}
  PROVE  /\ ContentOf(g) = g.disk /\ PositionOf(g) = g.pos - Len(g.buf)
         /\ Len(g.buf) <= g.pos
         /\ \A i \in 1 .. Len(g.buf) : g.buf[i] = g.disk[g.pos - Len(g.buf) + i]
<1>1. /\ Len(g.buf) <= g.pos
      /\ \A i \in 1 .. Len(g.buf) : g.buf[i] = g.disk[g.pos - Len(g.buf) + i]
  BY DEF Sound, ReadAhead
<1>2. ContentOf(g) = g.disk
  BY DEF ContentOf
<1>3. g.pos \in Nat /\ g.buf \in Seq(Bytes)
  BY StreamFields DEF Sound
<1>4. PositionOf(g) = g.pos - Len(g.buf)
  <2>1. CASE g.buf = <<>>
    <3>1. Len(g.buf) = 0
      BY <2>1, EmptySeq
    <3> QED BY <1>3, <2>1, <3>1 DEF PositionOf
  <2>2. CASE g.buf # <<>>
    BY <2>2 DEF PositionOf
  <2> QED BY <2>1, <2>2
<1> QED BY <1>1, <1>2, <1>4

\* While it writes the bytes of the buffer are in the file and behind it.
LEMMA WritingSight ==
  ASSUME NEW g, Sound(g), "writing" \in g.flags
  PROVE  /\ ContentOf(g) = Overlay(g.disk, SeekEnd(g).pos, g.buf)
         /\ SeekEnd(g).pos \in Nat /\ SeekEnd(g).pos <= Len(g.disk)
         /\ g.buf = <<>> => PositionOf(g) = g.pos /\ ContentOf(g) = g.disk
         /\ g.buf # <<>> => PositionOf(g) = SeekEnd(g).pos + Len(g.buf)
         /\ StartOf(g) = SeekEnd(g).pos + Len(g.buf)
<1>1. g \in Streams /\ g.pos <= Len(g.disk) /\ AtEnd(g)
  BY DEF Sound
<1>2. /\ g.append \in BOOLEAN /\ g.buf \in Seq(Bytes) /\ g.disk \in Seq(Bytes) /\ g.pos \in Nat
      /\ Len(g.buf) \in Nat /\ Len(g.disk) \in Nat
  BY <1>1, StreamFields
<1>3. SeekEnd(g).pos = IF g.append THEN Len(g.disk) ELSE g.pos
  BY <1>1, SeekEndPlace
<1> DEFINE p == SeekEnd(g).pos
           d == Overlay(g.disk, p, g.buf)
<1>4. p \in Nat /\ p <= Len(g.disk)
  BY <1>1, <1>2, <1>3
<1>5. ContentOf(g) = d
  BY DEF ContentOf
<1>6. g.buf = <<>> => d = g.disk /\ PositionOf(g) = g.pos
  BY <1>2, <1>4, OverlayNothing DEF PositionOf
<1>7. g.buf # <<>> => PositionOf(g) = p + Len(g.buf)
  BY DEF PositionOf
<1>8. Len(d) = IF Len(g.disk) > p + Len(g.buf) THEN Len(g.disk) ELSE p + Len(g.buf)
  BY <1>2, <1>4, OverlayProperties
<1>9. g.buf = <<>> => Len(g.buf) = 0
  BY EmptySeq
<1> HIDE DEF p, d
<1>10. p = IF g.append THEN Len(g.disk) ELSE g.pos
  BY <1>3 DEF p
<1>11. StartOf(g) = IF g.append THEN Len(d) ELSE PositionOf(g)
  BY <1>5 DEF StartOf
<1>12. StartOf(g) = p + Len(g.buf)
  <2>1. CASE g.append
    <3>1. StartOf(g) = Len(d) /\ p = Len(g.disk)
      BY <2>1, <1>10, <1>11
    <3>2. Len(d) = p + Len(g.buf)
      <4> DEFINE m == Len(g.disk)
                 n == Len(g.buf)
      <4>1. m \in Nat /\ n \in Nat /\ p = m /\ Len(d) = IF m > p + n THEN m ELSE p + n
        BY <3>1, <1>2, <1>8
      <4> HIDE DEF m, n
      <4>2. Len(d) = p + n
        BY <4>1
      <4> QED BY <4>2 DEF n
    <3> QED BY <3>1, <3>2
  <2>2. CASE ~ g.append
    <3>1. CASE g.buf = <<>>
      BY <2>2, <3>1, <1>2, <1>6, <1>9, <1>10, <1>11
    <3>2. CASE g.buf # <<>>
      BY <2>2, <3>2, <1>7, <1>11
    <3> QED BY <3>1, <3>2
  <2> QED BY <2>1, <2>2
<1> QED BY <1>4, <1>5, <1>6, <1>7, <1>12 DEF p, d

\* A settled stream is clean, reads or writes.
LEMMA Uses ==
  ASSUME NEW g, Settled(g)
  PROVE  Clean(g) \/ g.flags = {"reading"} \/ ("writing" \in g.flags /\ g.flags = {"writing"})
<1>1. g.flags \in SUBSET {"reading", "writing"} /\ g.flags # {"reading", "writing"}
  BY StreamFields DEF Settled, Sound
<1>2. g.flags = {} \/ g.flags = {"reading"} \/ g.flags = {"writing"}
  BY <1>1
<1> QED BY <1>2 DEF Clean, Settled

\* The file and the position the program sees are a file and a place in it.
LEMMA SightTyped ==
  ASSUME NEW g, Settled(g)
  PROVE  /\ ContentOf(g) \in Seq(Bytes) /\ PositionOf(g) \in Nat
         /\ PositionOf(g) <= Len(ContentOf(g)) /\ Len(ContentOf(g)) \in Nat
<1>1. Sound(g) /\ g \in Streams /\ g.pos <= Len(g.disk)
  BY DEF Settled, Sound
<1>2. /\ g.buf \in Seq(Bytes) /\ g.disk \in Seq(Bytes) /\ g.pos \in Nat
      /\ Len(g.buf) \in Nat /\ Len(g.disk) \in Nat
  BY <1>1, StreamFields
<1>3. CASE Clean(g)
  BY <1>1, <1>2, <1>3, CleanSight
<1>4. CASE g.flags = {"reading"}
  <2>1. PositionOf(g) = g.pos - Len(g.buf) /\ Len(g.buf) <= g.pos /\ ContentOf(g) = g.disk
    BY <1>1, <1>4, ReadingSight
  <2> QED BY <1>1, <1>2, <2>1
<1>5. CASE "writing" \in g.flags
  <2> DEFINE p == SeekEnd(g).pos
             d == Overlay(g.disk, p, g.buf)
  <2>1. /\ p \in Nat /\ p <= Len(g.disk) /\ ContentOf(g) = d
        /\ g.buf = <<>> => PositionOf(g) = g.pos /\ ContentOf(g) = g.disk
        /\ g.buf # <<>> => PositionOf(g) = p + Len(g.buf)
    BY <1>1, <1>5, WritingSight
  <2> HIDE DEF p
  <2>2. d \in Seq(Bytes) /\ Len(d) = IF Len(g.disk) > p + Len(g.buf) THEN Len(g.disk) ELSE p + Len(g.buf)
    BY <1>2, <2>1, OverlayProperties
  <2> HIDE DEF d
  <2> QED BY <1>1, <1>2, <2>1, <2>2
<1> QED BY <1>3, <1>4, <1>5, Uses

\* A flush changes nothing that the program sees, if the device takes it all.
LEMMA FlushedSame ==
  ASSUME Reliable, NEW g, Settled(g), NEW h \in Flushed(g)
  PROVE  Same(g, h) /\ Clean(h) /\ Sound(h) /\ h.bufsiz = g.bufsiz
<1>1. Sound(g) /\ g \in Streams /\ g.pos <= Len(g.disk) /\ AtEnd(g)
  BY DEF Settled, Sound
<1>2. Sound(h) /\ Clean(h) /\ h.bufsiz = g.bufsiz /\ h.append = g.append /\ h.inuse = g.inuse
  BY <1>1, FlushedProperties DEF Follows
<1>3. ContentOf(h) = h.disk /\ PositionOf(h) = h.pos
  BY <1>2, CleanSight
<1>4. /\ g.buf \in Seq(Bytes) /\ g.disk \in Seq(Bytes) /\ g.pos \in Nat
      /\ Len(g.buf) \in Nat /\ Len(g.disk) \in Nat
  BY <1>1, StreamFields
<1>5. SUFFICES h.disk = ContentOf(g) /\ h.pos = PositionOf(g) /\ h.ungot = g.ungot
  BY <1>2, <1>3 DEF Same
<1>6. CASE g.flags # {} /\ g.buf # <<>> /\ "writing" \in g.flags
  <2> DEFINE e == SeekEnd(g)
             d == Overlay(g.disk, e.pos, g.buf)
  <2>1. h = Emptied(DeviceWrite(e, SubSeq(g.buf, 1, Len(g.buf))))
    BY <1>6 DEF Flushed, Reliable
  <2>2. SubSeq(g.buf, 1, Len(g.buf)) = g.buf
    BY <1>4, SubSeqFull
  <2>3. e \in Streams /\ e.disk = g.disk /\ e.ungot = g.ungot
    BY <1>1, SeekEndProperties, SeekEndUngot
  <2>4. /\ ContentOf(g) = d /\ e.pos \in Nat /\ e.pos <= Len(g.disk)
        /\ PositionOf(g) = e.pos + Len(g.buf)
    BY <1>1, <1>6, WritingSight
  <2>5. h = Emptied([e EXCEPT !.disk = d, !.pos = e.pos + Len(g.buf)])
    BY <2>1, <2>2, <2>3 DEF DeviceWrite
  <2> HIDE DEF e, d
  <2>6. h.disk = d /\ h.pos = e.pos + Len(g.buf) /\ h.ungot = e.ungot
    BY <2>3, <2>5 DEF Emptied, Streams
  <2> QED BY <2>3, <2>4, <2>6
<1>7. CASE g.flags # {} /\ g.buf # <<>> /\ "writing" \notin g.flags
  <2>1. g.flags = {"reading"}
    BY <1>7, Uses DEF Clean
  <2>2. h = Emptied([g EXCEPT !.pos = g.pos - Len(g.buf)])
    BY <1>7 DEF Flushed
  <2>3. h.disk = g.disk /\ h.pos = g.pos - Len(g.buf) /\ h.ungot = g.ungot
    BY <1>1, <2>2 DEF Emptied, Streams
  <2> QED BY <1>1, <2>1, <2>3, ReadingSight
<1>8. CASE ~ (g.flags # {} /\ g.buf # <<>>)
  <2>1. h = Emptied(g)
    BY <1>8 DEF Flushed
  <2>2. h.disk = g.disk /\ h.pos = g.pos /\ h.ungot = g.ungot
    BY <1>1, <2>1 DEF Emptied, Streams
  <2>3. g.buf = <<>>
    BY <1>8 DEF Settled
  <2>4. PositionOf(g) = g.pos
    BY <2>3 DEF PositionOf
  <2>5. ContentOf(g) = g.disk
    <3>1. CASE "writing" \in g.flags
      BY <1>1, <2>3, <3>1, WritingSight
    <3>2. CASE "writing" \notin g.flags
      BY <3>2 DEF ContentOf
    <3> QED BY <3>1, <3>2
  <2> QED BY <2>2, <2>4, <2>5
<1> QED BY <1>6, <1>7, <1>8

-----------------------------------------------------------------------------
(* What the operators do to what the program sees *)

\* What it sees of the stream that appends or not decides where a byte goes.
LEMMA SameStart == ASSUME NEW g, NEW h, Same(g, h) PROVE StartOf(h) = StartOf(g)
BY DEF Same, StartOf

LEMMA SameTransitive == ASSUME NEW g, NEW h, NEW k, Same(g, h), Same(h, k) PROVE Same(g, k)
BY DEF Same

\* The byte pushed back is beside the file and the buffer.
LEMMA UngotSight ==
  ASSUME NEW g, Settled(g), NEW n \in Nat
  PROVE  LET h == [g EXCEPT !.ungot = n]
         IN /\ Settled(h) /\ ContentOf(h) = ContentOf(g) /\ PositionOf(h) = PositionOf(g)
            /\ h.append = g.append /\ h.inuse = g.inuse /\ h.ungot = n
            /\ h.buf = g.buf /\ h.flags = g.flags
<1> DEFINE h == [g EXCEPT !.ungot = n]
<1>1. g \in Streams /\ Sound(g) /\ g.pos <= Len(g.disk) /\ AtEnd(g)
  BY DEF Settled, Sound
<1>2. /\ Follows(g, h) /\ h.buf = g.buf /\ h.flags = g.flags
      /\ h.disk = g.disk /\ h.pos = g.pos
  BY <1>1, UngotProperties
<1>3. h.ungot = n
  BY <1>1 DEF Streams
<1> HIDE DEF h
<1>4. Sound(h) /\ h \in Streams /\ h.pos <= Len(h.disk) /\ AtEnd(h) /\ h.append = g.append /\ h.inuse = g.inuse
  BY <1>2 DEF Follows, Sound
<1>5. SeekEnd(h).pos = SeekEnd(g).pos
  BY <1>1, <1>2, <1>4, SeekEndPlace
<1>6. ContentOf(h) = ContentOf(g) /\ PositionOf(h) = PositionOf(g)
  BY <1>2, <1>5 DEF ContentOf, PositionOf
<1>7. Settled(h)
  BY <1>2, <1>4 DEF Settled
<1> QED BY <1>2, <1>3, <1>4, <1>6, <1>7 DEF h

\* The buffer changes its direction without a trace.
LEMMA TurnedSame ==
  ASSUME Reliable, NEW g, Settled(g), NEW from, NEW h \in Turned(g, from)
  PROVE  Same(g, h)
<1>1. CASE from \in g.flags
  BY <1>1, FlushedSame DEF Turned
<1>2. CASE from \notin g.flags
  BY <1>2 DEF Turned, Same
<1> QED BY <1>1, <1>2

\* A byte in the buffer is a byte in the file, where the next one goes.
LEMMA PutSight ==
  ASSUME NEW g, Resting(g), "reading" \notin g.flags, NEW b \in Bytes
  PROVE  LET h == PutBuffered(g, b)
         IN /\ ContentOf(h) = Overlay(ContentOf(g), StartOf(g), <<b>>)
            /\ PositionOf(h) = StartOf(g) + 1
            /\ h.append = g.append /\ h.inuse = g.inuse /\ h.ungot = g.ungot /\ Settled(h)
<1> DEFINE h == PutBuffered(g, b)
           p == SeekEnd(h).pos
<1>1. g \in Streams /\ Sound(g) /\ g.pos <= Len(g.disk) /\ AtEnd(g) /\ Settled(g)
  BY RestingSettled DEF Resting, Sound
<1>2. /\ g.buf \in Seq(Bytes) /\ g.disk \in Seq(Bytes) /\ g.pos \in Nat
      /\ Len(g.buf) \in Nat /\ Len(g.disk) \in Nat /\ g.append \in BOOLEAN
      /\ g.flags \in SUBSET {"reading", "writing"}
  BY <1>1, StreamFields
<1>3. Follows(g, h) /\ "writing" \in h.flags
  BY PutProperties
<1>4. /\ h.buf = Append(g.buf, b) /\ h.disk = g.disk /\ h.pos = g.pos /\ h.ungot = g.ungot
      /\ h.append = g.append /\ h.inuse = g.inuse
  BY <1>1 DEF PutBuffered, Streams
<1> HIDE DEF h
<1>5. Sound(h) /\ h \in Streams /\ h.pos <= Len(h.disk) /\ AtEnd(h) /\ Settled(h)
  BY <1>3 DEF Follows, Sound, Settled
<1>6. p = IF g.append THEN Len(g.disk) ELSE g.pos
  BY <1>4, <1>5, SeekEndPlace
<1>7. Len(h.buf) = Len(g.buf) + 1 /\ h.buf # <<>>
  <2>1. Len(h.buf) = Len(g.buf) + 1
    BY <1>2, <1>4, AppendProperties
  <2> QED BY <2>1, <1>2, EmptySeq
<1>8. ContentOf(h) = Overlay(g.disk, p, h.buf) /\ PositionOf(h) = p + Len(h.buf)
  BY <1>3, <1>4, <1>5, <1>7, WritingSight
<1> HIDE DEF p
<1>9. SUFFICES ContentOf(h) = Overlay(ContentOf(g), StartOf(g), <<b>>) /\ PositionOf(h) = StartOf(g) + 1
  BY <1>4, <1>5 DEF h
<1>10. CASE Clean(g)
  <2>1. g.buf = <<>> /\ Len(g.buf) = 0
    BY <1>10, EmptySeq DEF Clean
  <2>2. h.buf = <<b>> /\ Len(h.buf) = 1
    BY <2>1, <1>2, <1>4, <1>7
  <2>3. ContentOf(g) = g.disk /\ PositionOf(g) = g.pos
    BY <1>10, CleanSight
  <2>4. StartOf(g) = p
    BY <2>3, <1>6 DEF StartOf
  <2> QED BY <2>2, <2>3, <2>4, <1>8
<1>11. CASE "writing" \in g.flags
  <2>1. SeekEnd(g).pos = p
    BY <1>1, <1>6, SeekEndPlace
  <2>2. /\ ContentOf(g) = Overlay(g.disk, p, g.buf) /\ StartOf(g) = p + Len(g.buf)
        /\ p \in Nat /\ p <= Len(g.disk)
    BY <2>1, <1>1, <1>11, WritingSight
  <2>3. ContentOf(h) = Overlay(Overlay(g.disk, p, g.buf), p + Len(g.buf), <<b>>)
    BY <2>2, <1>2, <1>4, <1>8, OverlayAppend
  <2>4. PositionOf(h) = StartOf(g) + 1
    BY <2>2, <1>2, <1>7, <1>8
  <2> QED BY <2>2, <2>3, <2>4
<1> QED BY <1>1, <1>10, <1>11, Uses

\* A buffer that is not written to is read from without a trace.
LEMMA ReadingSame ==
  ASSUME NEW g, Resting(g), "writing" \notin g.flags
  PROVE  Same(g, Reading(g))
<1>1. g \in Streams
  BY DEF Resting, Sound
<1> DEFINE h == Reading(g)
<1>2. h.flags = g.flags \cup {"reading"} /\ "writing" \notin h.flags
  BY <1>1 DEF Reading, Streams
<1>3. /\ h.buf = g.buf /\ h.disk = g.disk /\ h.pos = g.pos /\ h.append = g.append
      /\ h.ungot = g.ungot /\ h.inuse = g.inuse
  BY <1>1 DEF Reading, Streams
<1> HIDE DEF h
<1> QED BY <1>2, <1>3 DEF Same, ContentOf, PositionOf, h

\* Bytes read ahead are not seen.
LEMMA FilledSame ==
  ASSUME NEW g, Sound(g), g.flags = {"reading"}, g.buf = <<>>, NEW k \in Available(g, g.bufsiz)
  PROVE  /\ Same(g, Filled(g, k))
         /\ Filled(g, k).buf = <<>> => PositionOf(g) = Len(ContentOf(g))
<1> DEFINE h == Filled(g, k)
<1>1. /\ g \in Streams /\ g.disk \in Seq(Bytes) /\ Len(g.disk) \in Nat /\ g.pos \in Nat
      /\ g.bufsiz \in Nat /\ g.bufsiz > 0 /\ g.pos <= Len(g.disk)
  BY StreamFields DEF Sound
<1>2. k \in Nat /\ g.pos + k <= Len(g.disk) /\ (k = 0 => g.pos = Len(g.disk))
  BY <1>1 DEF Available
<1>3. /\ h.pos = g.pos + k /\ h.buf = SubSeq(g.disk, g.pos + 1, g.pos + k)
      /\ h.disk = g.disk /\ h.append = g.append /\ h.ungot = g.ungot /\ h.inuse = g.inuse
  BY <1>1 DEF Filled, Streams
<1>4. Follows(g, h) /\ h.flags = {"reading"}
  BY FilledProperties
<1> HIDE DEF h
<1>5. Len(h.buf) = k
  <2> DEFINE s == g.disk
             m == g.pos
  <2>1. s \in Seq(Bytes) /\ m \in Nat /\ k \in Nat /\ m + k <= Len(s) /\ h.buf = SubSeq(s, m + 1, m + k)
    BY <1>1, <1>2, <1>3
  <2> HIDE DEF s, m
  <2>2. Len(SubSeq(s, m + 1, m + k)) = k
    BY <2>1, PrefixProperties
  <2> QED BY <2>1, <2>2
<1>6. Sound(h)
  BY <1>4 DEF Follows
<1>7. ContentOf(h) = h.disk /\ PositionOf(h) = h.pos - Len(h.buf)
  BY <1>4, <1>6, ReadingSight
<1>8. ContentOf(g) = g.disk /\ PositionOf(g) = g.pos
  BY DEF ContentOf, PositionOf
<1>9. Same(g, h)
  BY <1>1, <1>2, <1>3, <1>5, <1>7, <1>8 DEF Same
<1>10. h.buf = <<>> => PositionOf(g) = Len(ContentOf(g))
  BY <1>2, <1>5, <1>8, EmptySeq
<1> QED BY <1>9, <1>10 DEF h

\* A byte that is taken out of the buffer is the one at the position.
LEMMA GetNextSight ==
  ASSUME NEW g, Sound(g), g.flags = {"reading"}, g.buf # <<>>, GetNext(g)
  PROVE  /\ ContentOf(f') = ContentOf(g) /\ PositionOf(f') = PositionOf(g) + 1
         /\ f'.append = g.append /\ f'.ungot = g.ungot /\ f'.inuse = g.inuse
         /\ PositionOf(g) < Len(ContentOf(g)) /\ ret' = <<ContentOf(g)[PositionOf(g) + 1]>>
<1>1. /\ g \in Streams /\ g.buf \in Seq(Bytes) /\ Len(g.buf) \in Nat /\ Len(g.disk) \in Nat
      /\ g.pos \in Nat /\ g.pos <= Len(g.disk)
  BY StreamFields DEF Sound
<1>2. f' = [g EXCEPT !.buf = Tail(g.buf)] /\ ret' = <<Head(g.buf)>>
  BY DEF GetNext
<1>3. Len(Tail(g.buf)) = Len(g.buf) - 1 /\ Head(g.buf) = g.buf[1] /\ Len(g.buf) > 0
  BY <1>1, HeadTailProperties, EmptySeq
<1>4. /\ f'.buf = Tail(g.buf) /\ f'.flags = g.flags /\ f'.disk = g.disk /\ f'.pos = g.pos
      /\ f'.inuse = g.inuse /\ f'.append = g.append /\ f'.ungot = g.ungot
  BY <1>1, <1>2 DEF Streams
<1>5. Sound(f')
  BY GetNextProperties DEF Follows
<1>6. ContentOf(f') = f'.disk /\ PositionOf(f') = f'.pos - Len(f'.buf)
  BY <1>4, <1>5, ReadingSight
<1>7. /\ ContentOf(g) = g.disk /\ PositionOf(g) = g.pos - Len(g.buf) /\ Len(g.buf) <= g.pos
      /\ \A i \in 1 .. Len(g.buf) : g.buf[i] = g.disk[g.pos - Len(g.buf) + i]
  BY ReadingSight
<1>8. PositionOf(f') = PositionOf(g) + 1 /\ PositionOf(g) < Len(ContentOf(g))
  BY <1>1, <1>3, <1>4, <1>6, <1>7
<1>9. Head(g.buf) = ContentOf(g)[PositionOf(g) + 1]
  <2>1. 1 \in 1 .. Len(g.buf)
    BY <1>1, <1>3
  <2> QED BY <2>1, <1>3, <1>7
<1> QED BY <1>2, <1>4, <1>6, <1>7, <1>8, <1>9

-----------------------------------------------------------------------------
(* Every call is one of the file *)

\* What the file is while the stream is f, before and after a step.
LEMMA Seen ==
  /\ Content = ContentOf(f) /\ Position = PositionOf(f)
  /\ Content' = ContentOf(f') /\ Position' = PositionOf(f')
BY DEF Content, Position, writing, ContentOf, PositionOf

\* The file's bytes are laid over as the device's are.
LEMMA SameOverlay == \A s, p, w : File!Overlay(s, p, w) = Overlay(s, p, w)
BY DEF Overlay, File!Overlay

\* Where the file writes.
LEMMA SeenStart == File!Start = StartOf(f)
BY Seen DEF File!Start, StartOf

\* A call that did all it could did not do less.
LEMMA NothingShort ==
  ASSUME NEW j \in Int, NEW k, k = j, ioerr' = FALSE
  PROVE  ioerr' = (j < k)
<1>1. (j < k) = FALSE
  OBVIOUS
<1> QED BY <1>1

\* A call that does nothing the program sees but answer.
LEMMA AnswerGoal ==
  ASSUME f.inuse, Same(f, f'), NEW told, ret' = told, ioerr' = FALSE
  PROVE  File!Answer(told) /\ f'.inuse
BY Seen DEF File!Answer, Same

\* A call that writes the first k bytes of w.
LEMMA WriteGoal ==
  ASSUME f.inuse, NEW w, NEW k, NEW told,
         ContentOf(f') = Overlay(ContentOf(f), StartOf(f), SubSeq(w, 1, k)),
         PositionOf(f') = StartOf(f) + k,
         f'.append = f.append, f'.inuse = f.inuse, f'.ungot = f.ungot,
         ret' = told, ioerr' = (k < Len(w))
  PROVE  File!Write(w, k, told) /\ f'.inuse
BY Seen, SeenStart, SameOverlay DEF File!Write

\* The byte pushed back, and how many more a read of n is to give.
Back == IF f.ungot = 0 THEN <<>> ELSE <<f.ungot - 1>>
Want(n) == IF n - Len(Back) < Len(ContentOf(f)) - PositionOf(f)
           THEN n - Len(Back) ELSE Len(ContentOf(f)) - PositionOf(f)

\* A call that reads k bytes of the n it was asked for.
LEMMA ReadGoal ==
  ASSUME IInv, f.inuse, NEW n \in Nat, NEW k \in 0 .. n, k <= Want(n),
         \/ /\ ret' = Back \o SubSeq(ContentOf(f), PositionOf(f) + 1, PositionOf(f) + k)
            /\ ioerr' = (k < Want(n))
         \/ k = 0 /\ ret' = EOF /\ ioerr' = TRUE,
         ContentOf(f') = ContentOf(f), PositionOf(f') = PositionOf(f) + k,
         f'.append = f.append, f'.inuse = f.inuse, f'.ungot = 0
  PROVE  File!Read(n) /\ f'.inuse
<1>1. f.ungot \in Nat
  BY StreamFields DEF IInv, TypeOK
<1>2. (f.ungot - 1 = -1) <=> (f.ungot = 0)
  BY <1>1
<1>3. Back = IF f.ungot - 1 = -1 THEN <<>> ELSE <<f.ungot - 1>>
  BY <1>2 DEF Back
<1>4. f'.ungot - 1 = -1
  OBVIOUS
<1> QED BY <1>3, <1>4, Seen DEF File!Read, File!Left, File!NoByte, File!EOF, EOF, Want

\* fopen: the file is as it was or empty, and its position is its start; or
\* the stream stays shut.
LEMMA FopenSeen ==
  ASSUME IInv, ~ f.inuse, f.flags = {}, NEW mode \in Modes, Fopen(mode)
  PROVE  File!Fopen(mode) /\ (f'.inuse \/ f'.flags = {})
<1>1. ioerr' = FALSE
  BY DEF Fopen
<1>2. CASE f' = Opened(IF mode = "w+" THEN <<>> ELSE f.disk, mode = "a+") /\ ret' = <<0>>
  <2>1. /\ f'.disk = (IF mode = "w+" THEN <<>> ELSE f.disk) /\ f'.append = (mode = "a+")
        /\ f'.flags = {} /\ f'.buf = <<>> /\ f'.pos = 0 /\ f'.inuse = TRUE /\ f'.ungot = 0
    BY <1>2 DEF Opened, Closed
  <2>2. ContentOf(f) = f.disk /\ ContentOf(f') = f'.disk /\ PositionOf(f') = 0
    BY <2>1 DEF ContentOf, PositionOf
  <2>3. f'.ungot - 1 = -1
    BY <2>1
  <2> QED BY <1>1, <1>2, <2>1, <2>2, <2>3, Seen DEF File!Fopen, File!NoByte
<1>3. CASE UNCHANGED f /\ ret' = <<-1>>
  BY <1>1, <1>3, Seen DEF File!Fopen
<1> QED BY <1>2, <1>3 DEF Fopen

\* fclose: the bytes that were put are in the file that is left.
LEMMA FcloseSeen ==
  ASSUME Reliable, IInv, Fclose
  PROVE  File!Fclose /\ ~ f'.inuse /\ f'.flags = {}
<1>1. f.inuse /\ Settled(f) /\ ret' \in {<<0>>, <<-1>>} /\ ioerr' = FALSE
  BY InvResting, RestingSettled DEF Fclose
<1>2. PICK g \in Flushed(f) : f' = Closed(g.disk)
  BY DEF Fclose
<1>3. Same(f, g) /\ Clean(g)
  BY <1>1, <1>2, FlushedSame
<1>4. /\ f'.disk = g.disk /\ f'.append = FALSE /\ f'.flags = {} /\ f'.buf = <<>>
      /\ f'.pos = 0 /\ f'.inuse = FALSE /\ f'.ungot = 0
  BY <1>2 DEF Closed
<1>5. ContentOf(f') = g.disk /\ PositionOf(f') = 0 /\ ContentOf(g) = g.disk
  BY <1>3, <1>4, CleanSight DEF ContentOf, PositionOf
<1>6. ContentOf(f') = ContentOf(f)
  BY <1>3, <1>5 DEF Same
<1>7. f'.ungot - 1 = -1
  BY <1>4
<1> QED BY <1>1, <1>4, <1>5, <1>6, <1>7, Seen DEF File!Fclose, File!NoByte

\* fputc: the byte is in the file at once.
LEMMA PutcSeen ==
  ASSUME Reliable, IInv, NEW b \in Bytes, Putc(b)
  PROVE  File!Putc(b) /\ f'.inuse
<1>1. f.inuse /\ Resting(f) /\ f' \in DefaultPutc(f, b) /\ ret' = <<b>> /\ ioerr' = FALSE
  BY InvResting DEF Putc
<1>2. PICK turned \in Turned(f, "reading") :
        f' \in LET put == PutBuffered(turned, b) IN IF MustFlush(put, b) THEN Flushed(put) ELSE {put}
  BY <1>1 DEF DefaultPutc
<1>3. Follows(f, turned) /\ (Clean(turned) \/ (turned = f /\ "reading" \notin f.flags))
  BY <1>1, <1>2, TurnedProperties DEF Resting
<1>4. Resting(turned) /\ "reading" \notin turned.flags /\ Same(f, turned)
  BY <1>1, <1>2, <1>3, CleanResting, RestingSettled, TurnedSame DEF Follows, Clean
<1> DEFINE put == PutBuffered(turned, b)
<1>5. /\ ContentOf(put) = Overlay(ContentOf(turned), StartOf(turned), <<b>>)
      /\ PositionOf(put) = StartOf(turned) + 1
      /\ put.append = turned.append /\ put.inuse = turned.inuse /\ put.ungot = turned.ungot
      /\ Settled(put)
  BY <1>4, PutSight
<1>6. f' \in IF MustFlush(put, b) THEN Flushed(put) ELSE {put}
  BY <1>2
<1> HIDE DEF put
<1>7. Same(put, f')
  <2>1. CASE MustFlush(put, b)
    BY <2>1, <1>5, <1>6, FlushedSame
  <2>2. CASE ~ MustFlush(put, b)
    BY <2>2, <1>6 DEF Same
  <2> QED BY <2>1, <2>2
<1>8. StartOf(turned) = StartOf(f)
  BY <1>4, SameStart
<1>9. SubSeq(<<b>>, 1, 1) = <<b>> /\ Len(<<b>>) = 1
  <2>1. <<b>> \in Seq(Bytes) /\ Len(<<b>>) = 1
    OBVIOUS
  <2>2. SubSeq(<<b>>, 1, Len(<<b>>)) = <<b>>
    BY <2>1, SubSeqFull
  <2> QED BY <2>1, <2>2
<1>10. ioerr' = (1 < Len(<<b>>))
  <2> DEFINE m == Len(<<b>>)
  <2>1. m = 1
    BY <1>9
  <2> HIDE DEF m
  <2>2. 1 \in Int
    OBVIOUS
  <2>3. ioerr' = (1 < m)
    BY <2>1, <2>2, <1>1, NothingShort
  <2> QED BY <2>3 DEF m
<1>11. /\ ContentOf(f') = Overlay(ContentOf(f), StartOf(f), SubSeq(<<b>>, 1, 1))
       /\ PositionOf(f') = StartOf(f) + 1
       /\ f'.append = f.append /\ f'.inuse = f.inuse /\ f'.ungot = f.ungot
  BY <1>4, <1>5, <1>7, <1>8, <1>9 DEF Same
<1> QED BY <1>1, <1>10, <1>11, WriteGoal DEF File!Putc

\* ungetc: one byte is pushed back.
LEMMA UngetcSeen ==
  ASSUME IInv, NEW b \in Bytes, Ungetc(b)
  PROVE  File!Ungetc(b) /\ f'.inuse
<1>1. f.inuse /\ Settled(f) /\ ioerr' = FALSE /\ f.ungot \in Nat /\ b + 1 \in Nat /\ (b + 1) - 1 = b
  BY InvResting, RestingSettled, StreamFields, BufIOAssumption DEF Ungetc, IInv, TypeOK
<1>2. CASE f.ungot = 0
  <2>1. f' = [f EXCEPT !.ungot = b + 1] /\ ret' = <<b>>
    BY <1>2 DEF Ungetc
  <2>2. /\ ContentOf(f') = ContentOf(f) /\ PositionOf(f') = PositionOf(f)
        /\ f'.append = f.append /\ f'.inuse = f.inuse /\ f'.ungot = b + 1
    BY <2>1, <1>1, UngotSight
  <2>3. f.ungot - 1 = -1 /\ f'.ungot - 1 = b
    BY <2>2, <1>1, <1>2
  <2> QED BY <1>1, <2>1, <2>2, <2>3, Seen DEF File!Ungetc, File!NoByte
<1>3. CASE f.ungot # 0
  <2>1. f' = f /\ ret' = EOF
    BY <1>3 DEF Ungetc
  <2>2. f.ungot - 1 # -1
    BY <1>1, <1>3
  <2> QED BY <1>1, <2>1, <2>2, Seen DEF File!Ungetc, File!NoByte, File!EOF, EOF
<1> QED BY <1>2, <1>3

\* Reading no byte gives none.
LEMMA NoBytes ==
  ASSUME NEW s \in Seq(Int), NEW c, NEW p \in Nat
  PROVE  s \o SubSeq(c, p + 1, p + 0) = s
<1>1. SubSeq(c, p + 1, p + 0) = <<>>
  <2>1. p + 1 \in Int /\ p + 0 \in Int /\ p + 0 < p + 1
    OBVIOUS
  <2> QED BY <2>1, SubSeqEmpty
<1> QED BY <1>1, ConcatEmptySeq

\* Reading one byte gives the next.
LEMMA OneByte ==
  ASSUME NEW c \in Seq(Bytes), NEW p \in Nat, p < Len(c)
  PROVE  <<>> \o SubSeq(c, p + 1, p + 1) = <<c[p + 1]>>
<1> DEFINE s == SubSeq(c, p + 1, p + 1)
           t == <<c[p + 1]>>
<1>1. Len(c) \in Nat /\ p + 1 <= Len(c) /\ p + 1 \in 1 .. Len(c)
  BY LenProperties
<1>2. s \in Seq(Bytes) /\ Len(s) = 1 /\ \A i \in 1 .. 1 : s[i] = c[p + i]
  BY <1>1, PrefixProperties
<1>3. c[p + 1] \in Bytes
  BY <1>1, ElementOfSeq
<1>4. t \in Seq(Bytes) /\ Len(t) = 1 /\ t[1] = c[p + 1]
  BY <1>3
<1> HIDE DEF s, t
<1>5. s[1] = t[1] /\ \A i \in 1 .. Len(s) : i = 1
  BY <1>2, <1>4
<1>6. \A i \in 1 .. Len(s) : s[i] = t[i]
  BY <1>5
<1>7. s = t
  BY <1>2, <1>4, <1>6, SeqEqual
<1>8. <<>> \o s = s
  BY <1>2, ConcatEmptySeq
<1> QED BY <1>7, <1>8 DEF s, t

\* fgetc: the byte pushed back or the one at the position, and EOF at the end
\* of the file or when the device fails.
LEMMA GetcSeen ==
  ASSUME Reliable, IInv, Getc
  PROVE  File!Read(1) /\ f'.inuse
<1>1. f.inuse /\ Resting(f) /\ Settled(f) /\ f.ungot \in Nat
  BY InvResting, RestingSettled, StreamFields DEF Getc, GetUngot, IInv, TypeOK
<1> DEFINE c == ContentOf(f)
           p == PositionOf(f)
           left == Len(c) - p
<1>2. c \in Seq(Bytes) /\ p \in Nat /\ p <= Len(c) /\ Len(c) \in Nat /\ left \in Nat
  BY <1>1, SightTyped
<1>3. Want(1) = IF 1 - Len(Back) < left THEN 1 - Len(Back) ELSE left
  BY DEF Want
<1> HIDE DEF c, p, left
<1>4. 0 \in Int /\ 1 \in Int
  OBVIOUS
<1>5. CASE GetUngot
  <2>1. f.ungot # 0 /\ f' = [f EXCEPT !.ungot = 0] /\ ret' = <<f.ungot - 1>> /\ ioerr' = FALSE
    BY <1>5 DEF GetUngot
  <2>2. /\ ContentOf(f') = ContentOf(f) /\ PositionOf(f') = PositionOf(f)
        /\ f'.append = f.append /\ f'.inuse = f.inuse /\ f'.ungot = 0
    BY <2>1, <1>1, UngotSight
  <2>3. f.ungot - 1 \in Int /\ Back = <<f.ungot - 1>>
    BY <2>1, <1>1 DEF Back
  <2>4. Back \in Seq(Int) /\ Len(Back) = 1
    BY <2>3
  <2>5. Want(1) = 0
    BY <2>4, <1>2, <1>3
  <2>6. ret' = Back \o SubSeq(ContentOf(f), PositionOf(f) + 1, PositionOf(f) + 0)
    BY <2>1, <2>3, <2>4, <1>2, NoBytes DEF p
  <2>7. ioerr' = (0 < Want(1))
    BY <2>1, <2>5, <1>4, NothingShort
  <2>8. PositionOf(f') = PositionOf(f) + 0
    BY <2>2, <1>2 DEF p
  <2>9. 0 \in 0 .. 1 /\ 0 <= Want(1) /\ 1 \in Nat
    BY <2>5
  <2> QED BY <2>2, <2>6, <2>7, <2>8, <2>9, <1>1, ReadGoal
<1>6. CASE ~ GetUngot
  <2>1. PICK turned \in Turned(f, "writing") :
          LET g == Reading(turned)
          IN IF g.buf # <<>> THEN GetNext(g) /\ ioerr' = FALSE
             ELSE \/ \E k \in Available(g, g.bufsiz) : GetNext(Filled(g, k)) /\ ioerr' = FALSE
                  \/ GetNext(g) /\ ioerr' = TRUE
    BY <1>6 DEF Getc
  <2>2. f.ungot = 0
    BY <1>6 DEF Getc
  <2>3. Follows(f, turned) /\ (Clean(turned) \/ (turned = f /\ "writing" \notin f.flags))
    BY <1>1, <2>1, TurnedProperties DEF Resting
  <2>4. Resting(turned) /\ "writing" \notin turned.flags /\ Same(f, turned)
    BY <1>1, <2>1, <2>3, CleanResting, TurnedSame DEF Follows, Clean
  <2> DEFINE g == Reading(turned)
  <2>5. Sound(g) /\ g.flags = {"reading"}
    BY <2>4, ReadingProperties DEF Follows
  <2>6. Same(f, g)
    BY <2>4, ReadingSame, SameTransitive
  <2>7. \/ g.buf # <<>> /\ GetNext(g) /\ ioerr' = FALSE
        \/ g.buf = <<>> /\ \E k \in Available(g, g.bufsiz) : GetNext(Filled(g, k)) /\ ioerr' = FALSE
        \/ g.buf = <<>> /\ GetNext(g) /\ ioerr' = TRUE
    BY <2>1
  <2> HIDE DEF g
  <2>8. Back = <<>> /\ Len(Back) = 0 /\ Back \in Seq(Int)
    BY <2>2, EmptySeq DEF Back
  <2>9. Want(1) = IF 1 < left THEN 1 ELSE left
    BY <2>8, <1>3
  <2>10. ASSUME NEW h, Sound(h), h.flags = {"reading"}, Same(f, h), h.buf # <<>>, GetNext(h), ioerr' = FALSE
         PROVE  File!Read(1) /\ f'.inuse
    <3>1. /\ ContentOf(f') = ContentOf(h) /\ PositionOf(f') = PositionOf(h) + 1
          /\ f'.append = h.append /\ f'.ungot = h.ungot /\ f'.inuse = h.inuse
          /\ PositionOf(h) < Len(ContentOf(h)) /\ ret' = <<ContentOf(h)[PositionOf(h) + 1]>>
      BY <2>10, GetNextSight
    <3>2. /\ ContentOf(f') = ContentOf(f) /\ PositionOf(f') = PositionOf(f) + 1
          /\ f'.append = f.append /\ f'.ungot = 0 /\ f'.inuse = f.inuse
          /\ p < Len(c) /\ ret' = <<c[p + 1]>>
      BY <3>1, <2>2, <2>10 DEF Same, c, p
    <3>3. left > 0
      BY <3>2, <1>2 DEF left
    <3>4. Want(1) = 1
      BY <3>3, <2>9, <1>2
    <3>5. ret' = Back \o SubSeq(ContentOf(f), PositionOf(f) + 1, PositionOf(f) + 1)
      BY <3>2, <2>8, <1>2, OneByte DEF c, p
    <3>6. ioerr' = (1 < Want(1))
      BY <3>4, <2>10, <1>4, NothingShort
    <3>7. 1 \in 0 .. 1 /\ 1 <= Want(1) /\ 1 \in Nat
      BY <3>4
    <3> QED BY <3>2, <3>5, <3>6, <3>7, <1>1, ReadGoal
  <2>11. ASSUME NEW h, Same(f, h), h.buf = <<>>, GetNext(h), ioerr' = TRUE \/ (ioerr' = FALSE /\ left = 0)
         PROVE  File!Read(1) /\ f'.inuse
    <3>1. f' = h /\ ret' = EOF
      BY <2>11 DEF GetNext
    <3>2. /\ ContentOf(f') = ContentOf(f) /\ PositionOf(f') = PositionOf(f)
          /\ f'.append = f.append /\ f'.ungot = 0 /\ f'.inuse = f.inuse
      BY <3>1, <2>2, <2>11 DEF Same
    <3>3. PositionOf(f') = PositionOf(f) + 0
      BY <3>2, <1>2 DEF p
    <3>4. 0 \in 0 .. 1 /\ 0 <= Want(1) /\ 1 \in Nat
      BY <2>9, <1>2
    <3>5. CASE ioerr' = TRUE
      BY <3>1, <3>2, <3>3, <3>4, <3>5, <1>1, ReadGoal
    <3>6. CASE ioerr' = FALSE /\ left = 0
      <4>1. Want(1) = 0
        BY <3>6, <2>9
      <4>2. ioerr' = (0 < Want(1))
        BY <4>1, <3>6, <1>4, NothingShort
      <4>3. ret' = Back \o SubSeq(ContentOf(f), PositionOf(f) + 1, PositionOf(f) + 0)
        BY <3>1, <2>8, <1>2, NoBytes DEF EOF, p
      <4> QED BY <4>2, <4>3, <3>2, <3>3, <3>4, <1>1, ReadGoal
    <3> QED BY <3>5, <3>6, <2>11
  <2>12. CASE g.buf # <<>> /\ GetNext(g) /\ ioerr' = FALSE
    BY <2>5, <2>6, <2>10, <2>12
  <2>13. CASE g.buf = <<>> /\ \E k \in Available(g, g.bufsiz) : GetNext(Filled(g, k)) /\ ioerr' = FALSE
    <3>1. PICK k \in Available(g, g.bufsiz) : GetNext(Filled(g, k)) /\ ioerr' = FALSE
      BY <2>13
    <3> DEFINE h == Filled(g, k)
    <3>2. Same(g, h) /\ (h.buf = <<>> => PositionOf(g) = Len(ContentOf(g)))
      BY <2>5, <2>13, <3>1, FilledSame
    <3>3. Sound(h) /\ h.flags = {"reading"}
      BY <2>5, <2>13, <3>1, FilledProperties DEF Follows
    <3>4. GetNext(h)
      BY <3>1
    <3> HIDE DEF h
    <3>5. Same(f, h)
      BY <3>2, <2>6, SameTransitive
    <3>6. CASE h.buf # <<>>
      BY <3>1, <3>3, <3>4, <3>5, <3>6, <2>10
    <3>7. CASE h.buf = <<>>
      <4>1. p = Len(c)
        BY <3>2, <3>7, <2>6 DEF Same, p, c
      <4>2. left = 0
        BY <4>1, <1>2 DEF left
      <4> QED BY <4>2, <3>1, <3>4, <3>5, <3>7, <2>11
    <3> QED BY <3>6, <3>7
  <2>14. CASE g.buf = <<>> /\ GetNext(g) /\ ioerr' = TRUE
    BY <2>6, <2>11, <2>14
  <2> QED BY <2>7, <2>12, <2>13, <2>14
<1> QED BY <1>5, <1>6

\* fread and fwrite flush a buffer that is in use, without a trace.
LEMMA SyncedSame ==
  ASSUME Reliable, NEW g, Settled(g), NEW h \in (IF g.flags # {} THEN Flushed(g) ELSE {g})
  PROVE  Same(g, h) /\ Clean(h) /\ Sound(h)
<1>1. CASE g.flags # {}
  BY <1>1, FlushedSame
<1>2. CASE g.flags = {}
  BY <1>2 DEF Same, Clean, Settled
<1> QED BY <1>1, <1>2

\* fflush: the program sees nothing of it.
LEMMA FflushSeen == ASSUME Reliable, IInv, Fflush PROVE File!Answer(<<0>>) /\ f'.inuse
<1>1. f.inuse /\ Settled(f) /\ f' \in Flushed(f) /\ ret' = <<0>> /\ ioerr' = FALSE
  BY InvResting, RestingSettled DEF Fflush
<1>2. Same(f, f')
  BY <1>1, FlushedSame
<1> QED BY <1>1, <1>2, AnswerGoal

\* setvbuf: nor of the size of the buffer.
LEMMA SetvbufSeen ==
  ASSUME IInv, NEW mode, NEW size, NEW given, Setvbuf(mode, size, given)
  PROVE  (File!Answer(<<0>>) \/ File!Answer(<<-1>>)) /\ f'.inuse
<1>1. f.inuse /\ f.flags = {} /\ f \in Streams /\ ioerr' = FALSE
  BY DEF Setvbuf, IInv, TypeOK
<1>2. CASE f' = [f EXCEPT !.bufmode = IOBUF + mode,
                          !.bufsiz = IF ~ given /\ (size = 0 \/ mode = IONBF) THEN 1 ELSE size]
           /\ ret' = <<0>>
  <2>1. /\ f'.flags = {} /\ f'.buf = f.buf /\ f'.disk = f.disk /\ f'.pos = f.pos
        /\ f'.append = f.append /\ f'.inuse = f.inuse /\ f'.ungot = f.ungot
    BY <1>1, <1>2 DEF Streams
  <2>2. Same(f, f')
    BY <1>1, <2>1 DEF Same, ContentOf, PositionOf
  <2> QED BY <1>1, <1>2, <2>2, AnswerGoal
<1>3. CASE UNCHANGED f /\ ret' = <<-1>>
  <2>1. Same(f, f')
    BY <1>3 DEF Same
  <2> QED BY <1>1, <1>3, <2>1, AnswerGoal
<1> QED BY <1>2, <1>3 DEF Setvbuf

\* ftell: the position the program sees.
LEMMA FtellSeen == ASSUME Reliable, IInv, Ftell PROVE File!Ftell /\ f'.inuse
<1>1. f.inuse /\ Settled(f) /\ f.ungot \in Nat /\ ioerr' = FALSE
  BY InvResting, RestingSettled, StreamFields DEF Ftell, IInv, TypeOK
<1>2. PICK g \in Flushed(f) :
        f' = Marked(g) /\ ret' = <<IF g.ungot # 0 /\ g.pos > 0 THEN g.pos - 1 ELSE g.pos>>
  BY DEF Ftell
<1>3. Same(f, g) /\ Clean(g) /\ Sound(g)
  BY <1>1, <1>2, FlushedSame
<1>4. PositionOf(g) = g.pos
  BY <1>3, CleanSight
<1>5. /\ f'.buf = g.buf /\ f'.flags = g.flags /\ f'.disk = g.disk /\ f'.pos = g.pos
      /\ f'.append = g.append /\ f'.inuse = g.inuse /\ f'.ungot = g.ungot
  BY <1>2, <1>3 DEF Marked, Sound, Streams
<1>6. Same(g, f')
  BY <1>3, <1>5 DEF Clean, Same, ContentOf, PositionOf
<1>7. Same(f, f')
  BY <1>3, <1>6, SameTransitive
<1>8. g.ungot # 0 <=> f.ungot - 1 # -1
  BY <1>1, <1>3 DEF Same
<1>9. g.pos = Position
  BY <1>3, <1>4, Seen DEF Same
<1>10. ret' = <<IF f.ungot - 1 # -1 /\ Position > 0 THEN Position - 1 ELSE Position>>
  BY <1>2, <1>8, <1>9
<1>11. File!Answer(<<IF f.ungot - 1 # -1 /\ Position > 0 THEN Position - 1 ELSE Position>>) /\ f'.inuse
  BY <1>1, <1>7, <1>10, AnswerGoal
<1> QED BY <1>11 DEF File!Ftell, File!NoByte

\* fseek: from the start, the position the program sees or the end it sees.
LEMMA FseekSeen ==
  ASSUME Reliable, IInv, NEW off \in Offsets, NEW whence \in {"set", "cur", "end"}, Fseek(off, whence)
  PROVE  File!Fseek(off, whence) /\ f'.inuse
<1>1. f.inuse /\ Settled(f) /\ ioerr' = FALSE
  BY InvResting, RestingSettled DEF Fseek
<1> DEFINE To(g) == off + (CASE whence = "set" -> 0 [] whence = "cur" -> g.pos [] whence = "end" -> Len(g.disk))
           to == off + (CASE whence = "set" -> 0 [] whence = "cur" -> Position [] whence = "end" -> Len(Content))
           refused == to < 0 \/ to > Len(Content)
<1>2. PICK g \in Flushed(f) :
        IF To(g) < 0 \/ To(g) > Len(g.disk)
        THEN f' = [Marked(g) EXCEPT !.ungot = 0] /\ ret' = <<-1>>
        ELSE f' = [Marked(g) EXCEPT !.ungot = 0, !.pos = To(g)] /\ ret' = <<0>>
  BY DEF Fseek
<1>3. Same(f, g) /\ Clean(g) /\ Sound(g)
  BY <1>1, <1>2, FlushedSame
<1>4. g.pos = Position /\ g.disk = Content
  BY <1>3, CleanSight, Seen DEF Same
<1>5. To(g) = to /\ (refused <=> To(g) < 0 \/ To(g) > Len(g.disk))
  BY <1>4
<1>6. Marked(g) \in Streams /\ Clean(Marked(g)) /\ Marked(g).disk = g.disk /\ Marked(g).pos = g.pos
      /\ Marked(g).append = g.append /\ Marked(g).inuse = g.inuse
  <2>1. /\ Follows(g, Marked(g)) /\ Marked(g).buf = g.buf /\ Marked(g).flags = g.flags
        /\ Marked(g).disk = g.disk /\ Marked(g).pos = g.pos
    BY <1>3, MarkedProperties
  <2> QED BY <2>1, <1>3 DEF Clean, Follows, Sound
<1> HIDE DEF To, to, refused
<1> DEFINE m == Marked(g)
<1> HIDE DEF m
<1>7. /\ f'.buf = m.buf /\ f'.flags = m.flags /\ f'.disk = m.disk /\ f'.ungot = 0
      /\ f'.append = m.append /\ f'.inuse = m.inuse
      /\ f'.pos = IF refused THEN m.pos ELSE to
      /\ ret' = IF refused THEN <<-1>> ELSE <<0>>
  <2>1. m \in Streams
    BY <1>6 DEF m
  <2>2. CASE refused
    <3>1. f' = [m EXCEPT !.ungot = 0] /\ ret' = <<-1>>
      BY <2>2, <1>2, <1>5 DEF m
    <3> QED BY <2>1, <2>2, <3>1 DEF Streams
  <2>3. CASE ~ refused
    <3>1. f' = [m EXCEPT !.ungot = 0, !.pos = to] /\ ret' = <<0>>
      BY <2>3, <1>2, <1>5 DEF m
    <3> QED BY <2>1, <2>3, <3>1 DEF Streams
  <2> QED BY <2>2, <2>3
<1>8. Clean(f')
  BY <1>6, <1>7 DEF Clean, m
<1>9. /\ Content' = Content /\ Position' = IF refused THEN Position ELSE to
      /\ f'.append = f.append /\ f'.inuse = f.inuse
  <2>1. ContentOf(f') = f'.disk /\ PositionOf(f') = f'.pos
    BY <1>8, CleanSight
  <2> QED BY <2>1, <1>3, <1>4, <1>6, <1>7, Seen DEF Same, m
<1>10. f'.ungot - 1 = -1
  BY <1>7
<1>11. IF refused THEN ret' = <<-1>> /\ UNCHANGED Position ELSE ret' = <<0>> /\ Position' = to
  BY <1>7, <1>9
<1> QED BY <1>1, <1>9, <1>10, <1>11 DEF File!Fseek, File!NoByte, to, refused

\* fwrite: what the device takes is in the file, after the bytes put before.
LEMMA FwriteSeen ==
  ASSUME Reliable, IInv, NEW w \in Chunks, Fwrite(w)
  PROVE  File!Fwrite(w) /\ f'.inuse
<1>1. f.inuse /\ Settled(f)
  BY InvResting, RestingSettled DEF Fwrite
<1>2. PICK g \in (IF f.flags # {} THEN Flushed(f) ELSE {f}), k \in 0 .. Len(w) :
        /\ f' = DeviceWrite(SeekEnd(g), SubSeq(w, 1, k))
        /\ ret' = <<k>> /\ ioerr' = (k < Len(w))
  BY DEF Fwrite
<1>3. Same(f, g) /\ Clean(g) /\ Sound(g)
  BY <1>1, <1>2, SyncedSame
<1> DEFINE s == SeekEnd(g)
           v == SubSeq(w, 1, k)
           d == Overlay(g.disk, s.pos, v)
<1>4. Len(v) = k
  <2>1. w \in Seq(Bytes) /\ Len(w) \in Nat /\ k \in Nat /\ k <= Len(w) /\ 0 + 1 = 1 /\ 0 + k = k
    BY BufIOAssumption, LenProperties
  <2>2. Len(SubSeq(w, 0 + 1, 0 + k)) = k
    BY <2>1, PrefixProperties
  <2> QED BY <2>1, <2>2
<1>5. /\ s \in Streams /\ s.disk = g.disk /\ s.buf = g.buf /\ s.flags = g.flags
      /\ s.append = g.append /\ s.inuse = g.inuse /\ s.ungot = g.ungot
  BY <1>3, SeekEndProperties, SeekEndUngot DEF Sound
<1>6. s.pos = IF g.append THEN Len(g.disk) ELSE g.pos
  BY <1>3, SeekEndPlace DEF Sound
<1>7. ContentOf(g) = g.disk /\ PositionOf(g) = g.pos
  BY <1>3, CleanSight
<1>8. s.pos = StartOf(f) /\ g.disk = ContentOf(f)
  <2>1. s.pos = StartOf(g)
    BY <1>6, <1>7 DEF StartOf
  <2> QED BY <2>1, <1>3, <1>7, SameStart DEF Same
<1>9. f' = [s EXCEPT !.disk = d, !.pos = s.pos + k]
  BY <1>2, <1>4, <1>5 DEF DeviceWrite
<1> HIDE DEF s, d
<1>10. /\ f'.disk = d /\ f'.pos = s.pos + k /\ f'.buf = s.buf /\ f'.flags = s.flags
       /\ f'.append = s.append /\ f'.inuse = s.inuse /\ f'.ungot = s.ungot
  BY <1>5, <1>9 DEF Streams
<1>11. ContentOf(f') = d /\ PositionOf(f') = s.pos + k
  <2>1. Clean(f')
    BY <1>3, <1>5, <1>10 DEF Clean
  <2> QED BY <2>1, <1>10, CleanSight
<1>12. /\ ContentOf(f') = Overlay(ContentOf(f), StartOf(f), v) /\ PositionOf(f') = StartOf(f) + k
       /\ f'.append = f.append /\ f'.inuse = f.inuse /\ f'.ungot = f.ungot
  BY <1>3, <1>5, <1>8, <1>10, <1>11 DEF Same, d
<1>13. File!Write(w, k, <<k>>) /\ f'.inuse
  BY <1>1, <1>2, <1>12, WriteGoal
<1> QED BY <1>13 DEF File!Fwrite

\* fread: the byte pushed back and those at the position, or fewer when the
\* device gives fewer.
LEMMA FreadSeen ==
  ASSUME Reliable, IInv, NEW n \in Counts, Fread(n)
  PROVE  File!Read(n) /\ f'.inuse
<1>1. f.inuse /\ Settled(f) /\ f.ungot \in Nat
  BY InvResting, RestingSettled, StreamFields DEF Fread, IInv, TypeOK
<1> DEFINE c == ContentOf(f)
           p == PositionOf(f)
           want == n - Len(Back)
           h == [f EXCEPT !.ungot = 0]
<1>2. c \in Seq(Bytes) /\ p \in Nat /\ p <= Len(c) /\ Len(c) \in Nat
  BY <1>1, SightTyped
<1>3. Back \in Seq(Int) /\ Len(Back) \in {0, 1}
  <2>1. CASE f.ungot = 0
    BY <2>1, EmptySeq DEF Back
  <2>2. CASE f.ungot # 0
    <3>1. f.ungot - 1 \in Int /\ Back = <<f.ungot - 1>>
      BY <2>2, <1>1 DEF Back
    <3> QED BY <3>1
  <2> QED BY <2>1, <2>2
<1>4. n \in Nat \ {0} /\ want \in Nat /\ want <= n
  <2>1. n \in Nat \ {0}
    BY BufIOAssumption
  <2> QED BY <2>1, <1>3
<1>5. Want(n) = IF want < Len(c) - p THEN want ELSE Len(c) - p
  BY DEF Want
<1>6. /\ Settled(h) /\ ContentOf(h) = c /\ PositionOf(h) = p
      /\ h.append = f.append /\ h.inuse = f.inuse /\ h.ungot = 0
  BY <1>1, UngotSight
<1>7. \/ want = 0 /\ f' = h /\ ret' = Back /\ ioerr' = FALSE
      \/ want # 0 /\ \E g \in (IF h.flags # {} THEN Flushed(h) ELSE {h}) :
           \/ \E k \in Available(g, want) :
                /\ f' = [g EXCEPT !.pos = g.pos + k]
                /\ ret' = Back \o SubSeq(g.disk, g.pos + 1, g.pos + k)
                /\ ioerr' = (k < Full(g, want))
           \/ f' = g /\ ret' = EOF /\ ioerr' = TRUE
  BY DEF Fread, Back
<1> HIDE DEF c, p, want, h
<1>8. CASE want = 0 /\ f' = h /\ ret' = Back /\ ioerr' = FALSE
  <2>1. Want(n) = 0
    BY <1>2, <1>5, <1>8
  <2>2. 0 \in 0 .. n /\ 0 <= Want(n) /\ 0 \in Int /\ n \in Nat
    BY <2>1, <1>4
  <2>3. ioerr' = (0 < Want(n))
    BY <2>1, <2>2, <1>8, NothingShort
  <2>4. ret' = Back \o SubSeq(ContentOf(f), PositionOf(f) + 1, PositionOf(f) + 0)
    BY <1>2, <1>3, <1>8, NoBytes DEF p
  <2>5. PositionOf(f') = PositionOf(f) + 0 /\ ContentOf(f') = ContentOf(f)
    BY <1>2, <1>6, <1>8 DEF p, c
  <2> QED BY <2>2, <2>3, <2>4, <2>5, <1>1, <1>6, <1>8, ReadGoal
<1>9. ASSUME NEW g \in (IF h.flags # {} THEN Flushed(h) ELSE {h})
      PROVE  /\ Clean(g) /\ Sound(g) /\ g.disk = c /\ g.pos = p
             /\ g.append = f.append /\ g.inuse = f.inuse /\ g.ungot = 0
  <2>1. Same(h, g) /\ Clean(g) /\ Sound(g)
    BY <1>6, <1>9, SyncedSame
  <2> QED BY <2>1, <1>6, CleanSight DEF Same
<1>10. ASSUME NEW g \in (IF h.flags # {} THEN Flushed(h) ELSE {h}), NEW k \in Available(g, want),
              f' = [g EXCEPT !.pos = g.pos + k],
              ret' = Back \o SubSeq(g.disk, g.pos + 1, g.pos + k), ioerr' = (k < Full(g, want))
       PROVE  File!Read(n) /\ f'.inuse
  <2>1. /\ Clean(g) /\ Sound(g) /\ g \in Streams /\ g.disk = c /\ g.pos = p
        /\ g.append = f.append /\ g.inuse = f.inuse /\ g.ungot = 0
    BY <1>9, <1>10 DEF Sound
  <2>2. Full(g, want) = Want(n)
    BY <2>1, <1>5 DEF Full
  <2>3. k \in 0 .. n /\ k <= Want(n)
    <3>1. k \in 0 .. want /\ k <= Len(c) - p
      BY <2>1, <1>10 DEF Available
    <3> QED BY <3>1, <1>2, <1>4, <1>5
  <2>4. /\ f'.disk = c /\ f'.pos = p + k /\ f'.buf = g.buf /\ f'.flags = g.flags
        /\ f'.append = f.append /\ f'.inuse = f.inuse /\ f'.ungot = 0
    BY <2>1, <1>10 DEF Streams
  <2>5. ContentOf(f') = ContentOf(f) /\ PositionOf(f') = PositionOf(f) + k
    <3>1. Clean(f')
      BY <2>1, <2>4 DEF Clean
    <3> QED BY <3>1, <2>4, CleanSight DEF c, p
  <2>6. /\ ret' = Back \o SubSeq(ContentOf(f), PositionOf(f) + 1, PositionOf(f) + k)
        /\ ioerr' = (k < Want(n))
    BY <2>1, <2>2, <1>10 DEF c, p
  <2>7. n \in Nat
    BY <1>4
  <2> QED BY <2>3, <2>4, <2>5, <2>6, <2>7, <1>1, ReadGoal
<1>11. ASSUME NEW g \in (IF h.flags # {} THEN Flushed(h) ELSE {h}), f' = g, ret' = EOF, ioerr' = TRUE
       PROVE  File!Read(n) /\ f'.inuse
  <2>1. ContentOf(f') = c /\ PositionOf(f') = p
    BY <1>9, <1>11, CleanSight
  <2>2. ContentOf(f') = ContentOf(f) /\ PositionOf(f') = PositionOf(f) + 0
    BY <2>1, <1>2 DEF c, p
  <2>3. 0 \in 0 .. n /\ 0 <= Want(n) /\ n \in Nat
    BY <1>2, <1>4, <1>5
  <2>4. f'.append = f.append /\ f'.inuse = f.inuse /\ f'.ungot = 0
    BY <1>9, <1>11
  <2> QED BY <2>2, <2>3, <2>4, <1>1, <1>11, ReadGoal
<1> QED BY <1>7, <1>8, <1>10, <1>11

-----------------------------------------------------------------------------
(* The theorem *)

\* A stream that is not open holds nothing of the program.
Shut == ~ f.inuse => f.flags = {}

\* Every call is one of the file, and a stream that is shut stays empty.
LEMMA StepSeen ==
  ASSUME Reliable, IInv, Shut, [Next]_vars
  PROVE  [File!Next]_(File!vars) /\ Shut'
<1>1. CASE UNCHANGED vars
  <2>1. f' = f /\ ret' = ret /\ ioerr' = ioerr /\ call' = call
    BY <1>1 DEF vars
  <2>2. UNCHANGED File!vars
    BY <2>1, Seen DEF File!vars
  <2> QED BY <2>1, <2>2 DEF Shut
<1>2. ASSUME NEW mode \in Modes, Fopen(mode), call' = <<"fopen", mode>> PROVE File!Next /\ Shut'
  <2>1. File!Fopen(mode) /\ (f'.inuse \/ f'.flags = {})
    BY <1>2, FopenSeen DEF Fopen, Shut
  <2>2. mode \in File!Modes
    BY <1>2 DEF Modes, File!Modes
  <2> QED BY <1>2, <2>1, <2>2 DEF File!Next, Shut
<1>3. CASE Fclose /\ call' = <<"fclose">>
  BY <1>3, FcloseSeen DEF File!Next, Shut
<1>4. CASE Getc /\ call' = <<"getc">>
  BY <1>4, GetcSeen DEF File!Next, Shut
<1>5. CASE Fflush /\ call' = <<"fflush">>
  BY <1>5, FflushSeen DEF File!Next, Shut
<1>6. CASE Ftell /\ call' = <<"ftell">>
  BY <1>6, FtellSeen DEF File!Next, Shut
<1>7. CASE \E b \in Bytes : Putc(b) /\ call' = <<"putc", b>>
  BY <1>7, PutcSeen DEF File!Next, Shut
<1>8. CASE \E b \in Bytes : Ungetc(b) /\ call' = <<"ungetc", b>>
  BY <1>8, UngetcSeen DEF File!Next, Shut
<1>9. CASE \E w \in Chunks : Fwrite(w) /\ call' = <<"fwrite", w>>
  BY <1>9, FwriteSeen DEF File!Next, Shut
<1>10. CASE \E n \in Counts : Fread(n) /\ call' = <<"fread", n>>
  BY <1>10, FreadSeen DEF File!Next, Shut
<1>11. CASE \E off \in Offsets, whence \in {"set", "cur", "end"} :
              Fseek(off, whence) /\ call' = <<"fseek", off, whence>>
  BY <1>11, FseekSeen DEF File!Next, Shut
<1>12. CASE \E mode \in {IONBF, IOLBF, IOFBF}, size \in Sizes, given \in BOOLEAN :
              Setvbuf(mode, size, given) /\ call' = <<"setvbuf">>
  BY <1>12, SetvbufSeen DEF File!Next, Shut
<1> QED BY <1>1, <1>2, <1>3, <1>4, <1>5, <1>6, <1>7, <1>8, <1>9, <1>10, <1>11, <1>12 DEF Next

\* Before the first call the file is empty and shut.
LEMMA InitSeen == ASSUME Init PROVE File!Init /\ Shut
<1>1. f = Closed(<<>>) /\ ret = EOF /\ ioerr = FALSE /\ call = <<"none">>
  BY DEF Init
<1>2. /\ f.flags = {} /\ f.buf = <<>> /\ f.disk = <<>> /\ f.pos = 0 /\ f.ungot = 0
      /\ f.append = FALSE /\ f.inuse = FALSE
  BY <1>1 DEF Closed
<1>3. Content = <<>> /\ Position = 0 /\ f.ungot - 1 = -1
  BY <1>2 DEF Content, Position, writing
<1> QED BY <1>1, <1>2, <1>3 DEF File!Init, File!EOF, File!NoByte, EOF, Shut

\* Whatever the size of the buffer and wherever the calls of stdio find it,
\* each returns what it would return on a file without a buffer and leaves its
\* bytes and its position (bufio.c, stdio's calls), if flushes are not refused.
THEOREM StreamImplemented == ASSUME Reliable PROVE Spec => ImplementsStream
<1>1. Init => File!Init /\ Shut
  BY InitSeen
<1>2. IInv /\ Shut /\ [Next]_vars => [File!Next]_(File!vars) /\ Shut'
  BY StepSeen
<1> QED BY <1>1, <1>2, BufferKept, PTL DEF Spec, ImplementsStream, File!Spec

=============================================================================
