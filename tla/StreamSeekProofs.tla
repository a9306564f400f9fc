-------------------------- MODULE StreamSeekProofs --------------------------
(***************************************************************************)
(* Proofs, for any file, buffer and reads.  With any codec the variables   *)
(* keep their types.  With one that seeks as GentleCodec says the decoder  *)
(* library is handed the bytes of the file in order, and a seek ends at    *)
(* the byte it seeks, be it answered from the buffer or by the input       *)
(* thread; the runs seek_again, seek_backward and seek_aligned show what   *)
(* other codecs meet.                                                      *)
(***************************************************************************)
EXTENDS StreamSeek, OperatorProofs

\* The bytes of the file
Bytes == 0 .. StreamLength - 1

\* The chunks with data
Chunk == [first : Int, bytes : Seq(Bytes) \ {<<>>}]

\* These are the bytes of the file from position p on.
From(p, bs) == \A i \in 1 .. Len(bs) : bs[i] = p + i - 1

\* A chunk may start at position p when the file is read from position b on.
StartsAt(b, p) == \E k \in Nat : p = b + k * ElemSize

\* The chunks have the bytes of the file from position p up to position end.
Contiguous(q, p, end) ==
  /\ q \in Seq(Chunk)
  /\ \A i \in 1 .. Len(q) : From(q[i].bytes[1], q[i].bytes)
  /\ \A i \in 1 .. Len(q) - 1 : q[i + 1].bytes[1] = q[i].bytes[1] + Len(q[i].bytes)
  /\ IF q = <<>> THEN p = end
       ELSE p = q[1].bytes[1] /\ end = q[Len(q)].bytes[1] + Len(q[Len(q)].bytes)

\* The chunks were read from position b on: the byte_start_position of each is that of
\* its first byte, but for the front one, which may have been read in part.
ReadFrom(q, b) ==
  /\ q # <<>> => q[1].first <= q[1].bytes[1]
  /\ \A i \in 2 .. Len(q) : q[i].first = q[i].bytes[1] /\ StartsAt(b, q[i].first)

-----------------------------------------------------------------------------
(* Bytes.                                                                   *)

\* The bytes read from the file
LEMMA FileBytesFrom ==
  ASSUME NEW p \in Nat, NEW n \in Nat, p + n <= StreamLength
  PROVE  /\ FileBytes(p, n) \in Seq(Bytes) /\ Len(FileBytes(p, n)) = n
         /\ From(p, FileBytes(p, n))
<1> DEFINE bs == FileBytes(p, n)
<1>1. bs \in [1 .. n -> Bytes] /\ \A i \in 1 .. n : bs[i] = p + i - 1
  BY StreamAssumption DEF FileBytes, Bytes
<1> HIDE DEF bs
<1>2. bs \in Seq(Bytes) /\ Len(bs) = n
  BY <1>1
<1> QED
  BY <1>1, <1>2 DEF From, bs

\* What comes after the end of some bytes follows them.
LEMMA FromConcat ==
  ASSUME NEW p \in Int, NEW bs \in Seq(Bytes), NEW cs \in Seq(Bytes),
         From(p, bs), From(p + Len(bs), cs)
  PROVE  bs \o cs \in Seq(Bytes) /\ Len(bs \o cs) = Len(bs) + Len(cs) /\ From(p, bs \o cs)
<1> DEFINE all == bs \o cs
<1>1. /\ all \in Seq(Bytes) /\ Len(all) = Len(bs) + Len(cs)
      /\ \A i \in 1 .. Len(bs) + Len(cs) : all[i] = IF i <= Len(bs) THEN bs[i] ELSE cs[i - Len(bs)]
  BY ConcatProperties
<1>2. Len(bs) \in Nat /\ Len(cs) \in Nat
  BY LenProperties
<1> HIDE DEF all
<1>3. ASSUME NEW i \in 1 .. Len(all) PROVE all[i] = p + i - 1
  <2>1. CASE i <= Len(bs)
    BY <1>1, <1>2, <2>1 DEF From
  <2>2. CASE ~(i <= Len(bs))
    <3>1. i - Len(bs) \in 1 .. Len(cs)
      BY <1>1, <1>2, <2>2
    <3>2. cs[i - Len(bs)] = p + Len(bs) + (i - Len(bs)) - 1
      BY <3>1 DEF From
    <3>3. all[i] = cs[i - Len(bs)] /\ i \in Nat
      BY <1>1, <1>2, <2>2
    <3> QED
      BY <1>2, <3>2, <3>3
  <2> QED
    BY <2>1, <2>2
<1> QED
  BY <1>1, <1>3 DEF From, all

\* A part of some bytes
LEMMA FromSubSeq ==
  ASSUME NEW p \in Int, NEW bs \in Seq(Bytes), From(p, bs), NEW m \in Nat \ {0}, NEW n \in Nat,
         m <= n + 1, n <= Len(bs)
  PROVE  /\ SubSeq(bs, m, n) \in Seq(Bytes) /\ Len(SubSeq(bs, m, n)) = n - m + 1
         /\ From(p + m - 1, SubSeq(bs, m, n))
<1> DEFINE part == SubSeq(bs, m, n)
<1>1. Len(bs) \in Nat /\ \A i \in m .. n : bs[i] \in Bytes
  BY LenProperties, ElementOfSeq
<1>2. /\ part \in Seq(Bytes) /\ Len(part) = IF m <= n THEN n - m + 1 ELSE 0
      /\ \A i \in 1 .. n - m + 1 : part[i] = bs[m + i - 1]
  BY <1>1, SubSeqProperties
<1> HIDE DEF part
<1>3. Len(part) = n - m + 1
  BY <1>2
<1>4. ASSUME NEW i \in 1 .. Len(part) PROVE part[i] = p + m - 1 + i - 1
  <2>1. m + i - 1 \in 1 .. Len(bs) /\ part[i] = bs[m + i - 1]
    BY <1>1, <1>2, <1>3
  <2> QED
    BY <2>1 DEF From
<1> QED
  BY <1>2, <1>3, <1>4 DEF From, part

\* The end of a part of the file is not behind that of the file.
LEMMA FromBound ==
  ASSUME NEW p \in Int, NEW bs \in Seq(Bytes), From(p, bs)
  PROVE  /\ Len(bs) \in Nat /\ (bs # <<>> => Len(bs) > 0)
         /\ bs # <<>> => p \in Bytes /\ bs[1] = p /\ p + Len(bs) <= StreamLength
<1>1. Len(bs) \in Nat /\ (bs # <<>> => Len(bs) > 0)
  BY EmptySeq, LenProperties
<1>2. ASSUME bs # <<>> PROVE p \in Bytes /\ bs[1] = p /\ p + Len(bs) <= StreamLength
  <2>1. bs[1] \in Bytes /\ bs[Len(bs)] \in Bytes /\ 1 \in 1 .. Len(bs) /\ Len(bs) \in 1 .. Len(bs)
    BY <1>1, <1>2, ElementOfSeq
  <2>2. bs[1] = p /\ bs[Len(bs)] = p + Len(bs) - 1
    BY <1>1, <2>1 DEF From
  <2> QED
    BY <1>1, <2>1, <2>2, StreamAssumption DEF Bytes
<1> QED
  BY <1>1, <1>2

-----------------------------------------------------------------------------
(* Chunks.                                                                  *)

\* A chunk starts ElemSize bytes behind the one before, ...
LEMMA NextAligned ==
  ASSUME NEW b \in Nat, NEW p \in Nat, StartsAt(b, p)
  PROVE  StartsAt(b, p + ElemSize)
<1>1. PICK k \in Nat : p = b + k * ElemSize
  BY DEF StartsAt
<1>2. ElemSize \in Nat
  BY StreamAssumption
<1>3. p + ElemSize = b + (k + 1) * ElemSize
  BY <1>1, <1>2
<1> QED
  BY <1>3 DEF StartsAt

\* the first one where reading began.
LEMMA StartAligned ==
  ASSUME NEW b \in Nat
  PROVE  StartsAt(b, b)
<1>1. b = b + 0 * ElemSize
  BY StreamAssumption
<1> QED
  BY <1>1 DEF StartsAt

\* Within the file it is one of finitely many.
LEMMA AlignedBound ==
  ASSUME NEW b \in Nat, NEW p \in Nat, StartsAt(b, p), p <= StreamLength
  PROVE  \E k \in 0 .. StreamLength : p = b + k * ElemSize
<1>1. PICK k \in Nat : p = b + k * ElemSize
  BY DEF StartsAt
<1>2. ElemSize \in Nat \ {0} /\ StreamLength \in Nat
  BY StreamAssumption
<1>3. k <= k * ElemSize /\ k * ElemSize \in Nat
  BY <1>2
<1> QED
  BY <1>1, <1>2, <1>3

\* A chunk with data
LEMMA ChunkBytes ==
  ASSUME NEW c \in Chunk, From(c.bytes[1], c.bytes)
  PROVE  /\ c.first \in Int /\ c.bytes \in Seq(Bytes) /\ c.bytes # <<>> /\ Len(c.bytes) \in Nat \ {0}
         /\ c.bytes[1] \in Bytes /\ c.bytes[1] + Len(c.bytes) <= StreamLength
         /\ c = [first |-> c.first, bytes |-> c.bytes]
<1>1. c.first \in Int /\ c.bytes \in Seq(Bytes) /\ c.bytes # <<>> /\ c = [first |-> c.first, bytes |-> c.bytes]
  BY DEF Chunk
<1>2. Len(c.bytes) \in Nat \ {0}
  BY <1>1, EmptySeq
<1>3. c.bytes[1] \in Bytes
  BY <1>1, <1>2, ElementOfSeq
<1>4. c.bytes[1] \in Int
  BY <1>3 DEF Bytes
<1> QED
  BY <1>1, <1>2, <1>3, <1>4, FromBound

\* The first and the last chunk of some
LEMMA Ends ==
  ASSUME NEW q \in Seq(Chunk), q # <<>>
  PROVE  /\ Len(q) \in Nat \ {0} /\ 1 \in 1 .. Len(q) /\ Head(q) = q[1] /\ q[1] \in Chunk
         /\ Tail(q) \in Seq(Chunk) /\ Len(Tail(q)) = Len(q) - 1
         /\ \A i \in 1 .. Len(Tail(q)) : Tail(q)[i] = q[i + 1]
         /\ Tail(q) = <<>> <=> Len(q) = 1
<1>1. Len(q) \in Nat \ {0} /\ Head(q) = q[1]
  BY EmptySeq
<1>2. q[1] \in Chunk /\ 1 \in 1 .. Len(q)
  BY <1>1, ElementOfSeq
<1>3. /\ Tail(q) \in Seq(Chunk) /\ Len(Tail(q)) = Len(q) - 1
      /\ \A i \in 1 .. Len(Tail(q)) : Tail(q)[i] = q[i + 1]
  BY HeadTailProperties
<1>4. Tail(q) = <<>> <=> Len(q) = 1
  BY <1>1, <1>3, EmptySeq
<1> QED
  BY <1>1, <1>2, <1>3, <1>4

\* rotate_cache(): a chunk read behind the others is appended.
LEMMA QueueAppend ==
  ASSUME NEW q, NEW p \in Int, NEW end \in Int, NEW b, NEW c \in Chunk,
         Contiguous(q, p, end), ReadFrom(q, b), From(end, c.bytes), c.first = end, StartsAt(b, end)
  PROVE  Contiguous(Append(q, c), p, end + Len(c.bytes)) /\ ReadFrom(Append(q, c), b)
<1> DEFINE new == Append(q, c)
           n == Len(q)
<1>1. /\ q \in Seq(Chunk) /\ n \in Nat /\ (q = <<>> <=> n = 0)
      /\ q # <<>> => p = q[1].bytes[1] /\ end = q[n].bytes[1] + Len(q[n].bytes)
      /\ q = <<>> => p = end
      /\ \A i \in 1 .. n : From(q[i].bytes[1], q[i].bytes)
      /\ \A i \in 1 .. n - 1 : q[i + 1].bytes[1] = q[i].bytes[1] + Len(q[i].bytes)
      /\ n > 0 => q[1].first <= q[1].bytes[1]
      /\ \A i \in 2 .. n : q[i].first = q[i].bytes[1] /\ StartsAt(b, q[i].first)
  <2>1. q \in Seq(Chunk) /\ n \in Nat /\ (q = <<>> <=> n = 0)
    <3>1. q \in Seq(Chunk)
      BY DEF Contiguous
    <3> QED
      BY <3>1, EmptySeq, LenProperties
  <2> QED
    BY <2>1 DEF Contiguous, ReadFrom
<1>2. /\ new \in Seq(Chunk) /\ Len(new) = n + 1 /\ new[n + 1] = c
      /\ \A i \in 1 .. n : new[i] = q[i]
  BY AppendProperties, <1>1
<1> HIDE DEF new, n
<1>3. c.bytes[1] = end /\ c.bytes \in Seq(Bytes) /\ c.first = c.bytes[1]
  BY FromBound DEF Chunk
<1>4. ASSUME NEW i \in 1 .. n + 1 PROVE From(new[i].bytes[1], new[i].bytes)
  <2>1. CASE i = n + 1
    BY <1>2, <1>3, <2>1
  <2>2. CASE i # n + 1
    <3>1. i \in 1 .. n
      BY <1>1, <2>2
    <3> QED
      BY <1>1, <1>2, <3>1
  <2> QED
    BY <2>1, <2>2
<1>5. ASSUME NEW i \in 1 .. n PROVE new[i + 1].bytes[1] = new[i].bytes[1] + Len(new[i].bytes)
  <2>1. CASE i = n
    <3>1. n > 0 /\ new[i] = q[n] /\ new[i + 1] = c /\ q # <<>>
      BY <1>1, <1>2, <2>1
    <3> QED
      BY <1>1, <1>3, <3>1
  <2>2. CASE i # n
    <3>1. i \in 1 .. n - 1 /\ i + 1 \in 1 .. n
      BY <1>1, <2>2
    <3> QED
      BY <1>1, <1>2, <3>1
  <2> QED
    BY <2>1, <2>2
<1>6. new # <<>> /\ new[1].bytes[1] = p
  <2>1. new # <<>>
    BY <1>1, <1>2, EmptySeq
  <2>2. CASE n = 0
    BY <1>1, <1>2, <1>3, <2>1, <2>2
  <2>3. CASE n # 0
    BY <1>1, <1>2, <2>1, <2>3
  <2> QED
    BY <2>2, <2>3
<1>7. end + Len(c.bytes) = new[n + 1].bytes[1] + Len(new[n + 1].bytes)
  BY <1>2, <1>3
<1>8. Contiguous(new, p, end + Len(c.bytes))
  <2>1. Len(new) - 1 = n /\ new[Len(new)] = new[n + 1]
    BY <1>1, <1>2
  <2>2. \A i \in 1 .. Len(new) : From(new[i].bytes[1], new[i].bytes)
    BY <1>2, <1>4
  <2>3. \A i \in 1 .. Len(new) - 1 : new[i + 1].bytes[1] = new[i].bytes[1] + Len(new[i].bytes)
    BY <1>5, <2>1
  <2> QED
    BY <1>2, <1>6, <1>7, <2>1, <2>2, <2>3 DEF Contiguous
<1>9. new[1].first <= new[1].bytes[1]
  <2>1. CASE n = 0
    BY <1>2, <1>3, <2>1
  <2>2. CASE n # 0
    BY <1>1, <1>2, <2>2
  <2> QED
    BY <2>1, <2>2
<1>10. ASSUME NEW i \in 2 .. n + 1 PROVE new[i].first = new[i].bytes[1] /\ StartsAt(b, new[i].first)
  <2>1. CASE i = n + 1
    BY <1>2, <1>3, <2>1
  <2>2. CASE i # n + 1
    <3>1. i \in 2 .. n /\ i \in 1 .. n
      BY <1>1, <2>2
    <3> QED
      BY <1>1, <1>2, <3>1
  <2> QED
    BY <2>1, <2>2
<1> QED
  BY <1>2, <1>8, <1>9, <1>10 DEF ReadFrom, new

\* rotate_data(): the front chunk is taken off.
LEMMA QueueTail ==
  ASSUME NEW q, NEW p \in Int, NEW end \in Int, NEW b, q # <<>>,
         Contiguous(q, p, end), ReadFrom(q, b)
  PROVE  Contiguous(Tail(q), p + Len(Head(q).bytes), end) /\ ReadFrom(Tail(q), b)
<1> DEFINE new == Tail(q)
           n == Len(q)
<1>1. /\ q \in Seq(Chunk) /\ p = q[1].bytes[1] /\ end = q[n].bytes[1] + Len(q[n].bytes)
      /\ \A i \in 1 .. n : From(q[i].bytes[1], q[i].bytes)
      /\ \A i \in 1 .. n - 1 : q[i + 1].bytes[1] = q[i].bytes[1] + Len(q[i].bytes)
      /\ \A i \in 2 .. n : q[i].first = q[i].bytes[1] /\ StartsAt(b, q[i].first)
  BY DEF Contiguous, ReadFrom
<1>2. /\ n \in Nat \ {0} /\ Head(q) = q[1] /\ new \in Seq(Chunk) /\ Len(new) = n - 1
      /\ \A i \in 1 .. n - 1 : new[i] = q[i + 1]
      /\ new = <<>> <=> n = 1
  BY <1>1, Ends
<1> HIDE DEF new, n
<1>3. ASSUME NEW i \in 1 .. n - 1 PROVE From(new[i].bytes[1], new[i].bytes)
  <2>1. i + 1 \in 1 .. n
    BY <1>2
  <2> QED
    BY <1>1, <1>2, <2>1
<1>4. ASSUME NEW i \in 1 .. n - 1 - 1 PROVE new[i + 1].bytes[1] = new[i].bytes[1] + Len(new[i].bytes)
  <2>1. i + 1 \in 1 .. n - 1 /\ i \in 1 .. n - 1
    BY <1>2
  <2> QED
    BY <1>1, <1>2, <2>1
<1>5. CASE n = 1
  BY <1>1, <1>2, <1>5, SMTT(20) DEF Contiguous, ReadFrom, new
<1>6. CASE n # 1
  <2>1. 1 \in 1 .. n - 1 /\ n - 1 \in 1 .. n - 1 /\ n - 1 + 1 = n /\ 1 + 1 = 2 /\ 2 \in 2 .. n
    BY <1>2, <1>6
  <2>2. new[1] = q[2] /\ new[n - 1] = q[n]
    BY <1>2, <2>1
  <2>3. q[2].bytes[1] = p + Len(q[1].bytes)
    BY <1>1, <2>1
  <2>4. Contiguous(new, p + Len(Head(q).bytes), end)
    BY <1>1, <1>2, <1>3, <1>4, <1>6, <2>2, <2>3 DEF Contiguous
  <2>5. new[1].first = new[1].bytes[1] /\ new[1].bytes[1] \in Int
    <3>1. q[2] \in Chunk /\ From(q[2].bytes[1], q[2].bytes)
      BY <1>1, <2>1, ElementOfSeq DEF n
    <3> QED
      BY <1>1, <2>1, <2>2, <3>1, ChunkBytes DEF Bytes
  <2>6. ASSUME NEW i \in 2 .. n - 1 PROVE new[i].first = new[i].bytes[1] /\ StartsAt(b, new[i].first)
    <3>1. i \in 1 .. n - 1 /\ i + 1 \in 2 .. n
      BY <1>2
    <3> QED
      BY <1>1, <1>2, <3>1
  <2> QED
    BY <1>2, <2>4, <2>5, <2>6 DEF ReadFrom, new
<1> QED
  BY <1>5, <1>6

\* The front chunk has other bytes of the file, up to the same end.
LEMMA QueueFront ==
  ASSUME NEW q, NEW p \in Int, NEW end \in Int, NEW b, q # <<>>,
         Contiguous(q, p, end), ReadFrom(q, b),
         NEW c \in Chunk, From(c.bytes[1], c.bytes), c.first <= c.bytes[1],
         c.bytes[1] + Len(c.bytes) = p + Len(Head(q).bytes)
  PROVE  /\ Contiguous([q EXCEPT ![1] = c], c.bytes[1], end) /\ ReadFrom([q EXCEPT ![1] = c], b)
         /\ Len([q EXCEPT ![1] = c]) = Len(q) /\ [q EXCEPT ![1] = c] # <<>>
<1> DEFINE new == [q EXCEPT ![1] = c]
           n == Len(q)
<1>1. /\ q \in Seq(Chunk) /\ p = q[1].bytes[1] /\ end = q[n].bytes[1] + Len(q[n].bytes)
      /\ \A i \in 1 .. n : From(q[i].bytes[1], q[i].bytes)
      /\ \A i \in 1 .. n - 1 : q[i + 1].bytes[1] = q[i].bytes[1] + Len(q[i].bytes)
      /\ \A i \in 2 .. n : q[i].first = q[i].bytes[1] /\ StartsAt(b, q[i].first)
  BY DEF Contiguous, ReadFrom
<1>2. n \in Nat \ {0} /\ Head(q) = q[1] /\ 1 \in 1 .. n
  BY <1>1, Ends
<1>3. /\ new \in Seq(Chunk) /\ Len(new) = n
      /\ \A i \in 1 .. n : new[i] = IF i = 1 THEN c ELSE q[i]
  BY <1>1, <1>2, ExceptSeq
<1> HIDE DEF new, n
<1>4. new # <<>> /\ new[1] = c
  BY <1>2, <1>3, EmptySeq
<1>5. ASSUME NEW i \in 1 .. n PROVE From(new[i].bytes[1], new[i].bytes)
  BY <1>1, <1>3
<1>6. ASSUME NEW i \in 1 .. n - 1 PROVE new[i + 1].bytes[1] = new[i].bytes[1] + Len(new[i].bytes)
  <2>1. i + 1 \in 1 .. n /\ i + 1 # 1 /\ i \in 1 .. n
    BY <1>2
  <2>2. new[i + 1] = q[i + 1]
    BY <1>3, <2>1
  <2>3. q[i + 1].bytes[1] = q[i].bytes[1] + Len(q[i].bytes)
    BY <1>1
  <2>4. CASE i = 1
    BY <1>1, <1>2, <1>4, <2>2, <2>3, <2>4
  <2>5. CASE i # 1
    BY <1>3, <2>1, <2>2, <2>3, <2>5
  <2> QED
    BY <2>4, <2>5
<1>7. end = new[n].bytes[1] + Len(new[n].bytes)
  <2>1. CASE n = 1
    BY <1>1, <1>2, <1>4, <2>1
  <2>2. CASE n # 1
    BY <1>1, <1>2, <1>3, <2>2
  <2> QED
    BY <2>1, <2>2
<1>8. Contiguous(new, c.bytes[1], end)
  BY <1>3, <1>4, <1>5, <1>6, <1>7 DEF Contiguous
<1>9. ASSUME NEW i \in 2 .. n PROVE new[i].first = new[i].bytes[1] /\ StartsAt(b, new[i].first)
  <2>1. i \in 1 .. n /\ i # 1
    BY <1>2
  <2> QED
    BY <1>1, <1>3, <2>1
<1> QED
  BY <1>3, <1>4, <1>8, <1>9 DEF ReadFrom, new, n

-----------------------------------------------------------------------------
(* The invariant.                                                           *)

\* Where the file is read from: its beginning, or a byte sought
Begins == {0} \cup SoughtAhead

FrontStart == filePos - Len(front.bytes)

\* The chunk being filled has bytes before that of the file read next, less than it can
\* hold; a chunk starts there unless the file was read to its end.
FrontOK(b) ==
  /\ front.first \in Int /\ front.bytes \in Seq(Bytes) /\ Len(front.bytes) < ElemSize
  /\ FrontStart \in Nat /\ From(FrontStart, front.bytes)
  /\ front.bytes # <<>> => front.first = FrontStart
  /\ IF finished THEN front.bytes = <<>> ELSE StartsAt(b, FrontStart)

ValuesOK ==
  /\ dataQ \in Seq(Chunk) /\ free \in 0 .. BufferSizeCount /\ free + Len(dataQ) <= BufferSizeCount
  /\ filePos \in Positions /\ finished \in BOOLEAN /\ iPc \in {"idle", "cont"}
  /\ dPc \in {"idle", "readWait", "copy", "rewind", "discard", "seekWait"}
  /\ streamPos \in Positions /\ lastRead \in Seq(Bytes) /\ got \in Seq(Bytes)
  /\ want \in 0 .. StreamLength /\ seekTo \in Positions /\ fresh \in BOOLEAN

\* What was read is what precedes the position, until the codec seeks.
CodecOK ==
  /\ dPc # "copy" => got = <<>>
  /\ dPc \in {"readWait", "copy"} => lastRead = <<>>
  /\ From(streamPos, got)
  /\ fresh \/ dPc = "rewind" => From(streamPos - Len(lastRead), lastRead)
  /\ dPc \in {"rewind", "discard", "seekWait"} => ~fresh
  /\ dPc = "rewind" => Covered(seekTo)
  /\ dPc = "discard" => streamPos <= seekTo

\* The byte the decoder thread takes next
Pos == IF dPc = "discard" THEN seekTo - want ELSE streamPos + Len(got)

\* The buffer has the bytes from there on, read from b on; the codec was never before b
\* since.
Reads(b) ==
  /\ FrontOK(b) /\ Contiguous(dataQ, Pos, FrontStart) /\ ReadFrom(dataQ, b)
  /\ b <= streamPos /\ (fresh \/ dPc = "rewind" => b <= streamPos - Len(lastRead))

Reading == dPc # "seekWait" => seekJobs = <<>> /\ \E b \in Begins : Reads(b)

\* Until the input thread handles a seek no chunk starts with the byte sought, ...
Awaited ==
  /\ seekJobs = <<seekTo>> /\ \A i \in 1 .. Len(dataQ) : dataQ[i].first # seekTo
  /\ \E b \in Begins : b < seekTo /\ FrontOK(b)

\* and then the first one that does is followed by the bytes from there on.
Answered ==
  /\ seekJobs = <<>> /\ FrontOK(seekTo)
  /\ \E old \in Seq(Chunk), new \in Seq(Chunk) :
       /\ dataQ = old \o new
       /\ \A i \in 1 .. Len(old) : old[i].first # seekTo
       /\ Contiguous(new, seekTo, FrontStart) /\ ReadFrom(new, seekTo)
       /\ new # <<>> => new[1].first = seekTo

Seeking == dPc = "seekWait" => seekTo \in SoughtAhead /\ (Awaited \/ Answered)

IInv == ValuesOK /\ CodecOK /\ Reading /\ Seeking

\* A byte sought is within the file.
LEMMA BeginsTypes == Begins \subseteq Nat /\ SoughtAhead \subseteq Positions /\ SoughtAhead \subseteq Begins
  BY StreamAssumption DEF Begins, SoughtAhead, seek_callback, Positions

\* No chunk starts with a byte that is sought.
LEMMA Unaligned ==
  ASSUME GentleCodec, NEW b \in Begins, NEW to \in SoughtAhead, b < to
  PROVE  ~StartsAt(b, to)
<1>1. b \in Nat /\ to \in Nat /\ to <= StreamLength
  BY BeginsTypes, StreamAssumption DEF Positions
<1>2. \A k \in 0 .. StreamLength : to # b + k * ElemSize
  BY DEF GentleCodec, Begins
<1> QED
  BY <1>1, <1>2, AlignedBound

\* A position is a number.
LEMMA PosType ==
  ASSUME ValuesOK
  PROVE  Pos \in Int /\ streamPos \in Nat /\ seekTo \in Nat /\ want \in Nat /\ StreamLength \in Nat
<1>1. Len(got) \in Nat
  BY LenProperties DEF ValuesOK
<1>2. StreamLength \in Nat
  BY StreamAssumption
<1>3. streamPos \in Nat /\ seekTo \in Nat /\ want \in Nat
  BY <1>2 DEF ValuesOK, Positions
<1> QED
  BY <1>1, <1>2, <1>3 DEF Pos

\* A step that leaves the buffer and the position alone
LEMMA StillReads ==
  ASSUME NEW b, Reads(b), UNCHANGED <<dataQ, input>>, Pos' = Pos, b <= streamPos',
         fresh' \/ dPc' = "rewind" => b <= streamPos' - Len(lastRead')
  PROVE  Reads(b)'
<1>1. UNCHANGED <<front, filePos, finished>>
  BY DEF input
<1>2. FrontStart' = FrontStart
  BY <1>1 DEF FrontStart
<1>3. FrontOK(b)'
  BY <1>1, <1>2 DEF Reads, FrontOK
<1> QED
  BY <1>2, <1>3 DEF Reads

\* erase_begin() and rotate_data() take bytes off the front of the buffer.
LEMMA DropKeeps ==
  ASSUME ValuesOK, NEW p \in Int, NEW end \in Int, NEW b, dataQ # <<>>,
         Contiguous(dataQ, p, end), ReadFrom(dataQ, b),
         NEW n \in 1 .. Len(Head(dataQ).bytes), Drop(n)
  PROVE  /\ Contiguous(dataQ', p + n, end) /\ ReadFrom(dataQ', b) /\ dataQ' \in Seq(Chunk)
         /\ free' \in 0 .. BufferSizeCount /\ free' + Len(dataQ') <= BufferSizeCount
         /\ SubSeq(Head(dataQ).bytes, 1, n) \in Seq(Bytes)
         /\ Len(SubSeq(Head(dataQ).bytes, 1, n)) = n /\ From(p, SubSeq(Head(dataQ).bytes, 1, n))
<1> DEFINE c == Head(dataQ)
           size == Len(c.bytes)
<1>1. dataQ \in Seq(Chunk) /\ free \in 0 .. BufferSizeCount /\ free + Len(dataQ) <= BufferSizeCount
  BY DEF ValuesOK
<1>2. /\ Len(dataQ) \in Nat \ {0} /\ 1 \in 1 .. Len(dataQ) /\ c = dataQ[1] /\ c \in Chunk
      /\ Tail(dataQ) \in Seq(Chunk) /\ Len(Tail(dataQ)) = Len(dataQ) - 1
  BY <1>1, Ends
<1>3. p = c.bytes[1] /\ From(p, c.bytes)
  BY <1>2 DEF Contiguous
<1>4. /\ c.first \in Int /\ c.bytes \in Seq(Bytes) /\ size \in Nat \ {0}
      /\ c.bytes[1] \in Bytes /\ c.bytes[1] + size <= StreamLength
  BY <1>2, <1>3, ChunkBytes
<1>5. c.first <= p
  BY <1>2, <1>3 DEF ReadFrom
<1>6. BufferSizeCount \in Nat
  BY StreamAssumption
<1>7. n \in 1 .. size
  OBVIOUS
<1>8. /\ IF n = size THEN dataQ' = Tail(dataQ) /\ free' = free + 1
           ELSE /\ dataQ' = [dataQ EXCEPT ![1] = [first |-> c.first - n, bytes |-> SubSeq(c.bytes, n + 1, size)]]
                /\ free' = free
  BY DEF Drop
<1> HIDE DEF c, size
<1>9. SubSeq(c.bytes, 1, n) \in Seq(Bytes) /\ Len(SubSeq(c.bytes, 1, n)) = n /\ From(p, SubSeq(c.bytes, 1, n))
  <2>1. n \in Nat /\ n <= Len(c.bytes) /\ 1 \in Nat \ {0} /\ 1 <= n + 1
    BY <1>4, <1>7 DEF size
  <2>2. /\ SubSeq(c.bytes, 1, n) \in Seq(Bytes) /\ Len(SubSeq(c.bytes, 1, n)) = n - 1 + 1
        /\ From(p + 1 - 1, SubSeq(c.bytes, 1, n))
    BY <1>3, <1>4, <2>1, FromSubSeq
  <2>3. n - 1 + 1 = n /\ p + 1 - 1 = p
    BY <2>1
  <2> QED
    BY <2>2, <2>3
<1>10. CASE n = size
  <2>1. dataQ' = Tail(dataQ) /\ free' = free + 1
    BY <1>8, <1>10
  <2>2. Contiguous(Tail(dataQ), p + Len(Head(dataQ).bytes), end) /\ ReadFrom(Tail(dataQ), b)
    BY QueueTail
  <2>3. free' \in 0 .. BufferSizeCount /\ free' + Len(dataQ') <= BufferSizeCount
    BY <1>1, <1>2, <1>6, <2>1
  <2> QED
    BY <1>2, <1>9, <1>10, <2>1, <2>2, <2>3 DEF c, size
<1>11. CASE n # size
  <2> DEFINE rest == SubSeq(c.bytes, n + 1, size)
             d == [first |-> c.first - n, bytes |-> rest]
  <2>1. dataQ' = [dataQ EXCEPT ![1] = d] /\ free' = free
    BY <1>8, <1>11
  <2>2. n + 1 \in Nat \ {0} /\ size \in Nat /\ n + 1 <= size + 1 /\ size <= Len(c.bytes) /\ n \in Nat \ {0}
    BY <1>4, <1>7, <1>11 DEF size
  <2>3. rest \in Seq(Bytes) /\ Len(rest) = size - (n + 1) + 1 /\ From(p + (n + 1) - 1, rest)
    BY <1>3, <1>4, <2>2, FromSubSeq, SMTT(20)
  <2> HIDE DEF rest
  <2>4. Len(rest) = size - n /\ Len(rest) > 0 /\ p + (n + 1) - 1 = p + n
    BY <1>4, <1>7, <1>11, <2>2, <2>3
  <2>5. rest # <<>> /\ rest[1] = p + n
    <3>1. rest # <<>>
      BY <2>4, EmptySeq
    <3> QED
      BY <2>2, <2>3, <2>4, <3>1, FromBound
  <2>6. d \in Chunk /\ d.bytes = rest /\ d.first = c.first - n
    BY <1>4, <2>2, <2>3, <2>5 DEF Chunk
  <2> HIDE DEF d
  <2>7. /\ From(d.bytes[1], d.bytes) /\ d.first <= d.bytes[1]
    <3>1. d.bytes[1] = p + n /\ d.bytes = rest
      BY <2>5, <2>6
    <3>2. From(p + n, rest)
      BY <2>3, <2>4
    <3>3. d.first <= p + n
      BY <1>4, <1>5, <2>2, <2>6
    <3> QED
      BY <3>1, <3>2, <3>3
  <2>8. d.bytes[1] + Len(d.bytes) = p + Len(Head(dataQ).bytes)
    <3>1. Len(Head(dataQ).bytes) = size
      BY DEF c, size
    <3>2. d.bytes[1] = p + n /\ Len(d.bytes) = size - n
      BY <2>4, <2>5, <2>6
    <3>3. (p + n) + (size - n) = p + size
      BY <2>2
    <3> QED
      BY <3>1, <3>2, <3>3
  <2>9. Contiguous(dataQ', d.bytes[1], end) /\ ReadFrom(dataQ', b) /\ Len(dataQ') = Len(dataQ)
    BY <2>1, <2>6, <2>7, <2>8, QueueFront
  <2>10. dataQ' \in Seq(Chunk)
    BY <2>9 DEF Contiguous
  <2> QED
    BY <1>1, <1>9, <2>1, <2>5, <2>6, <2>9, <2>10 DEF c
<1> QED
  BY <1>10, <1>11

-----------------------------------------------------------------------------
(* The input thread.                                                        *)

\* How many bytes are read
LEMMA ReadCountBound ==
  ASSUME ValuesOK, front.bytes \in Seq(Bytes), Len(front.bytes) < ElemSize
  PROVE  /\ ReadCount \in Nat /\ ReadCount <= ElemSize - Len(front.bytes)
         /\ filePos + ReadCount <= StreamLength
         /\ Len(front.bytes) \in Nat /\ filePos \in Nat /\ StreamLength \in Nat /\ ElemSize \in Nat \ {0}
<1>1. {StreamLength, ElemSize, MaxFileChunkSize} \subseteq Nat \ {0}
  BY StreamAssumption
<1>2. Len(front.bytes) \in Nat /\ Len(front.bytes) < ElemSize
  BY LenProperties
<1>3. filePos \in 0 .. StreamLength
  BY DEF ValuesOK, Positions
<1> QED
  BY <1>1, <1>2, <1>3 DEF ReadCount, Min2

\* try_read() passes a chunk on, of bytes that follow those passed on before, or none.
LEMMA TryReadKeeps ==
  ASSUME ValuesOK, NEW b \in Nat, FrontOK(b), TryRead
  PROVE  /\ FrontOK(b)'
         /\ free' \in 0 .. BufferSizeCount /\ free' + Len(dataQ') <= BufferSizeCount
         /\ filePos' \in Positions /\ finished' \in BOOLEAN /\ iPc' \in {"idle", "cont"}
         /\ UNCHANGED <<seekJobs, dPc, streamPos, lastRead, got, want, seekTo, fresh>>
         /\ \/ dataQ' = dataQ /\ FrontStart' = FrontStart
            \/ \E c \in Chunk : /\ dataQ' = Append(dataQ, c) /\ FrontStart' = FrontStart + Len(c.bytes)
                                /\ c.first = FrontStart /\ From(FrontStart, c.bytes) /\ StartsAt(b, FrontStart)
<1>1. /\ UNCHANGED <<seekJobs, dPc, streamPos, lastRead, got, want, seekTo, fresh>> /\ iPc' = "idle"
      /\ ~finished
  BY DEF TryRead, decoder
<1>2. CASE free <= 0
  <2>1. UNCHANGED <<dataQ, front, free, filePos, finished>>
    BY <1>2 DEF TryRead, ValuesOK
  <2> QED
    BY <1>1, <2>1 DEF ValuesOK, FrontOK, FrontStart
<1>3. CASE free > 0
  <2> DEFINE n == ReadCount
             part == FileBytes(filePos, n)
             all == front.bytes \o part
             chunk == [first |-> ByteStart, bytes |-> all]
             p == FrontStart
  <2>1. /\ n \in Nat /\ n <= ElemSize - Len(front.bytes) /\ filePos + n <= StreamLength
        /\ Len(front.bytes) \in Nat /\ filePos \in Nat /\ StreamLength \in Nat /\ ElemSize \in Nat \ {0}
    BY ReadCountBound DEF FrontOK
  <2>2. /\ filePos' = filePos + n /\ finished' = IsFileFinished
        /\ IF IsChunkReady(chunk) THEN PassOn(chunk) ELSE front' = chunk /\ UNCHANGED <<dataQ, free>>
    BY <1>3 DEF TryRead, ReadFile
  <2>3. part \in Seq(Bytes) /\ Len(part) = n /\ From(filePos, part)
    BY <2>1, FileBytesFrom
  <2>4. p \in Nat /\ p = filePos - Len(front.bytes) /\ front.bytes \in Seq(Bytes) /\ From(p, front.bytes) /\ StartsAt(b, p)
    BY <1>1 DEF FrontOK, FrontStart
  <2>5. all \in Seq(Bytes) /\ Len(all) = Len(front.bytes) + n /\ From(p, all)
    <3> HIDE DEF part, p, n
    <3>1. p + Len(front.bytes) = filePos
      BY <2>1, <2>4
    <3>2. p \in Int /\ front.bytes \in Seq(Bytes) /\ From(p + Len(front.bytes), part)
      BY <2>3, <2>4, <3>1
    <3>3. /\ front.bytes \o part \in Seq(Bytes) /\ Len(front.bytes \o part) = Len(front.bytes) + Len(part)
          /\ From(p, front.bytes \o part)
      BY <2>3, <2>4, <3>2, FromConcat
    <3> QED
      BY <2>3, <3>3
  <2>6. ByteStart = p
    <3>1. CASE front.bytes = <<>>
      BY <2>1, <3>1, EmptySeq DEF ByteStart, FrontStart
    <3>2. CASE front.bytes # <<>>
      BY <3>2 DEF ByteStart, FrontOK
    <3> QED
      BY <3>1, <3>2
  <2>7. chunk.first = p /\ chunk.bytes = all /\ (all # <<>> => chunk \in Chunk)
    BY <2>4, <2>5, <2>6 DEF Chunk
  <2>8. filePos' \in Positions /\ finished' \in BOOLEAN /\ free \in 1 .. BufferSizeCount /\ dataQ \in Seq(Chunk)
        /\ free + Len(dataQ) <= BufferSizeCount /\ Len(dataQ) \in Nat /\ BufferSizeCount \in Nat
    <3>1. finished' \in BOOLEAN
      BY <2>2 DEF IsFileFinished
    <3>2. dataQ \in Seq(Chunk) /\ free \in 0 .. BufferSizeCount /\ free + Len(dataQ) <= BufferSizeCount
      BY DEF ValuesOK
    <3>3. BufferSizeCount \in Nat
      BY StreamAssumption
    <3>4. Len(dataQ) \in Nat
      BY <3>2, LenProperties
    <3> QED
      BY <1>3, <2>1, <2>2, <3>1, <3>2, <3>3, <3>4 DEF Positions
  <2>9. CASE ~IsChunkReady(chunk)
    <3>1. front' = chunk /\ UNCHANGED <<dataQ, free>> /\ ~finished' /\ Len(all) # ElemSize
      BY <2>2, <2>7, <2>9 DEF IsChunkReady
    <3>2. Len(all) < ElemSize
      BY <2>1, <2>5, <3>1
    <3>3. FrontStart' = p
      <4> DEFINE kept == Len(front.bytes)
                 total == Len(all)
      <4>1. FrontStart' = filePos' - total /\ filePos' = filePos + n
        BY <2>2, <2>7, <3>1 DEF FrontStart
      <4>2. n \in Nat /\ kept \in Nat /\ filePos \in Nat /\ p = filePos - kept /\ total = kept + n
        BY <2>1, <2>4, <2>5
      <4> HIDE DEF n, p, kept, total
      <4> QED
        BY <4>1, <4>2
    <3>4. front'.first = p /\ front'.bytes = all
      BY <2>7, <3>1
    <3>5. FrontOK(b)'
      <4> HIDE DEF all, p
      <4> QED
        BY <2>4, <2>5, <3>1, <3>2, <3>3, <3>4 DEF FrontOK
    <3> QED
      BY <1>1, <2>8, <3>1, <3>3, <3>5
  <2>10. CASE IsChunkReady(chunk)
    <3>1. /\ dataQ' = IF all = <<>> THEN dataQ ELSE Append(dataQ, chunk)
          /\ front' = Empty /\ free' = free - 1
      BY <2>2, <2>7, <2>10 DEF PassOn
    <3>2. finished' \/ Len(all) = ElemSize
      BY <2>2, <2>7, <2>10 DEF IsChunkReady
    <3>3. front'.first = 0 /\ front'.bytes = <<>> /\ Len(front'.bytes) = 0
      BY <3>1, EmptySeq DEF Empty
    <3>4. FrontStart' = p + Len(all)
      <4>1. FrontStart' = filePos + n
        BY <2>1, <2>2, <3>3 DEF FrontStart
      <4> DEFINE kept == Len(front.bytes)
                 total == Len(all)
      <4>2. n \in Nat /\ kept \in Nat /\ filePos \in Nat /\ p = filePos - kept /\ total = kept + n
        BY <2>1, <2>4, <2>5
      <4> HIDE DEF n, p, kept, total
      <4>3. filePos + n = p + total
        BY <4>2
      <4> QED
        BY <4>1, <4>3 DEF total
    <3>5. ~finished' => StartsAt(b, p + Len(all))
      BY <2>4, <3>2, NextAligned
    <3>6. FrontOK(b)'
      <4>1. From(FrontStart', front'.bytes)
        BY <3>3 DEF From
      <4>2. FrontStart' \in Nat
        BY <2>1, <2>4, <2>5, <3>4
      <4>3. front'.bytes \in Seq(Bytes)
        BY <3>3, EmptySeq
      <4> QED
        BY <2>1, <3>3, <3>4, <3>5, <4>1, <4>2, <4>3 DEF FrontOK
    <3>7. CASE all = <<>>
      <4>1. Len(all) = 0
        BY <3>7, EmptySeq
      <4>2. FrontStart' = FrontStart
        BY <2>4, <3>4, <4>1
      <4> QED
        BY <1>1, <2>8, <3>1, <3>6, <3>7, <4>2
    <3>8. CASE all # <<>>
      <4>1. dataQ' = Append(dataQ, chunk) /\ chunk \in Chunk /\ Len(dataQ') = Len(dataQ) + 1
        BY <2>7, <2>8, <3>1, <3>8, AppendProperties
      <4>2. free' \in 0 .. BufferSizeCount /\ free' + Len(dataQ') <= BufferSizeCount
        BY <2>8, <3>1, <4>1
      <4> HIDE DEF all, chunk
      <4>3. /\ FrontStart' = FrontStart + Len(chunk.bytes) /\ chunk.first = FrontStart
            /\ From(FrontStart, chunk.bytes) /\ StartsAt(b, FrontStart)
        BY <2>4, <2>5, <2>7, <3>4
      <4> QED
        BY <1>1, <2>8, <3>6, <4>1, <4>2, <4>3
    <3> QED
      BY <3>7, <3>8
  <2> QED
    BY <2>9, <2>10
<1> QED
  BY <1>2, <1>3 DEF ValuesOK

\* try_read() keeps the invariant, whatever the decoder thread does.
LEMMA TryReadOK ==
  ASSUME IInv, GentleCodec, TryRead
  PROVE  IInv'
<1> USE DEF IInv
<1>1. ASSUME NEW b \in Nat, FrontOK(b)
      PROVE  /\ FrontOK(b)'
             /\ free' \in 0 .. BufferSizeCount /\ free' + Len(dataQ') <= BufferSizeCount
             /\ filePos' \in Positions /\ finished' \in BOOLEAN /\ iPc' \in {"idle", "cont"}
             /\ UNCHANGED <<seekJobs, dPc, streamPos, lastRead, got, want, seekTo, fresh>>
             /\ \/ dataQ' = dataQ /\ FrontStart' = FrontStart
                \/ \E c \in Chunk : /\ dataQ' = Append(dataQ, c) /\ FrontStart' = FrontStart + Len(c.bytes)
                                    /\ c.first = FrontStart /\ From(FrontStart, c.bytes) /\ StartsAt(b, FrontStart)
  BY <1>1, TryReadKeeps
<1>2. PICK b0 \in Nat : FrontOK(b0)
  <2>1. CASE dPc # "seekWait"
    BY <2>1, BeginsTypes DEF Reading, Reads
  <2>2. CASE dPc = "seekWait"
    BY <2>2, BeginsTypes DEF Seeking, Awaited, Answered, Positions
  <2> QED
    BY <2>1, <2>2
<1>3. /\ free' \in 0 .. BufferSizeCount /\ free' + Len(dataQ') <= BufferSizeCount
      /\ filePos' \in Positions /\ finished' \in BOOLEAN /\ iPc' \in {"idle", "cont"}
      /\ UNCHANGED <<seekJobs, dPc, streamPos, lastRead, got, want, seekTo, fresh>>
      /\ \/ dataQ' = dataQ
         \/ \E c \in Chunk : dataQ' = Append(dataQ, c)
  BY <1>1, <1>2
<1>4. ValuesOK'
  <2>1. dataQ \in Seq(Chunk)
    BY DEF ValuesOK
  <2>2. dataQ' \in Seq(Chunk)
    <3>1. \A c \in Chunk : Append(dataQ, c) \in Seq(Chunk)
      BY <2>1, AppendProperties
    <3>2. dataQ' = dataQ \/ \E c \in Chunk : dataQ' = Append(dataQ, c)
      BY <1>3
    <3> QED
      BY <2>1, <3>1, <3>2
  <2> QED
    BY <1>3, <2>2 DEF ValuesOK
<1>5. CodecOK' /\ Pos' = Pos
  BY <1>3 DEF CodecOK, Pos, Covered
<1>6. Pos \in Int
  <2>1. ValuesOK
    OBVIOUS
  <2> QED
    BY <2>1, PosType
<1>7. Reading'
  <2> SUFFICES ASSUME dPc # "seekWait" PROVE seekJobs' = <<>> /\ \E b \in Begins : Reads(b)'
    BY <1>3 DEF Reading
  <2>1. PICK b \in Begins : Reads(b)
    BY DEF Reading
  <2>2. b \in Nat /\ FrontOK(b) /\ Contiguous(dataQ, Pos, FrontStart) /\ ReadFrom(dataQ, b) /\ FrontStart \in Int
    <3>1. b \in Nat
      BY BeginsTypes
    <3>2. FrontOK(b) /\ Contiguous(dataQ, Pos, FrontStart) /\ ReadFrom(dataQ, b)
      BY <2>1 DEF Reads
    <3>3. FrontStart \in Nat
      BY <3>2 DEF FrontOK
    <3> QED
      BY <3>1, <3>2, <3>3
  <2>3. Contiguous(dataQ', Pos, FrontStart') /\ ReadFrom(dataQ', b) /\ FrontOK(b)'
    <3>1. CASE dataQ' = dataQ /\ FrontStart' = FrontStart
      BY <1>1, <2>2, <3>1
    <3>2. ASSUME NEW c \in Chunk, dataQ' = Append(dataQ, c), FrontStart' = FrontStart + Len(c.bytes),
                 c.first = FrontStart, From(FrontStart, c.bytes), StartsAt(b, FrontStart)
          PROVE  Contiguous(dataQ', Pos, FrontStart') /\ ReadFrom(dataQ', b)
      BY <1>6, <2>2, <3>2, QueueAppend
    <3> QED
      BY <1>1, <2>2, <3>1, <3>2
  <2>4. Reads(b)'
    BY <1>3, <1>5, <2>1, <2>3 DEF Reads
  <2> QED
    BY <1>3, <2>4 DEF Reading
<1>8. Seeking'
  <2> SUFFICES ASSUME dPc = "seekWait" PROVE (Awaited \/ Answered)'
    BY <1>3 DEF Seeking
  <2>1. seekTo \in SoughtAhead /\ seekTo \in Nat /\ seekTo' = seekTo /\ seekJobs' = seekJobs
    BY <1>3, BeginsTypes DEF Seeking, Positions
  <2>2. CASE Awaited
    <3>1. PICK b \in Begins : b < seekTo /\ FrontOK(b)
      BY <2>2 DEF Awaited
    <3>2. b \in Nat /\ FrontOK(b)'
      BY <1>1, <3>1, BeginsTypes
    <3>3. \A i \in 1 .. Len(dataQ') : dataQ'[i].first # seekTo
      <4>1. \A i \in 1 .. Len(dataQ) : dataQ[i].first # seekTo
        BY <2>2 DEF Awaited
      <4>2. ASSUME NEW c \in Chunk, dataQ' = Append(dataQ, c), c.first = FrontStart, StartsAt(b, FrontStart)
            PROVE  \A i \in 1 .. Len(dataQ') : dataQ'[i].first # seekTo
        <5>1. c.first # seekTo
          BY <2>1, <3>1, <4>2, Unaligned
        <5>2. /\ dataQ \in Seq(Chunk) /\ Len(dataQ) \in Nat /\ Len(dataQ') = Len(dataQ) + 1
              /\ dataQ'[Len(dataQ) + 1] = c /\ \A i \in 1 .. Len(dataQ) : dataQ'[i] = dataQ[i]
          BY <4>2, AppendProperties, LenProperties DEF ValuesOK
        <5> QED
          BY <4>1, <5>1, <5>2
      <4> QED
        BY <1>1, <3>1, <3>2, <4>1, <4>2
    <3> QED
      BY <2>1, <2>2, <3>1, <3>2, <3>3 DEF Awaited
  <2>3. CASE Answered
    <3>1. seekJobs = <<>> /\ FrontOK(seekTo)
      BY <2>3 DEF Answered
    <3>2. PICK old \in Seq(Chunk), new \in Seq(Chunk) :
            /\ dataQ = old \o new
            /\ \A i \in 1 .. Len(old) : old[i].first # seekTo
            /\ Contiguous(new, seekTo, FrontStart) /\ ReadFrom(new, seekTo)
            /\ new # <<>> => new[1].first = seekTo
      BY <2>3 DEF Answered
    <3>3. FrontOK(seekTo)' /\ FrontStart \in Int
      BY <1>1, <2>1, <3>1 DEF FrontOK
    <3>4. CASE dataQ' = dataQ /\ FrontStart' = FrontStart
      BY <2>1, <3>1, <3>2, <3>3, <3>4 DEF Answered
    <3>5. ASSUME NEW c \in Chunk, dataQ' = Append(dataQ, c), FrontStart' = FrontStart + Len(c.bytes),
                 c.first = FrontStart, From(FrontStart, c.bytes), StartsAt(seekTo, FrontStart)
          PROVE  Answered'
      <4> DEFINE more == Append(new, c)
      <4>1. Contiguous(more, seekTo, FrontStart') /\ ReadFrom(more, seekTo)
        BY <2>1, <3>2, <3>3, <3>5, QueueAppend
      <4>2. more \in Seq(Chunk) /\ Len(new) \in Nat /\ (new = <<>> <=> Len(new) = 0)
            /\ more[Len(new) + 1] = c /\ \A i \in 1 .. Len(new) : more[i] = new[i]
        BY AppendProperties, LenProperties, EmptySeq
      <4>3. dataQ' = old \o more
        <5>1. <<c>> \in Seq(Chunk) /\ more = new \o <<c>> /\ old \o new \in Seq(Chunk)
              /\ Append(old \o new, c) = (old \o new) \o <<c>>
          BY AppendIsConcat, ConcatProperties
        <5> QED
          BY <3>2, <3>5, <5>1, ConcatAssociative, SMTT(20)
      <4> HIDE DEF more
      <4>4. more[1].first = seekTo
        <5>1. CASE new = <<>>
          BY <3>2, <3>5, <4>2, <5>1 DEF Contiguous
        <5>2. CASE new # <<>>
          BY <3>2, <4>2, <5>2
        <5> QED
          BY <5>1, <5>2
      <4> QED
        BY <2>1, <3>1, <3>2, <3>3, <4>1, <4>2, <4>3, <4>4 DEF Answered
    <3> QED
      BY <1>1, <2>1, <3>1, <3>4, <3>5
  <2> QED
    BY <2>2, <2>3 DEF Seeking
<1> QED
  BY <1>4, <1>5, <1>7, <1>8

\* seek_callback_internal(): reading begins at the byte sought, and of the chunks passed
\* on before none starts there.
LEMMA SeekCallbackOK ==
  ASSUME IInv, GentleCodec, SeekCallback
  PROVE  IInv'
<1> USE DEF IInv
<1>1. /\ seekJobs # <<>> /\ seekJobs' = Tail(seekJobs) /\ front' = Empty /\ filePos' = Head(seekJobs)
      /\ finished' = FALSE /\ iPc' \in {"idle", "cont"}
      /\ UNCHANGED <<dataQ, free, dPc, streamPos, lastRead, got, want, seekTo, fresh>>
  BY DEF SeekCallback, decoder
<1>2. dPc = "seekWait" /\ seekTo \in SoughtAhead /\ Awaited
  BY <1>1 DEF Reading, Seeking, Answered
<1>3. seekTo \in Positions /\ seekTo \in Nat
  BY <1>2, BeginsTypes DEF Positions
<1>4. seekJobs' = <<>> /\ filePos' = seekTo
  BY <1>1, <1>2 DEF Awaited
<1>5. front'.bytes = <<>> /\ Len(front'.bytes) = 0 /\ front'.first = 0 /\ front'.bytes \in Seq(Bytes)
  BY <1>1, EmptySeq DEF Empty
<1>6. FrontStart' = seekTo
  BY <1>3, <1>4, <1>5 DEF FrontStart
<1>7. FrontOK(seekTo)'
  BY <1>1, <1>3, <1>5, <1>6, StartAligned, StreamAssumption, SMTT(20) DEF FrontOK, From
<1>8. Answered'
  <2>1. dataQ \in Seq(Chunk) /\ <<>> \in Seq(Chunk) /\ dataQ' = dataQ \o <<>> /\ Len(<<>>) = 0
    BY <1>1, EmptySeq, ConcatEmptySeq DEF ValuesOK
  <2>2. Contiguous(<<>>, seekTo, FrontStart') /\ ReadFrom(<<>>, seekTo)
    BY <1>6, <2>1 DEF Contiguous, ReadFrom
  <2>3. \A i \in 1 .. Len(dataQ) : dataQ[i].first # seekTo
    BY <1>2 DEF Awaited
  <2> QED
    BY <1>1, <1>4, <1>7, <2>1, <2>2, <2>3 DEF Answered
<1>9. ValuesOK' /\ CodecOK'
  BY <1>1, <1>3, <1>4 DEF ValuesOK, CodecOK, Covered
<1> QED
  BY <1>1, <1>2, <1>8, <1>9 DEF Reading, Seeking

-----------------------------------------------------------------------------
(* The decoder thread reads.                                                *)

\* The lists of bytes that steps of the decoder thread make
LEMMA NoBytes == /\ <<>> \in Seq(Bytes) /\ Len(<<>>) = 0 /\ \A p \in Int : From(p, <<>>)
  BY EmptySeq DEF From

\* A read keeps the invariant when it begins, ...
LEMMA ReadCallOK ==
  ASSUME IInv, ReadCall
  PROVE  IInv'
<1> USE DEF IInv
<1>1. /\ dPc = "idle" /\ dPc' \in {"readWait", "copy"} /\ lastRead' = <<>>
      /\ UNCHANGED <<dataQ, input, seekJobs, streamPos, got, seekTo, fresh>>
      /\ UNCHANGED <<front, free, filePos, finished, iPc>>
  BY DEF ReadCall, input
<1>2. want' \in 0 .. StreamLength
  <2>1. PICK size \in 1 .. MaxRead : want' = Min2(size, StreamLength - streamPos)
    BY DEF ReadCall
  <2>2. MaxRead \in Nat /\ StreamLength \in Nat /\ streamPos \in 0 .. StreamLength
    BY StreamAssumption DEF ValuesOK, Positions
  <2> QED
    BY <2>1, <2>2 DEF Min2
<1>3. ValuesOK' /\ streamPos \in Nat
  BY <1>1, <1>2, NoBytes, PosType DEF ValuesOK
<1>4. got = <<>> /\ got' = <<>> /\ From(streamPos, got)
  BY <1>1 DEF CodecOK
<1>5. CodecOK'
  <2>1. streamPos - Len(lastRead') \in Int
    BY <1>1, <1>3, NoBytes
  <2> QED
    BY <1>1, <1>4, <2>1, NoBytes DEF CodecOK
<1>6. Pos' = Pos
  BY <1>1 DEF Pos
<1>7. PICK b \in Begins : Reads(b)
  BY <1>1 DEF Reading
<1>8. b <= streamPos' /\ b <= streamPos' - Len(lastRead')
  <2>1. b <= streamPos
    BY <1>7 DEF Reads
  <2> QED
    BY <1>1, <1>3, <2>1, NoBytes
<1>9. Reads(b)'
  BY <1>1, <1>6, <1>7, <1>8, StillReads
<1>10. Reading' /\ Seeking'
  BY <1>1, <1>9 DEF Reading, Seeking
<1> QED
  BY <1>3, <1>5, <1>10

\* when its wait ends, with or without the bytes, ...
LEMMA ReadWaitOK ==
  ASSUME IInv, ReadReady \/ ReadGiveUp
  PROVE  IInv'
<1> USE DEF IInv
<1>1. /\ dPc = "readWait" /\ dPc' \in {"copy", "idle"} /\ want' \in {want, 0}
      /\ UNCHANGED <<dataQ, input, seekJobs, streamPos, lastRead, got, seekTo, fresh>>
      /\ UNCHANGED <<front, free, filePos, finished, iPc>>
  BY DEF ReadReady, ReadGiveUp, input
<1>2. ValuesOK'
  BY <1>1, StreamAssumption DEF ValuesOK
<1>3. CodecOK'
  BY <1>1 DEF CodecOK
<1>4. Pos' = Pos
  BY <1>1 DEF Pos
<1>5. PICK b \in Begins : Reads(b)
  BY <1>1 DEF Reading
<1>6. Reads(b)'
  <2>1. b <= streamPos' /\ (fresh' \/ dPc' = "rewind" => b <= streamPos' - Len(lastRead'))
    BY <1>1, <1>5 DEF Reads
  <2> QED
    BY <1>1, <1>4, <1>5, <2>1, StillReads
<1>7. Reading' /\ Seeking'
  BY <1>1, <1>6 DEF Reading, Seeking
<1> QED
  BY <1>2, <1>3, <1>7

\* How much is taken of the front chunk
LEMMA CanTakeBound ==
  ASSUME ValuesOK, want > 0, dataQ # <<>>
  PROVE  CanTake \in 1 .. Len(Head(dataQ).bytes) /\ CanTake \in Nat /\ CanTake <= want
<1>1. Head(dataQ) \in Chunk
  BY Ends DEF ValuesOK
<1>2. Head(dataQ).bytes \in Seq(Bytes) /\ Head(dataQ).bytes # <<>>
  BY <1>1 DEF Chunk
<1>3. Len(Head(dataQ).bytes) \in Nat \ {0}
  BY <1>2, EmptySeq
<1>4. want \in Nat
  BY PosType
<1> QED
  BY <1>3, <1>4 DEF CanTake, Min2

\* when a part of a chunk is copied, ...
LEMMA CopyChunkOK ==
  ASSUME IInv, CopyChunk
  PROVE  IInv'
<1> USE DEF IInv
<1> DEFINE n == CanTake
           part == SubSeq(Head(dataQ).bytes, 1, n)
<1>1. /\ dPc = "copy" /\ want > 0 /\ dataQ # <<>> /\ got' = got \o part /\ Drop(n) /\ want' = want - n
      /\ UNCHANGED <<front, filePos, finished, iPc, seekJobs, dPc, streamPos, lastRead, seekTo, fresh>>
  BY DEF CopyChunk
<1>2. n \in 1 .. Len(Head(dataQ).bytes) /\ n \in Nat /\ n <= want
  BY <1>1, CanTakeBound
<1>3. PICK b \in Begins : Reads(b)
  BY <1>1 DEF Reading
<1>4. FrontOK(b) /\ Contiguous(dataQ, Pos, FrontStart) /\ ReadFrom(dataQ, b) /\ FrontStart \in Int
  BY <1>3 DEF Reads, FrontOK
<1>5. /\ Pos \in Int /\ streamPos \in Nat /\ want \in Nat /\ StreamLength \in Nat
      /\ got \in Seq(Bytes) /\ Len(got) \in Nat
  BY PosType, LenProperties DEF ValuesOK
<1>6. Pos = streamPos + Len(got)
  BY <1>1 DEF Pos
<1> HIDE DEF n
<1>7. /\ Contiguous(dataQ', Pos + n, FrontStart) /\ ReadFrom(dataQ', b) /\ dataQ' \in Seq(Chunk)
      /\ free' \in 0 .. BufferSizeCount /\ free' + Len(dataQ') <= BufferSizeCount
      /\ part \in Seq(Bytes) /\ Len(part) = n /\ From(Pos, part)
  BY <1>1, <1>2, <1>4, <1>5, DropKeeps
<1> HIDE DEF part
<1>8. got' \in Seq(Bytes) /\ Len(got') = Len(got) + n /\ From(streamPos, got')
  <2>1. From(streamPos, got) /\ streamPos \in Int
    BY <1>5 DEF CodecOK
  <2> QED
    BY <1>1, <1>5, <1>6, <1>7, <2>1, FromConcat
<1>9. want' \in 0 .. StreamLength
  BY <1>1, <1>2, <1>5 DEF ValuesOK
<1>10. ValuesOK'
  BY <1>1, <1>7, <1>8, <1>9 DEF ValuesOK
<1>11. CodecOK'
  BY <1>1, <1>8 DEF CodecOK
<1>12. Pos' = Pos + n
  <2>1. Pos' = streamPos + Len(got')
    BY <1>1 DEF Pos
  <2> QED
    BY <1>2, <1>5, <1>6, <1>8, <2>1
<1>13. Reads(b)'
  <2>1. FrontStart' = FrontStart
    BY <1>1 DEF FrontStart
  <2>2. FrontOK(b)'
    BY <1>1, <1>4, <2>1 DEF FrontOK
  <2> QED
    BY <1>1, <1>3, <1>7, <1>12, <2>1, <2>2 DEF Reads
<1> QED
  BY <1>1, <1>10, <1>11, <1>13 DEF Reading, Seeking

\* and when it ends.
LEMMA ReadDoneOK ==
  ASSUME IInv, ReadDone
  PROVE  IInv'
<1> USE DEF IInv
<1>1. /\ dPc = "copy" /\ dPc' = "idle" /\ want' = 0 /\ streamPos' = streamPos + Len(got)
      /\ lastRead' = got /\ got' = <<>> /\ fresh' = TRUE
      /\ UNCHANGED <<dataQ, input, seekJobs, seekTo>>
      /\ UNCHANGED <<front, free, filePos, finished, iPc>>
  BY DEF ReadDone, input
<1>2. /\ streamPos \in Nat /\ StreamLength \in Nat /\ streamPos <= StreamLength
      /\ got \in Seq(Bytes) /\ Len(got) \in Nat /\ From(streamPos, got)
  BY PosType, LenProperties DEF ValuesOK, CodecOK, Positions
<1>3. streamPos + Len(got) <= StreamLength
  <2>1. CASE got = <<>>
    BY <1>2, <2>1, NoBytes
  <2>2. CASE got # <<>>
    BY <1>2, <2>2, FromBound
  <2> QED
    BY <2>1, <2>2
<1>4. streamPos' \in Positions /\ streamPos' \in Int /\ streamPos' - Len(lastRead') = streamPos
  BY <1>1, <1>2, <1>3 DEF Positions
<1>5. ValuesOK'
  BY <1>1, <1>2, <1>4, NoBytes DEF ValuesOK
<1>6. CodecOK'
  BY <1>1, <1>2, <1>4, NoBytes DEF CodecOK
<1>7. Pos' = Pos
  <2> DEFINE p == streamPos + Len(got)
  <2>1. p \in Nat
    BY <1>2
  <2>2. Pos = p /\ Pos' = p + Len(got')
    BY <1>1 DEF Pos
  <2>3. Len(got') = 0
    BY <1>1, NoBytes
  <2> HIDE DEF p
  <2> QED
    BY <2>1, <2>2, <2>3
<1>8. PICK b \in Begins : Reads(b)
  BY <1>1 DEF Reading
<1>9. b <= streamPos /\ b \in Nat
  BY <1>8, BeginsTypes DEF Reads
<1>10. Reads(b)'
  <2>1. b <= streamPos' /\ b <= streamPos' - Len(lastRead')
    BY <1>1, <1>2, <1>4, <1>9
  <2> QED
    BY <1>1, <1>7, <1>8, <2>1, StillReads
<1> QED
  BY <1>1, <1>5, <1>6, <1>10 DEF Reading, Seeking

-----------------------------------------------------------------------------
(* The decoder thread seeks.                                                *)

\* The front chunk has the byte to take next, and its byte_start_position is not behind.
LEMMA FrontChunk ==
  ASSUME NEW b, Contiguous(dataQ, Pos, FrontStart), ReadFrom(dataQ, b), dataQ # <<>>
  PROVE  /\ Head(dataQ) = dataQ[1] /\ Head(dataQ) \in Chunk /\ Head(dataQ).bytes[1] = Pos
         /\ From(Pos, Head(dataQ).bytes) /\ Head(dataQ).first <= Pos
         /\ Len(dataQ) \in Nat \ {0} /\ Head(dataQ).first \in Int
<1>1. /\ dataQ \in Seq(Chunk) /\ Pos = dataQ[1].bytes[1]
      /\ \A i \in 1 .. Len(dataQ) : From(dataQ[i].bytes[1], dataQ[i].bytes)
  BY DEF Contiguous
<1>2. Len(dataQ) \in Nat \ {0} /\ 1 \in 1 .. Len(dataQ) /\ Head(dataQ) = dataQ[1] /\ dataQ[1] \in Chunk
  BY <1>1, Ends
<1>3. dataQ[1].first <= dataQ[1].bytes[1]
  BY DEF ReadFrom
<1>4. dataQ[1].first \in Int
  BY <1>2 DEF Chunk
<1> QED
  BY <1>1, <1>2, <1>3, <1>4

\* The buffer holds a number of bytes.
LEMMA BytesCounted ==
  ASSUME ValuesOK, front.bytes \in Seq(Bytes)
  PROVE  totalBytes \in Nat
<1> DEFINE sizes == [i \in 1 .. Len(dataQ) |-> Len(dataQ[i].bytes)]
<1>1. dataQ \in Seq(Chunk) /\ front.bytes \in Seq(Bytes)
  BY DEF ValuesOK
<1>2. Len(dataQ) \in Nat /\ Len(front.bytes) \in Nat
  BY <1>1, LenProperties
<1>3. \A i \in 1 .. Len(dataQ) : Len(dataQ[i].bytes) \in Nat
  <2> TAKE i \in 1 .. Len(dataQ)
  <2>1. dataQ[i] \in Chunk
    BY <1>1
  <2> DEFINE bytes == dataQ[i].bytes
  <2>2. bytes \in Seq(Bytes)
    BY <2>1 DEF Chunk
  <2> HIDE DEF bytes
  <2>3. Len(bytes) \in Nat
    BY <2>2, LenProperties
  <2> QED
    BY <2>3 DEF bytes
<1>4. sizes \in Seq(Nat)
  BY <1>2, <1>3
<1>5. totalBytes = Total(sizes) + Len(front.bytes)
  BY DEF totalBytes
<1> HIDE DEF sizes
<1>6. Total(sizes) \in Nat
  BY <1>4, TotalNat
<1> QED
  BY <1>2, <1>5, <1>6

\* A seek keeps the invariant when it begins: it is covered by the last read, or by the
\* buffer, or it is left to the input thread, and no chunk starts with its byte.
LEMMA SeekCallOK ==
  ASSUME IInv, GentleCodec, SeekCall
  PROVE  IInv'
<1> USE DEF IInv
<1>1. PICK s \in Seeks :
        /\ s[1] = streamPos /\ seek_callback(s[2])
        /\ SeekFarBack \/ s[2] >= streamPos \/ Covered(s[2])
        /\ seekTo' = s[2]
        /\ IF Covered(s[2]) THEN dPc' = "rewind" /\ UNCHANGED <<seekJobs, want>>
             ELSE DiscardOrAsk(streamPos, s[2])
  BY DEF SeekCall
<1> DEFINE to == s[2]
<1>2. /\ dPc = "idle" /\ fresh /\ fresh' = FALSE
      /\ UNCHANGED <<dataQ, input, streamPos, lastRead, got>>
      /\ UNCHANGED <<front, free, filePos, finished, iPc>>
  BY DEF SeekCall, GentleCodec, input
<1>3. seekTo' = to /\ to \in Positions /\ to \in Nat /\ to <= StreamLength
  BY <1>1, StreamAssumption DEF seek_callback, Positions
<1>4. streamPos \in Nat /\ StreamLength \in Nat
  BY PosType
<1>5. Covered(to) \/ to >= streamPos
  BY <1>1 DEF GentleCodec
<1>6. got = <<>> /\ got' = <<>> /\ seekJobs = <<>> /\ Pos = streamPos
  <2>1. got = <<>> /\ seekJobs = <<>> /\ Pos = streamPos + Len(got)
    BY <1>2 DEF CodecOK, Reading, Pos
  <2>2. Len(got) = 0 /\ streamPos + 0 = streamPos
    BY <1>4, <2>1, NoBytes
  <2> QED
    BY <1>2, <2>1, <2>2
<1>7. PICK b \in Begins : Reads(b)
  BY <1>2 DEF Reading
<1>8. /\ FrontOK(b) /\ Contiguous(dataQ, Pos, FrontStart) /\ ReadFrom(dataQ, b)
      /\ b <= streamPos /\ b <= streamPos - Len(lastRead) /\ b \in Nat
  BY <1>2, <1>7, BeginsTypes DEF Reads
<1>9. From(streamPos, got') /\ From(streamPos - Len(lastRead), lastRead)
  BY <1>2 DEF CodecOK
<1> HIDE DEF to
<1>10. CASE Covered(to)
  <2>1. dPc' = "rewind" /\ UNCHANGED <<seekJobs, want>>
    BY <1>1, <1>10 DEF to
  <2>2. ValuesOK'
    BY <1>2, <1>3, <2>1 DEF ValuesOK
  <2>3. CodecOK'
    BY <1>2, <1>3, <1>6, <1>9, <1>10, <2>1 DEF CodecOK, Covered
  <2>4. Pos' = Pos
    BY <1>2, <2>1 DEF Pos
  <2>5. Reads(b)'
    <3>1. b <= streamPos' /\ b <= streamPos' - Len(lastRead')
      BY <1>2, <1>8
    <3> QED
      BY <1>2, <1>7, <2>4, <3>1, StillReads
  <2> QED
    BY <1>6, <2>1, <2>2, <2>3, <2>5 DEF Reading, Seeking
<1>11. CASE ~Covered(to)
  <2>1. DiscardOrAsk(streamPos, to) /\ streamPos <= to
    BY <1>1, <1>3, <1>4, <1>5, <1>11 DEF to
  <2>2. \/ dPc' = "discard" /\ want' = to - streamPos /\ seekJobs' = seekJobs
        \/ dPc' = "seekWait" /\ seekJobs' = Append(seekJobs, to) /\ want' = want /\ streamPos < to
    <3>1. to = streamPos => to - streamPos >= 0 /\ to - streamPos - totalBytes <= 0
      <4>1. totalBytes \in Nat
        BY <1>8, BytesCounted DEF FrontOK
      <4> QED
        BY <1>3, <1>4, <4>1
    <3>2. to # streamPos => streamPos < to
      BY <1>3, <1>4, <2>1
    <3> QED
      BY <2>1, <3>1, <3>2 DEF DiscardOrAsk
  <2>3. ValuesOK'
    <3>1. want' \in 0 .. StreamLength
      BY <1>3, <1>4, <2>1, <2>2 DEF ValuesOK
    <3> QED
      BY <1>2, <1>3, <2>2, <3>1 DEF ValuesOK
  <2>4. CodecOK'
    BY <1>2, <1>3, <1>4, <1>6, <1>9, <2>1, <2>2 DEF CodecOK
  <2>5. CASE dPc' = "discard"
    <3>1. want' = to - streamPos /\ seekJobs' = <<>>
      BY <1>6, <2>2, <2>5
    <3>2. Pos' = Pos
      <4>1. Pos' = to - want' /\ to - (to - streamPos) = streamPos
        BY <1>3, <1>4, <2>5 DEF Pos
      <4> QED
        BY <1>6, <3>1, <4>1
    <3>3. Reads(b)'
      BY <1>2, <1>7, <1>8, <2>5, <3>2, StillReads
    <3> QED
      BY <2>3, <2>4, <2>5, <3>1, <3>3 DEF Reading, Seeking
  <2>6. CASE dPc' = "seekWait"
    <3>0. streamPos < to
      BY <2>2, <2>6
    <3>1. seekJobs' = <<to>>
      <4>1. seekJobs' = Append(<<>>, to)
        BY <1>6, <2>2, <2>6
      <4> QED
        BY <4>1
    <3>2. to \in SoughtAhead
      BY <1>1, <3>0 DEF SoughtAhead, to
    <3>3. b < to
      BY <1>3, <1>4, <1>8, <3>0
    <3>4. ~StartsAt(b, to)
      BY <1>7, <3>2, <3>3, Unaligned
    <3>5. ASSUME NEW i \in 1 .. Len(dataQ) PROVE dataQ[i].first # to
      <4>0. Len(dataQ) \in Nat /\ dataQ # <<>>
        BY EmptySeq, LenProperties DEF ValuesOK
      <4>1. CASE i = 1
        <5>1. dataQ[1].first \in Int /\ dataQ[1].first <= streamPos
          BY <1>6, <1>8, <4>0, FrontChunk
        <5> QED
          BY <1>3, <1>4, <3>0, <4>1, <5>1
      <4>2. CASE i # 1
        <5>1. i \in 2 .. Len(dataQ)
          BY <4>0, <4>2
        <5>2. StartsAt(b, dataQ[i].first)
          BY <1>8, <5>1 DEF ReadFrom
        <5> QED
          BY <3>4, <5>2
      <4> QED
        BY <4>1, <4>2
    <3>6. FrontOK(b)'
      <4>1. FrontStart' = FrontStart
        BY <1>2 DEF FrontStart
      <4> QED
        BY <1>2, <1>8, <4>1 DEF FrontOK
    <3>7. Awaited'
      BY <1>2, <1>3, <3>1, <3>3, <3>5, <3>6 DEF Awaited
    <3> QED
      BY <1>3, <2>3, <2>4, <2>6, <3>2, <3>7 DEF Reading, Seeking
  <2> QED
    BY <2>2, <2>5, <2>6
<1> QED
  BY <1>10, <1>11

\* A seek back keeps it when the end of the last read is put back before the front chunk, ...
LEMMA RewindOK ==
  ASSUME IInv, Rewind
  PROVE  IInv'
<1> USE DEF IInv
<1> DEFINE m == Len(lastRead) - (streamPos - seekTo) + 1
           size == Len(lastRead)
           part == SubSeq(lastRead, m, size)
           old == Head(dataQ).bytes
           all == part \o old
           c == [first |-> seekTo, bytes |-> all]
<1>1. /\ dPc = "rewind" /\ dataQ # <<>> /\ streamPos' = seekTo /\ dPc' = "discard" /\ want' = 0
      /\ UNCHANGED <<input, seekJobs, lastRead, got, seekTo, fresh>>
      /\ UNCHANGED <<front, free, filePos, finished, iPc>>
  BY DEF Rewind, input
<1>2. dataQ' = [dataQ EXCEPT ![1] = [first |-> seekTo, bytes |-> part \o dataQ[1].bytes]]
  BY DEF Rewind
<1>3. /\ streamPos \in Nat /\ seekTo \in Nat /\ StreamLength \in Nat /\ lastRead \in Seq(Bytes) /\ size \in Nat
      /\ seekTo < streamPos /\ streamPos - seekTo < size
      /\ From(streamPos - size, lastRead) /\ got = <<>> /\ ~fresh /\ dataQ \in Seq(Chunk)
  BY <1>1, PosType, LenProperties DEF ValuesOK, CodecOK, Covered
<1>4. PICK b \in Begins : Reads(b)
  BY <1>1 DEF Reading
<1>5. /\ FrontOK(b) /\ Contiguous(dataQ, Pos, FrontStart) /\ ReadFrom(dataQ, b) /\ FrontStart \in Int
      /\ b <= streamPos - size /\ b \in Nat
  <2>1. FrontOK(b) /\ Contiguous(dataQ, Pos, FrontStart) /\ ReadFrom(dataQ, b) /\ b <= streamPos - size
    BY <1>1, <1>4 DEF Reads
  <2>2. FrontStart \in Nat
    BY <2>1 DEF FrontOK
  <2> QED
    BY <1>4, <2>1, <2>2, BeginsTypes
<1>6. Pos = streamPos /\ Pos \in Int
  <2>1. Pos = streamPos + Len(got) /\ Len(got) = 0
    BY <1>1, <1>3, NoBytes DEF Pos
  <2> QED
    BY <1>3, <2>1
<1>7. /\ Head(dataQ) = dataQ[1] /\ Head(dataQ) \in Chunk /\ From(streamPos, old)
      /\ old \in Seq(Bytes) /\ Len(old) \in Nat
  <2>1. Head(dataQ) = dataQ[1] /\ Head(dataQ) \in Chunk /\ From(Pos, old)
    BY <1>1, <1>5, FrontChunk
  <2>2. old \in Seq(Bytes)
    BY <2>1 DEF Chunk
  <2> QED
    BY <1>6, <2>1, <2>2, LenProperties
<1>8. part \in Seq(Bytes) /\ Len(part) = streamPos - seekTo /\ From(seekTo, part)
  <2>1. m \in Nat \ {0} /\ m <= size + 1 /\ size <= Len(lastRead) /\ streamPos - size \in Int
    BY <1>3
  <2>2. /\ part \in Seq(Bytes) /\ Len(part) = size - m + 1
        /\ From(streamPos - size + m - 1, part)
    <3> HIDE DEF m, size
    <3> QED
      BY <1>3, <2>1, FromSubSeq
  <2>3. size - m + 1 = streamPos - seekTo /\ streamPos - size + m - 1 = seekTo
    BY <1>3
  <2> QED
    BY <2>2, <2>3
<1> HIDE DEF part, old
<1>9. /\ all \in Seq(Bytes) /\ Len(all) = (streamPos - seekTo) + Len(old)
      /\ From(seekTo, all)
  <2>1. seekTo + Len(part) = streamPos /\ seekTo \in Int
    BY <1>3, <1>8
  <2> QED
    BY <1>7, <1>8, <2>1, FromConcat
<1> HIDE DEF all
<1>10. all # <<>> /\ all[1] = seekTo
  <2>1. Len(all) > 0
    BY <1>3, <1>7, <1>9
  <2>2. all # <<>>
    BY <2>1, EmptySeq
  <2>3. seekTo \in Int
    BY <1>3
  <2> QED
    BY <1>9, <2>2, <2>3, FromBound
<1>11. c \in Chunk /\ c.first = seekTo /\ c.bytes = all /\ c.bytes[1] = seekTo
  <2>1. c.first = seekTo /\ c.bytes = all
    OBVIOUS
  <2>2. c \in Chunk
    BY <1>3, <1>9, <1>10 DEF Chunk
  <2> HIDE DEF c
  <2> QED
    BY <1>10, <2>1, <2>2
<1>12. dataQ' = [dataQ EXCEPT ![1] = c]
  BY <1>2, <1>7 DEF old, all
<1> HIDE DEF c
<1>13. /\ Contiguous(dataQ', seekTo, FrontStart) /\ ReadFrom(dataQ', b)
       /\ Len(dataQ') = Len(dataQ)
  <2>1. From(c.bytes[1], c.bytes) /\ c.first <= c.bytes[1]
    BY <1>3, <1>9, <1>11
  <2>2. c.bytes[1] + Len(c.bytes) = Pos + Len(Head(dataQ).bytes)
    <3>1. Len(Head(dataQ).bytes) = Len(old) /\ Len(c.bytes) = (streamPos - seekTo) + Len(old)
      BY <1>9, <1>11 DEF old
    <3>2. seekTo + ((streamPos - seekTo) + Len(old)) = streamPos + Len(old)
      BY <1>3, <1>7
    <3> QED
      BY <1>6, <1>11, <3>1, <3>2
  <2>3. /\ Contiguous([dataQ EXCEPT ![1] = c], c.bytes[1], FrontStart) /\ ReadFrom([dataQ EXCEPT ![1] = c], b)
        /\ Len([dataQ EXCEPT ![1] = c]) = Len(dataQ)
    BY <1>1, <1>5, <1>6, <1>11, <2>1, <2>2, QueueFront
  <2> QED
    BY <1>11, <1>12, <2>3
<1>14. ValuesOK'
  <2>1. dataQ' \in Seq(Chunk)
    BY <1>13 DEF Contiguous
  <2> QED
    BY <1>1, <1>3, <1>13, <2>1 DEF ValuesOK
<1>15. CodecOK'
  <2>1. got' = <<>> /\ From(streamPos', got')
    BY <1>1, <1>3, NoBytes
  <2> QED
    BY <1>1, <1>3, <2>1 DEF CodecOK
<1>16. Reads(b)'
  <2>1. Pos' = seekTo
    BY <1>1, <1>3 DEF Pos
  <2>2. FrontStart' = FrontStart
    BY <1>1 DEF FrontStart
  <2>3. FrontOK(b)'
    BY <1>1, <1>5, <2>2 DEF FrontOK
  <2>4. b <= seekTo
    BY <1>3, <1>5
  <2> QED
    BY <1>1, <1>3, <1>13, <2>1, <2>2, <2>3, <2>4 DEF Reads
<1> QED
  BY <1>1, <1>4, <1>14, <1>15, <1>16 DEF Reading, Seeking

\* when there is no front chunk and the seek fails, and when nothing is left to discard, ...
LEMMA SeekReadyOK ==
  ASSUME IInv, RewindGiveUp \/ DiscardDone
  PROVE  IInv'
<1> USE DEF IInv
<1>1. /\ dPc \in {"rewind", "discard"} /\ dPc' = "idle"
      /\ UNCHANGED <<dataQ, input, seekJobs, lastRead, got, want, seekTo, fresh>>
      /\ UNCHANGED <<front, free, filePos, finished, iPc>>
      /\ \/ dPc = "rewind" /\ streamPos' = streamPos
         \/ dPc = "discard" /\ want = 0 /\ streamPos' = seekTo
  BY DEF RewindGiveUp, DiscardDone, input
<1>2. streamPos \in Nat /\ seekTo \in Nat
  BY PosType
<1>3. got = <<>> /\ ~fresh /\ (dPc = "discard" => streamPos <= seekTo)
  BY <1>1 DEF CodecOK
<1>4. ValuesOK' /\ streamPos' \in Int
  BY <1>1, <1>2 DEF ValuesOK
<1>5. CodecOK'
  BY <1>1, <1>3, <1>4, NoBytes DEF CodecOK
<1>6. Pos' = Pos
  <2>1. Len(got) = 0
    BY <1>3, NoBytes
  <2>2. CASE dPc = "rewind"
    BY <1>1, <2>2 DEF Pos
  <2>3. CASE dPc = "discard"
    <3>1. Pos = seekTo - 0 /\ Pos' = seekTo + Len(got)
      BY <1>1, <2>3 DEF Pos
    <3> QED
      BY <1>2, <2>1, <3>1
  <2> QED
    BY <1>1, <2>2, <2>3
<1>7. PICK b \in Begins : Reads(b)
  BY <1>1 DEF Reading
<1>8. b <= streamPos'
  <2>1. b <= streamPos /\ b \in Nat
    BY <1>7, BeginsTypes DEF Reads
  <2> QED
    BY <1>1, <1>2, <1>3, <2>1
<1>9. Reads(b)'
  BY <1>1, <1>3, <1>6, <1>7, <1>8, StillReads
<1> QED
  BY <1>1, <1>4, <1>5, <1>9 DEF Reading, Seeking

\* when bytes before the one sought are discarded, ...
LEMMA DiscardOK ==
  ASSUME IInv, Discard
  PROVE  IInv'
<1> USE DEF IInv
<1> DEFINE n == CanTake
<1>1. /\ dPc = "discard" /\ want > 0 /\ dataQ # <<>> /\ Drop(n) /\ want' = want - n
      /\ UNCHANGED <<front, filePos, finished, iPc, seekJobs, dPc, streamPos, lastRead, got, seekTo, fresh>>
  BY DEF Discard
<1>2. n \in 1 .. Len(Head(dataQ).bytes) /\ n \in Nat /\ n <= want
  BY <1>1, CanTakeBound
<1>3. PICK b \in Begins : Reads(b)
  BY <1>1 DEF Reading
<1>4. FrontOK(b) /\ Contiguous(dataQ, Pos, FrontStart) /\ ReadFrom(dataQ, b) /\ FrontStart \in Int
  <2>1. FrontOK(b) /\ Contiguous(dataQ, Pos, FrontStart) /\ ReadFrom(dataQ, b)
    BY <1>3 DEF Reads
  <2>2. FrontStart \in Nat
    BY <2>1 DEF FrontOK
  <2> QED
    BY <2>1, <2>2
<1>5. Pos \in Int /\ seekTo \in Nat /\ want \in Nat /\ StreamLength \in Nat
  BY PosType
<1> HIDE DEF n
<1>6. /\ Contiguous(dataQ', Pos + n, FrontStart) /\ ReadFrom(dataQ', b) /\ dataQ' \in Seq(Chunk)
      /\ free' \in 0 .. BufferSizeCount /\ free' + Len(dataQ') <= BufferSizeCount
  BY <1>1, <1>2, <1>4, <1>5, DropKeeps
<1>7. want' \in 0 .. StreamLength
  BY <1>1, <1>2, <1>5 DEF ValuesOK
<1>8. ValuesOK' /\ CodecOK'
  BY <1>1, <1>6, <1>7 DEF ValuesOK, CodecOK
<1>9. Pos' = Pos + n
  <2>1. Pos = seekTo - want /\ Pos' = seekTo - want'
    BY <1>1 DEF Pos
  <2> QED
    BY <1>1, <1>2, <1>5, <2>1
<1>10. Reads(b)'
  <2>1. FrontStart' = FrontStart
    BY <1>1 DEF FrontStart
  <2>2. FrontOK(b)'
    BY <1>1, <1>4, <2>1 DEF FrontOK
  <2> QED
    BY <1>1, <1>3, <1>6, <1>9, <2>1, <2>2 DEF Reads
<1> QED
  BY <1>1, <1>3, <1>8, <1>10 DEF Reading, Seeking

\* The first of some chunks and others behind them
LEMMA ConcatFront ==
  ASSUME NEW old \in Seq(Chunk), NEW new \in Seq(Chunk), old # <<>>
  PROVE  Head(old \o new) = Head(old) /\ Tail(old \o new) = Tail(old) \o new
<1> DEFINE all == old \o new
           m == Len(old)
           n == Len(new)
           rest == Tail(old)
<1>1. /\ all \in Seq(Chunk) /\ Len(all) = m + n
      /\ \A i \in 1 .. m + n : all[i] = IF i <= m THEN old[i] ELSE new[i - m]
  BY ConcatProperties
<1>2. /\ m \in Nat \ {0} /\ Head(old) = old[1] /\ rest \in Seq(Chunk) /\ Len(rest) = m - 1
      /\ \A i \in 1 .. m - 1 : rest[i] = old[i + 1]
  BY Ends
<1>3. n \in Nat
  BY LenProperties
<1> HIDE DEF all, m, n, rest
<1>4. all # <<>>
  BY <1>1, <1>2, <1>3, EmptySeq
<1>5. /\ Head(all) = all[1] /\ Tail(all) \in Seq(Chunk) /\ Len(Tail(all)) = m + n - 1
      /\ \A i \in 1 .. m + n - 1 : Tail(all)[i] = all[i + 1]
  <2>1. all \in Seq(Chunk) /\ Len(all) = m + n
    BY <1>1
  <2>2. /\ Head(all) = all[1] /\ Tail(all) \in Seq(Chunk) /\ Len(Tail(all)) = Len(all) - 1
        /\ \A i \in 1 .. Len(Tail(all)) : Tail(all)[i] = all[i + 1]
    BY <1>4, <2>1, Ends
  <2> DEFINE tail == Tail(all)
  <2>3. Len(tail) = m + n - 1
    BY <1>2, <1>3, <2>1, <2>2
  <2>4. \A i \in 1 .. m + n - 1 : tail[i] = all[i + 1]
    BY <2>2, <2>3
  <2> QED
    BY <2>2, <2>3, <2>4
<1>6. /\ rest \o new \in Seq(Chunk) /\ Len(rest \o new) = m - 1 + n
      /\ \A i \in 1 .. m - 1 + n : (rest \o new)[i] = IF i <= m - 1 THEN rest[i] ELSE new[i - (m - 1)]
  <2>1. rest \in Seq(Chunk) /\ new \in Seq(Chunk) /\ Len(rest) = m - 1 /\ Len(new) = n
    BY <1>2 DEF n
  <2>2. /\ rest \o new \in Seq(Chunk) /\ Len(rest \o new) = Len(rest) + Len(new)
        /\ \A i \in 1 .. Len(rest) + Len(new) :
             (rest \o new)[i] = IF i <= Len(rest) THEN rest[i] ELSE new[i - Len(rest)]
    BY <2>1, ConcatProperties
  <2> QED
    BY <2>1, <2>2
<1>7. ASSUME NEW i \in 1 .. m + n - 1 PROVE Tail(all)[i] = (rest \o new)[i]
  <2>1. i \in Nat /\ i + 1 \in 1 .. m + n /\ i \in 1 .. m - 1 + n /\ i + 1 - m = i - (m - 1)
    BY <1>2, <1>3
  <2>2. CASE i <= m - 1
    <3>1. i \in 1 .. m - 1 /\ i + 1 <= m
      BY <1>2, <2>1, <2>2
    <3> QED
      BY <1>1, <1>2, <1>5, <1>6, <2>1, <2>2, <3>1
  <2>3. CASE ~(i <= m - 1)
    <3>1. ~(i + 1 <= m)
      BY <1>2, <2>1, <2>3
    <3>2. Tail(all)[i] = all[i + 1]
      BY <1>5
    <3>3. all[i + 1] = new[i + 1 - m]
      <4>1. PICK j \in 1 .. m + n : j = i + 1
        BY <2>1
      <4>2. all[j] = new[j - m]
        BY <1>1, <3>1, <4>1
      <4> QED
        BY <1>2, <2>1, <4>1, <4>2
    <3>4. (rest \o new)[i] = new[i - (m - 1)]
      BY <1>6, <2>1, <2>3
    <3> QED
      BY <2>1, <3>2, <3>3, <3>4
  <2> QED
    BY <2>2, <2>3
<1>8. Tail(all) = rest \o new
  <2>1. Len(Tail(all)) = Len(rest \o new) /\ Len(Tail(all)) = m + n - 1
    BY <1>2, <1>3, <1>5, <1>6
  <2> QED
    BY <1>5, <1>6, <1>7, <2>1, SeqEqual
<1>9. Head(all) = Head(old)
  <2>1. 1 \in 1 .. m + n /\ 1 <= m
    BY <1>2, <1>3
  <2> QED
    BY <1>1, <1>2, <1>5, <2>1
<1> QED
  BY <1>8, <1>9 DEF all, rest

\* when a chunk passed on before the seek is given back, ...
LEMMA SeekSkipOK ==
  ASSUME IInv, SeekSkip
  PROVE  IInv'
<1> USE DEF IInv
<1>1. /\ dPc = "seekWait" /\ dataQ # <<>> /\ Head(dataQ).first # seekTo
      /\ dataQ' = Tail(dataQ) /\ free' = free + 1
      /\ UNCHANGED <<front, filePos, finished, iPc, seekJobs, dPc, streamPos, lastRead, got, want, seekTo, fresh>>
  BY DEF SeekSkip, decoder
<1>2. /\ dataQ \in Seq(Chunk) /\ Len(dataQ) \in Nat \ {0} /\ Head(dataQ) = dataQ[1]
      /\ Tail(dataQ) \in Seq(Chunk) /\ Len(Tail(dataQ)) = Len(dataQ) - 1
      /\ \A i \in 1 .. Len(Tail(dataQ)) : Tail(dataQ)[i] = dataQ[i + 1]
  BY <1>1, Ends DEF ValuesOK
<1>3. ValuesOK'
  <2>1. free' \in 0 .. BufferSizeCount /\ free' + Len(dataQ') <= BufferSizeCount
    BY <1>1, <1>2, StreamAssumption DEF ValuesOK
  <2> QED
    BY <1>1, <1>2, <2>1 DEF ValuesOK
<1>4. CodecOK' /\ FrontStart' = FrontStart
  BY <1>1 DEF CodecOK, Covered, FrontStart
<1>5. \A b : FrontOK(b) => FrontOK(b)'
  BY <1>1, <1>4 DEF FrontOK
<1>6. CASE Awaited
  <2>1. \A i \in 1 .. Len(dataQ') : dataQ'[i].first # seekTo
    <3> SUFFICES ASSUME NEW i \in 1 .. Len(dataQ') PROVE dataQ'[i].first # seekTo
      OBVIOUS
    <3>1. i + 1 \in 1 .. Len(dataQ) /\ dataQ'[i] = dataQ[i + 1]
      BY <1>1, <1>2
    <3> QED
      BY <1>6, <3>1 DEF Awaited
  <2>2. Awaited'
    BY <1>1, <1>5, <1>6, <2>1 DEF Awaited
  <2> QED
    BY <1>1, <1>3, <1>4, <2>2 DEF Reading, Seeking
<1>7. CASE Answered
  <2>1. PICK old \in Seq(Chunk), new \in Seq(Chunk) :
          /\ dataQ = old \o new
          /\ \A i \in 1 .. Len(old) : old[i].first # seekTo
          /\ Contiguous(new, seekTo, FrontStart) /\ ReadFrom(new, seekTo)
          /\ new # <<>> => new[1].first = seekTo
    BY <1>7 DEF Answered
  <2>2. old # <<>>
    <3> SUFFICES ASSUME old = <<>> PROVE FALSE
      OBVIOUS
    <3>1. dataQ = new
      BY <2>1, ConcatEmptySeq
    <3> QED
      BY <1>1, <1>2, <2>1, <3>1
  <2>3. /\ Tail(old) \in Seq(Chunk) /\ Len(old) \in Nat \ {0} /\ Len(Tail(old)) = Len(old) - 1
        /\ \A i \in 1 .. Len(Tail(old)) : Tail(old)[i] = old[i + 1]
    BY <2>2, Ends
  <2>4. dataQ' = Tail(old) \o new
    BY <1>1, <2>1, <2>2, ConcatFront
  <2>5. \A i \in 1 .. Len(Tail(old)) : Tail(old)[i].first # seekTo
    <3> SUFFICES ASSUME NEW i \in 1 .. Len(Tail(old)) PROVE Tail(old)[i].first # seekTo
      OBVIOUS
    <3>1. i + 1 \in 1 .. Len(old) /\ Tail(old)[i] = old[i + 1]
      BY <2>3
    <3> QED
      BY <2>1, <3>1
  <2>6. Answered'
    <3>1. seekJobs' = <<>> /\ FrontOK(seekTo)' /\ seekTo' = seekTo
      <4>1. seekJobs = <<>> /\ FrontOK(seekTo)
        BY <1>7 DEF Answered
      <4>2. FrontOK(seekTo)'
        BY <1>1, <1>4, <4>1 DEF FrontOK
      <4> QED
        BY <1>1, <4>1, <4>2
    <3> DEFINE kept == Tail(old)
    <3>2. /\ kept \in Seq(Chunk) /\ dataQ' = kept \o new
          /\ \A i \in 1 .. Len(kept) : kept[i].first # seekTo
      BY <2>3, <2>4, <2>5
    <3> HIDE DEF kept
    <3> QED
      BY <1>4, <2>1, <3>1, <3>2 DEF Answered
  <2> QED
    BY <1>1, <1>3, <1>4, <2>6 DEF Reading, Seeking
<1> QED
  BY <1>1, <1>6, <1>7 DEF Seeking

\* A chunk whose byte_start_position is the byte sought has the bytes from there on.
LEMMA FoundChunk ==
  ASSUME IInv, dPc = "seekWait", dataQ # <<>>, Head(dataQ).first = seekTo
  PROVE  /\ seekJobs = <<>> /\ FrontOK(seekTo) /\ seekTo \in SoughtAhead
         /\ Contiguous(dataQ, seekTo, FrontStart) /\ ReadFrom(dataQ, seekTo)
         /\ Head(dataQ).bytes[1] = seekTo
<1> USE DEF IInv
<1>1. dataQ \in Seq(Chunk) /\ Len(dataQ) \in Nat \ {0} /\ 1 \in 1 .. Len(dataQ) /\ Head(dataQ) = dataQ[1]
  BY Ends DEF ValuesOK
<1>2. Answered /\ seekTo \in SoughtAhead
  BY <1>1 DEF Seeking, Awaited
<1>3. PICK old \in Seq(Chunk), new \in Seq(Chunk) :
        /\ dataQ = old \o new
        /\ \A i \in 1 .. Len(old) : old[i].first # seekTo
        /\ Contiguous(new, seekTo, FrontStart) /\ ReadFrom(new, seekTo)
  BY <1>2 DEF Answered
<1>4. old = <<>>
  <2> SUFFICES ASSUME old # <<>> PROVE FALSE
    OBVIOUS
  <2>1. Head(dataQ) = Head(old) /\ Head(old) = old[1] /\ 1 \in 1 .. Len(old)
    BY <1>3, Ends, ConcatFront
  <2> QED
    BY <1>3, <2>1
<1>5. dataQ = new
  BY <1>3, <1>4, ConcatEmptySeq
<1>6. Head(dataQ).bytes[1] = seekTo
  BY <1>1, <1>3, <1>5 DEF Contiguous
<1> QED
  BY <1>2, <1>3, <1>5, <1>6 DEF Answered

\* and when the chunk that starts with the byte sought is met.
LEMMA SeekFoundOK ==
  ASSUME IInv, SeekFound
  PROVE  IInv'
<1> USE DEF IInv
<1>1. /\ dPc = "seekWait" /\ dataQ # <<>> /\ Head(dataQ).first = seekTo /\ dPc' = "idle" /\ streamPos' = seekTo
      /\ UNCHANGED <<dataQ, input, seekJobs, lastRead, got, want, seekTo, fresh>>
      /\ UNCHANGED <<front, free, filePos, finished, iPc>>
  BY DEF SeekFound, input
<1>2. got = <<>> /\ ~fresh /\ seekTo \in Nat
  BY <1>1, PosType DEF CodecOK
<1>3. /\ seekJobs = <<>> /\ FrontOK(seekTo) /\ seekTo \in Begins
      /\ Contiguous(dataQ, seekTo, FrontStart) /\ ReadFrom(dataQ, seekTo)
  BY <1>1, FoundChunk DEF Begins
<1>4. ValuesOK'
  BY <1>1 DEF ValuesOK
<1>5. CodecOK'
  <2>1. From(streamPos', got')
    BY <1>1, <1>2, NoBytes
  <2> QED
    BY <1>1, <1>2, <2>1 DEF CodecOK
<1>6. Pos' = seekTo
  <2>1. Pos' = seekTo + Len(got) /\ Len(got) = 0
    BY <1>1, <1>2, NoBytes DEF Pos
  <2> QED
    BY <1>2, <2>1
<1>7. \E b \in Begins : Reads(b)'
  <2>1. PICK b \in Begins : b = seekTo
    BY <1>3
  <2>2. FrontStart' = FrontStart
    BY <1>1 DEF FrontStart
  <2>3. FrontOK(b)'
    BY <1>1, <1>3, <2>1, <2>2 DEF FrontOK
  <2>4. Contiguous(dataQ', Pos', FrontStart') /\ ReadFrom(dataQ', b) /\ b <= streamPos'
    BY <1>1, <1>2, <1>3, <1>6, <2>1, <2>2
  <2>5. Reads(b)'
    BY <1>1, <1>2, <2>3, <2>4 DEF Reads
  <2> QED
    BY <2>5
<1> QED
  BY <1>1, <1>3, <1>4, <1>5, <1>7 DEF Reading, Seeking

-----------------------------------------------------------------------------
(* Types, with any codec.                                                   *)

\* What keeps the types, however the codec seeks: a chunk has room for what is read, a
\* read ends within the file, and a short way back has its bytes in the last read.
TypesKept ==
  /\ ValuesOK /\ seekJobs \in Seq(Positions)
  /\ front.first \in Int /\ front.bytes \in Seq(Bytes) /\ Len(front.bytes) < ElemSize
  /\ dPc # "copy" => got = <<>>
  /\ dPc \in {"readWait", "copy"} => streamPos + Len(got) + want <= StreamLength
  /\ dPc = "rewind" => Covered(seekTo)

\* erase_begin() leaves chunks with data.
LEMMA DropTypes ==
  ASSUME ValuesOK, dataQ # <<>>, NEW n \in 1 .. Len(Head(dataQ).bytes), Drop(n)
  PROVE  /\ dataQ' \in Seq(Chunk)
         /\ free' \in 0 .. BufferSizeCount /\ free' + Len(dataQ') <= BufferSizeCount
         /\ SubSeq(Head(dataQ).bytes, 1, n) \in Seq(Bytes) /\ Len(SubSeq(Head(dataQ).bytes, 1, n)) = n
<1> DEFINE c == Head(dataQ)
           size == Len(c.bytes)
           rest == SubSeq(c.bytes, n + 1, size)
           d == [first |-> c.first - n, bytes |-> rest]
<1>1. dataQ \in Seq(Chunk) /\ free \in 0 .. BufferSizeCount /\ free + Len(dataQ) <= BufferSizeCount
  BY DEF ValuesOK
<1>2. /\ Len(dataQ) \in Nat \ {0} /\ 1 \in 1 .. Len(dataQ) /\ c \in Chunk
      /\ Tail(dataQ) \in Seq(Chunk) /\ Len(Tail(dataQ)) = Len(dataQ) - 1
  BY <1>1, Ends
<1>3. c.first \in Int /\ c.bytes \in Seq(Bytes) /\ size \in Nat
  BY <1>2, LenProperties DEF Chunk
<1>4. BufferSizeCount \in Nat
  BY StreamAssumption
<1>5. n \in 1 .. size
  OBVIOUS
<1>6. IF n = size THEN dataQ' = Tail(dataQ) /\ free' = free + 1
        ELSE dataQ' = [dataQ EXCEPT ![1] = d] /\ free' = free
  BY DEF Drop
<1>7. SubSeq(c.bytes, 1, n) \in Seq(Bytes) /\ Len(SubSeq(c.bytes, 1, n)) = n
  <2> HIDE DEF c
  <2>1. \A i \in 1 .. n : c.bytes[i] \in Bytes
    BY <1>3, <1>5, ElementOfSeq
  <2> QED
    BY <1>3, <1>5, <2>1, SubSeqProperties
<1> HIDE DEF c, size, d
<1>8. CASE n = size
  <2>1. free' \in 0 .. BufferSizeCount /\ free' + Len(dataQ') <= BufferSizeCount
    BY <1>1, <1>2, <1>4, <1>6, <1>8
  <2> QED
    BY <1>2, <1>6, <1>7, <1>8, <2>1 DEF c
<1>9. CASE n # size
  <2>1. n + 1 \in 1 .. size /\ n + 1 \in Nat
    BY <1>3, <1>5, <1>9
  <2>2. \A i \in n + 1 .. size : c.bytes[i] \in Bytes
    BY <1>3, <1>5, <2>1, ElementOfSeq DEF size
  <2>3. rest \in Seq(Bytes) /\ Len(rest) = size - (n + 1) + 1
    <3>1. rest \in Seq(Bytes) /\ Len(rest) = IF n + 1 <= size THEN size - (n + 1) + 1 ELSE 0
      BY <1>3, <2>1, <2>2, SubSeqProperties
    <3> QED
      BY <2>1, <3>1
  <2> HIDE DEF rest
  <2>4. rest # <<>>
    <3>1. Len(rest) # 0
      BY <1>3, <1>5, <1>9, <2>3
    <3> QED
      BY <2>3, <3>1, EmptySeq
  <2>5. d \in Chunk
    BY <1>3, <1>5, <2>3, <2>4 DEF Chunk, d
  <2>6. dataQ' \in Seq(Chunk) /\ Len(dataQ') = Len(dataQ) /\ free' = free
    BY <1>1, <1>2, <1>6, <1>9, <2>5, ExceptSeq
  <2> QED
    BY <1>1, <1>7, <2>6 DEF c
<1> QED
  BY <1>8, <1>9

\* try_read() keeps the types.
LEMMA TryReadTypes ==
  ASSUME TypesKept, TryRead
  PROVE  TypesKept'
<1> USE DEF TypesKept
<1>1. /\ UNCHANGED <<seekJobs, dPc, streamPos, lastRead, got, want, seekTo, fresh>> /\ iPc' = "idle"
  BY DEF TryRead, decoder
<1>2. CASE free <= 0
  <2>1. UNCHANGED <<dataQ, front, free, filePos, finished>>
    BY <1>2 DEF TryRead, ValuesOK
  <2> QED
    BY <1>1, <2>1 DEF ValuesOK, Covered
<1>3. CASE free > 0
  <2> DEFINE n == ReadCount
             part == FileBytes(filePos, n)
             all == front.bytes \o part
             chunk == [first |-> ByteStart, bytes |-> all]
  <2>1. /\ n \in Nat /\ n <= ElemSize - Len(front.bytes) /\ filePos + n <= StreamLength
        /\ Len(front.bytes) \in Nat /\ filePos \in Nat /\ StreamLength \in Nat /\ ElemSize \in Nat \ {0}
    BY ReadCountBound
  <2>2. /\ filePos' = filePos + n /\ finished' = IsFileFinished
        /\ IF IsChunkReady(chunk) THEN PassOn(chunk) ELSE front' = chunk /\ UNCHANGED <<dataQ, free>>
    BY <1>3 DEF TryRead, ReadFile
  <2>3. part \in Seq(Bytes) /\ Len(part) = n
    BY <2>1, FileBytesFrom
  <2>4. all \in Seq(Bytes) /\ Len(all) = Len(front.bytes) + n
    <3> HIDE DEF part, n
    <3> QED
      BY <2>3, ConcatProperties
  <2>5. ByteStart \in Int
    BY <2>1 DEF ByteStart
  <2>6. chunk.first = ByteStart /\ chunk.bytes = all /\ (all # <<>> => chunk \in Chunk)
    BY <2>4, <2>5 DEF Chunk
  <2>7. /\ dataQ \in Seq(Chunk) /\ Len(dataQ) \in Nat /\ BufferSizeCount \in Nat
        /\ free \in 1 .. BufferSizeCount /\ free + Len(dataQ) <= BufferSizeCount
    <3>1. dataQ \in Seq(Chunk) /\ free \in 0 .. BufferSizeCount /\ free + Len(dataQ) <= BufferSizeCount
      BY DEF ValuesOK
    <3>2. Len(dataQ) \in Nat
      BY <3>1, LenProperties
    <3> QED
      BY <1>3, <3>1, <3>2, StreamAssumption
  <2>8. filePos' \in Positions /\ finished' \in BOOLEAN
    BY <2>1, <2>2 DEF Positions, IsFileFinished
  <2>9. /\ front'.first \in Int /\ front'.bytes \in Seq(Bytes) /\ Len(front'.bytes) < ElemSize
        /\ dataQ' \in Seq(Chunk) /\ free' \in 0 .. BufferSizeCount
        /\ free' + Len(dataQ') <= BufferSizeCount
    <3>1. CASE ~IsChunkReady(chunk)
      <4>1. front' = chunk /\ UNCHANGED <<dataQ, free>> /\ Len(all) # ElemSize
        BY <2>2, <2>6, <3>1 DEF IsChunkReady
      <4>2. Len(all) < ElemSize
        <5> DEFINE total == Len(all)
        <5>1. total = Len(front.bytes) + n /\ total # ElemSize
          BY <2>4, <4>1
        <5> HIDE DEF total, n
        <5>2. total < ElemSize
          BY <2>1, <5>1
        <5> QED
          BY <5>2 DEF total
      <4>3. front'.first = ByteStart /\ front'.bytes = all
        BY <2>6, <4>1
      <4> HIDE DEF all
      <4> QED
        BY <2>4, <2>5, <2>7, <4>1, <4>2, <4>3
    <3>2. CASE IsChunkReady(chunk)
      <4>1. /\ dataQ' = IF all = <<>> THEN dataQ ELSE Append(dataQ, chunk)
            /\ front' = Empty /\ free' = free - 1
        BY <2>2, <2>6, <3>2 DEF PassOn
      <4>2. front'.first = 0 /\ front'.bytes \in Seq(Bytes) /\ Len(front'.bytes) = 0
        BY <4>1, NoBytes DEF Empty
      <4>3. dataQ' \in Seq(Chunk) /\ Len(dataQ') <= Len(dataQ) + 1 /\ Len(dataQ') \in Nat
        <5> HIDE DEF all, chunk
        <5>1. CASE all = <<>>
          BY <2>7, <4>1, <5>1
        <5>2. CASE all # <<>>
          BY <2>6, <2>7, <4>1, <5>2, AppendProperties
        <5> QED
          BY <5>1, <5>2
      <4> QED
        BY <2>1, <2>7, <4>1, <4>2, <4>3
    <3> QED
      BY <3>1, <3>2
  <2> QED
    BY <1>1, <2>8, <2>9 DEF ValuesOK, Covered
<1> QED
  BY <1>2, <1>3 DEF ValuesOK

\* A call of decoder_read_buffer() keeps them, ...
LEMMA ReadTypes ==
  ASSUME TypesKept, ReadCall \/ ReadReady \/ ReadGiveUp \/ CopyChunk \/ ReadDone
  PROVE  TypesKept'
<1> USE DEF TypesKept
<1>1. /\ streamPos \in Nat /\ StreamLength \in Nat /\ streamPos <= StreamLength /\ want \in Nat
      /\ got \in Seq(Bytes) /\ Len(got) \in Nat
  BY PosType, LenProperties DEF ValuesOK, Positions
<1>2. CASE ReadCall
  <2>1. /\ dPc = "idle" /\ dPc' \in {"readWait", "copy"} /\ lastRead' = <<>>
        /\ UNCHANGED <<dataQ, seekJobs, streamPos, got, seekTo, fresh>>
        /\ UNCHANGED <<front, free, filePos, finished, iPc>>
    BY <1>2 DEF ReadCall, input
  <2>2. PICK size \in 1 .. MaxRead : want' = Min2(size, StreamLength - streamPos)
    BY <1>2 DEF ReadCall
  <2>3. want' \in 0 .. StreamLength /\ want' \in Nat /\ streamPos + want' <= StreamLength
    BY <1>1, <2>2, StreamAssumption DEF Min2
  <2>4. Len(got') = 0
    BY <2>1, NoBytes
  <2>5. streamPos' + Len(got') + want' <= StreamLength
    <3> DEFINE k == Len(got')
    <3>1. streamPos' = streamPos /\ streamPos \in Nat /\ k = 0 /\ want' \in Nat /\ streamPos + want' <= StreamLength
      <4>1. streamPos' = streamPos /\ streamPos \in Nat
        BY <1>1, <2>1
      <4> QED
        BY <2>3, <2>4, <4>1
    <3> HIDE DEF k
    <3>2. streamPos' + k + want' <= StreamLength
      BY <3>1
    <3> QED
      BY <3>2 DEF k
  <2> QED
    BY <2>1, <2>3, <2>4, <2>5, NoBytes DEF ValuesOK
<1>3. CASE ReadReady \/ ReadGiveUp
  <2>1. /\ dPc = "readWait" /\ dPc' \in {"copy", "idle"} /\ want' \in {want, 0}
        /\ UNCHANGED <<dataQ, seekJobs, streamPos, lastRead, got, seekTo, fresh>>
        /\ UNCHANGED <<front, free, filePos, finished, iPc>>
    BY <1>3 DEF ReadReady, ReadGiveUp, input
  <2>2. want' \in 0 .. StreamLength /\ streamPos' + Len(got') + want' <= StreamLength
    <3> DEFINE k == Len(got)
    <3>1. streamPos \in Nat /\ k \in Nat /\ want \in Nat /\ StreamLength \in Nat
      BY <1>1
    <3>2. streamPos + k + want <= StreamLength
      BY <2>1
    <3> HIDE DEF k, TypesKept
    <3>3. \A w \in {want, 0} : w \in 0 .. StreamLength /\ streamPos + k + w <= StreamLength
      BY <3>1, <3>2
    <3>4. want' \in {want, 0} /\ streamPos' = streamPos /\ got' = got
      BY <2>1
    <3> QED
      BY <3>3, <3>4 DEF k
  <2> QED
    BY <2>1, <2>2 DEF ValuesOK
<1>4. CASE CopyChunk
  <2> DEFINE n == CanTake
             part == SubSeq(Head(dataQ).bytes, 1, n)
  <2>1. /\ dPc = "copy" /\ want > 0 /\ dataQ # <<>> /\ got' = got \o part /\ Drop(n) /\ want' = want - n
        /\ UNCHANGED <<front, filePos, finished, iPc, seekJobs, dPc, streamPos, lastRead, seekTo, fresh>>
    BY <1>4 DEF CopyChunk
  <2>2. n \in 1 .. Len(Head(dataQ).bytes) /\ n \in Nat /\ n <= want
    BY <2>1, CanTakeBound
  <2> HIDE DEF n
  <2>3. /\ dataQ' \in Seq(Chunk) /\ free' \in 0 .. BufferSizeCount /\ free' + Len(dataQ') <= BufferSizeCount
        /\ part \in Seq(Bytes) /\ Len(part) = n
    BY <2>1, <2>2, DropTypes
  <2> HIDE DEF part
  <2>4. got' \in Seq(Bytes) /\ Len(got') = Len(got) + n
    BY <1>1, <2>1, <2>3, ConcatProperties
  <2>5. want' \in 0 .. StreamLength /\ streamPos' + Len(got') + want' <= StreamLength
    <3>1. streamPos + Len(got) + want <= StreamLength
      BY <2>1
    <3> QED
      BY <1>1, <2>1, <2>2, <2>4, <3>1
  <2> QED
    BY <2>1, <2>3, <2>4, <2>5 DEF ValuesOK
<1>5. CASE ReadDone
  <2>1. /\ dPc = "copy" /\ dPc' = "idle" /\ want' = 0 /\ streamPos' = streamPos + Len(got)
        /\ lastRead' = got /\ got' = <<>> /\ fresh' = TRUE
        /\ UNCHANGED <<dataQ, seekJobs, seekTo>> /\ UNCHANGED <<front, free, filePos, finished, iPc>>
    BY <1>5 DEF ReadDone, input
  <2>2. streamPos' \in Positions
    BY <1>1, <2>1 DEF Positions
  <2> QED
    BY <1>1, <2>1, <2>2, NoBytes DEF ValuesOK
<1> QED
  BY <1>2, <1>3, <1>4, <1>5

\* and so does one of update_dec_detail_seek(), with its job.
LEMMA SeekTypes ==
  ASSUME TypesKept, \/ SeekCall \/ Rewind \/ RewindGiveUp \/ Discard \/ DiscardDone
                    \/ SeekSkip \/ SeekFound \/ SeekCallback
  PROVE  TypesKept'
<1> USE DEF TypesKept
<1>1. /\ streamPos \in Nat /\ StreamLength \in Nat /\ streamPos <= StreamLength /\ want \in Nat
      /\ lastRead \in Seq(Bytes) /\ Len(lastRead) \in Nat /\ dataQ \in Seq(Chunk) /\ seekTo \in Nat
  BY PosType, LenProperties DEF ValuesOK, Positions
<1>2. CASE SeekCall
  <2>1. PICK s \in Seeks :
          /\ seek_callback(s[2]) /\ seekTo' = s[2]
          /\ IF Covered(s[2]) THEN dPc' = "rewind" /\ UNCHANGED <<seekJobs, want>>
               ELSE DiscardOrAsk(streamPos, s[2])
    BY <1>2 DEF SeekCall
  <2>2. /\ dPc = "idle" /\ fresh' = FALSE /\ UNCHANGED <<dataQ, streamPos, lastRead, got>>
        /\ UNCHANGED <<front, free, filePos, finished, iPc>>
    BY <1>2 DEF SeekCall, input
  <2>3. seekTo' \in Positions /\ seekTo' \in 0 .. StreamLength
    BY <2>1 DEF seek_callback, Positions
  <2>4. \/ dPc' = "rewind" /\ seekJobs' = seekJobs /\ want' = want /\ Covered(seekTo')
        \/ dPc' = "discard" /\ want' = seekTo' - streamPos /\ want' >= 0 /\ seekJobs' = seekJobs
        \/ dPc' = "seekWait" /\ want' = want /\ seekJobs' = Append(seekJobs, seekTo')
    BY <2>1 DEF DiscardOrAsk
  <2>5. want' \in 0 .. StreamLength /\ seekJobs' \in Seq(Positions)
    <3>1. seekJobs \in Seq(Positions) /\ want \in 0 .. StreamLength
      BY DEF ValuesOK
    <3>2. Append(seekJobs, seekTo') \in Seq(Positions)
      BY <2>3, <3>1, AppendProperties
    <3>3. want' \in 0 .. StreamLength
      BY <1>1, <2>3, <2>4, <3>1
    <3> QED
      BY <2>4, <3>1, <3>2, <3>3
  <2>6. dPc' \in {"rewind", "discard", "seekWait"} /\ (dPc' = "rewind" => Covered(seekTo)')
    BY <2>2, <2>4 DEF Covered
  <2> QED
    BY <2>2, <2>3, <2>5, <2>6 DEF ValuesOK
<1>3. CASE Rewind
  <2> DEFINE m == Len(lastRead) - (streamPos - seekTo) + 1
             part == SubSeq(lastRead, m, Len(lastRead))
             all == part \o dataQ[1].bytes
             c == [first |-> seekTo, bytes |-> all]
  <2>1. /\ dPc = "rewind" /\ dataQ # <<>> /\ streamPos' = seekTo /\ dPc' = "discard" /\ want' = 0
        /\ dataQ' = [dataQ EXCEPT ![1] = c]
        /\ UNCHANGED <<seekJobs, lastRead, got, seekTo, fresh>>
        /\ UNCHANGED <<front, free, filePos, finished, iPc>>
    BY <1>3 DEF Rewind, input
  <2>2. m \in 1 .. Len(lastRead)
    BY <1>1, <2>1 DEF Covered
  <2>3. part \in Seq(Bytes)
    <3> HIDE DEF m
    <3>1. \A i \in m .. Len(lastRead) : lastRead[i] \in Bytes
      BY <1>1, <2>2, ElementOfSeq
    <3> QED
      BY <1>1, <2>2, <3>1, SubSeqProperties
  <2>4. /\ Len(dataQ) \in Nat \ {0} /\ 1 \in 1 .. Len(dataQ) /\ dataQ[1].bytes \in Seq(Bytes)
        /\ dataQ[1].bytes # <<>>
    BY <1>1, <2>1, Ends DEF Chunk
  <2> HIDE DEF part
  <2>5. all \in Seq(Bytes) /\ all # <<>>
    BY <2>3, <2>4, ConcatProperties, ConcatEqualIffEmpty, EmptySeq
  <2> HIDE DEF all
  <2>6. c \in Chunk
    BY <1>1, <2>5 DEF Chunk
  <2> HIDE DEF c
  <2>7. dataQ' \in Seq(Chunk) /\ Len(dataQ') = Len(dataQ)
    BY <1>1, <2>1, <2>4, <2>6, ExceptSeq
  <2>8. want' \in 0 .. StreamLength
    BY <1>1, <2>1
  <2> QED
    BY <2>1, <2>7, <2>8 DEF ValuesOK
<1>4. CASE RewindGiveUp \/ DiscardDone \/ SeekFound
  <2>1. /\ dPc # "copy" /\ dPc' = "idle" /\ streamPos' \in {streamPos, seekTo}
        /\ UNCHANGED <<dataQ, seekJobs, lastRead, got, want, seekTo, fresh>>
        /\ UNCHANGED <<front, free, filePos, finished, iPc>>
    BY <1>4 DEF RewindGiveUp, DiscardDone, SeekFound, input
  <2> QED
    BY <2>1 DEF ValuesOK
<1>5. CASE Discard
  <2> DEFINE n == CanTake
  <2>1. /\ dPc = "discard" /\ want > 0 /\ dataQ # <<>> /\ Drop(n) /\ want' = want - n
        /\ UNCHANGED <<front, filePos, finished, iPc, seekJobs, dPc, streamPos, lastRead, got, seekTo, fresh>>
    BY <1>5 DEF Discard
  <2>2. n \in 1 .. Len(Head(dataQ).bytes) /\ n \in Nat /\ n <= want
    BY <2>1, CanTakeBound
  <2> HIDE DEF n
  <2>3. dataQ' \in Seq(Chunk) /\ free' \in 0 .. BufferSizeCount /\ free' + Len(dataQ') <= BufferSizeCount
    BY <2>1, <2>2, DropTypes
  <2>4. want' \in 0 .. StreamLength
    BY <1>1, <2>1, <2>2 DEF ValuesOK
  <2> QED
    BY <2>1, <2>3, <2>4 DEF ValuesOK
<1>6. CASE SeekSkip
  <2>1. /\ dataQ # <<>> /\ dataQ' = Tail(dataQ) /\ free' = free + 1
        /\ UNCHANGED <<front, filePos, finished, iPc, seekJobs, dPc, streamPos, lastRead, got, want, seekTo, fresh>>
    BY <1>6 DEF SeekSkip, decoder
  <2>2. Len(dataQ) \in Nat \ {0} /\ Tail(dataQ) \in Seq(Chunk) /\ Len(Tail(dataQ)) = Len(dataQ) - 1
    BY <1>1, <2>1, Ends
  <2>3. free' \in 0 .. BufferSizeCount /\ free' + Len(dataQ') <= BufferSizeCount
    BY <2>1, <2>2, StreamAssumption DEF ValuesOK
  <2> QED
    BY <2>1, <2>2, <2>3 DEF ValuesOK, Covered
<1>7. CASE SeekCallback
  <2>1. /\ seekJobs # <<>> /\ seekJobs' = Tail(seekJobs) /\ front' = Empty /\ filePos' = Head(seekJobs)
        /\ finished' = FALSE /\ iPc' \in {"idle", "cont"}
        /\ UNCHANGED <<dataQ, free, dPc, streamPos, lastRead, got, want, seekTo, fresh>>
    BY <1>7 DEF SeekCallback, decoder
  <2>2. seekJobs' \in Seq(Positions) /\ filePos' \in Positions
    BY <2>1, HeadTailProperties
  <2>3. front'.first = 0 /\ front'.bytes \in Seq(Bytes) /\ Len(front'.bytes) = 0
    BY <2>1, NoBytes DEF Empty
  <2>4. Len(front'.bytes) < ElemSize
    BY <2>3, StreamAssumption
  <2>5. ValuesOK'
    BY <2>1, <2>2 DEF ValuesOK
  <2> QED
    BY <2>1, <2>2, <2>3, <2>4, <2>5 DEF Covered
<1> QED
  BY <1>2, <1>3, <1>4, <1>5, <1>6, <1>7

-----------------------------------------------------------------------------
(* The theorems.                                                            *)

\* Reading begins at the beginning of the file.
LEMMA InitOK ==
  ASSUME Init
  PROVE  IInv
<1>1. /\ dataQ = <<>> /\ front = Empty /\ free = BufferSizeCount
      /\ filePos = 0 /\ finished = FALSE /\ iPc = "idle" /\ seekJobs = <<>>
      /\ dPc = "idle" /\ streamPos = 0 /\ lastRead = <<>> /\ got = <<>>
      /\ want = 0 /\ seekTo = 0 /\ fresh = TRUE
  BY DEF Init
<1>2. BufferSizeCount \in Nat /\ StreamLength \in Nat /\ ElemSize \in Nat \ {0}
  BY StreamAssumption
<1>3. /\ <<>> \in Seq(Bytes) /\ <<>> \in Seq(Chunk) /\ From(0, <<>>)
      /\ front.bytes = <<>> /\ front.first = 0
  BY <1>1, NoBytes, EmptySeq DEF Empty
<1>4. /\ Len(dataQ) = 0 /\ Len(lastRead) = 0 /\ Len(got) = 0 /\ Len(front.bytes) = 0
      /\ streamPos = 0 /\ filePos = 0 /\ dPc = "idle" /\ free = BufferSizeCount
  BY <1>1, <1>3, NoBytes
<1>5. /\ streamPos - Len(lastRead) = 0 /\ FrontStart = 0 /\ Pos = 0
      /\ free + Len(dataQ) <= BufferSizeCount /\ free \in 0 .. BufferSizeCount
  BY <1>2, <1>4 DEF FrontStart, Pos
<1>6. ValuesOK
  BY <1>1, <1>2, <1>3, <1>5 DEF ValuesOK, Positions
<1>7. CodecOK
  BY <1>1, <1>3, <1>5 DEF CodecOK
<1>8. FrontOK(0)
  <2>1. FrontStart \in Nat /\ From(FrontStart, front.bytes) /\ StartsAt(0, FrontStart)
    BY <1>3, <1>5, StartAligned
  <2>2. Len(front.bytes) < ElemSize
    BY <1>2, <1>4
  <2>3. finished = FALSE
    BY <1>1
  <2> QED
    BY <1>3, <2>1, <2>2, <2>3 DEF FrontOK
<1>9. Reads(0)
  <2>1. Contiguous(dataQ, 0, 0) /\ ReadFrom(dataQ, 0)
    BY <1>1, <1>3 DEF Contiguous, ReadFrom
  <2>2. 0 <= streamPos - Len(lastRead) /\ 0 <= streamPos
    BY <1>4, <1>5
  <2> QED
    BY <1>5, <1>8, <2>1, <2>2 DEF Reads
<1> QED
  BY <1>1, <1>6, <1>7, <1>9 DEF IInv, Reading, Seeking, Begins

\* Every step keeps the invariant.
LEMMA NextOK ==
  ASSUME IInv, GentleCodec, [Next]_vars
  PROVE  IInv'
<1>1. CASE Input
  BY <1>1, TryReadOK, SeekCallbackOK DEF Input
<1>2. CASE DecoderCall
  BY <1>2, ReadCallOK, SeekCallOK DEF DecoderCall
<1>3. CASE DecoderStep
  BY <1>3, ReadWaitOK, CopyChunkOK, ReadDoneOK, RewindOK, SeekReadyOK, DiscardOK, SeekSkipOK,
     SeekFoundOK DEF DecoderStep
<1>4. CASE UNCHANGED vars
  <2> USE DEF IInv
  <2>1. /\ UNCHANGED <<dataQ, front, free, filePos, finished, iPc, seekJobs>>
        /\ UNCHANGED <<dPc, streamPos, lastRead, got, want, seekTo, fresh>> /\ UNCHANGED input
    BY <1>4 DEF vars, input, decoder
  <2>2. ValuesOK' /\ CodecOK' /\ Pos' = Pos /\ FrontStart' = FrontStart
    BY <2>1 DEF ValuesOK, CodecOK, Covered, Pos, FrontStart
  <2>3. Reading'
    <3>1. ASSUME NEW b \in Begins, Reads(b), dPc # "seekWait" PROVE Reads(b)'
      <4>1. b <= streamPos' /\ (fresh' \/ dPc' = "rewind" => b <= streamPos' - Len(lastRead'))
        BY <2>1, <3>1 DEF Reads
      <4> QED
        BY <2>1, <2>2, <3>1, <4>1, StillReads
    <3> QED
      BY <2>1, <3>1 DEF Reading
  <2>4. Seeking'
    BY <2>1, <2>2 DEF Seeking, Awaited, Answered, FrontOK
  <2> QED
    BY <2>2, <2>3, <2>4
<1> QED
  BY <1>1, <1>2, <1>3, <1>4 DEF Next

\* The invariant holds with a gentle codec.
THEOREM InvariantHolds ==
  ASSUME GentleCodec
  PROVE  Spec => []IInv
<1>1. Init => IInv
  BY InitOK
<1>2. IInv /\ [Next]_vars => IInv'
  BY NextOK
<1> QED
  BY <1>1, <1>2, PTL DEF Spec

\* Every variable keeps its type, and the pool its chunks, however the codec reads and
\* seeks.
THEOREM TypeCorrect == Spec => []TypeOK
<1>1. Init => TypesKept
  <2> SUFFICES ASSUME Init PROVE TypesKept
    OBVIOUS
  <2>1. ValuesOK /\ seekJobs = <<>> /\ front = Empty /\ dPc = "idle" /\ got = <<>>
    BY InitOK DEF IInv, Init
  <2>2. front.first = 0 /\ front.bytes \in Seq(Bytes) /\ Len(front.bytes) = 0
    BY <2>1, NoBytes DEF Empty
  <2>3. seekJobs \in Seq(Positions)
    BY <2>1, EmptySeq
  <2> QED
    BY <2>1, <2>2, <2>3, StreamAssumption DEF TypesKept
<1>2. TypesKept /\ [Next]_vars => TypesKept'
  <2> SUFFICES ASSUME TypesKept, [Next]_vars PROVE TypesKept'
    OBVIOUS
  <2>1. CASE Next
    BY <2>1, TryReadTypes, ReadTypes, SeekTypes DEF Next, Input, DecoderCall, DecoderStep
  <2>2. CASE UNCHANGED vars
    BY <2>2 DEF vars, input, decoder, TypesKept, ValuesOK, Covered
  <2> QED
    BY <2>1, <2>2
<1>3. TypesKept => TypeOK
  <2> SUFFICES ASSUME TypesKept PROVE TypeOK
    OBVIOUS
  <2> USE DEF TypesKept
  <2>1. Seq(Bytes) \subseteq Seq(Positions)
    <3>1. Bytes \subseteq Positions
      BY StreamAssumption DEF Bytes, Positions
    <3> QED
      BY <3>1, SeqMonotonic
  <2>2. ASSUME NEW i \in 1 .. Len(dataQ)
        PROVE  dataQ[i].first \in Int /\ dataQ[i].bytes \in Seq(Positions) \ {<<>>}
    <3>1. dataQ[i] \in Chunk
      BY ElementOfSeq DEF ValuesOK
    <3> QED
      BY <2>1, <3>1 DEF Chunk
  <2> QED
    BY <2>1, <2>2 DEF ValuesOK, TypeOK
<1> QED
  BY <1>1, <1>2, <1>3, PTL DEF Spec

\* The decoder library is handed the bytes of the file in order.
THEOREM ReadsInOrder ==
  ASSUME GentleCodec
  PROVE  Spec => []DeliveredInOrder
<1>1. ASSUME IInv PROVE DeliveredInOrder
  <2>1. got \in Seq(Bytes) /\ From(streamPos, got)
    BY <1>1 DEF IInv, ValuesOK, CodecOK
  <2>2. Len(got) \in Nat /\ DOMAIN got = 1 .. Len(got) /\ got \in [1 .. Len(got) -> Bytes]
    BY <2>1, LenProperties
  <2> QED
    BY <2>1, <2>2 DEF DeliveredInOrder, FileBytes, From
<1>2. Spec => []IInv
  BY InvariantHolds
<1> QED
  BY <1>1, <1>2, PTL

\* A seek that is left to the input thread ends at the byte it seeks.
THEOREM SeekEndsAtByte ==
  ASSUME GentleCodec
  PROVE  Spec => []FirstIsByteStart
<1>1. IInv => FirstIsByteStart
  BY FoundChunk DEF FirstIsByteStart
<1>2. Spec => []IInv
  BY InvariantHolds
<1> QED
  BY <1>1, <1>2, PTL

\* A seek that the buffer answers ends at the byte it seeks.
THEOREM SeekWithinBuffer ==
  ASSUME GentleCodec
  PROVE  Spec => []BufferHasSeekData
<1>1. ASSUME IInv, dPc = "discard", want = 0, dataQ # <<>> PROVE Head(dataQ).bytes[1] = seekTo
  <2>1. PICK b \in Begins : Reads(b)
    BY <1>1 DEF IInv, Reading
  <2>2. Head(dataQ).bytes[1] = Pos
    BY <1>1, <2>1, FrontChunk DEF Reads
  <2>3. Pos = seekTo - 0 /\ seekTo \in Nat
    BY <1>1, PosType DEF IInv, Pos
  <2> QED
    BY <2>2, <2>3
<1>2. IInv => BufferHasSeekData
  BY <1>1 DEF BufferHasSeekData
<1>3. Spec => []IInv
  BY InvariantHolds
<1> QED
  BY <1>2, <1>3, PTL
=============================================================================
