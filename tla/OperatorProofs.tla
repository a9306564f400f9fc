--------------------------- MODULE OperatorProofs ---------------------------
(***************************************************************************)
(* Facts about the operators the models are built from, which the proofs    *)
(* about the components need: about sequences, which queues and lists are,  *)
(* about what their elements add up to, and about the pool of timers.       *)
(***************************************************************************)
EXTENDS AsyncTasker, Sums, SequencesExt, SequenceTheorems, WellFoundedInduction, TLAPS

-----------------------------------------------------------------------------
(* What is in a sequence.                                                   *)

\* An element is in a sequence when it has a place in it.
LEMMA InRange ==
  ASSUME NEW S, NEW s \in Seq(S)
  PROVE  /\ DOMAIN s = 1 .. Len(s) /\ Len(s) \in Nat
         /\ \A i \in 1 .. Len(s) : s[i] \in Range(s) /\ s[i] \in S
         /\ \A e : e \in Range(s) <=> \E i \in 1 .. Len(s) : s[i] = e
         /\ Range(s) \subseteq S
         /\ s = <<>> <=> Range(s) = {}
         /\ s = <<>> <=> Len(s) = 0
<1>1. DOMAIN s = 1 .. Len(s) /\ Len(s) \in Nat /\ s \in [1 .. Len(s) -> S]
  BY LenProperties
<1>2. s = <<>> <=> Len(s) = 0
  BY <1>1, EmptySeq
<1>3. \A e : e \in Range(s) <=> \E i \in 1 .. Len(s) : s[i] = e
  BY <1>1 DEF Range
<1>4. \A i \in 1 .. Len(s) : s[i] \in Range(s) /\ s[i] \in S
  BY <1>1, <1>3
<1>5. Range(s) \subseteq S
  BY <1>3, <1>4
<1>6. s = <<>> <=> Range(s) = {}
  <2>1. Len(s) = 0 => Range(s) = {}
    BY <1>1, <1>3
  <2>2. Len(s) # 0 => 1 \in 1 .. Len(s)
    BY <1>1
  <2> QED
    BY <1>2, <1>4, <2>1, <2>2
<1> QED
  BY <1>1, <1>2, <1>3, <1>4, <1>5, <1>6

\* The empty sequence has no element.
LEMMA NothingIn ==
  /\ \A S : <<>> \in Seq(S)
  /\ Range(<<>>) = {} /\ IsInjective(<<>>) /\ Len(<<>>) = 0
BY EmptySeq DEF Range, IsInjective

\* A sequence of one element.
LEMMA SingleSeq ==
  ASSUME NEW S, NEW e \in S
  PROVE  /\ <<e>> \in Seq(S) /\ Len(<<e>>) = 1 /\ <<e>>[1] = e
         /\ Range(<<e>>) = {e} /\ IsInjective(<<e>>)
<1>1. <<e>> \in Seq(S) /\ Len(<<e>>) = 1 /\ <<e>>[1] = e
  OBVIOUS
<1>2. DOMAIN <<e>> = {1}
  OBVIOUS
<1> QED
  BY <1>1, <1>2 DEF Range, IsInjective

\* Two sequences one after the other.
LEMMA ConcatRange ==
  ASSUME NEW S, NEW s \in Seq(S), NEW t \in Seq(S)
  PROVE  /\ s \o t \in Seq(S) /\ Len(s \o t) = Len(s) + Len(t)
         /\ \A i \in 1 .. Len(s) + Len(t) : (s \o t)[i] = IF i <= Len(s) THEN s[i] ELSE t[i - Len(s)]
         /\ Range(s \o t) = Range(s) \cup Range(t)
         /\ IsInjective(s \o t) <=> IsInjective(s) /\ IsInjective(t) /\ Range(s) \cap Range(t) = {}
<1>1. /\ s \o t \in Seq(S) /\ Len(s \o t) = Len(s) + Len(t)
      /\ \A i \in 1 .. Len(s) + Len(t) : (s \o t)[i] = IF i <= Len(s) THEN s[i] ELSE t[i - Len(s)]
  BY ConcatProperties
<1>2. /\ DOMAIN s = 1 .. Len(s) /\ DOMAIN t = 1 .. Len(t) /\ DOMAIN (s \o t) = 1 .. Len(s) + Len(t)
      /\ Len(s) \in Nat /\ Len(t) \in Nat
  BY <1>1, LenProperties
<1>3. /\ \A i \in 1 .. Len(s) : (s \o t)[i] = s[i]
      /\ \A i \in 1 .. Len(t) : Len(s) + i \in 1 .. Len(s) + Len(t) /\ (s \o t)[Len(s) + i] = t[i]
  BY <1>1, <1>2
<1>4. Range(s \o t) = Range(s) \cup Range(t)
  <2>1. Range(s \o t) \subseteq Range(s) \cup Range(t)
    <3> SUFFICES ASSUME NEW i \in 1 .. Len(s) + Len(t)
                 PROVE  (s \o t)[i] \in Range(s) \cup Range(t)
      BY <1>2 DEF Range
    <3>1. CASE i <= Len(s)
      BY <1>1, <1>2, <3>1 DEF Range
    <3>2. CASE i > Len(s)
      <4>1. i - Len(s) \in 1 .. Len(t) /\ (s \o t)[i] = t[i - Len(s)]
        BY <1>1, <1>2, <3>2
      <4> QED
        BY <4>1, <1>2 DEF Range
    <3> QED
      BY <1>2, <3>1, <3>2
  <2>2. Range(s) \subseteq Range(s \o t)
    BY <1>2, <1>3 DEF Range
  <2>3. Range(t) \subseteq Range(s \o t)
    BY <1>2, <1>3 DEF Range
  <2> QED
    BY <2>1, <2>2, <2>3
<1>5. ASSUME IsInjective(s \o t)
      PROVE  IsInjective(s) /\ IsInjective(t) /\ Range(s) \cap Range(t) = {}
  <2>1. IsInjective(s)
    BY <1>2, <1>3, <1>5 DEF IsInjective
  <2>2. IsInjective(t)
    <3> SUFFICES ASSUME NEW i \in 1 .. Len(t), NEW j \in 1 .. Len(t), t[i] = t[j] PROVE i = j
      BY <1>2 DEF IsInjective
    <3>1. Len(s) + i = Len(s) + j
      BY <1>2, <1>3, <1>5 DEF IsInjective
    <3> QED
      BY <3>1, <1>2
  <2>3. ASSUME NEW i \in 1 .. Len(s), NEW j \in 1 .. Len(t), s[i] = t[j] PROVE FALSE
    <3>1. /\ i \in DOMAIN (s \o t) /\ Len(s) + j \in DOMAIN (s \o t)
          /\ (s \o t)[i] = (s \o t)[Len(s) + j]
      BY <1>2, <1>3, <2>3
    <3>2. i = Len(s) + j
      BY <1>5, <3>1 DEF IsInjective
    <3> QED
      BY <3>2, <1>2
  <2> QED
    BY <1>2, <2>1, <2>2, <2>3 DEF Range
<1>6. ASSUME IsInjective(s), IsInjective(t), Range(s) \cap Range(t) = {}
      PROVE  IsInjective(s \o t)
  <2> SUFFICES ASSUME NEW i \in 1 .. Len(s) + Len(t), NEW j \in 1 .. Len(s) + Len(t),
                      (s \o t)[i] = (s \o t)[j]
               PROVE  i = j
    BY <1>2 DEF IsInjective
  <2>1. CASE i <= Len(s) /\ j <= Len(s)
    BY <1>1, <1>2, <1>6, <2>1 DEF IsInjective
  <2>2. CASE i > Len(s) /\ j > Len(s)
    <3>1. /\ i - Len(s) \in 1 .. Len(t) /\ j - Len(s) \in 1 .. Len(t)
          /\ t[i - Len(s)] = t[j - Len(s)]
      BY <1>1, <1>2, <2>2
    <3> QED
      BY <3>1, <1>2, <1>6 DEF IsInjective
  <2>3. ASSUME NEW a \in 1 .. Len(s), NEW b \in 1 .. Len(s) + Len(t), b > Len(s), s[a] = (s \o t)[b]
        PROVE  FALSE
    <3>1. b - Len(s) \in 1 .. Len(t) /\ (s \o t)[b] = t[b - Len(s)]
      BY <1>1, <1>2, <2>3
    <3>2. s[a] \in Range(s) /\ t[b - Len(s)] \in Range(t)
      BY <3>1, <1>2 DEF Range
    <3> QED
      BY <3>1, <3>2, <2>3, <1>6
  <2> QED
    BY <1>1, <1>2, <2>1, <2>2, <2>3
<1> QED
  BY <1>1, <1>4, <1>5, <1>6

\* Appending an element.
LEMMA AppendRange ==
  ASSUME NEW S, NEW s \in Seq(S), NEW e \in S
  PROVE  /\ Append(s, e) \in Seq(S) /\ Len(Append(s, e)) = Len(s) + 1
         /\ Append(s, e) = s \o <<e>> /\ Append(s, e) # <<>>
         /\ \A i \in 1 .. Len(s) : Append(s, e)[i] = s[i]
         /\ Append(s, e)[Len(s) + 1] = e
         /\ Range(Append(s, e)) = Range(s) \cup {e}
         /\ IsInjective(Append(s, e)) <=> IsInjective(s) /\ e \notin Range(s)
<1>1. /\ Append(s, e) \in Seq(S) /\ Len(Append(s, e)) = Len(s) + 1
      /\ \A i \in 1 .. Len(s) : Append(s, e)[i] = s[i]
      /\ Append(s, e)[Len(s) + 1] = e
  BY AppendProperties
<1>2. Append(s, e) = s \o <<e>>
  BY AppendIsConcat
<1>3. /\ <<e>> \in Seq(S) /\ Range(<<e>>) = {e} /\ IsInjective(<<e>>)
  BY SingleSeq
<1>4. Append(s, e) # <<>>
  BY <1>1, LenProperties, EmptySeq
<1>5. /\ Range(s \o <<e>>) = Range(s) \cup {e}
      /\ IsInjective(s \o <<e>>) <=> IsInjective(s) /\ Range(s) \cap {e} = {}
  BY <1>3, ConcatRange
<1> QED
  BY <1>1, <1>2, <1>4, <1>5

\* Taking the first element off a sequence.
LEMMA TailRange ==
  ASSUME NEW S, NEW s \in Seq(S), s # <<>>
  PROVE  /\ Head(s) \in S /\ Head(s) = s[1] /\ Tail(s) \in Seq(S)
         /\ Len(Tail(s)) = Len(s) - 1 /\ Len(s) \in Nat \ {0}
         /\ \A i \in 1 .. Len(Tail(s)) : Tail(s)[i] = s[i + 1] /\ i + 1 \in 1 .. Len(s)
         /\ Head(s) \in Range(s) /\ Range(s) = {Head(s)} \cup Range(Tail(s))
         /\ IsInjective(s) <=> IsInjective(Tail(s)) /\ Head(s) \notin Range(Tail(s))
<1>1. /\ Head(s) \in S /\ Tail(s) \in Seq(S) /\ Len(Tail(s)) = Len(s) - 1 /\ Len(s) \in Nat \ {0}
      /\ \A i \in 1 .. Len(Tail(s)) : Tail(s)[i] = s[i + 1]
  BY HeadTailProperties, EmptySeq
<1>2. s = <<Head(s)>> \o Tail(s)
  <2>1. Len(<<Head(s)>>) = 1 /\ <<Head(s)>> \in Seq(S) /\ <<Head(s)>>[1] = Head(s)
    BY <1>1, SingleSeq
  <2>2. /\ <<Head(s)>> \o Tail(s) \in Seq(S) /\ Len(<<Head(s)>> \o Tail(s)) = Len(s)
        /\ \A i \in 1 .. Len(s) : (<<Head(s)>> \o Tail(s))[i] = IF i <= 1 THEN Head(s) ELSE Tail(s)[i - 1]
    BY <1>1, <2>1, ConcatRange
  <2>3. \A i \in 1 .. Len(s) : (<<Head(s)>> \o Tail(s))[i] = s[i]
    <3> SUFFICES ASSUME NEW i \in 1 .. Len(s) PROVE (<<Head(s)>> \o Tail(s))[i] = s[i]
      OBVIOUS
    <3>1. CASE i = 1
      BY <2>2, <3>1
    <3>2. CASE i # 1
      <4>1. i - 1 \in 1 .. Len(Tail(s))
        BY <1>1, <3>2
      <4> QED
        BY <1>1, <2>2, <3>2, <4>1
    <3> QED
      BY <3>1, <3>2
  <2> QED
    BY <2>2, <2>3, SeqEqual
<1>3. <<Head(s)>> \in Seq(S) /\ Range(<<Head(s)>>) = {Head(s)} /\ IsInjective(<<Head(s)>>)
  BY <1>1, SingleSeq
<1>4. /\ Range(<<Head(s)>> \o Tail(s)) = {Head(s)} \cup Range(Tail(s))
      /\ IsInjective(<<Head(s)>> \o Tail(s))
           <=> IsInjective(Tail(s)) /\ {Head(s)} \cap Range(Tail(s)) = {}
  BY <1>1, <1>3, ConcatRange, ZenonT(40)
<1>5. /\ Range(s) = {Head(s)} \cup Range(Tail(s))
      /\ IsInjective(s) <=> IsInjective(Tail(s)) /\ {Head(s)} \cap Range(Tail(s)) = {}
  BY <1>2, <1>4
<1>6. Head(s) = s[1] /\ \A i \in 1 .. Len(Tail(s)) : i + 1 \in 1 .. Len(s)
  BY <1>1
<1> QED
  BY <1>1, <1>5, <1>6

\* Putting an element before a sequence.
LEMMA ConsRange ==
  ASSUME NEW S, NEW s \in Seq(S), NEW e \in S
  PROVE  /\ <<e>> \o s \in Seq(S) /\ Len(<<e>> \o s) = Len(s) + 1 /\ <<e>> \o s # <<>>
         /\ Head(<<e>> \o s) = e
         /\ Range(<<e>> \o s) = {e} \cup Range(s)
         /\ IsInjective(<<e>> \o s) <=> IsInjective(s) /\ e \notin Range(s)
<1>1. <<e>> \in Seq(S) /\ Len(<<e>>) = 1 /\ <<e>>[1] = e /\ Range(<<e>>) = {e} /\ IsInjective(<<e>>)
  BY SingleSeq
<1>2. /\ <<e>> \o s \in Seq(S) /\ Len(<<e>> \o s) = Len(<<e>>) + Len(s)
      /\ \A i \in 1 .. Len(<<e>>) + Len(s) :
            (<<e>> \o s)[i] = IF i <= Len(<<e>>) THEN <<e>>[i] ELSE s[i - Len(<<e>>)]
      /\ Range(<<e>> \o s) = Range(<<e>>) \cup Range(s)
      /\ IsInjective(<<e>> \o s)
           <=> IsInjective(<<e>>) /\ IsInjective(s) /\ Range(<<e>>) \cap Range(s) = {}
  BY <1>1, ConcatRange
<1>3. Len(s) \in Nat
  BY LenProperties
<1>4. <<e>> \o s # <<>>
  BY <1>1, <1>2, <1>3, EmptySeq
<1>5. Head(<<e>> \o s) = (<<e>> \o s)[1]
  BY <1>2, <1>4, TailRange
<1>6. (<<e>> \o s)[1] = e
  BY <1>1, <1>2, <1>3
<1>7. /\ Range(<<e>> \o s) = {e} \cup Range(s)
      /\ IsInjective(<<e>> \o s) <=> IsInjective(s) /\ e \notin Range(s)
  BY <1>1, <1>2
<1> QED
  BY <1>1, <1>2, <1>3, <1>4, <1>5, <1>6, <1>7

\* What is before and behind a place of a sequence.
LEMMA SplitSeq ==
  ASSUME NEW S, NEW s \in Seq(S), NEW i \in 1 .. Len(s)
  PROVE  /\ SubSeq(s, 1, i - 1) \in Seq(S) /\ Len(SubSeq(s, 1, i - 1)) = i - 1
         /\ \A j \in 1 .. i - 1 : SubSeq(s, 1, i - 1)[j] = s[j]
         /\ SubSeq(s, i + 1, Len(s)) \in Seq(S) /\ Len(SubSeq(s, i + 1, Len(s))) = Len(s) - i
         /\ \A j \in 1 .. Len(s) - i : SubSeq(s, i + 1, Len(s))[j] = s[i + j]
<1>1. /\ SubSeq(s, 1, i - 1) \in Seq(S) /\ Len(SubSeq(s, 1, i - 1)) = i - 1
      /\ \A j \in 1 .. i - 1 : SubSeq(s, 1, i - 1)[j] = s[j]
  BY SubSeqProperties
<1>2. /\ SubSeq(s, i + 1, Len(s)) \in Seq(S) /\ Len(SubSeq(s, i + 1, Len(s))) = Len(s) - i
      /\ \A j \in 1 .. Len(s) - i : SubSeq(s, i + 1, Len(s))[j] = s[i + j]
  BY SubSeqProperties
<1> QED
  BY <1>1, <1>2

\* Three sequences can be put together in either order; kept as a definition, so that
\* a step that needs it for one set does not search for the set.
Associative(S) == \A x, y, z \in Seq(S) : (x \o y) \o z = x \o (y \o z)

LEMMA RegroupAll == \A S : Associative(S)
BY ONLY ConcatAssociative, Zenon DEF Associative

LEMMA Regroup ==
  ASSUME NEW S, NEW x \in Seq(S), NEW y \in Seq(S), NEW z \in Seq(S)
  PROVE  (x \o y) \o z = x \o (y \o z)
<1>1. Associative(S)
  BY ONLY RegroupAll, Zenon
<1> QED
  BY ONLY x \in Seq(S), y \in Seq(S), z \in Seq(S), <1>1, Zenon DEF Associative

\* The beginning of the first of two sequences is the beginning of both, and what
\* is left of both without it is what is left of the first, and the second.
LEMMA ConcatDrop ==
  ASSUME NEW S, NEW s \in Seq(S), NEW t \in Seq(S), NEW n \in 0 .. Len(s)
  PROVE  /\ SubSeq(s \o t, 1, n) = SubSeq(s, 1, n)
         /\ SubSeq(s \o t, n + 1, Len(s \o t)) = SubSeq(s, n + 1, Len(s)) \o t
         /\ SubSeq(s, n + 1, Len(s)) \in Seq(S) /\ Len(SubSeq(s, n + 1, Len(s))) = Len(s) - n
         /\ SubSeq(s, 1, n) \in Seq(S)
<1> DEFINE r == s \o t
           N == Len(s)
           M == Len(t)
<1>1. /\ N \in Nat /\ M \in Nat /\ n \in Nat /\ n <= N /\ r \in Seq(S) /\ Len(r) = N + M
      /\ \A i \in 1 .. N + M : r[i] = IF i <= N THEN s[i] ELSE t[i - N]
      /\ (\A i \in 1 .. N : s[i] \in S) /\ (\A i \in 1 .. N + M : r[i] \in S)
  BY LenProperties, ConcatProperties
<1> HIDE DEF r
<1> DEFINE a == SubSeq(s, 1, n)
           b == SubSeq(r, 1, n)
           c == SubSeq(s, n + 1, N)
           d == SubSeq(r, n + 1, N + M)
<1>2. a \in Seq(S) /\ Len(a) = n /\ \A i \in 1 .. n : a[i] = s[i]
  BY <1>1, SubSeqProperties
<1>3. b \in Seq(S) /\ Len(b) = n /\ \A i \in 1 .. n : b[i] = r[i]
  BY <1>1, SubSeqProperties
<1>4. c \in Seq(S) /\ Len(c) = N - n /\ \A i \in 1 .. N - n : c[i] = s[n + i]
  BY <1>1, SubSeqProperties
<1>5. d \in Seq(S) /\ Len(d) = N + M - n /\ \A i \in 1 .. N + M - n : d[i] = r[n + i]
  BY <1>1, SubSeqProperties
<1> HIDE DEF N, M, a, b, c, d
<1>6. a = b
  BY <1>1, <1>2, <1>3, SeqEqual
<1>7. d = c \o t
  <2>1. /\ c \o t \in Seq(S) /\ Len(c \o t) = (N - n) + M
        /\ \A i \in 1 .. (N - n) + M : (c \o t)[i] = IF i <= N - n THEN c[i] ELSE t[i - (N - n)]
    <3>1. Len(t) = M
      BY DEF M
    <3>2. /\ c \o t \in Seq(S) /\ Len(c \o t) = Len(c) + Len(t)
          /\ \A i \in 1 .. Len(c) + Len(t) : (c \o t)[i] = IF i <= Len(c) THEN c[i] ELSE t[i - Len(c)]
      BY <1>4, ConcatProperties
    <3> QED
      BY <1>4, <3>1, <3>2
  <2>2. (N - n) + M = N + M - n
    BY <1>1
  <2>3. ASSUME NEW i \in 1 .. N + M - n PROVE d[i] = (c \o t)[i]
    <3>1. d[i] = r[n + i] /\ n + i \in 1 .. N + M
      BY <1>1, <1>5
    <3>2. CASE i <= N - n
      <4>1. i \in 1 .. N - n /\ n + i <= N
        BY <1>1, <3>2
      <4> QED
        <5>1. (c \o t)[i] = c[i] /\ c[i] = s[n + i]
          BY <1>4, <2>1, <2>2, <3>2, <4>1
        <5>2. r[n + i] = s[n + i]
          BY <1>1, <3>1, <4>1
        <5> QED
          BY <3>1, <5>1, <5>2
    <3>3. CASE ~(i <= N - n)
      <4>1. ~(n + i <= N) /\ (n + i) - N = i - (N - n)
        BY <1>1, <3>3
      <4> QED
        <5>1. (c \o t)[i] = t[i - (N - n)]
          BY <2>1, <2>2, <3>3
        <5>2. r[n + i] = t[(n + i) - N]
          BY <1>1, <3>1, <4>1
        <5> QED
          BY <3>1, <4>1, <5>1, <5>2
    <3> QED
      BY <3>2, <3>3
  <2> QED
    BY <1>5, <2>1, <2>2, <2>3, SeqEqual
<1> QED
  BY <1>1, <1>2, <1>4, <1>6, <1>7 DEF N, M, a, b, c, d, r

\* A sequence is a prefix of itself with another behind it.
LEMMA ConcatPrefix ==
  ASSUME NEW S, NEW s \in Seq(S), NEW t \in Seq(S)
  PROVE  Len(s) <= Len(s \o t) /\ SubSeq(s, 1, Len(s)) = SubSeq(s \o t, 1, Len(s))
<1>1. Len(s) \in Nat /\ Len(t) \in Nat /\ Len(s \o t) = Len(s) + Len(t)
  BY LenProperties, ConcatProperties
<1>2. Len(s) \in 0 .. Len(s)
  BY <1>1
<1> QED
  BY <1>1, <1>2, ConcatDrop

\* RemoveFirst() takes an element that is once in a sequence off it.
LEMMA RemoveOnce ==
  ASSUME NEW S, NEW s \in Seq(S), IsInjective(s), NEW e
  PROVE  /\ RemoveFirst(s, e) \in Seq(S) /\ Len(RemoveFirst(s, e)) \in 0 .. Len(s)
         /\ Range(RemoveFirst(s, e)) = Range(s) \ {e}
         /\ IsInjective(RemoveFirst(s, e))
<1>1. CASE e \notin Range(s)
  <2>1. RemoveFirst(s, e) = s
    BY <1>1, InRange DEF RemoveFirst
  <2> QED
    BY <1>1, <2>1, LenProperties
<1>2. CASE e \in Range(s)
  <2>1. PICK i \in 1 .. Len(s) : s[i] = e
    BY <1>2, InRange
  <2>2. DOMAIN s = 1 .. Len(s) /\ Len(s) \in Nat
    BY LenProperties
  <2>3. {j \in 1 .. Len(s) : s[j] = e} = {i}
    BY <2>1, <2>2 DEF IsInjective
  <2>4. SelectInSeq(s, LAMBDA v : v = e) = i
    <3>1. Min({i}) = i
      BY DEF Min
    <3> QED
      BY <2>3, <3>1 DEF SelectInSeq
  <2> DEFINE before == SubSeq(s, 1, i - 1)
             after  == SubSeq(s, i + 1, Len(s))
  <2>5. RemoveFirst(s, e) = before \o after
    BY <2>1, <2>4 DEF RemoveFirst, RemoveAt
  <2>6. /\ before \in Seq(S) /\ Len(before) = i - 1
        /\ \A j \in 1 .. i - 1 : before[j] = s[j]
    BY SplitSeq
  <2>7. /\ after \in Seq(S) /\ Len(after) = Len(s) - i
        /\ \A j \in 1 .. Len(s) - i : after[j] = s[i + j]
    BY SplitSeq
  <2> HIDE DEF before, after
  <2>8. DOMAIN before = 1 .. i - 1 /\ DOMAIN after = 1 .. Len(s) - i
    BY <2>6, <2>7, LenProperties
  <2>9. IsInjective(before) /\ IsInjective(after) /\ Range(before) \cap Range(after) = {}
    <3>1. IsInjective(before)
      BY <2>2, <2>6, <2>8 DEF IsInjective
    <3>2. IsInjective(after)
      <4> SUFFICES ASSUME NEW a \in 1 .. Len(s) - i, NEW b \in 1 .. Len(s) - i, after[a] = after[b]
                   PROVE  a = b
        BY <2>8 DEF IsInjective
      <4>1. i + a \in DOMAIN s /\ i + b \in DOMAIN s /\ s[i + a] = s[i + b]
        BY <2>2, <2>7
      <4>2. i + a = i + b
        BY <4>1 DEF IsInjective
      <4> QED
        BY <4>2
    <3>3. ASSUME NEW a \in 1 .. i - 1, NEW b \in 1 .. Len(s) - i, before[a] = after[b]
          PROVE  FALSE
      <4>1. a \in DOMAIN s /\ i + b \in DOMAIN s /\ s[a] = s[i + b]
        BY <2>2, <2>6, <2>7, <3>3
      <4>2. a = i + b
        BY <4>1 DEF IsInjective
      <4> QED
        BY <4>2
    <3> QED
      BY <2>8, <3>1, <3>2, <3>3 DEF Range
  <2>10. Range(before) \cup Range(after) = Range(s) \ {e}
    <3>1. \A j \in 1 .. i - 1 : before[j] \in Range(s) \ {e}
      BY <2>1, <2>2, <2>6 DEF Range, IsInjective
    <3>2. \A j \in 1 .. Len(s) - i : after[j] \in Range(s) \ {e}
      <4> SUFFICES ASSUME NEW j \in 1 .. Len(s) - i PROVE after[j] \in Range(s) \ {e}
        OBVIOUS
      <4>1. i + j \in 1 .. Len(s) /\ i + j # i /\ after[j] = s[i + j]
        BY <2>2, <2>7
      <4> QED
        BY <2>1, <2>2, <4>1 DEF Range, IsInjective
    <3>3. ASSUME NEW j \in 1 .. Len(s), s[j] # e PROVE s[j] \in Range(before) \cup Range(after)
      <4>1. CASE j < i
        BY <2>6, <2>8, <4>1 DEF Range
      <4>2. CASE j > i
        <5>1. j - i \in 1 .. Len(s) - i /\ after[j - i] = s[j]
          BY <2>2, <2>7, <4>2
        <5> QED
          BY <2>8, <5>1 DEF Range
      <4> QED
        BY <2>1, <3>3, <4>1, <4>2
    <3> QED
      BY <2>2, <2>8, <3>1, <3>2, <3>3 DEF Range
  <2>11. /\ before \o after \in Seq(S) /\ Len(before \o after) = Len(s) - 1
         /\ Range(before \o after) = Range(s) \ {e} /\ IsInjective(before \o after)
    <3>1. /\ before \o after \in Seq(S) /\ Len(before \o after) = Len(before) + Len(after)
          /\ Range(before \o after) = Range(before) \cup Range(after)
          /\ IsInjective(before \o after)
      <4>1. before \in Seq(S) /\ after \in Seq(S)
        BY <2>6, <2>7
      <4> QED
        BY <4>1, <2>9, ConcatRange
    <3> QED
      BY <2>2, <2>6, <2>7, <2>10, <3>1
  <2> QED
    BY <2>2, <2>5, <2>11
<1> QED
  BY <1>1, <1>2

\* A set of natural numbers that has one has a least one: induction, for the set
\* of the numbers for which a claim fails.
LEMMA LeastNat ==
  ASSUME NEW T, T \subseteq Nat, T # {}
  PROVE  \E m \in T : \A n \in T : m <= n
<1> DEFINE R == OpToRel(<, Nat)
<1>1. IsWellFoundedOn(R, Nat)
  BY NatLessThanWellFounded
<1>2. \A n, m \in Nat : <<n, m>> \in R <=> n < m
  BY DEF OpToRel
<1> HIDE DEF R
<1>3. PICK m \in T : \A n \in T : ~(<<n, m>> \in R)
  BY <1>1, WFMin
<1>4. ASSUME NEW n \in T PROVE m <= n
  <2>1. n \in Nat /\ m \in Nat /\ ~(n < m)
    BY <1>2, <1>3
  <2> QED
    BY <2>1
<1> QED
  BY <1>4

\* RemoveFirst() takes one element off a sequence, and leaves the others in order.
LEMMA RemoveSome ==
  ASSUME NEW S, NEW s \in Seq(S), NEW e \in Range(s)
  PROVE  /\ RemoveFirst(s, e) \in Seq(S) /\ Len(RemoveFirst(s, e)) = Len(s) - 1
         /\ \E i \in 1 .. Len(s) :
              /\ s[i] = e
              /\ \A j \in 1 .. Len(s) - 1 : RemoveFirst(s, e)[j] = IF j < i THEN s[j] ELSE s[j + 1]
<1>1. DOMAIN s = 1 .. Len(s) /\ Len(s) \in Nat
  BY LenProperties
<1> DEFINE I == {j \in 1 .. Len(s) : s[j] = e}
           i == Min(I)
<1>2. I # {} /\ I \subseteq Nat
  BY <1>1 DEF Range
<1>3. i \in I
  <2> HIDE DEF I
  <2>1. \E m \in I : \A n \in I : m <= n
    BY <1>2, LeastNat
  <2> QED
    BY <2>1 DEF Min
<1>4. SelectInSeq(s, LAMBDA v : v = e) = i
  BY <1>2 DEF SelectInSeq
<1>5. i \in 1 .. Len(s) /\ s[i] = e
  BY <1>3
<1> HIDE DEF I, i
<1> DEFINE before == SubSeq(s, 1, i - 1)
           after  == SubSeq(s, i + 1, Len(s))
<1>6. RemoveFirst(s, e) = before \o after
  BY <1>4, <1>5 DEF RemoveFirst, RemoveAt
<1>7. /\ before \in Seq(S) /\ Len(before) = i - 1
      /\ \A j \in 1 .. i - 1 : before[j] = s[j]
  BY <1>5, SplitSeq
<1>8. /\ after \in Seq(S) /\ Len(after) = Len(s) - i
      /\ \A j \in 1 .. Len(s) - i : after[j] = s[i + j]
  BY <1>5, SplitSeq
<1> HIDE DEF before, after
<1>9. /\ before \o after \in Seq(S) /\ Len(before \o after) = Len(before) + Len(after)
      /\ \A j \in 1 .. Len(before) + Len(after) :
           (before \o after)[j] = IF j <= Len(before) THEN before[j] ELSE after[j - Len(before)]
  <2>1. before \in Seq(S) /\ after \in Seq(S)
    BY <1>7, <1>8
  <2> QED
    BY <2>1, ConcatRange
<1>10. Len(before) + Len(after) = Len(s) - 1
  BY <1>1, <1>5, <1>7, <1>8
<1>11. ASSUME NEW j \in 1 .. Len(s) - 1
       PROVE  (before \o after)[j] = IF j < i THEN s[j] ELSE s[j + 1]
  <2>1. CASE j < i
    BY <1>1, <1>5, <1>7, <1>9, <1>10, <2>1
  <2>2. CASE j >= i
    <3>1. j - (i - 1) \in 1 .. Len(s) - i /\ i + (j - (i - 1)) = j + 1 /\ ~(j <= i - 1)
      BY <1>1, <1>5, <2>2
    <3>2. (before \o after)[j] = after[j - (i - 1)]
      BY <1>7, <1>9, <1>10, <3>1
    <3> QED
      BY <1>1, <1>5, <1>8, <2>2, <3>1, <3>2
  <2>3. j < i \/ j >= i
    BY <1>1, <1>5
  <2> QED
    BY <2>1, <2>2, <2>3
<1> QED
  BY <1>5, <1>6, <1>9, <1>10, <1>11

-----------------------------------------------------------------------------
(* Functions on the numbers up to one, each of whose values is given by the *)
(* one before.                                                              *)

\* Induction up to a number: a set that has 0, and with a number the next, has all of them.
LEMMA AllUpTo ==
  ASSUME NEW N \in Nat, NEW S, 0 \in S, \A n \in 0 .. N - 1 : n \in S => n + 1 \in S
  PROVE  \A n \in 0 .. N : n \in S
<1> DEFINE T == {n \in 0 .. N : n \notin S}
<1> SUFFICES ASSUME T # {} PROVE FALSE
  OBVIOUS
<1>1. PICK m \in T : \A n \in T : m <= n
  <2>1. T \subseteq Nat
    OBVIOUS
  <2> HIDE DEF T
  <2> QED
    BY <2>1, LeastNat
<1>2. m \in 0 .. N /\ m \notin S /\ m # 0
  BY <1>1
<1>3. m - 1 \in 0 .. N - 1 /\ ~(m <= m - 1)
  BY <1>2
<1>4. m - 1 \notin T
  BY <1>1, <1>3
<1>5. m - 1 \in S
  BY <1>2, <1>3, <1>4
<1>6. (m - 1) + 1 \in S
  BY <1>3, <1>5
<1>7. (m - 1) + 1 = m
  BY <1>2
<1> QED
  BY <1>2, <1>6, <1>7

\* Function f has values in V, the first is v, and each follows from the one before.
Recurs(f, N, V, v, step) ==
  f \in [0 .. N -> V] /\ f[0] = v /\ \A i \in 1 .. N : f[i] = step[i][f[i - 1]]

\* What maps a number and a value to the next value
StepFunctions(N, V) == [1 .. N -> [V -> V]]

\* There is such a function.
LEMMA Recursion ==
  ASSUME NEW V, NEW N \in Nat, NEW v \in V, NEW step \in StepFunctions(N, V)
  PROVE  \E f : Recurs(f, N, V, v, step)
<1> USE DEF StepFunctions
<1> DEFINE P(n) == \E f \in [0 .. n -> V] : f[0] = v /\ \A i \in 1 .. n : f[i] = step[i][f[i - 1]]
           S == {n \in 0 .. N : P(n)}
<1>1. 0 \in S
  <2>1. [i \in 0 .. 0 |-> v] \in [0 .. 0 -> V] /\ [i \in 0 .. 0 |-> v][0] = v
    OBVIOUS
  <2>2. \A i \in 1 .. 0 : FALSE
    OBVIOUS
  <2>3. P(0)
    BY <2>1, <2>2
  <2> HIDE DEF P
  <2> QED
    BY <2>3
<1>2. ASSUME NEW n \in 0 .. N - 1, n \in S PROVE n + 1 \in S
  <2>1. PICK f \in [0 .. n -> V] : f[0] = v /\ \A i \in 1 .. n : f[i] = step[i][f[i - 1]]
    BY <1>2
  <2> DEFINE new == step[n + 1][f[n]]
             g == [i \in 0 .. n + 1 |-> IF i = n + 1 THEN new ELSE f[i]]
  <2>2. n + 1 \in 1 .. N /\ n \in Nat
    OBVIOUS
  <2>3. new \in V
    BY <2>1, <2>2
  <2>4. g \in [0 .. n + 1 -> V] /\ g[0] = v /\ \A i \in 0 .. n : g[i] = f[i]
    <3> HIDE DEF new
    <3> QED
      BY <2>1, <2>2, <2>3
  <2>5. g[n + 1] = new
    <3> HIDE DEF new
    <3> QED
      BY <2>2
  <2> HIDE DEF g
  <2>6. \A i \in 1 .. n + 1 : g[i] = step[i][g[i - 1]]
    <3> SUFFICES ASSUME NEW i \in 1 .. n + 1 PROVE g[i] = step[i][g[i - 1]]
      OBVIOUS
    <3>1. CASE i = n + 1
      <4>1. i - 1 = n /\ n \in 0 .. n
        BY <2>2, <3>1
      <4> QED
        BY <2>4, <2>5, <3>1, <4>1
    <3>2. CASE i # n + 1
      <4>1. i \in 1 .. n /\ i \in 0 .. n /\ i - 1 \in 0 .. n
        BY <2>2, <3>2
      <4> QED
        BY <2>1, <2>4, <4>1
    <3> QED
      BY <3>1, <3>2
  <2>7. n + 1 \in 0 .. N
    BY <2>2
  <2> QED
    BY <2>4, <2>6, <2>7
<1>3. \A n \in 0 .. N : n \in S
  <2> HIDE DEF S
  <2> QED
    BY <1>1, <1>2, AllUpTo
<1> QED
  BY <1>3 DEF Recurs

\* Functions f and g have the same first value, and each that follows is the same if
\* the one before is.
Alike(f, g, N) == f[0] = g[0] /\ \A n \in 1 .. N : f[n - 1] = g[n - 1] => f[n] = g[n]

\* They are equal.
LEMMA RecursionOnce ==
  ASSUME NEW N \in Nat, NEW f, NEW g, Alike(f, g, N)
  PROVE  \A n \in 0 .. N : f[n] = g[n]
<1> USE DEF Alike
<1> DEFINE S == {n \in 0 .. N : f[n] = g[n]}
<1>1. 0 \in S
  OBVIOUS
<1>2. ASSUME NEW n \in 0 .. N - 1, n \in S PROVE n + 1 \in S
  <2>1. n + 1 \in 1 .. N /\ n + 1 \in 0 .. N /\ (n + 1) - 1 = n
    OBVIOUS
  <2> QED
    BY <1>2, <2>1
<1>3. \A n \in 0 .. N : n \in S
  <2> HIDE DEF S
  <2> QED
    BY <1>1, <1>2, AllUpTo
<1> QED
  BY <1>3

-----------------------------------------------------------------------------
(* Sums.                                                                    *)

\* The sums of the first elements of a sequence of numbers
SumsOf(q, f) == /\ f \in [0 .. Len(q) -> Int] /\ f[0] = 0
                /\ \A n \in 1 .. Len(q) : f[n] = f[n - 1] + q[n]

\* There are such sums, and the last of them is the total.
LEMMA TotalSums ==
  ASSUME NEW q \in Seq(Int)
  PROVE  /\ \E f : SumsOf(q, f)
         /\ \A f : SumsOf(q, f) => Total(q) = f[Len(q)] /\ Total(q) \in Int
<1> DEFINE N == Len(q)
           E(f) == [n \in 0 .. N |-> IF n = 0 THEN 0 ELSE f[n - 1] + q[n]]
           step == [n \in 1 .. N |-> [m \in Int |-> m + q[n]]]
<1>1. N \in Nat /\ \A i \in 1 .. N : q[i] \in Int
  BY LenProperties
<1> HIDE DEF N
<1>2. step \in [1 .. N -> [Int -> Int]] /\ \A n \in 1 .. N, m \in Int : step[n][m] = m + q[n]
  BY <1>1
<1>3. \E f : SumsOf(q, f)
  <2> HIDE DEF step
  <2>1. PICK f \in [0 .. N -> Int] : f[0] = 0 /\ \A n \in 1 .. N : f[n] = step[n][f[n - 1]]
    <3>1. 0 \in Int /\ step \in StepFunctions(N, Int)
      BY <1>2 DEF StepFunctions
    <3>2. \E f : Recurs(f, N, Int, 0, step)
      BY <1>1, <3>1, Recursion
    <3> QED
      BY <3>2 DEF Recurs
  <2>2. ASSUME NEW n \in 1 .. N PROVE f[n] = f[n - 1] + q[n]
    <3>1. f[n - 1] \in Int
      BY <1>1, <2>1
    <3> QED
      BY <1>2, <2>1, <3>1
  <2> QED
    BY <2>1, <2>2 DEF SumsOf, N
<1>4. ASSUME NEW g, SumsOf(q, g) PROVE Total(q) = g[Len(q)] /\ Total(q) \in Int
  <2> DEFINE u == CHOOSE h : h = E(h)
  <2>1. g \in [0 .. N -> Int] /\ g[0] = 0 /\ \A n \in 1 .. N : g[n] = g[n - 1] + q[n]
    BY <1>4 DEF SumsOf, N
  <2>2. g = E(g)
    <3>1. \A n \in 0 .. N : g[n] = IF n = 0 THEN 0 ELSE g[n - 1] + q[n]
      BY <1>1, <2>1
    <3> QED
      BY <2>1, <3>1
  <2>3. u = E(u)
    BY <2>2
  <2> HIDE DEF u
  <2>4. u[0] = 0 /\ \A n \in 1 .. N : u[n] = u[n - 1] + q[n]
    <3>1. \A n \in 0 .. N : u[n] = IF n = 0 THEN 0 ELSE u[n - 1] + q[n]
      BY <2>3
    <3> QED
      BY <1>1, <3>1
  <2>5. Alike(u, g, N)
    BY <2>1, <2>4 DEF Alike
  <2>6. \A n \in 0 .. N : u[n] = g[n]
    BY <1>1, <2>5, RecursionOnce
  <2>7. Total(q) = u[N]
    BY DEF Total, N, u
  <2> QED
    BY <1>1, <2>1, <2>6, <2>7 DEF N
<1> QED
  BY <1>3, <1>4

\* Nothing adds up to 0.
LEMMA TotalNothing == Total(<<>>) = 0
<1>1. <<>> \in Seq(Int) /\ Len(<<>>) = 0
  BY EmptySeq
<1>2. PICK f : SumsOf(<<>>, f)
  BY <1>1, TotalSums
<1>3. Total(<<>>) = f[0] /\ f[0] = 0
  BY <1>1, <1>2, TotalSums DEF SumsOf
<1> QED
  BY <1>3

\* A number more at the end.
LEMMA TotalAppend ==
  ASSUME NEW q \in Seq(Int), NEW e \in Int
  PROVE  Append(q, e) \in Seq(Int) /\ Total(Append(q, e)) = Total(q) + e /\ Total(q) \in Int
<1> DEFINE r == Append(q, e)
<1>1. r \in Seq(Int) /\ Len(r) = Len(q) + 1 /\ \A i \in 1 .. Len(q) : r[i] = q[i]
  BY AppendProperties
<1>2. r[Len(q) + 1] = e /\ Len(q) \in Nat
  BY AppendProperties, LenProperties
<1> HIDE DEF r
<1>3. PICK f : SumsOf(q, f)
  BY TotalSums
<1>4. Total(q) = f[Len(q)] /\ Total(q) \in Int
  BY <1>3, TotalSums
<1>5. f \in [0 .. Len(q) -> Int] /\ f[0] = 0 /\ \A n \in 1 .. Len(q) : f[n] = f[n - 1] + q[n]
  BY <1>3 DEF SumsOf
<1> DEFINE N == Len(q)
<1>6. N \in Nat
  BY <1>2
<1> DEFINE g == [n \in 0 .. N + 1 |-> IF n = N + 1 THEN f[N] + e ELSE f[n]]
<1>7. g \in [0 .. N + 1 -> Int] /\ (\A n \in 0 .. N : g[n] = f[n]) /\ g[N + 1] = f[N] + e
  <2>1. f[N] + e \in Int /\ \A n \in 0 .. N + 1 : n # N + 1 => f[n] \in Int
    <3> HIDE DEF g
    <3>1. \A n \in 0 .. N : f[n] \in Int
      BY <1>5
    <3>2. N \in 0 .. N /\ \A n \in 0 .. N + 1 : n # N + 1 => n \in 0 .. N
      BY <1>6
    <3> HIDE DEF N
    <3> QED
      BY <3>1, <3>2
  <2> HIDE DEF N
  <2> QED
    BY <1>6, <2>1
<1> HIDE DEF g
<1>8. ASSUME NEW n \in 1 .. N + 1 PROVE g[n] = g[n - 1] + r[n]
  <2>1. CASE n = N + 1
    <3>1. n - 1 = N /\ N \in 0 .. N
      BY <1>6, <2>1
    <3> QED
      BY <1>2, <1>7, <2>1, <3>1
  <2>2. CASE n # N + 1
    <3>1. n \in 1 .. N /\ n \in 0 .. N /\ n - 1 \in 0 .. N
      BY <1>6, <2>2
    <3> QED
      BY <1>1, <1>5, <1>7, <3>1
  <2> QED
    BY <2>1, <2>2
<1>9. SumsOf(r, g)
  <2>1. 0 \in 0 .. N /\ Len(r) = N + 1
    BY <1>1, <1>6
  <2>2. g[0] = 0
    BY <1>5, <1>7, <2>1
  <2> QED
    BY <1>7, <1>8, <2>1, <2>2 DEF SumsOf
<1>10. Total(r) = g[N + 1]
  <2>1. Total(r) = g[Len(r)]
    BY <1>1, <1>9, TotalSums
  <2> QED
    BY <1>1, <2>1
<1> QED
  BY <1>1, <1>4, <1>7, <1>10 DEF r

\* The first number, and the others.
LEMMA TotalTail ==
  ASSUME NEW q \in Seq(Int), q # <<>>
  PROVE  Tail(q) \in Seq(Int) /\ Head(q) \in Int /\ Total(q) = Head(q) + Total(Tail(q)) /\ Total(Tail(q)) \in Int
<1> DEFINE r == Tail(q)
           N == Len(q) - 1
           h == Head(q)
<1>1. /\ r \in Seq(Int) /\ Len(r) = N /\ N \in Nat /\ N + 1 = Len(q) /\ h \in Int /\ h = q[1]
      /\ \A n \in 1 .. N : r[n] = q[n + 1]
  BY HeadTailProperties, EmptySeq, LenProperties
<1> HIDE DEF r, N, h
<1>3. PICK f : SumsOf(q, f)
  BY TotalSums
<1>4. Total(q) = f[N + 1] /\ Total(q) \in Int
  BY <1>1, <1>3, TotalSums
<1>5. f \in [0 .. N + 1 -> Int] /\ f[0] = 0 /\ \A n \in 1 .. N + 1 : f[n] = f[n - 1] + q[n]
  BY <1>1, <1>3 DEF SumsOf
<1> DEFINE g == [n \in 0 .. N |-> f[n + 1] - h]
<1>7. g \in [0 .. N -> Int] /\ \A n \in 0 .. N : g[n] = f[n + 1] - h /\ f[n + 1] \in Int
  <2>1. \A n \in 0 .. N : f[n + 1] \in Int /\ f[n + 1] - h \in Int
    <3>1. \A n \in 0 .. N : n + 1 \in 0 .. N + 1
      BY <1>1
    <3> QED
      BY <1>1, <1>5, <3>1
  <2> QED
    BY <2>1
<1> HIDE DEF g
<1>8. ASSUME NEW n \in 1 .. N PROVE g[n] = g[n - 1] + r[n]
  <2>1. n \in 0 .. N /\ n - 1 \in 0 .. N /\ n + 1 \in 1 .. N + 1 /\ (n - 1) + 1 = n /\ (n + 1) - 1 = n
    BY <1>1
  <2>2. f[n + 1] = f[n] + q[n + 1]
    BY <1>5, <2>1
  <2>3. g[n] = f[n + 1] - h /\ g[n - 1] = f[n] - h /\ r[n] = q[n + 1]
    BY <1>1, <1>7, <2>1
  <2>4. f[n] \in Int /\ q[n + 1] \in Int
    <3>1. n + 1 \in 1 .. Len(q) /\ n \in 0 .. N + 1
      BY <1>1
    <3> QED
      BY <1>5, <3>1, LenProperties
  <2> QED
    BY <1>1, <2>2, <2>3, <2>4, SMTT(20)
<1>9. SumsOf(r, g)
  <2>1. g[0] = 0
    <3>1. 0 \in 0 .. N /\ 1 \in 1 .. N + 1 /\ 0 + 1 = 1 /\ 1 - 1 = 0
      BY <1>1
    <3>2. f[1] = f[0] + q[1] /\ g[0] = f[1] - h
      BY <1>5, <1>7, <3>1
    <3> QED
      BY <1>1, <1>5, <3>2
  <2> QED
    BY <1>1, <1>7, <1>8, <2>1 DEF SumsOf
<1>10. Total(r) = g[N] /\ Total(r) \in Int
  BY <1>1, <1>9, TotalSums
<1>11. g[N] = f[N + 1] - h
  BY <1>1, <1>7
<1> QED
  BY <1>1, <1>4, <1>10, <1>11 DEF r, h

\* One number of a sequence is another.
LEMMA TotalExcept ==
  ASSUME NEW q \in Seq(Int), NEW i \in 1 .. Len(q), NEW e \in Int
  PROVE  [q EXCEPT ![i] = e] \in Seq(Int) /\ Total([q EXCEPT ![i] = e]) = Total(q) + (e - q[i]) /\ Total(q) \in Int
<1> DEFINE r == [q EXCEPT ![i] = e]
           N == Len(q)
<1>1. /\ r \in Seq(Int) /\ Len(r) = N /\ N \in Nat /\ r[i] = e
      /\ \A n \in 1 .. N : n # i => r[n] = q[n]
      /\ \A n \in 1 .. N : q[n] \in Int
  BY LenProperties, ExceptSeq
<1> HIDE DEF r, N
<1>3. PICK f : SumsOf(q, f)
  BY TotalSums
<1>4. Total(q) = f[N] /\ Total(q) \in Int
  BY <1>1, <1>3, TotalSums DEF N
<1>5. f \in [0 .. N -> Int] /\ f[0] = 0 /\ \A n \in 1 .. N : f[n] = f[n - 1] + q[n]
  BY <1>1, <1>3 DEF SumsOf, N
<1>6. i \in 1 .. N /\ q[i] \in Int
  BY <1>1 DEF N
<1> DEFINE d == e - q[i]
           g == [n \in 0 .. N |-> IF n < i THEN f[n] ELSE f[n] + d]
<1>2. d \in Int
  BY <1>6
<1>7. g \in [0 .. N -> Int] /\ \A n \in 0 .. N : g[n] = IF n < i THEN f[n] ELSE f[n] + d
  <2> HIDE DEF d
  <2>1. \A n \in 0 .. N : f[n] \in Int /\ f[n] + d \in Int
    BY <1>2, <1>5
  <2> QED
    BY <2>1
<1> HIDE DEF g
<1>8. ASSUME NEW n \in 1 .. N PROVE g[n] = g[n - 1] + r[n]
  <2>1. n \in 0 .. N /\ n - 1 \in 0 .. N /\ f[n] = f[n - 1] + q[n] /\ f[n] \in Int /\ f[n - 1] \in Int /\ q[n] \in Int
    <3>1. n \in 0 .. N /\ n - 1 \in 0 .. N
      BY <1>1
    <3> QED
      BY <1>1, <1>5, <3>1
  <2>2. CASE n < i
    <3>1. n - 1 < i /\ n # i
      BY <1>1, <1>6, <2>2
    <3> QED
      BY <1>1, <1>7, <2>1, <2>2, <3>1
  <2>3. CASE n = i
    <3>1. n - 1 < i /\ ~(n < i)
      BY <1>1, <1>6, <2>3
    <3>2. g[n - 1] = f[n - 1] /\ g[n] = f[n] + d /\ r[n] = e
      BY <1>1, <1>7, <2>1, <2>3, <3>1
    <3> QED
      BY <2>1, <2>3, <3>2
  <2>4. CASE n > i
    <3>1. ~(n - 1 < i) /\ ~(n < i) /\ n # i
      BY <1>1, <1>6, <2>4
    <3>2. g[n - 1] = f[n - 1] + d /\ g[n] = f[n] + d /\ r[n] = q[n]
      BY <1>1, <1>7, <2>1, <3>1
    <3> HIDE DEF d
    <3> QED
      BY <1>2, <2>1, <3>2
  <2> QED
    BY <1>6, <2>2, <2>3, <2>4
<1>9. SumsOf(r, g)
  <2>1. g[0] = 0
    <3>1. 0 \in 0 .. N /\ 0 < i
      BY <1>1, <1>6
    <3> QED
      BY <1>5, <1>7, <3>1
  <2> QED
    BY <1>1, <1>7, <1>8, <2>1 DEF SumsOf
<1>10. Total(r) = g[N]
  BY <1>1, <1>9, TotalSums
<1>11. g[N] = f[N] + d
  <2>1. N \in 0 .. N /\ ~(N < i)
    BY <1>1, <1>6
  <2> QED
    BY <1>7, <2>1
<1> QED
  BY <1>1, <1>4, <1>10, <1>11 DEF r

\* Zeros add up to zero.
LEMMA TotalZeros ==
  ASSUME NEW q \in Seq(Int), \A i \in 1 .. Len(q) : q[i] = 0
  PROVE  Total(q) = 0
<1> DEFINE N == Len(q)
           f == [n \in 0 .. N |-> 0]
<1>1. N \in Nat
  BY LenProperties
<1>2. f \in [0 .. N -> Int] /\ \A n \in 0 .. N : f[n] = 0
  OBVIOUS
<1> HIDE DEF f
<1>3. f[0] = 0 /\ f[N] = 0 /\ \A n \in 1 .. N : f[n] = f[n - 1] + q[n]
  <2>1. 0 \in 0 .. N /\ N \in 0 .. N /\ \A n \in 1 .. N : n \in 0 .. N /\ n - 1 \in 0 .. N
    BY <1>1
  <2> QED
    BY <1>2, <2>1
<1>4. SumsOf(q, f)
  BY <1>2, <1>3 DEF SumsOf
<1> QED
  BY <1>3, <1>4, TotalSums

\* Natural numbers add up to one.
LEMMA TotalNat ==
  ASSUME NEW q \in Seq(Nat)
  PROVE  q \in Seq(Int) /\ Total(q) \in Nat
<1>1. q \in Seq(Int) /\ Len(q) \in Nat /\ \A n \in 1 .. Len(q) : q[n] \in Nat
  BY LenProperties, SeqMonotonic
<1>2. PICK f : SumsOf(q, f)
  BY <1>1, TotalSums
<1>3. f \in [0 .. Len(q) -> Int] /\ f[0] = 0 /\ \A n \in 1 .. Len(q) : f[n] = f[n - 1] + q[n]
  BY <1>2 DEF SumsOf
<1> DEFINE N == Len(q)
           S == {n \in 0 .. N : f[n] \in Nat}
<1>4. 0 \in S
  BY <1>1, <1>3
<1>5. ASSUME NEW n \in 0 .. N - 1, n \in S PROVE n + 1 \in S
  <2>1. n + 1 \in 1 .. N /\ n + 1 \in 0 .. N /\ (n + 1) - 1 = n
    BY <1>1
  <2>2. f[n + 1] = f[n] + q[n + 1] /\ f[n] \in Nat /\ q[n + 1] \in Nat
    BY <1>1, <1>3, <1>5, <2>1
  <2> QED
    BY <2>1, <2>2
<1>6. \A n \in 0 .. N : n \in S
  <2> HIDE DEF S
  <2> QED
    BY <1>1, <1>4, <1>5, AllUpTo
<1>7. f[Len(q)] \in Nat
  BY <1>1, <1>6
<1> QED
  BY <1>1, <1>2, <1>7, TotalSums

-----------------------------------------------------------------------------
(* Sequences put together.                                                  *)

\* The first sequences of a sequence of them, put together
JoinsOf(S, ss, f) == /\ f \in [0 .. Len(ss) -> Seq(S)] /\ f[0] = <<>>
                     /\ \A n \in 1 .. Len(ss) : f[n] = f[n - 1] \o ss[n]

\* There are such, and the last of them is all.
LEMMA JoinedAll ==
  ASSUME NEW S, NEW ss \in Seq(Seq(S))
  PROVE  /\ \E f : JoinsOf(S, ss, f)
         /\ \A f : JoinsOf(S, ss, f) => Joined(ss) = f[Len(ss)] /\ Joined(ss) \in Seq(S)
<1> DEFINE N == Len(ss)
           V == Seq(S)
           E(f) == [n \in 0 .. N |-> IF n = 0 THEN <<>> ELSE f[n - 1] \o ss[n]]
           step == [n \in 1 .. N |-> [m \in V |-> m \o ss[n]]]
<1>1. N \in Nat /\ (\A i \in 1 .. N : ss[i] \in V) /\ <<>> \in V /\ \A r, t \in V : r \o t \in V
  BY LenProperties, EmptySeq, ConcatProperties
<1> HIDE DEF N, V
<1>2. step \in [1 .. N -> [V -> V]] /\ \A n \in 1 .. N, m \in V : step[n][m] = m \o ss[n]
  BY <1>1
<1>3. \E f : JoinsOf(S, ss, f)
  <2> HIDE DEF step
  <2>1. PICK f \in [0 .. N -> V] : f[0] = <<>> /\ \A n \in 1 .. N : f[n] = step[n][f[n - 1]]
    <3>1. <<>> \in V /\ step \in StepFunctions(N, V)
      BY <1>1, <1>2 DEF StepFunctions
    <3>2. \E f : Recurs(f, N, V, <<>>, step)
      BY <1>1, <3>1, Recursion
    <3> QED
      BY <3>2 DEF Recurs
  <2>2. ASSUME NEW n \in 1 .. N PROVE f[n] = f[n - 1] \o ss[n]
    <3>1. f[n - 1] \in V
      BY <1>1, <2>1
    <3> QED
      BY <1>2, <2>1, <3>1
  <2> QED
    BY <2>1, <2>2 DEF JoinsOf, N, V
<1>4. ASSUME NEW g, JoinsOf(S, ss, g) PROVE Joined(ss) = g[Len(ss)] /\ Joined(ss) \in Seq(S)
  <2> DEFINE u == CHOOSE h : h = E(h)
  <2>1. g \in [0 .. N -> V] /\ g[0] = <<>> /\ \A n \in 1 .. N : g[n] = g[n - 1] \o ss[n]
    BY <1>4 DEF JoinsOf, N, V
  <2>2. g = E(g)
    <3>1. ASSUME NEW n \in 0 .. N PROVE g[n] = IF n = 0 THEN <<>> ELSE g[n - 1] \o ss[n]
      <4>1. n # 0 => n \in 1 .. N
        BY <1>1
      <4> QED
        BY <2>1, <4>1
    <3> QED
      BY <2>1, <3>1
  <2>3. u = E(u)
    BY <2>2
  <2> HIDE DEF u
  <2>4. u[0] = <<>> /\ \A n \in 1 .. N : u[n] = u[n - 1] \o ss[n]
    <3>1. \A n \in 0 .. N : u[n] = IF n = 0 THEN <<>> ELSE u[n - 1] \o ss[n]
      BY <2>3
    <3>2. 0 \in 0 .. N /\ \A n \in 1 .. N : n \in 0 .. N /\ n # 0
      BY <1>1
    <3> QED
      BY <3>1, <3>2
  <2>5. Alike(u, g, N)
    BY <2>1, <2>4 DEF Alike
  <2>6. \A n \in 0 .. N : u[n] = g[n]
    BY <1>1, <2>5, RecursionOnce
  <2>7. Joined(ss) = u[N]
    BY DEF Joined, N, u
  <2> QED
    BY <1>1, <2>1, <2>6, <2>7 DEF N, V
<1> QED
  BY <1>3, <1>4

\* No sequence, or empty ones only
LEMMA JoinedNothing ==
  ASSUME NEW S, NEW ss \in Seq(Seq(S)), \A n \in 1 .. Len(ss) : ss[n] = <<>>
  PROVE  Joined(ss) = <<>>
<1> DEFINE N == Len(ss)
           f == [n \in 0 .. N |-> <<>>]
<1>1. N \in Nat /\ <<>> \in Seq(S) /\ <<>> \o <<>> = <<>>
  BY LenProperties, EmptySeq, ConcatEmptySeq
<1>2. f \in [0 .. N -> Seq(S)] /\ \A n \in 0 .. N : f[n] = <<>>
  <2> HIDE DEF N
  <2> QED
    BY <1>1
<1> HIDE DEF f
<1>3. f[0] = <<>> /\ f[N] = <<>> /\ \A n \in 1 .. N : f[n] = f[n - 1] \o ss[n]
  <2>1. 0 \in 0 .. N /\ N \in 0 .. N /\ \A n \in 1 .. N : n \in 0 .. N /\ n - 1 \in 0 .. N
    BY <1>1
  <2> QED
    BY <1>1, <1>2, <2>1
<1>4. JoinsOf(S, ss, f)
  BY <1>2, <1>3 DEF JoinsOf
<1> QED
  BY <1>3, <1>4, JoinedAll

\* One sequence
LEMMA JoinedOne ==
  ASSUME NEW S, NEW s \in Seq(S)
  PROVE  <<s>> \in Seq(Seq(S)) /\ Joined(<<s>>) = s
<1> DEFINE f == [n \in 0 .. 1 |-> IF n = 0 THEN <<>> ELSE s]
           ss == <<s>>
<1>1. ss \in Seq(Seq(S)) /\ Len(ss) = 1 /\ ss[1] = s
  BY SingleSeq
<1> HIDE DEF ss
<1>2. <<>> \in Seq(S) /\ <<>> \o s = s
  BY EmptySeq, ConcatEmptySeq
<1>3. f \in [0 .. 1 -> Seq(S)] /\ f[0] = <<>> /\ f[1] = s
  BY <1>2
<1> HIDE DEF f
<1>4. \A n \in 1 .. Len(ss) : f[n] = f[n - 1] \o ss[n]
  <2>1. \A n \in 1 .. 1 : n = 1 /\ n - 1 = 0
    OBVIOUS
  <2> QED
    BY <1>1, <1>2, <1>3, <2>1
<1>5. JoinsOf(S, ss, f)
  BY <1>1, <1>3, <1>4 DEF JoinsOf
<1>6. Joined(ss) = f[1]
  BY <1>1, <1>5, JoinedAll
<1> QED
  BY <1>1, <1>3, <1>6 DEF ss

\* Some sequences, and then others
LEMMA JoinedConcat ==
  ASSUME NEW S, NEW ss \in Seq(Seq(S)), NEW tt \in Seq(Seq(S))
  PROVE  /\ ss \o tt \in Seq(Seq(S)) /\ Joined(ss \o tt) = Joined(ss) \o Joined(tt)
         /\ Joined(ss) \in Seq(S) /\ Joined(tt) \in Seq(S)
<1> DEFINE N == Len(ss)
           M == Len(tt)
           r == ss \o tt
<1>1. /\ N \in Nat /\ M \in Nat /\ r \in Seq(Seq(S)) /\ Len(r) = N + M
      /\ \A n \in 1 .. N + M : r[n] = IF n <= N THEN ss[n] ELSE tt[n - N]
      /\ (\A n \in 1 .. N : ss[n] \in Seq(S)) /\ (\A n \in 1 .. M : tt[n] \in Seq(S))
  BY LenProperties, ConcatProperties
<1>2. PICK f : JoinsOf(S, ss, f)
  BY JoinedAll
<1>3. PICK g : JoinsOf(S, tt, g)
  BY JoinedAll
<1>4. Joined(ss) = f[N] /\ Joined(ss) \in Seq(S) /\ Joined(tt) = g[M] /\ Joined(tt) \in Seq(S)
  BY <1>2, <1>3, JoinedAll
<1>5. /\ f \in [0 .. N -> Seq(S)] /\ f[0] = <<>> /\ \A n \in 1 .. N : f[n] = f[n - 1] \o ss[n]
      /\ g \in [0 .. M -> Seq(S)] /\ g[0] = <<>> /\ \A n \in 1 .. M : g[n] = g[n - 1] \o tt[n]
  BY <1>2, <1>3 DEF JoinsOf
<1> HIDE DEF N, M, r
<1> DEFINE h == [n \in 0 .. N + M |-> IF n <= N THEN f[n] ELSE f[N] \o g[n - N]]
<1>6. /\ h \in [0 .. N + M -> Seq(S)]
      /\ \A n \in 0 .. N + M : h[n] = IF n <= N THEN f[n] ELSE f[N] \o g[n - N]
  <2>1. ASSUME NEW n \in 0 .. N + M PROVE (IF n <= N THEN f[n] ELSE f[N] \o g[n - N]) \in Seq(S)
    <3>1. n <= N => n \in 0 .. N
      BY <1>1
    <3>2. ~(n <= N) => n - N \in 0 .. M
      BY <1>1
    <3>3. N \in 0 .. N
      BY <1>1
    <3>4. n <= N => f[n] \in Seq(S)
      BY <1>5, <3>1
    <3>5. ~(n <= N) => f[N] \o g[n - N] \in Seq(S)
      BY <1>5, <3>2, <3>3, ConcatProperties
    <3> QED
      BY <3>4, <3>5
  <2> QED
    BY <2>1
<1> HIDE DEF h
<1>7. ASSUME NEW n \in 1 .. N + M PROVE h[n] = h[n - 1] \o r[n]
  <2>1. n \in 0 .. N + M /\ n - 1 \in 0 .. N + M
    BY <1>1
  <2>2. CASE n <= N
    <3>1. n \in 1 .. N /\ n - 1 <= N
      BY <1>1, <2>2
    <3> QED
      BY <1>1, <1>5, <1>6, <2>1, <2>2, <3>1
  <2>3. CASE ~(n <= N)
    <3>1. n - N \in 1 .. M /\ (n - 1) - N = (n - N) - 1 /\ n - N \in 0 .. M /\ (n - N) - 1 \in 0 .. M /\ N \in 0 .. N
      BY <1>1, <2>3, SMTT(20)
    <3> DEFINE k == n - N
    <3>2. g[k] = g[k - 1] \o tt[k] /\ g[k - 1] \in Seq(S) /\ tt[k] \in Seq(S) /\ f[N] \in Seq(S)
      BY <1>1, <1>5, <3>1
    <3>3. h[n] = f[N] \o g[k] /\ r[n] = tt[k]
      BY <1>1, <1>6, <2>1, <2>3
    <3>4. h[n - 1] = f[N] \o g[k - 1]
      <4>1. CASE n - 1 <= N
        <5>1. n - 1 = N /\ k - 1 = 0
          BY <1>1, <2>3, <4>1
        <5>2. h[n - 1] = f[N]
          BY <1>6, <2>1, <4>1, <5>1
        <5>3. g[k - 1] = <<>>
          BY <1>5, <5>1
        <5>4. f[N] \o <<>> = f[N]
          BY <3>2, ConcatEmptySeq
        <5> QED
          BY <5>2, <5>3, <5>4
      <4>2. CASE ~(n - 1 <= N)
        BY <1>6, <2>1, <3>1, <4>2
      <4> QED
        BY <4>1, <4>2
    <3> HIDE DEF k
    <3>5. (f[N] \o g[k - 1]) \o tt[k] = f[N] \o (g[k - 1] \o tt[k])
      <4>1. Associative(S)
        BY ONLY RegroupAll, Zenon
      <4> QED
        BY ONLY <3>2, <4>1, Zenon DEF Associative
    <3> QED
      BY <3>2, <3>3, <3>4, <3>5
  <2> QED
    BY <2>2, <2>3
<1>8. JoinsOf(S, r, h)
  <2>1. h[0] = <<>>
    <3>1. 0 \in 0 .. N + M /\ 0 <= N
      BY <1>1
    <3> QED
      BY <1>5, <1>6, <3>1
  <2> QED
    BY <1>1, <1>6, <1>7, <2>1 DEF JoinsOf
<1>9. Joined(r) = h[N + M]
  <2>1. Joined(r) = h[Len(r)]
    BY <1>1, <1>8, JoinedAll
  <2> QED
    BY <1>1, <2>1
<1>10. h[N + M] = f[N] \o g[M]
  <2>1. N + M \in 0 .. N + M /\ (N + M <= N => M = 0) /\ (N + M) - N = M /\ N \in 0 .. N
    BY <1>1
  <2>2. CASE M = 0
    <3>1. h[N + M] = f[N] /\ g[M] = <<>> /\ f[N] \in Seq(S)
      BY <1>1, <1>5, <1>6, <2>1, <2>2
    <3> QED
      BY <3>1, ConcatEmptySeq
  <2>3. CASE M # 0
    BY <1>6, <2>1, <2>3
  <2> QED
    BY <2>2, <2>3
<1> QED
  BY <1>1, <1>4, <1>9, <1>10 DEF r

\* Sequences none of which is longer than m
LEMMA JoinedLength ==
  ASSUME NEW S, NEW ss \in Seq(Seq(S)), NEW m \in Nat, \A n \in 1 .. Len(ss) : Len(ss[n]) <= m
  PROVE  Len(Joined(ss)) <= Len(ss) * m
<1> DEFINE N == Len(ss)
<1>1. N \in Nat /\ \A n \in 1 .. N : ss[n] \in Seq(S) /\ Len(ss[n]) \in Nat
  BY LenProperties
<1>2. PICK f : JoinsOf(S, ss, f)
  BY JoinedAll
<1>3. f \in [0 .. N -> Seq(S)] /\ f[0] = <<>> /\ \A n \in 1 .. N : f[n] = f[n - 1] \o ss[n]
  BY <1>2 DEF JoinsOf
<1> DEFINE B == {n \in 0 .. N : Len(f[n]) <= n * m}
<1>4. 0 \in B
  <2>1. Len(<<>>) = 0 /\ 0 * m = 0
    BY EmptySeq
  <2> QED
    BY <1>1, <1>3, <2>1
<1>5. ASSUME NEW n \in 0 .. N - 1, n \in B PROVE n + 1 \in B
  <2>1. n + 1 \in 1 .. N /\ n + 1 \in 0 .. N /\ (n + 1) - 1 = n /\ n \in 0 .. N
    BY <1>1
  <2>2. f[n + 1] = f[n] \o ss[n + 1] /\ f[n] \in Seq(S) /\ ss[n + 1] \in Seq(S)
    BY <1>1, <1>3, <2>1
  <2>3. Len(f[n + 1]) = Len(f[n]) + Len(ss[n + 1]) /\ Len(f[n]) \in Nat /\ Len(ss[n + 1]) \in Nat
    BY <2>2, ConcatProperties, LenProperties
  <2>4. Len(f[n]) <= n * m /\ Len(ss[n + 1]) <= m
    BY <1>5, <2>1
  <2>5. n * m + m = (n + 1) * m /\ n * m \in Nat
    OBVIOUS
  <2>6. \A a, b, c, d \in Nat : a <= c /\ b <= d => a + b <= c + d
    OBVIOUS
  <2>7. Len(f[n + 1]) <= (n + 1) * m
    BY <2>3, <2>4, <2>5, <2>6
  <2> QED
    BY <2>1, <2>7
<1>6. \A n \in 0 .. N : n \in B
  <2> HIDE DEF B
  <2> QED
    BY <1>1, <1>4, <1>5, AllUpTo
<1> QED
  BY <1>1, <1>2, <1>6, JoinedAll, SMTT(20)

-----------------------------------------------------------------------------
(* The timers.                                                              *)

\* create_get_timer() arms one timer, that was not armed before it was free, and
\* touches no other.
LEMMA ArmTimers ==
  ASSUME NEW n \in Nat, NEW tm \in TimersType(n)
  PROVE  /\ CreateGetTimer(tm) = [active  |-> tm.active \cup {TimerToGet(tm)},
                                  expired |-> IF tm.expired = <<>> THEN <<>> ELSE Tail(tm.expired),
                                  made    |-> IF tm.expired = <<>> THEN tm.made + 1 ELSE tm.made]
         /\ tm.made \in 0 .. n /\ tm.active \subseteq 1 .. n /\ tm.expired \in Seq(1 .. n)
         /\ tm.expired # <<>> => TimerToGet(tm) \in 1 .. n
         /\ tm.expired = <<>> => TimerToGet(tm) = tm.made + 1
<1>1. tm.made \in 0 .. n /\ tm.active \subseteq 1 .. n /\ tm.expired \in Seq(1 .. n)
  BY DEF TimersType
<1>2. tm.expired # <<>> => TimerToGet(tm) \in 1 .. n
  BY <1>1, TailRange DEF TimerToGet
<1>3. tm = [active |-> tm.active, expired |-> tm.expired, made |-> tm.made]
  BY DEF TimersType
<1> QED
  BY <1>1, <1>2, <1>3 DEF CreateGetTimer, TimerToGet

TimersOK(tm) == tm.made \in Nat /\ tm \in TimersType(tm.made)

\* A timer that is armed is one of the timers.
LEMMA CreateOK ==
  ASSUME NEW tm, TimersOK(tm)
  PROVE  /\ TimersOK(CreateGetTimer(tm)) /\ CreateGetTimer(tm).made >= tm.made
         /\ TimerToGet(tm) \in 1 .. CreateGetTimer(tm).made
         /\ CreateGetTimer(tm).active = tm.active \cup {TimerToGet(tm)}
<1> USE DEF TimersOK
<1>1. /\ CreateGetTimer(tm) = [active  |-> tm.active \cup {TimerToGet(tm)},
                               expired |-> IF tm.expired = <<>> THEN <<>> ELSE Tail(tm.expired),
                               made    |-> IF tm.expired = <<>> THEN tm.made + 1 ELSE tm.made]
      /\ tm.active \subseteq 1 .. tm.made /\ tm.expired \in Seq(1 .. tm.made)
      /\ tm.expired # <<>> => TimerToGet(tm) \in 1 .. tm.made
      /\ tm.expired = <<>> => TimerToGet(tm) = tm.made + 1
  BY ArmTimers
<1>2. CASE tm.expired = <<>>
  <2>1. <<>> \in Seq(1 .. tm.made + 1)
    BY NothingIn
  <2> QED
    BY <1>1, <1>2, <2>1 DEF TimersType
<1>3. CASE tm.expired # <<>>
  <2>1. Tail(tm.expired) \in Seq(1 .. tm.made)
    BY <1>1, <1>3, TailRange
  <2> QED
    BY <1>1, <1>3, <2>1 DEF TimersType
<1> QED
  BY <1>2, <1>3

\* handle_timeout() leaves the timer that expired, and no other, unarmed.
LEMMA RetireTimer ==
  ASSUME NEW n \in Nat, NEW tm \in TimersType(n), NEW timer \in tm.active
  PROVE  /\ HandleTimeout(tm, timer) \in TimersType(n)
         /\ HandleTimeout(tm, timer).active = tm.active \ {timer}
         /\ HandleTimeout(tm, timer).made = tm.made
         /\ HandleTimeout(tm, timer).expired = IF Len(tm.expired) < MaxTimerCount
                                                 THEN Append(tm.expired, timer) ELSE tm.expired
<1>1. tm.made \in 0 .. n /\ tm.active \subseteq 1 .. n /\ tm.expired \in Seq(1 .. n)
  BY DEF TimersType
<1>2. tm = [active |-> tm.active, expired |-> tm.expired, made |-> tm.made]
  BY DEF TimersType
<1>3. Append(tm.expired, timer) \in Seq(1 .. n)
  BY <1>1, AppendRange
<1> QED
  BY <1>1, <1>2, <1>3 DEF HandleTimeout, TimersType
=============================================================================
