----------------------- MODULE DecoderManagerProofs -----------------------
(***************************************************************************)
(* Proofs, for any tracks, buffers and seeks, that decoding goes on while  *)
(* the manager plays and has a track, that a track reported finished is    *)
(* the one ended but for the exceptions the property names, and that a     *)
(* seek finds a decoder.                                                   *)
(*                                                                         *)
(* What a handler does to the manager is a chain of calls that each take   *)
(* what the one before made of the list, the decoders, the reports and the *)
(* jobs.  The invariant is therefore about values, that the calls are      *)
(* given and leave, before it is about the variables.                      *)
(***************************************************************************)
EXTENDS DecoderManager, OperatorProofs

\* The tracks not yet given to a decoder plugin are last in the list, each once.
FreshLast(lst, known) ==
  \A i, j \in 1 .. Len(lst) :
    i < j /\ lst[i] \notin known => lst[j] \notin known /\ lst[j] # lst[i]

\* One track at most is being decoded for the first time.  While it is, the other
\* known tracks listed are those a seek took back or the output has finished.
OneCurrent(lst, fin, dcs, cls) ==
  \A x, y \in Range(lst) :
    x \in dcs \ cls /\ fin[x] = NoTrack /\ y \in dcs \cup cls =>
      y = x \/ y \in cls \/ fin[y] = y

\* What is filed has been decoded; what is filed under the id of another had been
\* taken back, or finished.
FiledKnown(fin, dcs, cls) ==
  \A t \in Track : fin[t] # NoTrack =>
    /\ t \in dcs \cup cls /\ fin[t] \in dcs \cup cls
    /\ fin[t] = t \/ fin[t] \in cls \/ fin[fin[t]] = fin[t]

\* A track whose end is still to be met is filed under its id, or listed.
PendingListed(lst, fin, dcs, cls, pend) ==
  \A t \in pend : t \in dcs \ cls /\ (fin[t] = t \/ (fin[t] = NoTrack /\ t \in Range(lst)))

\* The lists of the manager and the decoders, for the tracks whose end is to be met
Lists(lst, fin, dcs, cls, pend) ==
  /\ lst \in Seq(Track) /\ fin \in [Track -> Track \cup {NoTrack}]
  /\ dcs \subseteq Track /\ cls \subseteq Track
  /\ FreshLast(lst, dcs \cup cls) /\ OneCurrent(lst, fin, dcs, cls)
  /\ FiledKnown(fin, dcs, cls) /\ PendingListed(lst, fin, dcs, cls, pend)

\* The tracks that have a job of this kind
ForJob(op, js) == {t \in Track : Job(op, t) \in Range(js)}

\* A track is added, and finished, once.
OnceOnly(js) ==
  \A i, j \in 1 .. Len(js) : js[i] = js[j] /\ js[i].op \in {"add", "finish"} => i = j

\* Those reported open, those the output has, and those it reports finished
Pending(rep, snds, js) == Range(rep) \cup Range(snds) \cup ForJob("finish", js)

\* What is on its way to the output and back, and the jobs: a track is added before
\* it is known or listed, known before it is sought, and in one place at once.
Queues(known, listed, rep, snds, js, add) ==
  /\ rep \in Seq(Track) /\ snds \in Seq(Track) /\ js \in Seq(JobType) /\ add \subseteq Track
  /\ IsInjective(rep) /\ IsInjective(snds) /\ Range(rep) \cap Range(snds) = {}
  /\ ForJob("finish", js) \cap (Range(rep) \cup Range(snds)) = {}
  /\ OnceOnly(js)
  /\ known \cup listed \cup ForJob("add", js) \subseteq add
  /\ ForJob("add", js) \cap (known \cup listed) = {}
  /\ ForJob("seek", js) \subseteq known

Good(lst, fin, dcs, cls, rep, snds, js, add) ==
  /\ Lists(lst, fin, dcs, cls, Pending(rep, snds, js))
  /\ Queues(dcs \cup cls, Range(lst), rep, snds, js, add)

-----------------------------------------------------------------------------
(* The lists.                                                               *)

\* Fewer ends to be met ask for less.
LEMMA FewerPending ==
  ASSUME NEW lst, NEW fin, NEW dcs, NEW cls, NEW pend, NEW less \in SUBSET pend,
         Lists(lst, fin, dcs, cls, pend)
  PROVE  Lists(lst, fin, dcs, cls, less)
BY DEF Lists, PendingListed

\* init_decode_internal_single(): the first track gets a decoder.  It is the one being
\* decoded when it is new, and its end will be met if it was reported or posted.
LEMMA GivesDecoder ==
  ASSUME NEW lst, NEW fin, NEW dcs, NEW cls, NEW pend,
         Lists(lst, fin, dcs, cls, pend), lst # <<>>, Head(lst) \notin dcs
  PROVE  /\ Head(lst) \notin pend
         /\ Head(lst) \in cls => Lists(lst, fin, dcs \cup {Head(lst)}, cls, pend)
         /\ Head(lst) \notin cls => Lists(lst, fin, dcs \cup {Head(lst)}, cls, pend \cup {Head(lst)})
<1> DEFINE h == Head(lst)
<1>1. /\ h \in Track /\ h = lst[1] /\ h \in Range(lst) /\ DOMAIN lst = 1 .. Len(lst)
      /\ Len(lst) \in Nat \ {0} /\ 1 \in 1 .. Len(lst)
  BY TailRange, LenProperties DEF Lists
<1> HIDE DEF h
<1>2. /\ lst \in Seq(Track) /\ fin \in [Track -> Track \cup {NoTrack}]
      /\ dcs \subseteq Track /\ cls \subseteq Track /\ h \notin dcs
  BY DEF Lists, h
<1>3. h \notin pend
  BY <1>2 DEF Lists, PendingListed
<1>4. FiledKnown(fin, dcs \cup {h}, cls)
  BY DEF Lists, FiledKnown
<1>5. CASE h \in cls
  <2>1. FreshLast(lst, (dcs \cup {h}) \cup cls)
    BY <1>5 DEF Lists, FreshLast
  <2>2. OneCurrent(lst, fin, dcs \cup {h}, cls)
    BY <1>5 DEF Lists, OneCurrent
  <2>3. PendingListed(lst, fin, dcs \cup {h}, cls, pend)
    BY DEF Lists, PendingListed
  <2> QED
    BY <1>1, <1>2, <1>3, <1>4, <1>5, <2>1, <2>2, <2>3 DEF Lists, h
<1>6. CASE h \notin cls
  <2>1. ASSUME NEW j \in 1 .. Len(lst), j # 1
        PROVE  lst[j] \notin (dcs \cup {h}) \cup cls
    BY <1>1, <1>2, <1>6, <2>1 DEF Lists, FreshLast
  <2>2. FreshLast(lst, (dcs \cup {h}) \cup cls)
    <3> SUFFICES ASSUME NEW i \in 1 .. Len(lst), NEW j \in 1 .. Len(lst), i < j,
                        lst[i] \notin (dcs \cup {h}) \cup cls
                 PROVE  lst[j] \notin (dcs \cup {h}) \cup cls /\ lst[j] # lst[i]
      BY DEF FreshLast
    <3>1. j # 1
      BY <1>1
    <3>2. lst[j] # lst[i]
      BY DEF Lists, FreshLast
    <3> QED
      BY <2>1, <3>1, <3>2
  <2>3. \A y \in Range(lst) : y \in (dcs \cup {h}) \cup cls => y = h
    BY <1>1, <2>1 DEF Range
  <2>4. OneCurrent(lst, fin, dcs \cup {h}, cls)
    BY <2>3 DEF OneCurrent
  <2>5. fin[h] = NoTrack
    BY <1>1, <1>2, <1>6 DEF Lists, FiledKnown
  <2>6. PendingListed(lst, fin, dcs \cup {h}, cls, pend \cup {h})
    BY <1>1, <1>6, <2>5 DEF Lists, PendingListed
  <2> QED
    BY <1>1, <1>2, <1>3, <1>4, <1>6, <2>2, <2>4, <2>6 DEF Lists, h
<1> QED
  BY <1>5, <1>6

\* finish_decode_internal_single() files a track under its own id.
LEMMA FilesItself ==
  ASSUME NEW lst, NEW fin, NEW dcs, NEW cls, NEW pend, NEW t \in dcs,
         Lists(lst, fin, dcs, cls, pend)
  PROVE  Lists(lst, [fin EXCEPT ![t] = t], dcs, cls, pend)
<1> DEFINE new == [fin EXCEPT ![t] = t]
<1>1. /\ t \in Track /\ new \in [Track -> Track \cup {NoTrack}] /\ new[t] = t
      /\ \A u \in Track : u # t => new[u] = fin[u]
  BY DEF Lists
<1>2. \A u \in Track : fin[u] \in Track \cup {NoTrack}
  BY DEF Lists
<1>3. Range(lst) \subseteq Track /\ t # NoTrack
  BY <1>1, InRange, DecoderAssumption DEF Lists
<1> HIDE DEF new
<1>4. OneCurrent(lst, new, dcs, cls)
  BY <1>1, <1>3 DEF Lists, OneCurrent
<1>5. FiledKnown(new, dcs, cls)
  <2> SUFFICES ASSUME NEW u \in Track, new[u] # NoTrack
               PROVE  /\ u \in dcs \cup cls /\ new[u] \in dcs \cup cls
                      /\ new[u] = u \/ new[u] \in cls \/ new[new[u]] = new[u]
    BY DEF FiledKnown
  <2>1. CASE u = t
    BY <1>1, <2>1
  <2>2. CASE u # t
    <3>1. new[u] = fin[u] /\ fin[u] \in Track
      BY <1>1, <1>2, <2>2
    <3>2. /\ u \in dcs \cup cls /\ fin[u] \in dcs \cup cls
          /\ fin[u] = u \/ fin[u] \in cls \/ fin[fin[u]] = fin[u]
      BY <3>1 DEF Lists, FiledKnown
    <3>3. fin[fin[u]] = fin[u] => new[fin[u]] = fin[u]
      BY <1>1, <3>1
    <3> QED
      BY <3>1, <3>2, <3>3
  <2> QED
    BY <2>1, <2>2
<1>6. PendingListed(lst, new, dcs, cls, pend)
  <2>1. pend \subseteq Track
    BY DEF Lists, PendingListed
  <2> QED
    BY <1>1, <2>1 DEF Lists, PendingListed
<1> QED
  BY <1>1, <1>4, <1>5, <1>6 DEF Lists, new

\* It files the first track under the id of the one being decoded, which is not first:
\* that is one taken back, or finished.
LEMMA FilesAnother ==
  ASSUME NEW lst, NEW fin, NEW dcs, NEW cls, NEW pend,
         Lists(lst, fin, dcs, cls, pend), lst # <<>>,
         NEW t \in Range(lst), t \in dcs \ cls, t \notin pend, fin[t] = NoTrack, Head(lst) # t
  PROVE  /\ Lists(lst, [fin EXCEPT ![t] = Head(lst)], dcs, cls, pend)
         /\ Head(lst) \in cls \/ fin[Head(lst)] = Head(lst)
<1> DEFINE new == [fin EXCEPT ![t] = Head(lst)]
           u   == Head(lst)
<1>1. /\ u \in Track /\ u = lst[1] /\ u \in Range(lst) /\ DOMAIN lst = 1 .. Len(lst)
      /\ Len(lst) \in Nat \ {0} /\ 1 \in 1 .. Len(lst)
  BY TailRange, LenProperties DEF Lists
<1> HIDE DEF u
<1>2. /\ t \in Track /\ new \in [Track -> Track \cup {NoTrack}] /\ new[t] = u
      /\ \A v \in Track : v # t => new[v] = fin[v]
  BY <1>1 DEF Lists, u
<1>3. Range(lst) \subseteq Track /\ t # NoTrack /\ u # t
  BY <1>2, InRange, DecoderAssumption DEF Lists, u
<1> HIDE DEF new
\* A new track would be behind it.
<1>4. u \in dcs \cup cls
  <2>1. PICK k \in 1 .. Len(lst) : lst[k] = t
    BY <1>1 DEF Range
  <2>2. 1 < k
    BY <1>1, <1>3, <2>1
  <2> QED
    BY <1>1, <2>1, <2>2 DEF Lists, FreshLast
<1>5. u \in cls \/ fin[u] = u
  BY <1>1, <1>3, <1>4 DEF Lists, OneCurrent
<1>6. OneCurrent(lst, new, dcs, cls)
  <2> SUFFICES ASSUME NEW x \in Range(lst), x \in dcs \ cls, new[x] = NoTrack PROVE FALSE
    BY DEF OneCurrent
  <2>1. x # t /\ fin[x] = NoTrack
    BY <1>1, <1>2, <1>3, DecoderAssumption
  <2> QED
    BY <1>3, <2>1 DEF Lists, OneCurrent
<1>7. FiledKnown(new, dcs, cls)
  <2> SUFFICES ASSUME NEW v \in Track, new[v] # NoTrack
               PROVE  /\ v \in dcs \cup cls /\ new[v] \in dcs \cup cls
                      /\ new[v] = v \/ new[v] \in cls \/ new[new[v]] = new[v]
    BY DEF FiledKnown
  <2>1. CASE v = t
    BY <1>1, <1>2, <1>3, <1>4, <1>5, <2>1
  <2>2. CASE v # t
    <3>1. new[v] = fin[v] /\ fin[v] # NoTrack
      BY <1>2, <2>2
    <3>2. /\ v \in dcs \cup cls /\ fin[v] \in dcs \cup cls
          /\ fin[v] = v \/ fin[v] \in cls \/ fin[fin[v]] = fin[v]
      BY <3>1 DEF Lists, FiledKnown
    <3>3. fin[v] = v \/ fin[v] \in cls \/ (fin[v] \in Track /\ fin[v] # t /\ new[fin[v]] = fin[fin[v]])
      BY <1>2, <1>3, <3>2 DEF Lists
    <3> QED
      BY <3>1, <3>2, <3>3
  <2> QED
    BY <2>1, <2>2
<1>8. PendingListed(lst, new, dcs, cls, pend)
  <2>1. pend \subseteq Track
    BY DEF Lists, PendingListed
  <2> QED
    BY <1>2, <2>1 DEF Lists, PendingListed
<1> QED
  BY <1>2, <1>5, <1>6, <1>7, <1>8 DEF Lists, new, u

\* The first track leaves, its end met, or filed.
LEMMA FirstLeaves ==
  ASSUME NEW lst, NEW fin, NEW dcs, NEW cls, NEW pend,
         Lists(lst, fin, dcs, cls, pend), lst # <<>>,
         Head(lst) \notin pend \/ fin[Head(lst)] # NoTrack
  PROVE  Lists(Tail(lst), fin, dcs, cls, pend)
<1>1. /\ Tail(lst) \in Seq(Track) /\ Len(Tail(lst)) = Len(lst) - 1 /\ Len(lst) \in Nat \ {0}
      /\ \A i \in 1 .. Len(Tail(lst)) : Tail(lst)[i] = lst[i + 1] /\ i + 1 \in 1 .. Len(lst)
      /\ Range(lst) = {Head(lst)} \cup Range(Tail(lst))
  BY TailRange DEF Lists
<1>2. FreshLast(Tail(lst), dcs \cup cls)
  <2> SUFFICES ASSUME NEW i \in 1 .. Len(Tail(lst)), NEW j \in 1 .. Len(Tail(lst)), i < j,
                      Tail(lst)[i] \notin dcs \cup cls
               PROVE  Tail(lst)[j] \notin dcs \cup cls /\ Tail(lst)[j] # Tail(lst)[i]
    BY DEF FreshLast
  <2>1. i + 1 \in 1 .. Len(lst) /\ j + 1 \in 1 .. Len(lst) /\ i + 1 < j + 1
    BY <1>1
  <2>2. Tail(lst)[i] = lst[i + 1] /\ Tail(lst)[j] = lst[j + 1]
    BY <1>1
  <2> QED
    BY <2>1, <2>2 DEF Lists, FreshLast
<1>3. OneCurrent(Tail(lst), fin, dcs, cls)
  BY <1>1 DEF Lists, OneCurrent
<1>4. PendingListed(Tail(lst), fin, dcs, cls, pend)
  BY <1>1 DEF Lists, PendingListed
<1> QED
  BY <1>1, <1>2, <1>3, <1>4 DEF Lists

\* play_finished_callback(): a track whose end was met is closed, and its decoder put
\* back.
LEMMA ClosesTrack ==
  ASSUME NEW lst, NEW fin, NEW dcs, NEW cls, NEW pend, NEW t \in dcs, t \notin pend,
         Lists(lst, fin, dcs, cls, pend)
  PROVE  Lists(lst, [fin EXCEPT ![t] = NoTrack], dcs \ {t}, cls \cup {t}, pend)
<1> DEFINE new == [fin EXCEPT ![t] = NoTrack]
<1>1. /\ t \in Track /\ new \in [Track -> Track \cup {NoTrack}] /\ new[t] = NoTrack
      /\ \A u \in Track : u # t => new[u] = fin[u]
      /\ (dcs \ {t}) \cup (cls \cup {t}) = dcs \cup cls
  BY DEF Lists
<1>2. Range(lst) \subseteq Track
  BY InRange DEF Lists
<1> HIDE DEF new
<1>3. OneCurrent(lst, new, dcs \ {t}, cls \cup {t})
  BY <1>1, <1>2 DEF Lists, OneCurrent
<1>4. FiledKnown(new, dcs \ {t}, cls \cup {t})
  <2> SUFFICES ASSUME NEW u \in Track, new[u] # NoTrack
               PROVE  /\ u \in dcs \cup cls /\ new[u] \in dcs \cup cls
                      /\ new[u] = u \/ new[u] \in cls \cup {t} \/ new[new[u]] = new[u]
    BY <1>1 DEF FiledKnown
  <2>1. u # t /\ new[u] = fin[u]
    BY <1>1
  <2>2. /\ u \in dcs \cup cls /\ fin[u] \in dcs \cup cls
        /\ fin[u] = u \/ fin[u] \in cls \/ fin[fin[u]] = fin[u]
    BY <2>1 DEF Lists, FiledKnown
  <2>3. fin[u] \in cls \cup {t} \/ (fin[u] \in Track /\ new[fin[u]] = fin[fin[u]])
    BY <1>1, <2>2 DEF Lists
  <2> QED
    BY <2>1, <2>2, <2>3
<1>5. PendingListed(lst, new, dcs \ {t}, cls \cup {t}, pend)
  <2>1. pend \subseteq Track /\ t \notin pend
    BY DEF Lists, PendingListed
  <2> QED
    BY <1>1, <2>1 DEF Lists, PendingListed
<1>6. FreshLast(lst, (dcs \ {t}) \cup (cls \cup {t}))
  BY <1>1 DEF Lists
<1> QED
  BY <1>1, <1>3, <1>4, <1>5, <1>6 DEF Lists, new

\* seek_duration() puts a track back that was decoded, or finished by the output.
LEMMA ComesBack ==
  ASSUME NEW lst, NEW fin, NEW dcs, NEW cls, NEW pend,
         Lists(lst, fin, dcs, cls, pend),
         NEW u \in dcs \cup cls, u \in cls \/ fin[u] = u
  PROVE  Lists(<<u>> \o lst, fin, dcs, cls, pend) /\ Range(<<u>> \o lst) = {u} \cup Range(lst)
<1>1. u \in Track /\ u # NoTrack
  BY DecoderAssumption DEF Lists
<1> DEFINE new == <<u>> \o lst
<1>2. lst \in Seq(Track) /\ <<u>> \in Seq(Track) /\ Len(<<u>>) = 1 /\ <<u>>[1] = u /\ Len(lst) \in Nat
  BY <1>1, SingleSeq, LenProperties DEF Lists
<1>3. /\ new \in Seq(Track) /\ Len(new) = Len(<<u>>) + Len(lst)
      /\ \A i \in 1 .. Len(<<u>>) + Len(lst) :
           new[i] = IF i <= Len(<<u>>) THEN <<u>>[i] ELSE lst[i - Len(<<u>>)]
  BY <1>2, ConcatRange
<1>4. Range(new) = {u} \cup Range(lst)
  BY <1>1, <1>2, ConsRange
<1> HIDE DEF new
<1>5. /\ Len(new) = Len(lst) + 1 /\ new[1] = u
      /\ \A i \in 1 .. Len(new) : i # 1 => i - 1 \in 1 .. Len(lst) /\ new[i] = lst[i - 1]
  BY <1>2, <1>3
<1>6. FreshLast(new, dcs \cup cls)
  <2> SUFFICES ASSUME NEW i \in 1 .. Len(new), NEW j \in 1 .. Len(new), i < j,
                      new[i] \notin dcs \cup cls
               PROVE  new[j] \notin dcs \cup cls /\ new[j] # new[i]
    BY DEF FreshLast
  <2>1. i # 1 /\ j # 1
    BY <1>2, <1>5
  <2>2. i - 1 \in 1 .. Len(lst) /\ j - 1 \in 1 .. Len(lst) /\ i - 1 < j - 1
    BY <1>2, <1>5, <2>1
  <2>3. new[i] = lst[i - 1] /\ new[j] = lst[j - 1]
    BY <1>5, <2>1
  <2> QED
    BY <2>2, <2>3 DEF Lists, FreshLast
<1>7. OneCurrent(new, fin, dcs, cls)
  BY <1>1, <1>4 DEF Lists, OneCurrent
<1>8. PendingListed(new, fin, dcs, cls, pend)
  BY <1>4 DEF Lists, PendingListed
<1> QED
  BY <1>3, <1>4, <1>6, <1>7, <1>8 DEF Lists, new

\* seek_duration() moves a known track that is listed to the front.
LEMMA MovesUp ==
  ASSUME NEW lst, NEW fin, NEW dcs, NEW cls, NEW pend,
         Lists(lst, fin, dcs, cls, pend), NEW t \in Range(lst), t \in dcs \cup cls
  PROVE  /\ Lists(<<t>> \o RemoveFirst(lst, t), fin, dcs, cls, pend)
         /\ Range(<<t>> \o RemoveFirst(lst, t)) = Range(lst)
<1> DEFINE rest == RemoveFirst(lst, t)
           new  == <<t>> \o rest
<1>1. lst \in Seq(Track) /\ Len(lst) \in Nat /\ DOMAIN lst = 1 .. Len(lst) /\ t \in Track
  BY LenProperties, InRange DEF Lists
<1>2. /\ rest \in Seq(Track) /\ Len(rest) = Len(lst) - 1
      /\ \E i \in 1 .. Len(lst) :
           /\ lst[i] = t
           /\ \A j \in 1 .. Len(lst) - 1 : rest[j] = IF j < i THEN lst[j] ELSE lst[j + 1]
  BY <1>1, RemoveSome
<1>3. PICK i \in 1 .. Len(lst) :
        /\ lst[i] = t
        /\ \A j \in 1 .. Len(lst) - 1 : rest[j] = IF j < i THEN lst[j] ELSE lst[j + 1]
  BY <1>2
<1> HIDE DEF rest
<1>4. <<t>> \in Seq(Track) /\ Len(<<t>>) = 1 /\ <<t>>[1] = t
  BY <1>1, SingleSeq
<1>5. /\ new \in Seq(Track) /\ Len(new) = Len(<<t>>) + Len(rest)
      /\ \A k \in 1 .. Len(<<t>>) + Len(rest) :
           new[k] = IF k <= Len(<<t>>) THEN <<t>>[k] ELSE rest[k - Len(<<t>>)]
  BY <1>2, <1>4, ConcatRange
<1> HIDE DEF new
\* From which place of the old list the new one has its k-th track
<1> DEFINE From(k) == IF k - 1 < i THEN k - 1 ELSE k
<1>6. /\ Len(new) = Len(lst) /\ new[1] = t
      /\ \A k \in 1 .. Len(new) : k # 1 => From(k) \in 1 .. Len(lst) /\ new[k] = lst[From(k)]
  <2>1. Len(new) = Len(lst) /\ new[1] = t
    BY <1>1, <1>2, <1>4, <1>5
  <2>2. ASSUME NEW k \in 1 .. Len(new), k # 1
        PROVE  From(k) \in 1 .. Len(lst) /\ new[k] = lst[From(k)]
    <3>1. k - 1 \in 1 .. Len(lst) - 1 /\ new[k] = rest[k - 1] /\ (k - 1) + 1 = k
      BY <1>1, <1>2, <1>4, <1>5, <2>1, <2>2
    <3>2. rest[k - 1] = IF k - 1 < i THEN lst[k - 1] ELSE lst[k]
      BY <1>3, <3>1
    <3> QED
      BY <1>1, <2>1, <3>1, <3>2
  <2> QED
    BY <2>1, <2>2
<1>7. \A k, m \in 1 .. Len(new) : k # 1 /\ k < m => From(k) < From(m)
  BY <1>1, <1>3, <1>6
<1>8. FreshLast(new, dcs \cup cls)
  <2> SUFFICES ASSUME NEW k \in 1 .. Len(new), NEW m \in 1 .. Len(new), k < m,
                      new[k] \notin dcs \cup cls
               PROVE  new[m] \notin dcs \cup cls /\ new[m] # new[k]
    BY DEF FreshLast
  <2>1. k # 1 /\ m # 1
    BY <1>1, <1>6
  <2>2. /\ From(k) \in 1 .. Len(lst) /\ From(m) \in 1 .. Len(lst) /\ From(k) < From(m)
        /\ new[k] = lst[From(k)] /\ new[m] = lst[From(m)]
    BY <1>6, <1>7, <2>1
  <2> HIDE DEF From
  <2> QED
    BY <2>2 DEF Lists, FreshLast
<1>9. Range(new) = Range(lst)
  <2>0. DOMAIN new = 1 .. Len(new)
    BY <1>5, LenProperties
  <2>1. Range(new) \subseteq Range(lst)
    <3> SUFFICES ASSUME NEW k \in 1 .. Len(new) PROVE new[k] \in Range(lst)
      BY <2>0 DEF Range
    <3>1. CASE k = 1
      BY <1>6, <3>1
    <3>2. CASE k # 1
      BY <1>1, <1>6, <3>2 DEF Range
    <3> QED
      BY <3>1, <3>2
  <2>2. ASSUME NEW j \in 1 .. Len(lst) PROVE lst[j] \in Range(new)
    <3>1. CASE j = i
      <4>1. lst[j] = new[1] /\ 1 \in 1 .. Len(new)
        BY <1>1, <1>3, <1>6, <3>1
      <4> QED
        BY <2>0, <4>1 DEF Range
    <3>2. CASE j < i
      <4>1. j + 1 \in 1 .. Len(new) /\ j + 1 # 1 /\ From(j + 1) = j
        BY <1>1, <1>3, <1>6, <3>2
      <4>2. new[j + 1] = lst[j]
        BY <1>6, <4>1
      <4> QED
        BY <2>0, <4>1, <4>2 DEF Range
    <3>3. CASE j > i
      <4>1. j \in 1 .. Len(new) /\ j # 1 /\ From(j) = j
        BY <1>1, <1>3, <1>6, <3>3
      <4>2. new[j] = lst[j]
        BY <1>6, <4>1
      <4> QED
        BY <2>0, <4>1, <4>2 DEF Range
    <3>4. j = i \/ j < i \/ j > i
      BY <1>1, <1>3
    <3> QED
      BY <3>1, <3>2, <3>3, <3>4
  <2> QED
    BY <1>1, <2>1, <2>2 DEF Range
<1>10. OneCurrent(new, fin, dcs, cls)
  BY <1>9 DEF Lists, OneCurrent
<1>11. PendingListed(new, fin, dcs, cls, pend)
  BY <1>9 DEF Lists, PendingListed
<1> QED
  BY <1>5, <1>8, <1>9, <1>10, <1>11 DEF Lists, new, rest

\* add_input_url_job_internal() adds a new track at the end.
LEMMA NewTrackLast ==
  ASSUME NEW lst, NEW fin, NEW dcs, NEW cls, NEW pend,
         Lists(lst, fin, dcs, cls, pend), NEW t \in Track, t \notin dcs \cup cls, t \notin Range(lst)
  PROVE  /\ Lists(Append(lst, t), fin, dcs, cls, pend) /\ Append(lst, t) # <<>>
         /\ Range(Append(lst, t)) = Range(lst) \cup {t}
<1>1. lst \in Seq(Track)
  BY DEF Lists
<1>2. /\ Append(lst, t) \in Seq(Track) /\ Len(Append(lst, t)) = Len(lst) + 1
      /\ Append(lst, t) # <<>>
      /\ \A i \in 1 .. Len(lst) : Append(lst, t)[i] = lst[i]
      /\ Append(lst, t)[Len(lst) + 1] = t
  BY <1>1, AppendRange
<1> DEFINE new == Append(lst, t)
<1>3. /\ Len(new) \in Nat /\ DOMAIN new = 1 .. Len(new)
      /\ Len(lst) \in Nat /\ DOMAIN lst = 1 .. Len(lst)
  BY <1>1, <1>2, LenProperties
<1>4. Len(new) = Len(lst) + 1 /\ (\A i \in 1 .. Len(lst) : new[i] = lst[i]) /\ new[Len(lst) + 1] = t
  BY <1>2
<1> HIDE DEF new
<1>8. Range(new) = Range(lst) \cup {t}
  BY <1>3, <1>4 DEF Range
<1>5. FreshLast(new, dcs \cup cls)
  <2> SUFFICES ASSUME NEW i \in 1 .. Len(new), NEW j \in 1 .. Len(new), i < j,
                      new[i] \notin dcs \cup cls
               PROVE  new[j] \notin dcs \cup cls /\ new[j] # new[i]
    BY DEF FreshLast
  <2>1. i \in 1 .. Len(lst) /\ new[i] = lst[i] /\ lst[i] \in Range(lst)
    BY <1>3, <1>4 DEF Range
  <2>2. CASE j \in 1 .. Len(lst)
    BY <1>3, <1>4, <2>1, <2>2 DEF Lists, FreshLast
  <2>3. CASE j = Len(lst) + 1
    BY <1>3, <1>4, <2>1, <2>3
  <2> QED
    BY <1>3, <1>4, <2>2, <2>3
<1>6. OneCurrent(new, fin, dcs, cls)
  BY <1>8 DEF Lists, OneCurrent
<1>7. PendingListed(new, fin, dcs, cls, pend)
  BY <1>8 DEF Lists, PendingListed
<1> QED
  BY <1>1, <1>2, <1>5, <1>6, <1>7, <1>8 DEF Lists, new

-----------------------------------------------------------------------------
(* The jobs, and what is on its way to the output.                          *)

\* A job that adds, seeks or finishes is that of a track; the others are of none.
LEMMA JobOfTrack ==
  /\ \A op \in {"add", "seek", "finish"}, t \in Track :
       Job(op, t) \in JobType /\ Job(op, t).op = op /\ Job(op, t).track = t
  /\ \A job \in JobType : job.op \in {"add", "seek", "finish"} =>
       job.track \in Track /\ job = Job(job.op, job.track)
  /\ \A op \in PluginStates \cup {"decode", "poll"} :
       /\ Control(op) \in JobType /\ Control(op).op = op
       /\ op \notin {"add", "seek", "finish"}
BY DEF Job, Control, JobType, PluginStates

\* What is posted in addition: no track is added, or finished, a second time.
LEMMA PostJobs ==
  ASSUME NEW js \in Seq(JobType), NEW ks \in Seq(JobType), OnceOnly(js), OnceOnly(ks),
         ForJob("add", js) \cap ForJob("add", ks) = {},
         ForJob("finish", js) \cap ForJob("finish", ks) = {}
  PROVE  /\ js \o ks \in Seq(JobType) /\ OnceOnly(js \o ks)
         /\ \A op : ForJob(op, js \o ks) = ForJob(op, js) \cup ForJob(op, ks)
<1> DEFINE new == js \o ks
<1>1. /\ new \in Seq(JobType) /\ Len(new) = Len(js) + Len(ks)
      /\ \A i \in 1 .. Len(js) + Len(ks) : new[i] = IF i <= Len(js) THEN js[i] ELSE ks[i - Len(js)]
      /\ Range(new) = Range(js) \cup Range(ks)
  BY ConcatRange
<1> HIDE DEF new
<1>2. /\ Len(js) \in Nat /\ Len(ks) \in Nat /\ DOMAIN js = 1 .. Len(js) /\ DOMAIN ks = 1 .. Len(ks)
  BY LenProperties
<1>3. ASSUME NEW i \in 1 .. Len(js), NEW k \in 1 .. Len(ks), js[i] = ks[k], js[i].op \in {"add", "finish"}
      PROVE  FALSE
  <2>1. /\ js[i] \in JobType /\ js[i] \in Range(js) /\ ks[k] \in Range(ks)
    BY <1>2 DEF Range
  <2>2. js[i].track \in Track /\ js[i] = Job(js[i].op, js[i].track)
    BY <1>3, <2>1, JobOfTrack
  <2>3. js[i].track \in ForJob(js[i].op, js) /\ js[i].track \in ForJob(js[i].op, ks)
    BY <1>3, <2>1, <2>2 DEF ForJob
  <2> QED
    BY <1>3, <2>3
<1>4. OnceOnly(new)
  <2> SUFFICES ASSUME NEW i \in 1 .. Len(new), NEW j \in 1 .. Len(new), new[i] = new[j],
                      new[i].op \in {"add", "finish"}
               PROVE  i = j
    BY DEF OnceOnly
  <2>1. CASE i <= Len(js) /\ j <= Len(js)
    BY <1>1, <1>2, <2>1 DEF OnceOnly
  <2>2. CASE i > Len(js) /\ j > Len(js)
    <3>1. /\ i - Len(js) \in 1 .. Len(ks) /\ j - Len(js) \in 1 .. Len(ks)
          /\ new[i] = ks[i - Len(js)] /\ new[j] = ks[j - Len(js)]
      BY <1>1, <1>2, <2>2
    <3>2. i - Len(js) = j - Len(js)
      BY <3>1 DEF OnceOnly
    <3> QED
      BY <1>1, <1>2, <3>2
  <2>3. ASSUME NEW a \in 1 .. Len(new), NEW b \in 1 .. Len(new), a <= Len(js), b > Len(js),
               new[a] = new[b], new[a].op \in {"add", "finish"}
        PROVE  FALSE
    <3>1. a \in 1 .. Len(js) /\ b - Len(js) \in 1 .. Len(ks) /\ new[a] = js[a] /\ new[b] = ks[b - Len(js)]
      BY <1>1, <1>2, <2>3
    <3> QED
      BY <1>3, <2>3, <3>1
  <2>4. (i <= Len(js) \/ i > Len(js)) /\ (j <= Len(js) \/ j > Len(js))
    BY <1>1, <1>2
  <2> QED
    BY <2>1, <2>2, <2>3, <2>4
<1>5. \A op : ForJob(op, new) = ForJob(op, js) \cup ForJob(op, ks)
  BY <1>1 DEF ForJob
<1> QED
  BY <1>1, <1>4, <1>5 DEF new

\* A job of a track, posted alone.
LEMMA OneJob ==
  ASSUME NEW op \in {"add", "seek", "finish"}, NEW t \in Track
  PROVE  /\ <<Job(op, t)>> \in Seq(JobType) /\ OnceOnly(<<Job(op, t)>>)
         /\ \A o : ForJob(o, <<Job(op, t)>>) = IF o = op THEN {t} ELSE {}
<1> DEFINE ks == <<Job(op, t)>>
<1>1. Job(op, t) \in JobType
  BY JobOfTrack
<1>2. ks \in Seq(JobType) /\ Range(ks) = {Job(op, t)} /\ Len(ks) = 1
  BY <1>1, SingleSeq
<1>3. OnceOnly(ks)
  BY <1>2 DEF OnceOnly
<1>4. \A o : ForJob(o, ks) = IF o = op THEN {t} ELSE {}
  BY <1>2 DEF ForJob, Job
<1> QED
  BY <1>2, <1>3, <1>4

\* One job of a track posted behind the others.
LEMMA PostOne ==
  ASSUME NEW js \in Seq(JobType), OnceOnly(js), NEW op \in {"add", "seek", "finish"}, NEW t \in Track,
         op # "seek" => t \notin ForJob(op, js)
  PROVE  /\ Append(js, Job(op, t)) \in Seq(JobType) /\ OnceOnly(Append(js, Job(op, t)))
         /\ Append(js, Job(op, t)) = js \o <<Job(op, t)>>
         /\ \A o : ForJob(o, Append(js, Job(op, t))) = ForJob(o, js) \cup IF o = op THEN {t} ELSE {}
<1> DEFINE ks == <<Job(op, t)>>
<1>1. ks \in Seq(JobType) /\ OnceOnly(ks) /\ \A o : ForJob(o, ks) = IF o = op THEN {t} ELSE {}
  BY OneJob
<1>2. Append(js, Job(op, t)) = js \o ks
  BY JobOfTrack, AppendIsConcat
<1> HIDE DEF ks
<1>3. /\ ForJob("add", js) \cap ForJob("add", ks) = {}
      /\ ForJob("finish", js) \cap ForJob("finish", ks) = {}
  BY <1>1
<1>4. /\ js \o ks \in Seq(JobType) /\ OnceOnly(js \o ks)
      /\ \A o : ForJob(o, js \o ks) = ForJob(o, js) \cup ForJob(o, ks)
  BY <1>1, <1>3, PostJobs
<1> QED
  BY <1>1, <1>2, <1>4 DEF ks

\* The first job is run.
LEMMA TakeJob ==
  ASSUME NEW js \in Seq(JobType), js # <<>>, OnceOnly(js)
  PROVE  /\ Tail(js) \in Seq(JobType) /\ OnceOnly(Tail(js)) /\ Head(js) \in JobType
         /\ \A op : ForJob(op, js) = ForJob(op, Tail(js)) \cup {t \in Track : Head(js) = Job(op, t)}
         /\ \A op \in {"add", "finish"}, t \in Track : Head(js) = Job(op, t) => t \notin ForJob(op, Tail(js))
<1>1. /\ Head(js) \in JobType /\ Head(js) = js[1] /\ Tail(js) \in Seq(JobType)
      /\ Len(Tail(js)) = Len(js) - 1 /\ Len(js) \in Nat \ {0}
      /\ \A i \in 1 .. Len(Tail(js)) : Tail(js)[i] = js[i + 1] /\ i + 1 \in 1 .. Len(js)
      /\ Range(js) = {Head(js)} \cup Range(Tail(js))
  BY TailRange
<1>2. OnceOnly(Tail(js))
  <2> SUFFICES ASSUME NEW i \in 1 .. Len(Tail(js)), NEW j \in 1 .. Len(Tail(js)),
                      Tail(js)[i] = Tail(js)[j], Tail(js)[i].op \in {"add", "finish"}
               PROVE  i = j
    BY DEF OnceOnly
  <2>1. i + 1 \in 1 .. Len(js) /\ j + 1 \in 1 .. Len(js) /\ js[i + 1] = js[j + 1] /\ js[i + 1].op \in {"add", "finish"}
    BY <1>1
  <2>2. i + 1 = j + 1
    BY <2>1 DEF OnceOnly
  <2> QED
    BY <1>1, <2>2
<1>3. ASSUME NEW op \in {"add", "finish"}, NEW t \in Track, Head(js) = Job(op, t), Job(op, t) \in Range(Tail(js))
      PROVE  FALSE
  <2>1. PICK i \in 1 .. Len(Tail(js)) : Tail(js)[i] = Job(op, t)
    BY <1>1, <1>3, InRange
  <2>2. i + 1 \in 1 .. Len(js) /\ 1 \in 1 .. Len(js) /\ js[i + 1] = js[1] /\ js[1].op = op
    BY <1>1, <1>3, <2>1 DEF Job
  <2>3. i + 1 = 1
    BY <2>2 DEF OnceOnly
  <2> QED
    BY <1>1, <2>3
<1> QED
  BY <1>1, <1>2, <1>3 DEF ForJob

\* Jobs that neither add, seek nor finish a track
Quiet(ks) ==
  /\ ks \in Seq(JobType) /\ OnceOnly(ks)
  /\ \A op \in {"add", "seek", "finish"} : ForJob(op, ks) = {}

\* The jobs that decoding goes on with are of that kind.
LEMMA QuietJobs ==
  /\ Quiet(<<>>)
  /\ \A op \in PluginStates \cup {"decode", "poll"} : Quiet(<<Control(op)>>)
  /\ \A lst : Quiet(Again(lst))
<1>1. Quiet(<<>>)
  BY NothingIn DEF Quiet, OnceOnly, ForJob
<1>2. ASSUME NEW op \in PluginStates \cup {"decode", "poll"} PROVE Quiet(<<Control(op)>>)
  <2>1. Control(op) \in JobType /\ Control(op).op = op /\ op \notin {"add", "seek", "finish"}
    BY JobOfTrack
  <2>2. /\ <<Control(op)>> \in Seq(JobType) /\ Len(<<Control(op)>>) = 1
        /\ Range(<<Control(op)>>) = {Control(op)}
    BY <2>1, SingleSeq
  <2>3. \A o \in {"add", "seek", "finish"}, t \in Track : Job(o, t) # Control(op)
    BY <2>1, JobOfTrack
  <2> QED
    BY <2>1, <2>2, <2>3 DEF Quiet, OnceOnly, ForJob
<1>3. ASSUME NEW lst PROVE Quiet(Again(lst))
  BY <1>1, <1>2 DEF Again, Decode
<1> QED
  BY <1>1, <1>2, <1>3

\* What is on its way holds of fewer tracks listed.
LEMMA FewerListed ==
  ASSUME NEW known, NEW listed, NEW rep, NEW snds, NEW js, NEW add,
         Queues(known, listed, rep, snds, js, add), NEW less \in SUBSET (known \cup listed)
  PROVE  Queues(known, less, rep, snds, js, add)
BY DEF Queues

\* Posting such jobs changes nothing else.
LEMMA PostQuiet ==
  ASSUME NEW lst, NEW fin, NEW dcs, NEW cls, NEW rep, NEW snds, NEW js, NEW add, NEW ks,
         Good(lst, fin, dcs, cls, rep, snds, js, add), Quiet(ks)
  PROVE  Good(lst, fin, dcs, cls, rep, snds, js \o ks, add)
<1>1. /\ js \o ks \in Seq(JobType) /\ OnceOnly(js \o ks)
      /\ \A op : ForJob(op, js \o ks) = ForJob(op, js) \cup ForJob(op, ks)
  <2>1. /\ js \in Seq(JobType) /\ ks \in Seq(JobType) /\ OnceOnly(js) /\ OnceOnly(ks)
        /\ ForJob("add", js) \cap ForJob("add", ks) = {}
        /\ ForJob("finish", js) \cap ForJob("finish", ks) = {}
    BY DEF Good, Queues, Quiet
  <2> QED
    BY <2>1, PostJobs
<1>2. \A op \in {"add", "seek", "finish"} : ForJob(op, js \o ks) = ForJob(op, js)
  BY <1>1 DEF Quiet
<1>3. Pending(rep, snds, js \o ks) = Pending(rep, snds, js)
  BY <1>2 DEF Pending
<1>4. Queues(dcs \cup cls, Range(lst), rep, snds, js \o ks, add)
  BY <1>1, <1>2 DEF Good, Queues
<1> QED
  BY <1>3, <1>4 DEF Good

\* init_decode_internal_single() of the first track, whatever comes of it.
LEMMA InitSingle ==
  ASSUME NEW lst, NEW fin, NEW dcs, NEW rep, NEW snds, NEW js, NEW add,
         Good(lst, fin, dcs, closed, rep, snds, js, add),
         NEW e \in init_decode_internal_single(lst, dcs)
  PROVE  /\ Good(lst, fin, dcs \cup FirstOf(lst), closed, rep \o e.opens, snds, js \o e.posts, add)
         /\ Pending(rep \o e.opens, snds, js \o e.posts) \ Pending(rep, snds, js) \subseteq FirstOf(lst) \ dcs
<1> DEFINE h == Head(lst)
           pend == Pending(rep, snds, js)
<1>1. /\ Lists(lst, fin, dcs, closed, pend)
      /\ Queues(dcs \cup closed, Range(lst), rep, snds, js, add)
      /\ rep \in Seq(Track) /\ js \in Seq(JobType) /\ snds \in Seq(Track) /\ lst \in Seq(Track)
  BY DEF Good, Queues, Lists
<1>2. rep \o <<>> = rep /\ js \o <<>> = js
  BY <1>1, ConcatEmptySeq
<1>3. CASE lst = <<>> \/ h \in dcs
  <2>1. e = Nothing /\ dcs \cup FirstOf(lst) = dcs
    BY <1>3 DEF init_decode_internal_single, FirstOf
  <2> QED
    BY <1>2, <2>1 DEF Nothing, Effect
<1>4. CASE lst # <<>> /\ h \notin dcs
  <2>1. h \in Range(lst) /\ h \in Track
    BY <1>1, <1>4, TailRange
  <2>2. FirstOf(lst) = {h}
    BY <1>4 DEF FirstOf
  <2>3. \/ e = Nothing
        \/ e = Effect(<<h>>, <<>>) /\ h \notin closed
        \/ e = Effect(<<>>, <<Job("finish", h)>>) /\ h \notin closed
    BY <1>4 DEF init_decode_internal_single, init_flac, init_ffmpeg
  <2> HIDE DEF h, pend
  <2>4. /\ h \notin pend
        /\ h \in closed => Lists(lst, fin, dcs \cup {h}, closed, pend)
        /\ h \notin closed => Lists(lst, fin, dcs \cup {h}, closed, pend \cup {h})
    BY <1>1, <1>4, GivesDecoder DEF h
  <2>5. h \notin Range(rep) /\ h \notin Range(snds) /\ h \notin ForJob("finish", js)
    BY <2>4 DEF pend, Pending
  <2>6. h \notin ForJob("add", js) /\ h \in add
    BY <1>1, <2>1 DEF Queues
  <2>7. Queues((dcs \cup {h}) \cup closed, Range(lst), rep, snds, js, add)
    BY <1>1, <2>1, <2>6 DEF Queues
  <2>8. CASE e = Nothing
    <3>1. Lists(lst, fin, dcs \cup {h}, closed, pend)
      <4>1. CASE h \in closed
        BY <2>4, <4>1
      <4>2. CASE h \notin closed
        <5>1. Lists(lst, fin, dcs \cup {h}, closed, pend \cup {h}) /\ pend \in SUBSET (pend \cup {h})
          BY <2>4, <4>2
        <5> QED
          BY <5>1, FewerPending
      <4> QED
        BY <4>1, <4>2
    <3>2. e.opens = <<>> /\ e.posts = <<>>
      BY <2>8 DEF Nothing, Effect
    <3> QED
      BY <1>2, <2>2, <2>7, <3>1, <3>2 DEF Good, pend
  <2>9. CASE e = Effect(<<h>>, <<>>) /\ h \notin closed
    <3>1. e.opens = <<h>> /\ e.posts = <<>>
      BY <2>9 DEF Effect
    <3>2. <<h>> \in Seq(Track) /\ Range(<<h>>) = {h} /\ IsInjective(<<h>>)
      BY <2>1, SingleSeq
    <3>3. /\ rep \o <<h>> \in Seq(Track) /\ Range(rep \o <<h>>) = Range(rep) \cup Range(<<h>>)
          /\ IsInjective(rep \o <<h>>)
               <=> IsInjective(rep) /\ IsInjective(<<h>>) /\ Range(rep) \cap Range(<<h>>) = {}
      BY <1>1, <3>2, ConcatRange
    <3>4. Range(rep \o <<h>>) = Range(rep) \cup {h} /\ IsInjective(rep \o <<h>>)
      BY <1>1, <2>5, <3>2, <3>3 DEF Queues
    <3>5. Queues((dcs \cup {h}) \cup closed, Range(lst), rep \o <<h>>, snds, js, add)
      BY <2>5, <2>7, <3>3, <3>4 DEF Queues
    <3>6. Pending(rep \o <<h>>, snds, js) = pend \cup {h}
      BY <3>4 DEF pend, Pending
    <3> QED
      BY <1>2, <1>4, <2>2, <2>4, <2>9, <3>1, <3>5, <3>6 DEF Good, pend
  <2>10. CASE e = Effect(<<>>, <<Job("finish", h)>>) /\ h \notin closed
    <3> DEFINE ks == <<Job("finish", h)>>
    <3>1. e.opens = <<>> /\ e.posts = ks
      BY <2>10 DEF Effect
    <3>2. OnceOnly(js) /\ h \notin ForJob("finish", js)
      BY <1>1, <2>5 DEF Queues
    <3>3. /\ Append(js, Job("finish", h)) \in Seq(JobType) /\ OnceOnly(Append(js, Job("finish", h)))
          /\ Append(js, Job("finish", h)) = js \o ks
          /\ \A o : ForJob(o, Append(js, Job("finish", h))) = ForJob(o, js) \cup IF o = "finish" THEN {h} ELSE {}
      BY <1>1, <2>1, <3>2, PostOne
    <3> HIDE DEF ks
    <3>6. /\ js \o ks \in Seq(JobType) /\ OnceOnly(js \o ks)
          /\ \A o : ForJob(o, js \o ks) = ForJob(o, js) \cup IF o = "finish" THEN {h} ELSE {}
      BY <3>3
    <3>7. /\ ForJob("add", js \o ks) = ForJob("add", js) /\ ForJob("seek", js \o ks) = ForJob("seek", js)
          /\ ForJob("finish", js \o ks) = ForJob("finish", js) \cup {h}
      BY <3>6
    <3>8. Queues((dcs \cup {h}) \cup closed, Range(lst), rep, snds, js \o ks, add)
      BY <2>5, <2>7, <3>6, <3>7 DEF Queues
    <3>9. Pending(rep, snds, js \o ks) = pend \cup {h}
      BY <3>7 DEF pend, Pending
    <3> QED
      BY <1>2, <1>4, <2>2, <2>4, <2>10, <3>1, <3>8, <3>9 DEF Good, pend
  <2> QED
    BY <2>3, <2>8, <2>9, <2>10
<1> QED
  BY <1>3, <1>4

\* finish_decode_internal_single(), when the track that leaves may: its successor gets
\* a decoder.
LEMMA GoesToNext ==
  ASSUME NEW lst, NEW fin, NEW dcs, NEW rep, NEW snds, NEW js, NEW add,
         Good(lst, fin, dcs, closed, rep, snds, js, add), lst # <<>>,
         Head(lst) \notin Pending(rep, snds, js) \/ fin[Head(lst)] # NoTrack,
         NEW e \in init_decode_internal_single(Tail(lst), dcs)
  PROVE  /\ Good(Tail(lst), fin, dcs \cup FirstOf(Tail(lst)), closed,
                 rep \o e.opens, snds, js \o e.posts, add)
         /\ Pending(rep \o e.opens, snds, js \o e.posts) \cap dcs \subseteq Pending(rep, snds, js)
<1>1. Lists(lst, fin, dcs, closed, Pending(rep, snds, js))
  BY DEF Good
<1>2. Lists(Tail(lst), fin, dcs, closed, Pending(rep, snds, js))
  BY <1>1, FirstLeaves
<1>3. Range(Tail(lst)) \subseteq Range(lst)
  BY <1>1, TailRange DEF Lists
<1>4. Queues(dcs \cup closed, Range(Tail(lst)), rep, snds, js, add)
  BY <1>3, FewerListed DEF Good
<1>5. Good(Tail(lst), fin, dcs, closed, rep, snds, js, add)
  BY <1>2, <1>4 DEF Good
<1>6. /\ Good(Tail(lst), fin, dcs \cup FirstOf(Tail(lst)), closed,
              rep \o e.opens, snds, js \o e.posts, add)
      /\ Pending(rep \o e.opens, snds, js \o e.posts) \ Pending(rep, snds, js)
           \subseteq FirstOf(Tail(lst)) \ dcs
  BY <1>5, InitSingle
<1> QED
  BY <1>6

-----------------------------------------------------------------------------
(* decode_cont() and its callers.                                           *)

\* A job that decodes on is on its way.
Chained(js) == \E i \in DOMAIN js : js[i].op \in {"decode", "play", "poll"}

\* Decoding goes on when the manager plays and has a track.
GoesOn(st, lst, tm, js) == st = "play" /\ lst # <<>> => tm.active # {} \/ Chained(js)

\* Such a job stays, until it is the first.
LEMMA ChainKept ==
  ASSUME NEW js \in Seq(JobType), NEW ks \in Seq(JobType)
  PROVE  /\ Chained(js \o ks) <=> Chained(js) \/ Chained(ks)
         /\ js # <<>> /\ Head(js).op \notin {"decode", "play", "poll"} /\ Chained(js) => Chained(Tail(js))
<1> DEFINE In(s) == \E job \in Range(s) : job.op \in {"decode", "play", "poll"}
<1>1. \A s : Chained(s) <=> In(s)
  BY DEF Chained, Range
<1>2. Range(js \o ks) = Range(js) \cup Range(ks)
  BY ConcatRange
<1>3. js # <<>> => Range(js) = {Head(js)} \cup Range(Tail(js))
  BY TailRange
<1> QED
  BY <1>1, <1>2, <1>3

\* A job of the chain that was just posted is found.
LEMMA Posted ==
  ASSUME NEW js \in Seq(JobType), NEW op \in {"decode", "play", "poll"}, NEW st, NEW lst, NEW tm
  PROVE  /\ GoesOn(st, lst, tm, js \o <<Control(op)>>)
         /\ js \o <<Control(op)>> = Append(js, Control(op))
<1>1. Control(op) \in JobType /\ Control(op).op = op
  BY DEF Control, JobType, PluginStates
<1>2. <<Control(op)>> \in Seq(JobType) /\ Range(<<Control(op)>>) = {Control(op)}
  BY <1>1, SingleSeq
<1>3. Chained(<<Control(op)>>)
  BY <1>1, <1>2 DEF Chained, Range
<1>4. Chained(js \o <<Control(op)>>)
  BY <1>2, <1>3, ChainKept
<1>5. js \o <<Control(op)>> = Append(js, Control(op))
  BY <1>1, AppendIsConcat
<1> QED
  BY <1>4, <1>5 DEF GoesOn

\* What decode_cont() leaves, from what it is given
LEMMA DecodeGoesOn ==
  ASSUME NEW st, NEW lst, NEW dcs, NEW op, NEW js, NEW tm,
         Good(lst, finished, dcs, closed, op, sounds, js, added),
         room \in [Track -> 0 .. Room], TimersOK(tm), decodeTimer \in 0 .. tm.made,
         decode_cont(st, lst, dcs, op, js, tm)
  PROVE  /\ Good(list', finished', decoders', closed, opened', sounds, jobs', added)
         /\ dcs \subseteq decoders' /\ room' \in [Track -> 0 .. Room]
         /\ TimersOK(timers') /\ decodeTimer' \in 0 .. timers'.made /\ tm.active \subseteq timers'.active
         /\ GoesOn(st, list', timers', jobs')
<1>1. CASE ~MayDecode(st, lst, tm) /\ Set(lst, dcs, op, js) /\ timers' = tm /\ UNCHANGED <<finished, room, decodeTimer>>
  BY <1>1 DEF Set, MayDecode, is_active_timer, GoesOn
<1>2. CASE Set(lst, dcs, op, js) /\ ArmTimer(tm) /\ UNCHANGED <<finished, room>>
  <2>1. /\ TimersOK(CreateGetTimer(tm)) /\ CreateGetTimer(tm).made >= tm.made
        /\ TimerToGet(tm) \in 1 .. CreateGetTimer(tm).made
        /\ CreateGetTimer(tm).active = tm.active \cup {TimerToGet(tm)}
    BY CreateOK
  <2>2. timers' = CreateGetTimer(tm) /\ decodeTimer' = TimerToGet(tm)
    BY <1>2 DEF ArmTimer
  <2>3. /\ TimersOK(timers') /\ decodeTimer' \in 0 .. timers'.made
        /\ tm.active \subseteq timers'.active /\ timers'.active # {}
    BY <2>1, <2>2 DEF TimersOK
  <2> QED
    BY <1>2, <2>3 DEF Set, GoesOn
<1>3. CASE MayDecode(st, lst, tm) /\ ~NoRoom(Head(lst)) /\ DecodeFirst(lst, dcs, op, js, tm)
  <2> DEFINE t == Head(lst)
  <2>1. lst \in Seq(Track) /\ lst # <<>> /\ t \in Track
    BY <1>3, TailRange DEF MayDecode, Good, Lists
  <2> HIDE DEF t
  <2>2. timers' = tm /\ decodeTimer' = decodeTimer
    BY <1>3 DEF DecodeFirst
  <2>3. PICK result \in decode(t, dcs) :
          IF result = "end"
            THEN /\ finished' = Filed(t, lst) /\ UNCHANGED room
                 /\ NextTrack(lst, dcs, op, js, Again(Tail(lst)))
            ELSE /\ \E n \in IF result = "frame" THEN RoomAfterFrame(t) ELSE {room[t]} :
                      room' = [room EXCEPT ![t] = n]
                 /\ Set(lst, dcs, op, js \o Again(lst)) /\ UNCHANGED finished
    BY <1>3 DEF DecodeFirst, t
  <2>4. CASE result = "end"
    <3>1. t \in dcs
      BY <2>3, <2>4 DEF decode, decode_flac, decode_ffmpeg
    <3>2. finished' = [finished EXCEPT ![t] = t] /\ room' = room
      BY <2>3, <2>4 DEF Filed, t
    <3>3. finished'[t] = t /\ t # NoTrack
      BY <2>1, <3>2, DecoderAssumption DEF Good, Lists
    <3>4. Lists(lst, finished', dcs, closed, Pending(op, sounds, js))
      BY <3>1, <3>2, FilesItself DEF Good
    <3>5. Good(lst, finished', dcs, closed, op, sounds, js, added)
      BY <3>4 DEF Good
    <3>6. NextTrack(lst, dcs, op, js, Again(Tail(lst)))
      BY <2>3, <2>4
    <3>7. PICK e \in init_decode_internal_single(Tail(lst), dcs) :
            Set(Tail(lst), dcs \cup FirstOf(Tail(lst)), op \o e.opens, js \o e.posts \o Again(Tail(lst)))
      BY <3>6 DEF NextTrack
    <3>8. Good(Tail(lst), finished', dcs \cup FirstOf(Tail(lst)), closed, op \o e.opens, sounds, js \o e.posts, added)
      BY <2>1, <3>3, <3>5, GoesToNext DEF t
    <3>9. Good(Tail(lst), finished', dcs \cup FirstOf(Tail(lst)), closed, op \o e.opens, sounds,
               js \o e.posts \o Again(Tail(lst)), added)
      BY <3>8, QuietJobs, PostQuiet
    <3>10. GoesOn(st, Tail(lst), tm, js \o e.posts \o Again(Tail(lst)))
      <4>1. js \o e.posts \in Seq(JobType)
        BY <3>8 DEF Good, Queues
      <4>2. CASE Tail(lst) = <<>>
        BY <4>2 DEF GoesOn
      <4>3. CASE Tail(lst) # <<>>
        BY <4>1, <4>3, Posted DEF Again, Decode
      <4> QED
        BY <4>2, <4>3
    <3> QED
      BY <2>2, <3>2, <3>7, <3>9, <3>10 DEF Set
  <2>5. CASE result # "end"
    <3>1. room[t] \in 0 .. Room /\ room[t] # 0 /\ Room \in Nat
      BY <1>3, <2>1, DecoderAssumption DEF NoRoom, t
    <3>2. RoomAfterFrame(t) \subseteq 0 .. Room
      BY <3>1 DEF RoomAfterFrame, write_callback, decode_new
    <3>3. room' \in [Track -> 0 .. Room]
      BY <2>1, <2>3, <2>5, <3>1, <3>2
    <3>4. Set(lst, dcs, op, js \o Again(lst)) /\ finished' = finished
      BY <2>3, <2>5
    <3>5. Good(lst, finished, dcs, closed, op, sounds, js \o Again(lst), added)
      BY QuietJobs, PostQuiet
    <3>6. GoesOn(st, lst, tm, js \o Again(lst))
      <4>1. js \in Seq(JobType)
        BY DEF Good, Queues
      <4> QED
        BY <2>1, <4>1, Posted DEF Again, Decode
    <3> QED
      BY <2>2, <3>3, <3>4, <3>5, <3>6 DEF Set
  <2> QED
    BY <2>4, <2>5
<1> QED
  BY <1>1, <1>2, <1>3 DEF decode_cont

\* cont_internal() leaves as much.
LEMMA ContGoesOn ==
  ASSUME NEW st, NEW js, NEW tm,
         Good(list, finished, decoders, closed, opened, sounds, js, added),
         room \in [Track -> 0 .. Room], TimersOK(tm), decodeTimer \in 0 .. tm.made,
         cont_internal(st, js, tm)
  PROVE  /\ Good(list', finished', decoders', closed, opened', sounds, jobs', added)
         /\ decoders \subseteq decoders' /\ room' \in [Track -> 0 .. Room]
         /\ TimersOK(timers') /\ decodeTimer' \in 0 .. timers'.made /\ tm.active \subseteq timers'.active
         /\ GoesOn(st, list', timers', jobs')
<1>1. CASE list = <<>>
  <2>1. js \in Seq(JobType)
    BY DEF Good, Queues
  <2>2. GoesOn(st, list, tm, Append(js, Control("poll"))) /\ js \o <<Control("poll")>> = Append(js, Control("poll"))
    BY <2>1, Posted
  <2>3. Good(list, finished, decoders, closed, opened, sounds, js \o <<Control("poll")>>, added)
    BY QuietJobs, PostQuiet
  <2> QED
    BY <1>1, <2>2, <2>3 DEF cont_internal, Set
<1>2. CASE list # <<>>
  <2>1. PICK e \in init_decode_internal_single(list, decoders) :
          decode_cont(st, list, decoders \cup FirstOf(list), opened \o e.opens, js \o e.posts, tm)
    BY <1>2 DEF cont_internal
  <2>2. Good(list, finished, decoders \cup FirstOf(list), closed, opened \o e.opens, sounds, js \o e.posts, added)
    BY InitSingle
  <2> QED
    BY <2>1, <2>2, DecodeGoesOn
<1> QED
  BY <1>1, <1>2

-----------------------------------------------------------------------------
(* The invariant.                                                           *)

\* What an output buffer was given to has, or had, a decoder; decoding goes on, or
\* a cont() is to be posted; and the values the other variables have.
IInv ==
  /\ Good(list, finished, decoders, closed, opened, sounds, jobs, added)
  /\ outBuf \subseteq decoders \cup closed
  /\ state \in PluginStates /\ room \in [Track -> 0 .. Room]
  /\ TimersOK(timers) /\ decodeTimer \in 0 .. timers.made /\ polls \subseteq timers.active
  /\ contDue \in BOOLEAN /\ seeks \in 0 .. MaxSeeks
  /\ contDue \/ GoesOn(state, list, timers, jobs)

\* The program begins with nothing.
LEMMA InitIInv == Init => IInv
<1> SUFFICES ASSUME Init PROVE IInv
  OBVIOUS
<1>1. Range(<<>>) = {} /\ <<>> \in Seq(Track) /\ IsInjective(<<>>) /\ Len(<<>>) = 0
  BY NothingIn
<1>2. Pending(opened, sounds, jobs) = {} /\ \A op : ForJob(op, jobs) = {}
  BY <1>1 DEF Init, Pending, ForJob
<1>3. Queues(decoders \cup closed, Range(list), opened, sounds, jobs, added)
  BY <1>1, <1>2, QuietJobs DEF Init, Queues, Quiet
<1>4. Lists(list, finished, decoders, closed, Pending(opened, sounds, jobs))
  BY <1>1, <1>2 DEF Init, Lists, FreshLast, OneCurrent, FiledKnown, PendingListed
<1>5. TimersOK(NoTimers)
  BY NothingIn DEF NoTimers, TimersOK, TimersType
<1>6. Room \in Nat /\ MaxSeeks \in Nat
  BY DecoderAssumption
<1>7. timers = NoTimers /\ decodeTimer = 0 /\ NoTimers.made = 0 /\ polls = {} /\ outBuf = {} /\ list = <<>>
  BY DEF Init, NoTimers, NoTimer
<1>8. state \in PluginStates /\ contDue \in BOOLEAN /\ seeks = 0 /\ room = [t \in Track |-> Room]
  BY DEF Init
<1>9. decodeTimer \in 0 .. timers.made /\ seeks \in 0 .. MaxSeeks /\ room \in [Track -> 0 .. Room]
  BY <1>6, <1>7, <1>8
<1>10. GoesOn(state, list, timers, jobs)
  BY <1>7 DEF GoesOn
<1> QED
  BY <1>3, <1>4, <1>5, <1>7, <1>8, <1>9, <1>10 DEF IInv, Good

\* A job is taken: what holds of its track, and of the others.
LEMMA JobTaken ==
  ASSUME IInv, jobs # <<>>
  PROVE  /\ Good(list, finished, decoders, closed, opened, sounds, Rest, added)
         /\ Head(jobs) \in JobType
         /\ Head(jobs).op \notin {"decode", "play", "poll"} => contDue \/ GoesOn(state, list, timers, Rest)
         /\ Head(jobs).op = "add" => LET t == Head(jobs).track
              IN t \in added /\ t \notin decoders \cup closed \cup Range(list) \cup ForJob("add", Rest)
         /\ Head(jobs).op = "seek" => Head(jobs).track \in decoders \cup closed
         /\ Head(jobs).op = "finish" => LET t == Head(jobs).track
              IN t \in Pending(opened, sounds, jobs) /\ t \notin Pending(opened, sounds, Rest)
<1>1. /\ Lists(list, finished, decoders, closed, Pending(opened, sounds, jobs))
      /\ Queues(decoders \cup closed, Range(list), opened, sounds, jobs, added)
      /\ jobs \in Seq(JobType) /\ OnceOnly(jobs)
  BY DEF IInv, Good, Queues
<1>2. /\ Tail(jobs) \in Seq(JobType) /\ OnceOnly(Tail(jobs)) /\ Head(jobs) \in JobType
      /\ \A op : ForJob(op, jobs) = ForJob(op, Tail(jobs)) \cup {t \in Track : Head(jobs) = Job(op, t)}
      /\ \A op \in {"add", "finish"}, t \in Track :
           Head(jobs) = Job(op, t) => t \notin ForJob(op, Tail(jobs))
  BY <1>1, TakeJob
<1>3. Queues(decoders \cup closed, Range(list), opened, sounds, Rest, added)
  BY <1>1, <1>2 DEF Queues, Rest
<1>4. Pending(opened, sounds, Rest) \in SUBSET Pending(opened, sounds, jobs)
  BY <1>2 DEF Pending, Rest
<1>5. Lists(list, finished, decoders, closed, Pending(opened, sounds, Rest))
  BY <1>1, <1>4, FewerPending
<1>6. Head(jobs).op \in {"add", "seek", "finish"} =>
        Head(jobs).track \in Track /\ Head(jobs) = Job(Head(jobs).op, Head(jobs).track)
  BY <1>2, JobOfTrack
<1>7. Head(jobs).op \in {"add", "seek", "finish"} => Head(jobs).track \in ForJob(Head(jobs).op, jobs)
  BY <1>2, <1>6
<1>8. ASSUME Head(jobs).op \notin {"decode", "play", "poll"}
      PROVE  contDue \/ GoesOn(state, list, timers, Rest)
  BY <1>1, <1>8, ChainKept DEF IInv, GoesOn, Rest
<1>9. ASSUME Head(jobs).op = "add"
      PROVE  LET t == Head(jobs).track
             IN t \in added /\ t \notin decoders \cup closed \cup Range(list) \cup ForJob("add", Rest)
  BY <1>1, <1>2, <1>6, <1>7, <1>9 DEF Queues, Rest
<1>10. ASSUME Head(jobs).op = "seek"
       PROVE  Head(jobs).track \in decoders \cup closed
  BY <1>1, <1>7, <1>10 DEF Queues
<1>11. ASSUME Head(jobs).op = "finish"
       PROVE  LET t == Head(jobs).track
              IN t \in Pending(opened, sounds, jobs) /\ t \notin Pending(opened, sounds, Rest)
  <2> DEFINE t == Head(jobs).track
  <2>1. t \in ForJob("finish", jobs) /\ t \notin ForJob("finish", Rest)
    BY <1>2, <1>6, <1>7, <1>11 DEF Rest
  <2>2. t \notin Range(opened) \cup Range(sounds)
    BY <1>1, <2>1 DEF Queues
  <2> QED
    BY <2>1, <2>2 DEF Pending
<1> QED
  BY <1>2, <1>3, <1>5, <1>8, <1>9, <1>10, <1>11 DEF Good

-----------------------------------------------------------------------------
(* What other threads do keeps the invariant.                               *)

\* A track is added, behind which a cont() is due.
LEMMA AddInputUrlKeeps == IInv /\ AddInputUrl => IInv'
<1> SUFFICES ASSUME IInv, AddInputUrl PROVE IInv'
  OBVIOUS
<1>1. PICK t \in Track \ added :
        /\ contDue' = TRUE /\ jobs' = Append(jobs, Job("add", t)) /\ added' = added \cup {t}
        /\ UNCHANGED <<state, decoded, output, room, clocks, seeks, closed>>
  BY DEF AddInputUrl, add_job
<1>2. Queues(decoders \cup closed, Range(list), opened, sounds, jobs, added)
  BY DEF IInv, Good
<1>3. jobs \in Seq(JobType) /\ OnceOnly(jobs) /\ t \in Track /\ t \notin ForJob("add", jobs)
  BY <1>1, <1>2 DEF Queues
<1>4. /\ jobs' \in Seq(JobType) /\ OnceOnly(jobs')
      /\ \A o : ForJob(o, jobs') = ForJob(o, jobs) \cup IF o = "add" THEN {t} ELSE {}
  <2>1. /\ Append(jobs, Job("add", t)) \in Seq(JobType) /\ OnceOnly(Append(jobs, Job("add", t)))
        /\ \A o : ForJob(o, Append(jobs, Job("add", t))) = ForJob(o, jobs) \cup IF o = "add" THEN {t} ELSE {}
    BY <1>3, PostOne
  <2> QED
    BY <1>1, <2>1
<1>5. Pending(opened, sounds, jobs') = Pending(opened, sounds, jobs)
  BY <1>4 DEF Pending
<1>6. /\ ForJob("add", jobs') = ForJob("add", jobs) \cup {t}
      /\ ForJob("seek", jobs') = ForJob("seek", jobs) /\ ForJob("finish", jobs') = ForJob("finish", jobs)
  BY <1>4
<1>7. Queues(decoders \cup closed, Range(list), opened, sounds, jobs', added')
  BY <1>1, <1>2, <1>4, <1>6 DEF Queues
<1>8. Good(list, finished, decoders, closed, opened, sounds, jobs', added')
  BY <1>5, <1>7 DEF IInv, Good
<1> QED
  BY <1>1, <1>8 DEF IInv, decoded, output, clocks

\* The cont() that is due is posted.
LEMMA ContAfterAddKeeps == IInv /\ ContAfterAdd => IInv'
<1> SUFFICES ASSUME IInv, ContAfterAdd PROVE IInv'
  OBVIOUS
<1>1. /\ contDue' = FALSE /\ jobs' = Append(jobs, Control("play"))
      /\ UNCHANGED <<state, decoded, output, room, clocks, added, seeks, closed>>
  BY DEF ContAfterAdd, add_job
<1>2. jobs \in Seq(JobType)
  BY DEF IInv, Good, Queues
<1>3. /\ GoesOn(state, list, timers, jobs \o <<Control("play")>>)
      /\ jobs \o <<Control("play")>> = Append(jobs, Control("play"))
  BY <1>2, Posted
<1>4. Quiet(<<Control("play")>>)
  BY QuietJobs DEF PluginStates
<1>5. Good(list, finished, decoders, closed, opened, sounds, jobs \o <<Control("play")>>, added)
  BY <1>4, PostQuiet DEF IInv
<1> QED
  BY <1>1, <1>3, <1>5 DEF IInv, decoded, output, clocks

\* Pause and stop are posted.
LEMMA ControlKeeps == IInv /\ ControlDecoder => IInv'
<1> SUFFICES ASSUME IInv, ControlDecoder PROVE IInv'
  OBVIOUS
<1>1. /\ jobs' = Append(jobs, Control("idle"))
      /\ UNCHANGED <<state, decoded, output, room, clocks, user, closed>>
  BY DEF ControlDecoder, add_job
<1>2. jobs \in Seq(JobType)
  BY DEF IInv, Good, Queues
<1>3. Quiet(<<Control("idle")>>)
  BY QuietJobs DEF PluginStates
<1>4. Control("idle") \in JobType
  BY JobOfTrack DEF PluginStates
<1>5. jobs' = jobs \o <<Control("idle")>>
  BY <1>1, <1>2, <1>4, AppendIsConcat
<1>6. Good(list, finished, decoders, closed, opened, sounds, jobs', added)
  BY <1>3, <1>5, PostQuiet DEF IInv
<1>7. Chained(jobs) => Chained(jobs')
  BY <1>2, <1>3, <1>5, ChainKept DEF Quiet
<1>8. contDue \/ GoesOn(state, list, timers, jobs')
  BY <1>7 DEF IInv, GoesOn
<1> QED
  BY <1>1, <1>6, <1>8 DEF IInv, decoded, output, clocks, user

\* A seek is posted, of a track that has, or had, a decoder.
LEMMA SeekDurationKeeps == IInv /\ SeekDuration => IInv'
<1> SUFFICES ASSUME IInv, SeekDuration PROVE IInv'
  OBVIOUS
<1>1. PICK t \in Track :
        /\ \/ sounds # <<>> /\ t = Head(sounds)
           \/ t \in outBuf \ Range(sounds)
        /\ seeks < MaxSeeks /\ seeks' = seeks + 1 /\ jobs' = Append(jobs, Job("seek", t))
        /\ UNCHANGED <<state, decoded, output, room, clocks, added, contDue, closed>>
  BY DEF SeekDuration, add_job
<1>2. Queues(decoders \cup closed, Range(list), opened, sounds, jobs, added)
  BY DEF IInv, Good
<1>3. jobs \in Seq(JobType) /\ OnceOnly(jobs) /\ sounds \in Seq(Track)
  BY <1>2 DEF Queues
<1>4. t \in decoders \cup closed
  <2>1. sounds # <<>> => Head(sounds) \in Pending(opened, sounds, jobs)
    BY <1>3, TailRange DEF Pending
  <2> QED
    BY <1>1, <2>1 DEF IInv, Good, Lists, PendingListed
<1>5. /\ jobs' \in Seq(JobType) /\ OnceOnly(jobs') /\ jobs' = jobs \o <<Job("seek", t)>>
      /\ \A o : ForJob(o, jobs') = ForJob(o, jobs) \cup IF o = "seek" THEN {t} ELSE {}
  BY <1>1, <1>3, PostOne
<1>6. /\ ForJob("seek", jobs') = ForJob("seek", jobs) \cup {t}
      /\ ForJob("add", jobs') = ForJob("add", jobs) /\ ForJob("finish", jobs') = ForJob("finish", jobs)
  BY <1>5
<1>7. Queues(decoders \cup closed, Range(list), opened, sounds, jobs', added)
  BY <1>2, <1>4, <1>5, <1>6 DEF Queues
<1>8. Good(list, finished, decoders, closed, opened, sounds, jobs', added)
  BY <1>6, <1>7 DEF IInv, Good, Pending
<1>9. contDue \/ GoesOn(state, list, timers, jobs')
  <2>1. <<Job("seek", t)>> \in Seq(JobType)
    BY OneJob
  <2>2. Chained(jobs) => Chained(jobs')
    BY <1>3, <1>5, <2>1, ChainKept
  <2> QED
    BY <2>2 DEF IInv, GoesOn
<1>10. seeks' \in 0 .. MaxSeeks
  BY <1>1, DecoderAssumption DEF IInv
<1> QED
  BY <1>1, <1>8, <1>9, <1>10 DEF IInv, decoded, output, clocks

\* The output takes a track up.
LEMMA SetCacheBufferKeeps == IInv /\ set_cache_buffer => IInv'
<1> SUFFICES ASSUME IInv, set_cache_buffer PROVE IInv'
  OBVIOUS
<1> DEFINE h == Head(opened)
<1>1. /\ opened # <<>> /\ opened' = Tail(opened) /\ sounds' = Append(sounds, h)
      /\ outBuf' = outBuf \cup ({h} \cap Range(list))
      /\ UNCHANGED <<state, list, finished, decoders, room, jobs, clocks, user, closed>>
  BY DEF set_cache_buffer
<1>2. /\ Queues(decoders \cup closed, Range(list), opened, sounds, jobs, added)
      /\ opened \in Seq(Track) /\ sounds \in Seq(Track) /\ IsInjective(opened) /\ IsInjective(sounds)
      /\ Range(opened) \cap Range(sounds) = {}
  BY DEF IInv, Good, Queues
<1>3. /\ h \in Track /\ Tail(opened) \in Seq(Track)
      /\ Range(opened) = {h} \cup Range(Tail(opened))
      /\ IsInjective(Tail(opened)) /\ h \notin Range(Tail(opened))
  BY <1>1, <1>2, TailRange
<1> HIDE DEF h
<1>4. /\ <<h>> \in Seq(Track) /\ Range(<<h>>) = {h} /\ IsInjective(<<h>>)
      /\ Append(sounds, h) = sounds \o <<h>>
  BY <1>2, <1>3, SingleSeq, AppendIsConcat
<1>5. /\ sounds \o <<h>> \in Seq(Track) /\ Range(sounds \o <<h>>) = Range(sounds) \cup Range(<<h>>)
      /\ IsInjective(sounds \o <<h>>)
           <=> IsInjective(sounds) /\ IsInjective(<<h>>) /\ Range(sounds) \cap Range(<<h>>) = {}
  BY <1>2, <1>4, ConcatRange
<1>6. sounds' \in Seq(Track) /\ Range(sounds') = Range(sounds) \cup {h} /\ IsInjective(sounds')
  BY <1>1, <1>2, <1>3, <1>4, <1>5
<1>7. Pending(opened', sounds', jobs) = Pending(opened, sounds, jobs)
  BY <1>1, <1>3, <1>6 DEF Pending
<1>8. Queues(decoders \cup closed, Range(list), opened', sounds', jobs, added)
  BY <1>1, <1>2, <1>3, <1>6 DEF Queues
<1>9. Good(list, finished, decoders, closed, opened', sounds', jobs, added)
  BY <1>7, <1>8 DEF IInv, Good
<1>10. h \in decoders
  BY <1>3 DEF IInv, Good, Lists, PendingListed, Pending
<1> QED
  BY <1>1, <1>9, <1>10 DEF IInv, clocks, user

\* The output plays.
LEMMA OutputPlaysKeeps == IInv /\ OutputPlays => IInv'
<1> SUFFICES ASSUME IInv, OutputPlays PROVE IInv'
  OBVIOUS
<1>1. Room \in 0 .. Room
  BY DecoderAssumption
<1>2. room' \in [Track -> 0 .. Room]
  BY <1>1 DEF IInv, OutputPlays
<1> QED
  BY <1>2 DEF IInv, OutputPlays, decoded, output, clocks, user

\* The first track of the output leaves, its end posted.
LEMMA OutputFinishesKeeps == IInv /\ OutputFinishes => IInv'
<1> SUFFICES ASSUME IInv, OutputFinishes PROVE IInv'
  OBVIOUS
<1> DEFINE h == Head(sounds)
<1>1. /\ sounds # <<>> /\ jobs' = Append(jobs, Job("finish", h)) /\ sounds' = Tail(sounds)
      /\ room' = [room EXCEPT ![h] = Room]
      /\ UNCHANGED <<state, decoded, outBuf, clocks, user, closed>>
  BY DEF OutputFinishes, add_job
<1>2. /\ Queues(decoders \cup closed, Range(list), opened, sounds, jobs, added)
      /\ sounds \in Seq(Track) /\ IsInjective(sounds) /\ jobs \in Seq(JobType) /\ OnceOnly(jobs)
      /\ ForJob("finish", jobs) \cap (Range(opened) \cup Range(sounds)) = {}
      /\ Range(opened) \cap Range(sounds) = {}
  BY DEF IInv, Good, Queues
<1>3. /\ h \in Track /\ Tail(sounds) \in Seq(Track)
      /\ Range(sounds) = {h} \cup Range(Tail(sounds))
      /\ IsInjective(Tail(sounds)) /\ h \notin Range(Tail(sounds))
  BY <1>1, <1>2, TailRange
<1> HIDE DEF h
<1>4. h \notin ForJob("finish", jobs) /\ h \notin Range(opened)
  BY <1>2, <1>3
<1>5. /\ jobs' \in Seq(JobType) /\ OnceOnly(jobs') /\ jobs' = jobs \o <<Job("finish", h)>>
      /\ \A o : ForJob(o, jobs') = ForJob(o, jobs) \cup IF o = "finish" THEN {h} ELSE {}
  BY <1>1, <1>2, <1>3, <1>4, PostOne
<1>6. /\ ForJob("finish", jobs') = ForJob("finish", jobs) \cup {h}
      /\ ForJob("add", jobs') = ForJob("add", jobs) /\ ForJob("seek", jobs') = ForJob("seek", jobs)
  BY <1>5
<1>7. Pending(opened, sounds', jobs') = Pending(opened, sounds, jobs)
  BY <1>1, <1>3, <1>6 DEF Pending
<1>8. Queues(decoders \cup closed, Range(list), opened, sounds', jobs', added)
  BY <1>1, <1>2, <1>3, <1>4, <1>5, <1>6 DEF Queues
<1>9. Good(list, finished, decoders, closed, opened, sounds', jobs', added)
  BY <1>7, <1>8 DEF IInv, Good
<1>10. contDue \/ GoesOn(state, list, timers, jobs')
  <2>1. <<Job("finish", h)>> \in Seq(JobType)
    BY <1>3, OneJob
  <2>2. Chained(jobs) => Chained(jobs')
    BY <1>2, <1>5, <2>1, ChainKept
  <2> QED
    BY <2>2 DEF IInv, GoesOn
<1>11. room' \in [Track -> 0 .. Room]
  <2>1. Room \in 0 .. Room
    BY DecoderAssumption
  <2> QED
    BY <1>1, <2>1 DEF IInv
<1> QED
  BY <1>1, <1>9, <1>10, <1>11 DEF IInv, decoded, clocks, user

\* Every track of the output leaves.
LEMMA OutputStopsKeeps == IInv /\ OutputStops => IInv'
<1> SUFFICES ASSUME IInv, OutputStops PROVE IInv'
  OBVIOUS
<1> DEFINE ks == [i \in DOMAIN sounds |-> Job("finish", sounds[i])]
<1>1. /\ jobs' = jobs \o ks /\ sounds' = <<>>
      /\ room' = [t \in Track |-> IF t \in Range(sounds) THEN Room ELSE room[t]]
      /\ UNCHANGED <<state, decoded, outBuf, clocks, user, closed>>
  BY DEF OutputStops
<1>2. /\ Queues(decoders \cup closed, Range(list), opened, sounds, jobs, added)
      /\ sounds \in Seq(Track) /\ IsInjective(sounds) /\ jobs \in Seq(JobType) /\ OnceOnly(jobs)
      /\ ForJob("finish", jobs) \cap (Range(opened) \cup Range(sounds)) = {}
      /\ Range(opened) \cap Range(sounds) = {}
  BY DEF IInv, Good, Queues
<1>3. DOMAIN sounds = 1 .. Len(sounds) /\ Len(sounds) \in Nat /\ \A i \in 1 .. Len(sounds) : sounds[i] \in Track
  BY <1>2, LenProperties, InRange
<1>4. /\ ks \in Seq(JobType) /\ Len(ks) = Len(sounds) /\ DOMAIN ks = 1 .. Len(sounds)
      /\ \A i \in 1 .. Len(sounds) : ks[i] = Job("finish", sounds[i])
  <2>1. \A i \in 1 .. Len(sounds) : Job("finish", sounds[i]) \in JobType
    BY <1>3, JobOfTrack
  <2>2. ks = [i \in 1 .. Len(sounds) |-> Job("finish", sounds[i])]
    BY <1>3
  <2>3. ks \in [1 .. Len(sounds) -> JobType]
    BY <2>1, <2>2
  <2>4. ks \in Seq(JobType) /\ Len(ks) = Len(sounds)
    BY <1>3, <2>3
  <2> QED
    BY <2>2, <2>4
<1> HIDE DEF ks
<1>5. OnceOnly(ks)
  BY <1>2, <1>3, <1>4, SMTT(20) DEF OnceOnly, Job, IsInjective
<1>6. \A o : ForJob(o, ks) = IF o = "finish" THEN Range(sounds) ELSE {}
  BY <1>3, <1>4 DEF ForJob, Job, Range
<1>7. /\ jobs' \in Seq(JobType) /\ OnceOnly(jobs')
      /\ \A o : ForJob(o, jobs') = ForJob(o, jobs) \cup ForJob(o, ks)
  <2>1. /\ ForJob("add", jobs) \cap ForJob("add", ks) = {}
        /\ ForJob("finish", jobs) \cap ForJob("finish", ks) = {}
    BY <1>2, <1>6
  <2> QED
    BY <1>1, <1>2, <1>4, <1>5, <2>1, PostJobs
<1>8. /\ ForJob("finish", jobs') = ForJob("finish", jobs) \cup Range(sounds)
      /\ ForJob("add", jobs') = ForJob("add", jobs) /\ ForJob("seek", jobs') = ForJob("seek", jobs)
  BY <1>6, <1>7
<1>9. sounds' \in Seq(Track) /\ Range(sounds') = {} /\ IsInjective(sounds')
  BY <1>1, NothingIn
<1>10. Pending(opened, sounds', jobs') = Pending(opened, sounds, jobs)
  BY <1>8, <1>9 DEF Pending
<1>11. Queues(decoders \cup closed, Range(list), opened, sounds', jobs', added)
  BY <1>2, <1>7, <1>8, <1>9 DEF Queues
<1>12. Good(list, finished, decoders, closed, opened, sounds', jobs', added)
  BY <1>10, <1>11 DEF IInv, Good
<1>13. contDue \/ GoesOn(state, list, timers, jobs')
  <2>1. Chained(jobs) => Chained(jobs')
    BY <1>1, <1>2, <1>4, ChainKept
  <2> QED
    BY <2>1 DEF IInv, GoesOn
<1>14. room' \in [Track -> 0 .. Room]
  <2>1. Room \in 0 .. Room
    BY DecoderAssumption
  <2> QED
    BY <1>1, <2>1 DEF IInv
<1> QED
  BY <1>1, <1>12, <1>13, <1>14 DEF IInv, decoded, clocks, user

-----------------------------------------------------------------------------
(* The jobs and the timers keep the invariant.                              *)

\* A track is added at the end of the list.
LEMMA AddJobKeeps == IInv /\ add_input_url_job_internal => IInv'
<1> SUFFICES ASSUME IInv, add_input_url_job_internal PROVE IInv'
  OBVIOUS
<1> DEFINE t  == Head(jobs).track
           ks == IF state = "play" /\ list = <<>> THEN <<Control("play")>> ELSE <<>>
<1>1. /\ jobs # <<>> /\ Head(jobs).op = "add"
      /\ list' = Append(list, t) /\ decoders' = decoders /\ opened' = opened /\ jobs' = Rest \o ks
      /\ UNCHANGED <<state, finished, output, room, clocks, user, closed>>
  BY DEF add_input_url_job_internal, Takes, Set
<1>2. /\ Good(list, finished, decoders, closed, opened, sounds, Rest, added)
      /\ contDue \/ GoesOn(state, list, timers, Rest)
      /\ t \in added /\ t \notin decoders \cup closed \cup Range(list) \cup ForJob("add", Rest)
  BY <1>1, JobTaken
<1>3. Quiet(ks)
  BY QuietJobs DEF PluginStates
<1>4. Rest \in Seq(JobType) /\ added \subseteq Track
  BY <1>2 DEF Good, Queues
<1>5. GoesOn(state, list', timers, Rest \o ks) \/ contDue
  <2>1. CASE state = "play" /\ list = <<>>
    BY <1>4, <2>1, Posted
  <2>2. CASE state = "play" /\ list # <<>>
    BY <1>2, <1>3, <1>4, <2>2, ChainKept DEF GoesOn, Quiet
  <2>3. CASE state # "play"
    BY <2>3 DEF GoesOn
  <2> QED
    BY <2>1, <2>2, <2>3
<1> HIDE DEF t, ks
<1>6. /\ Lists(Append(list, t), finished, decoders, closed, Pending(opened, sounds, Rest))
      /\ Range(Append(list, t)) = Range(list) \cup {t}
  BY <1>2, <1>4, NewTrackLast DEF Good
<1>7. Queues(decoders \cup closed, Range(list'), opened, sounds, Rest, added)
  BY <1>1, <1>2, <1>6 DEF Good, Queues
<1>8. Good(list', finished, decoders, closed, opened, sounds, Rest, added)
  BY <1>1, <1>6, <1>7 DEF Good
<1>9. Good(list', finished, decoders, closed, opened, sounds, Rest \o ks, added)
  BY <1>3, <1>8, PostQuiet
<1> QED
  BY <1>1, <1>5, <1>9 DEF IInv, output, clocks, user

\* cont() runs.
LEMMA ContKeeps == IInv /\ Cont => IInv'
<1> SUFFICES ASSUME IInv, Cont PROVE IInv'
  OBVIOUS
<1>1. /\ jobs # <<>> /\ state' = "play" /\ cont_internal("play", Rest, timers)
      /\ UNCHANGED <<output, polls, user, closed>>
  BY DEF Cont, Takes
<1>2. Good(list, finished, decoders, closed, opened, sounds, Rest, added)
  BY <1>1, JobTaken
<1>3. /\ Good(list', finished', decoders', closed, opened', sounds, jobs', added)
      /\ decoders \subseteq decoders' /\ room' \in [Track -> 0 .. Room]
      /\ TimersOK(timers') /\ decodeTimer' \in 0 .. timers'.made /\ timers.active \subseteq timers'.active
      /\ GoesOn("play", list', timers', jobs')
  BY <1>1, <1>2, ContGoesOn DEF IInv
<1> QED
  BY <1>1, <1>3 DEF IInv, output, user, PluginStates

\* A pause or a stop runs.
LEMMA PauseKeeps == IInv /\ PauseOrStop => IInv'
<1> SUFFICES ASSUME IInv, PauseOrStop PROVE IInv'
  OBVIOUS
<1>1. /\ jobs # <<>> /\ state' = "idle" /\ jobs' = Rest
      /\ UNCHANGED <<decoded, output, room, clocks, user, closed>>
  BY DEF PauseOrStop, Takes
<1>2. Good(list, finished, decoders, closed, opened, sounds, Rest, added)
  BY <1>1, JobTaken
<1> QED
  BY <1>1, <1>2 DEF IInv, decoded, output, clocks, user, PluginStates, GoesOn

\* The timer of a cont() that waits is armed.
LEMMA ArmPollKeeps == IInv /\ ArmPoll => IInv'
<1> SUFFICES ASSUME IInv, ArmPoll PROVE IInv'
  OBVIOUS
<1>1. /\ jobs # <<>> /\ jobs' = Rest /\ timers' = CreateGetTimer(timers)
      /\ polls' = polls \cup {TimerToGet(timers)}
      /\ UNCHANGED <<state, decoded, output, room, decodeTimer, user, closed>>
  BY DEF ArmPoll, Takes
<1>2. Good(list, finished, decoders, closed, opened, sounds, Rest, added)
  BY <1>1, JobTaken
<1>3. /\ TimersOK(CreateGetTimer(timers)) /\ CreateGetTimer(timers).made >= timers.made
      /\ CreateGetTimer(timers).active = timers.active \cup {TimerToGet(timers)}
  BY CreateOK DEF IInv
<1>4. TimersOK(timers') /\ decodeTimer' \in 0 .. timers'.made /\ polls' \subseteq timers'.active /\ timers'.active # {}
  BY <1>1, <1>3 DEF IInv, TimersOK
<1> QED
  BY <1>1, <1>2, <1>4 DEF IInv, decoded, output, user, GoesOn

\* decode_cont() runs.
LEMMA DecodeContKeeps == IInv /\ DecodeCont => IInv'
<1> SUFFICES ASSUME IInv, DecodeCont PROVE IInv'
  OBVIOUS
<1>1. /\ jobs # <<>> /\ decode_cont(state, list, decoders, opened, Rest, timers)
      /\ UNCHANGED <<state, output, polls, user, closed>>
  BY DEF DecodeCont, Takes
<1>2. Good(list, finished, decoders, closed, opened, sounds, Rest, added)
  BY <1>1, JobTaken
<1>3. /\ Good(list', finished', decoders', closed, opened', sounds, jobs', added)
      /\ decoders \subseteq decoders' /\ room' \in [Track -> 0 .. Room]
      /\ TimersOK(timers') /\ decodeTimer' \in 0 .. timers'.made /\ timers.active \subseteq timers'.active
      /\ GoesOn(state, list', timers', jobs')
  BY <1>1, <1>2, DecodeGoesOn DEF IInv
<1> QED
  BY <1>1, <1>3 DEF IInv, output, user

\* A timer expires.
LEMMA TimeoutKeeps == ASSUME IInv, NEW timer \in timers.active, Timeout(timer) PROVE IInv'
<1> DEFINE tm == HandleTimeout(timers, timer)
<1>1. UNCHANGED <<state, output, user, closed>>
  BY DEF Timeout
<1>2. TimersOK(tm) /\ tm.made = timers.made /\ tm.active = timers.active \ {timer}
  BY RetireTimer DEF IInv, TimersOK
<1>3. decodeTimer \in 0 .. tm.made
  BY <1>2 DEF IInv
<1> HIDE DEF tm
<1>4. /\ Good(list', finished', decoders', closed, opened', sounds, jobs', added)
      /\ decoders \subseteq decoders' /\ room' \in [Track -> 0 .. Room]
      /\ TimersOK(timers') /\ decodeTimer' \in 0 .. timers'.made /\ tm.active \subseteq timers'.active
      /\ GoesOn(state, list', timers', jobs')
      /\ polls' \subseteq tm.active
  <2>1. CASE timer \in polls
    <3>1. cont_internal(state, jobs, tm) /\ polls' = polls \ {timer}
      BY <2>1 DEF Timeout, tm
    <3> QED
      BY <1>2, <1>3, <3>1, ContGoesOn DEF IInv
  <2>2. CASE timer \notin polls
    <3>1. decode_cont(state, list, decoders, opened, jobs, tm) /\ polls' = polls
      BY <2>2 DEF Timeout, tm
    <3> QED
      BY <1>2, <1>3, <2>2, <3>1, DecodeGoesOn DEF IInv
  <2> QED
    BY <2>1, <2>2
<1> QED
  BY <1>1, <1>4 DEF IInv, output, user

\* seek_duration(): what comes first then keeps the lists good.
LEMMA SeekListGood ==
  ASSUME NEW t \in decoders \cup closed, NEW js,
         Good(list, finished, decoders, closed, opened, sounds, js, added)
  PROVE  Good(SeekList(t), finished, decoders, closed, opened, sounds, js, added)
<1> DEFINE u == finished[t]
           pend == Pending(opened, sounds, js)
<1>1. /\ Lists(list, finished, decoders, closed, pend) /\ t \in Track
      /\ Queues(decoders \cup closed, Range(list), opened, sounds, js, added)
  BY DEF Good, Lists
<1>2. CASE u # NoTrack /\ ~(list # <<>> /\ Head(list) = t)
  <2>1. SeekList(t) = <<u>> \o list
    BY <1>2 DEF SeekList, get_finished_decoder_details
  <2>2. u \in decoders \cup closed /\ (u = t \/ u \in closed \/ finished[u] = u)
    BY <1>1, <1>2 DEF Lists, FiledKnown
  <2>3. u \in closed \/ finished[u] = u
    BY <2>2
  <2> HIDE DEF u, pend
  <2>4. Lists(<<u>> \o list, finished, decoders, closed, pend) /\ Range(<<u>> \o list) = {u} \cup Range(list)
    BY <1>1, <2>2, <2>3, ComesBack
  <2>5. Queues(decoders \cup closed, Range(<<u>> \o list), opened, sounds, js, added)
    BY <1>1, <2>2, <2>4, FewerListed
  <2> QED
    BY <2>1, <2>4, <2>5 DEF Good, pend
<1>3. CASE u = NoTrack /\ t \in Range(list)
  <2>1. SeekList(t) = <<t>> \o RemoveFirst(list, t)
    BY <1>3 DEF SeekList, get_finished_decoder_details
  <2> HIDE DEF pend
  <2>2. /\ Lists(<<t>> \o RemoveFirst(list, t), finished, decoders, closed, pend)
        /\ Range(<<t>> \o RemoveFirst(list, t)) = Range(list)
    BY <1>1, <1>3, MovesUp
  <2> QED
    BY <1>1, <2>1, <2>2 DEF Good, pend
<1>4. CASE (u # NoTrack /\ list # <<>> /\ Head(list) = t) \/ (u = NoTrack /\ t \notin Range(list))
  BY <1>4 DEF SeekList, get_finished_decoder_details
<1> QED
  BY <1>2, <1>3, <1>4

\* A seek runs.
LEMMA SeekKeeps == IInv /\ seek_duration => IInv'
<1> SUFFICES ASSUME IInv, seek_duration PROVE IInv'
  OBVIOUS
<1> DEFINE t == Head(jobs).track
<1>1. /\ jobs # <<>> /\ Head(jobs).op = "seek"
      /\ decode_cont(state, SeekList(t), decoders, opened, Rest, timers)
      /\ UNCHANGED <<state, output, polls, user, closed>>
  BY DEF seek_duration, Takes
<1>2. Good(list, finished, decoders, closed, opened, sounds, Rest, added) /\ t \in decoders \cup closed
  BY <1>1, JobTaken
<1> HIDE DEF t
<1>3. Good(SeekList(t), finished, decoders, closed, opened, sounds, Rest, added)
  BY <1>2, SeekListGood
<1>4. /\ Good(list', finished', decoders', closed, opened', sounds, jobs', added)
      /\ decoders \subseteq decoders' /\ room' \in [Track -> 0 .. Room]
      /\ TimersOK(timers') /\ decodeTimer' \in 0 .. timers'.made /\ timers.active \subseteq timers'.active
      /\ GoesOn(state, list', timers', jobs')
  BY <1>1, <1>3, DecodeGoesOn DEF IInv
<1> QED
  BY <1>1, <1>4 DEF IInv, output, user

\* The output has finished a track.
LEMMA FinishKeeps == IInv /\ play_finished_callback => IInv'
<1> SUFFICES ASSUME IInv, play_finished_callback PROVE IInv'
  OBVIOUS
<1> DEFINE t    == Head(jobs).track
           h    == Head(list)
           fin  == IF finished[t] = NoTrack THEN [finished EXCEPT ![t] = h] ELSE finished
           ours == fin[t] = t
           done == IF ours THEN {t} ELSE {}
           pend == Pending(opened, sounds, Rest)
<1>1. /\ jobs # <<>> /\ Head(jobs).op = "finish"
      /\ finished' = IF ours THEN [fin EXCEPT ![t] = NoTrack] ELSE fin
      /\ closed' = closed \cup done
      /\ UNCHANGED <<state, output, room, clocks, user>>
      /\ IF finished[t] = NoTrack
           THEN \E e \in init_decode_internal_single(Tail(list), decoders) :
                  Set(Tail(list), (decoders \cup FirstOf(Tail(list))) \ done, opened \o e.opens, Rest \o e.posts)
           ELSE Set(list, decoders \ done, opened, Rest)
  BY DEF play_finished_callback, Takes, get_finished_decoder_details, Filed
<1>2. /\ Good(list, finished, decoders, closed, opened, sounds, Rest, added)
      /\ contDue \/ GoesOn(state, list, timers, Rest)
      /\ t \in Pending(opened, sounds, jobs) /\ t \notin pend
  BY <1>1, JobTaken
<1>3. /\ t \in decoders \ closed /\ t \in Track /\ t # NoTrack
      /\ finished[t] = t \/ (finished[t] = NoTrack /\ t \in Range(list))
      /\ finished \in [Track -> Track \cup {NoTrack}]
      /\ list \in Seq(Track) /\ Rest \in Seq(JobType)
      /\ Lists(list, finished, decoders, closed, pend)
  BY <1>2, DecoderAssumption DEF IInv, Good, Lists, PendingListed, Queues
<1> HIDE DEF t, h, pend
\* It is enough that the lists and the queues are good, and the chain goes on.
<1>4. ASSUME Good(list', finished', decoders', closed', opened', sounds, jobs', added),
             decoders \cup closed \subseteq decoders' \cup closed',
             contDue \/ GoesOn(state, list', timers, jobs')
      PROVE  IInv'
  BY <1>1, <1>4 DEF IInv, output, clocks, user
\* Closing t keeps what is on its way.
<1>5. ASSUME NEW lst, NEW dcs, NEW rep, NEW js, t \in dcs, t \notin Pending(rep, sounds, js),
             Good(lst, finished, dcs, closed, rep, sounds, js, added)
      PROVE  Good(lst, [finished EXCEPT ![t] = NoTrack], dcs \ {t}, closed \cup {t}, rep, sounds, js, added)
  <2>1. Lists(lst, [finished EXCEPT ![t] = NoTrack], dcs \ {t}, closed \cup {t}, Pending(rep, sounds, js))
    BY <1>5, ClosesTrack DEF Good
  <2>2. (dcs \ {t}) \cup (closed \cup {t}) = dcs \cup closed
    BY <1>5
  <2> QED
    BY <1>5, <2>1, <2>2 DEF Good
<1>6. CASE finished[t] = t
  <2>1. fin = finished /\ ours /\ done = {t} /\ finished[t] # NoTrack
    BY <1>3, <1>6
  <2>2. /\ list' = list /\ decoders' = decoders \ {t} /\ opened' = opened /\ jobs' = Rest
        /\ finished' = [finished EXCEPT ![t] = NoTrack] /\ closed' = closed \cup {t}
    BY <1>1, <2>1 DEF Set
  <2>3. Good(list, [finished EXCEPT ![t] = NoTrack], decoders \ {t}, closed \cup {t}, opened, sounds, Rest, added)
    BY <1>2, <1>3, <1>5 DEF pend
  <2> QED
    BY <1>2, <1>4, <2>2, <2>3
<1>7. CASE finished[t] = NoTrack /\ t \in Range(list)
  <2>1. list # <<>> /\ fin = [finished EXCEPT ![t] = h] /\ fin[t] = h
    <3>1. list # <<>>
      BY <1>3, <1>7, NothingIn
    <3> QED
      BY <1>3, <1>7, <3>1
  <2>2. PICK e \in init_decode_internal_single(Tail(list), decoders) :
          Set(Tail(list), (decoders \cup FirstOf(Tail(list))) \ done, opened \o e.opens, Rest \o e.posts)
    BY <1>1, <1>7
  \* The chain is kept: only the list gets shorter.
  <2>3. ASSUME Rest \o e.posts \in Seq(JobType), e.posts \in Seq(JobType)
        PROVE  contDue \/ GoesOn(state, list', timers, jobs')
    BY <1>2, <1>3, <2>1, <2>2, <2>3, ChainKept DEF GoesOn, Set
  <2>4. e.posts \in Seq(JobType)
    <3>1. Tail(list) \in Seq(Track) /\ (Tail(list) # <<>> => Head(Tail(list)) \in Track)
      BY <1>3, <2>1, TailRange
    <3>2. Tail(list) # <<>> => <<Job("finish", Head(Tail(list)))>> \in Seq(JobType)
      BY <3>1, OneJob
    <3>3. <<>> \in Seq(JobType)
      BY NothingIn
    <3> DEFINE n == Head(Tail(list))
    <3>4. \/ e = Nothing
          \/ e = Effect(<<n>>, <<>>)
          \/ Tail(list) # <<>> /\ e = Effect(<<>>, <<Job("finish", n)>>)
      BY <2>2 DEF init_decode_internal_single, init_flac, init_ffmpeg
    <3> HIDE DEF n
    <3>5. e.posts = <<>> \/ (Tail(list) # <<>> /\ e.posts = <<Job("finish", n)>>)
      BY <3>4 DEF Nothing, Effect
    <3> QED
      BY <3>2, <3>3, <3>5 DEF n
  <2>5. CASE h = t
    <3>1. ours /\ done = {t}
      BY <2>1, <2>5
    <3>2. finished' = [finished EXCEPT ![t] = NoTrack] /\ closed' = closed \cup {t}
      BY <1>1, <1>3, <2>1, <3>1
    <3>3. /\ Good(Tail(list), finished, decoders \cup FirstOf(Tail(list)), closed,
                  opened \o e.opens, sounds, Rest \o e.posts, added)
          /\ Pending(opened \o e.opens, sounds, Rest \o e.posts) \cap decoders \subseteq pend
      BY <1>2, <2>1, <2>5, GoesToNext DEF h, pend
    <3>4. t \notin Pending(opened \o e.opens, sounds, Rest \o e.posts)
      BY <1>2, <1>3, <3>3
    <3>5. Good(Tail(list), [finished EXCEPT ![t] = NoTrack], (decoders \cup FirstOf(Tail(list))) \ {t},
               closed \cup {t}, opened \o e.opens, sounds, Rest \o e.posts, added)
      BY <1>3, <1>5, <3>3, <3>4
    <3>6. Rest \o e.posts \in Seq(JobType)
      BY <3>3 DEF Good, Queues
    <3> QED
      BY <1>4, <2>2, <2>3, <2>4, <3>1, <3>2, <3>5, <3>6 DEF Set
  <2>6. CASE h # t
    <3>1. ~ours /\ done = {}
      BY <2>1, <2>6
    <3>2. finished' = fin /\ closed' = closed
      BY <1>1, <3>1
    <3>3. /\ Lists(list, [finished EXCEPT ![t] = h], decoders, closed, pend)
          /\ h \in closed \/ finished[h] = h
      BY <1>2, <1>3, <1>7, <2>1, <2>6, FilesAnother DEF h
    <3>4. h \notin pend \/ fin[h] # NoTrack
      <4>1. h \in Track
        BY <1>3, <2>1, TailRange DEF h
      <4>2. h \in closed => h \notin pend
        BY <1>3 DEF Lists, PendingListed
      <4>3. fin[h] = finished[h] /\ h # NoTrack
        BY <1>3, <2>1, <2>6, <4>1, DecoderAssumption
      <4> QED
        BY <3>3, <4>2, <4>3
    <3> HIDE DEF fin
    <3>5. Good(list, fin, decoders, closed, opened, sounds, Rest, added)
      BY <1>2, <2>1, <3>3 DEF Good, pend
    <3>6. Good(Tail(list), fin, decoders \cup FirstOf(Tail(list)), closed,
               opened \o e.opens, sounds, Rest \o e.posts, added)
      BY <2>1, <3>4, <3>5, GoesToNext DEF h, pend
    <3>7. Rest \o e.posts \in Seq(JobType)
      BY <3>6 DEF Good, Queues
    <3> QED
      BY <1>4, <2>2, <2>3, <2>4, <3>1, <3>2, <3>6, <3>7 DEF Set
  <2> QED
    BY <2>5, <2>6
<1> QED
  BY <1>3, <1>6, <1>7

-----------------------------------------------------------------------------
(* What follows.                                                            *)

\* Every step keeps the invariant.
LEMMA NextKeeps == IInv /\ [Next]_vars => IInv'
<1> SUFFICES ASSUME IInv, [Next]_vars PROVE IInv'
  OBVIOUS
<1>1. CASE RunJob
  BY <1>1, AddJobKeeps, ContKeeps, PauseKeeps, ArmPollKeeps, DecodeContKeeps, SeekKeeps, FinishKeeps
  DEF RunJob
<1>2. CASE Others
  BY <1>2, AddInputUrlKeeps, ContAfterAddKeeps, ControlKeeps, SeekDurationKeeps, SetCacheBufferKeeps,
     OutputPlaysKeeps, OutputFinishesKeeps, OutputStopsKeeps
  DEF Others
<1>3. ASSUME NEW timer \in timers.active, Timeout(timer) PROVE IInv'
  BY <1>3, TimeoutKeeps
<1>4. CASE UNCHANGED vars
  BY <1>4 DEF vars, decoded, output, clocks, user, IInv
<1> QED
  BY <1>1, <1>2, <1>3, <1>4 DEF Next

\* The invariant holds of every state of the program.
THEOREM Invariant == Spec => []IInv
<1>1. Init => IInv
  BY InitIInv
<1>2. IInv /\ [Next]_vars => IInv'
  BY NextKeeps
<1> QED
  BY <1>1, <1>2, PTL DEF Spec

\* The variables always have the values that the manager gives its lists, its jobs and
\* its timers.
THEOREM TypeCorrect == Spec => []TypeOK
<1>1. IInv => TypeOK
  <2> SUFFICES ASSUME IInv PROVE TypeOK
    OBVIOUS
  <2>1. /\ list \in Seq(Track) /\ finished \in [Track -> Track \cup {NoTrack}]
        /\ decoders \subseteq Track /\ closed \subseteq Track
        /\ opened \in Seq(Track) /\ sounds \in Seq(Track) /\ jobs \in Seq(JobType) /\ added \subseteq Track
    BY DEF IInv, Good, Lists, Queues
  <2>2. outBuf \subseteq Track
    BY <2>1 DEF IInv
  <2> QED
    BY <2>1, <2>2 DEF IInv, TimersOK, TypeOK
<1> QED
  BY <1>1, Invariant, PTL

\* A manager that plays and has a track goes on decoding: whatever was added, sought,
\* paused or ended in between, a call of decode_cont() is on its way.
THEOREM DecodingGoesOn == Spec => []ChainAlive
<1>1. IInv => ChainAlive
  BY DEF IInv, GoesOn, Chained, ChainAlive
<1> QED
  BY <1>1, Invariant, PTL

\* play_finished_callback() ends the track it is called for, but when a seek has put
\* another one before it.
THEOREM FinishIsItsTrack == Spec => []FinishMeetsItsTrack
<1>1. IInv => FinishMeetsItsTrack
  <2> SUFFICES ASSUME IInv, jobs # <<>>, Head(jobs).op = "finish" PROVE FinishMeetsItsTrack
    BY DEF FinishMeetsItsTrack, Takes
  <2> DEFINE t == Head(jobs).track
             h == Head(list)
  <2>1. t \in Pending(opened, sounds, jobs)
    BY JobTaken
  <2>2. /\ t \in decoders \ closed
        /\ finished[t] = t \/ (finished[t] = NoTrack /\ t \in Range(list))
        /\ list \in Seq(Track) /\ OneCurrent(list, finished, decoders, closed)
        /\ FreshLast(list, decoders \cup closed)
    BY <2>1 DEF IInv, Good, Lists, PendingListed
  <2>3. ASSUME finished[t] = NoTrack, t \in Range(list)
        PROVE  list # <<>> /\ (h = t \/ TakenBack \cup ClosedButListed # {})
    <3>1. list # <<>>
      BY <2>2, <2>3, NothingIn
    <3>2. h = list[1] /\ h \in Range(list) /\ DOMAIN list = 1 .. Len(list) /\ Len(list) \in Nat \ {0}
      BY <2>2, <3>1, TailRange, LenProperties
    <3> HIDE DEF h, t
    <3>3. CASE h # t
      <4>1. PICK k \in 1 .. Len(list) : list[k] = t
        BY <2>2, <2>3, InRange
      <4>2. k # 1 /\ 1 < k /\ 1 \in 1 .. Len(list)
        BY <3>2, <3>3, <4>1
      <4>3. h \in decoders \cup closed
        BY <2>2, <3>2, <4>1, <4>2 DEF FreshLast
      <4>4. h \in closed \/ finished[h] = h
        BY <2>2, <2>3, <3>2, <3>3, <4>3 DEF OneCurrent
      <4> QED
        BY <3>1, <3>2, <4>4 DEF TakenBack, ClosedButListed
    <3> QED
      BY <3>1, <3>3
  <2> QED
    BY <2>2, <2>3 DEF FinishMeetsItsTrack
<1> QED
  BY <1>1, Invariant, PTL

\* A seek finds a decoder for the track it is of, unless the output has finished that
\* track, or another one is filed under its id.
THEOREM SeekFindsDecoder == Spec => []SeekHasDecoder
<1>1. IInv => SeekHasDecoder
  <2> SUFFICES ASSUME IInv, jobs # <<>>, Head(jobs).op = "seek" PROVE SeekHasDecoder
    BY DEF SeekHasDecoder, Takes
  <2> DEFINE t == Head(jobs).track
  <2>1. t \in decoders \cup closed
    BY JobTaken
  <2>2. list \in Seq(Track) /\ t \in Track /\ t # NoTrack
    BY <2>1, DecoderAssumption DEF IInv, Good, Lists
  <2> HIDE DEF t
  <2>3. Head(<<t>> \o list) = t
    BY <2>2, ConsRange
  <2>4. t \in Range(list) => Head(<<t>> \o RemoveFirst(list, t)) = t
    <3> SUFFICES ASSUME t \in Range(list) PROVE Head(<<t>> \o RemoveFirst(list, t)) = t
      OBVIOUS
    <3>1. RemoveFirst(list, t) \in Seq(Track)
      BY <2>2, RemoveSome
    <3> QED
      BY <2>2, <3>1, ConsRange
  <2>5. finished[t] = t \/ (finished[t] = NoTrack /\ t \in Range(list)) => Head(SeekList(t)) = t
    BY <2>2, <2>3, <2>4 DEF SeekList, get_finished_decoder_details
  <2> QED
    BY <2>1, <2>5 DEF SeekHasDecoder, t
<1> QED
  BY <1>1, Invariant, PTL
=============================================================================
