-------------------------- MODULE OutputAlsaProofs --------------------------
(***************************************************************************)
(* Proofs, for any tracks and formats, buffers of any size and any number  *)
(* of seeks, that the card has the format of the sound that plays, that    *)
(* play() goes on while there is something to play, that no sample is lost *)
(* or played twice, and that the queue, the buffers and the timers of the  *)
(* output stay within their bounds.                                        *)
(***************************************************************************)
EXTENDS OutputAlsa, OperatorProofs, FiniteSetTheorems

CardStates == {"setup", "ready", "paused"}

AllFormats == UNION {Range(f) : f \in Formats}

Opened == {t \in Track : decoder[t].buffer # 0}

ValuesOK ==
  /\ state \in PluginStates /\ card \in CardStates /\ {initApi, paused, starved, contDue} \subseteq BOOLEAN
  /\ added \subseteq Track /\ reported \subseteq added /\ seeks \in Seq(Track)

DecoderType == [format : AllFormats, buffer : {0} \cup Buffer,
                written : Nat, rest : Nat, total : Nat, ended : {"no", "posted", "yes"}]

\* Only a track with a buffer ends or is sought, and one that is not sought has the
\* length it has.
DecoderOK ==
  /\ decoder \in [Track -> DecoderType]
  /\ \A t \in Track : /\ decoder[t].ended = "posted" => t \in Opened
                      /\ t \in Range(seeks) => t \in Opened
                      /\ t \notin Range(seeks) => decoder[t].written + decoder[t].rest = Length[t]

\* A buffer is made for each track once at most, and has one track or is free.
PoolOK ==
  /\ pool \in PoolType(pool.made) /\ pool.made \in Nat /\ pool.made <= Cardinality(Opened)
  /\ \A t, u \in Track : pool.used[t] = pool.used[u] => t = u \/ ~is_in_cache(pool, t)
  /\ \A t \in Track : is_in_cache(pool, t) => t \in Opened /\ pool.used[t] \notin Range(pool.free)
  /\ IsInjective(pool.free)

\* The chunk that is filled has a place.
BuffersOK ==
  /\ data \in [Buffer -> Seq(1 .. ChunkSize)] /\ filling \in [Buffer -> 0 .. ChunkSize - 1]
  /\ \A b \in Buffer : Len(data[b]) <= ChunkCount /\ (filling[b] # 0 => Len(data[b]) < ChunkCount)

Sound == [track : Track, total : Nat, written : Nat, buffer : Buffer]

\* A sound behind the first was not sought, nothing of it was played, and it has
\* samples if its length is known.
QueueGood(q, tracks, sought) ==
  /\ q \in Seq(Sound)
  /\ \A i \in 1 .. Len(q) :
       /\ q[i].track \in tracks
       /\ i > 1 => /\ q[i].track \notin sought /\ q[i].written = 0
                   /\ Announced[q[i].track] # 0 => q[i].total # 0

QueueOK == QueueGood(queue, added, Range(seeks))

\* Only an added track has a buffer.  It is added once, before it has one, and cont()
\* is still to come; a pause of a seek is taken back; a track that is sought is marked
\* so, and one that is not has samples.
JobsGood(js, due, opened, tracks, sought) ==
  /\ js \in Seq(JobType) /\ opened \subseteq tracks
  /\ \A i \in 1 .. Len(js) :
       /\ js[i].op = "add" => /\ js[i].track \in tracks \ opened
                              /\ \A j \in 1 .. Len(js) : js[j] = js[i] => j = i
                              /\ due \/ \E j \in 1 .. Len(js) : j > i /\ js[j].op = "play"
       /\ js[i].op = "pause_play" => \E j \in 1 .. Len(js) : j > i /\ js[j].op = "resume"
       /\ js[i].op = "seek" => js[i].track \in sought
       /\ js[i].op = "update" => js[i].track \in sought \/ js[i].value # 0

JobsOK == JobsGood(jobs, contDue, Opened, added, Range(seeks))

\* The timers tm, of which one calls play() at most
ClocksGood(tm) ==
  /\ TimersOK(tm) /\ playTimer \in 0 .. tm.made
  /\ polls \subseteq tm.active /\ tm.active \ polls \subseteq {playTimer}

ClocksOK == ClocksGood(timers)

\* The card has the format of the sound it was set up for, if it has one; while it
\* counts as set up that is the first sound.
CardOK ==
  /\ prev = {} \/ \E t \in Track : prev = {t}
  /\ cardFormat \subseteq AllFormats
  /\ \A t \in prev : cardFormat \subseteq {decoder[t].format}
  /\ initApi /\ ~starved => queue # <<>> /\ prev = {Head(queue).track}

IInv == /\ ValuesOK /\ DecoderOK /\ PoolOK /\ BuffersOK /\ QueueOK /\ JobsOK /\ ClocksOK /\ CardOK
        /\ PlayChainAlive

-----------------------------------------------------------------------------
(* What the parts of the invariant depend on.                               *)

\* A step keeps the parts whose variables it leaves alone.
LEMMA Frame ==
  /\ DecoderOK /\ UNCHANGED <<decoder, seeks>> => DecoderOK'
  /\ PoolOK /\ UNCHANGED <<pool, decoder>> => PoolOK'
  /\ BuffersOK /\ UNCHANGED <<data, filling>> => BuffersOK'
  /\ QueueOK /\ UNCHANGED <<queue, added, seeks>> => QueueOK'
  /\ JobsOK /\ UNCHANGED <<jobs, contDue, decoder, added, seeks>> => JobsOK'
  /\ ClocksOK /\ UNCHANGED <<timers, playTimer, polls>> => ClocksOK'
  /\ CardOK /\ UNCHANGED <<prev, cardFormat, decoder, initApi, starved, queue>> => CardOK'
<1>1. DecoderOK /\ UNCHANGED <<decoder, seeks>> => DecoderOK'
  BY DEF DecoderOK, Opened
<1>2. PoolOK /\ UNCHANGED <<pool, decoder>> => PoolOK'
  BY DEF PoolOK, Opened
<1>3. BuffersOK /\ UNCHANGED <<data, filling>> => BuffersOK'
  BY DEF BuffersOK
<1>4. QueueOK /\ UNCHANGED <<queue, added, seeks>> => QueueOK'
  BY DEF QueueOK
<1>5. JobsOK /\ UNCHANGED <<jobs, contDue, decoder, added, seeks>> => JobsOK'
  BY DEF JobsOK, Opened
<1>6. ClocksOK /\ UNCHANGED <<timers, playTimer, polls>> => ClocksOK'
  BY DEF ClocksOK, ClocksGood
<1>7. CardOK /\ UNCHANGED <<prev, cardFormat, decoder, initApi, starved, queue>> => CardOK'
  BY DEF CardOK
<1> QED
  BY <1>1, <1>2, <1>3, <1>4, <1>5, <1>6, <1>7

\* What the parts say of the first sound.
LEMMA FirstSound ==
  ASSUME QueueOK, DecoderOK, queue # <<>>
  PROVE  /\ queue \in Seq(Sound) /\ Len(queue) \in Nat \ {0} /\ Head(queue) = queue[1] /\ queue[1] \in Sound
         /\ Head(queue).track \in Track /\ Head(queue).track \in added
         /\ Head(queue).buffer \in Buffer /\ Head(queue).total \in Nat /\ Head(queue).written \in Nat
<1>1. queue \in Seq(Sound) /\ \A i \in 1 .. Len(queue) : queue[i].track \in added
  BY DEF QueueOK, QueueGood
<1>2. /\ Head(queue) = queue[1] /\ Head(queue) \in Sound /\ Len(queue) \in Nat \ {0}
  BY <1>1, TailRange
<1> QED
  BY <1>1, <1>2 DEF Sound

\* A function on 1 .. n is a sequence of length n.
LEMMA FunctionSeq ==
  ASSUME NEW S, NEW n \in Nat, NEW f \in [1 .. n -> S]
  PROVE  f \in Seq(S) /\ Len(f) = n
OBVIOUS

-----------------------------------------------------------------------------
(* The queue of sounds.                                                     *)

\* The sound behind the first may be played when it becomes the first.
LEMMA QueueTail ==
  ASSUME NEW q, NEW tracks, NEW sought, QueueGood(q, tracks, sought), q # <<>>
  PROVE  /\ QueueGood(Tail(q), tracks, sought)
         /\ Tail(q) # <<>> /\ is_no_job(Tail(q)) => Announced[Head(Tail(q)).track] = 0
<1>1. /\ q \in Seq(Sound)
      /\ \A i \in 1 .. Len(q) :
           /\ q[i].track \in tracks
           /\ i > 1 => /\ q[i].track \notin sought /\ q[i].written = 0
                       /\ Announced[q[i].track] # 0 => q[i].total # 0
  BY DEF QueueGood
<1>2. /\ Tail(q) \in Seq(Sound) /\ Len(Tail(q)) = Len(q) - 1 /\ Len(q) \in Nat \ {0}
      /\ \A i \in 1 .. Len(Tail(q)) : Tail(q)[i] = q[i + 1] /\ i + 1 \in 1 .. Len(q)
  BY <1>1, TailRange
<1>3. QueueGood(Tail(q), tracks, sought)
  BY <1>1, <1>2 DEF QueueGood
<1>4. ASSUME Tail(q) # <<>>, is_no_job(Tail(q)) PROVE Announced[Head(Tail(q)).track] = 0
  <2>1. Head(Tail(q)) = Tail(q)[1] /\ 1 \in 1 .. Len(Tail(q))
    BY <1>2, <1>4, TailRange
  <2>2. Head(Tail(q)) = q[2] /\ 2 \in 1 .. Len(q) /\ 2 > 1
    BY <1>2, <2>1
  <2>3. Head(Tail(q)).total = Head(Tail(q)).written
    BY <1>4 DEF is_no_job
  <2> QED
    BY <1>1, <2>2, <2>3
<1> QED
  BY <1>3, <1>4

\* A sound that is added was neither sought nor played.
LEMMA QueueAdd ==
  ASSUME NEW q, NEW tracks, NEW sought, QueueGood(q, tracks, sought), NEW s \in Sound,
         s.track \in tracks, s.track \notin sought, s.written = 0, s.total = Announced[s.track]
  PROVE  QueueGood(Append(q, s), tracks, sought) /\ (q # <<>> => Head(Append(q, s)) = Head(q))
<1>1. /\ q \in Seq(Sound)
      /\ \A i \in 1 .. Len(q) :
           /\ q[i].track \in tracks
           /\ i > 1 => /\ q[i].track \notin sought /\ q[i].written = 0
                       /\ Announced[q[i].track] # 0 => q[i].total # 0
  BY DEF QueueGood
<1>2. /\ Append(q, s) \in Seq(Sound) /\ Len(Append(q, s)) = Len(q) + 1 /\ Append(q, s) # <<>>
      /\ \A i \in 1 .. Len(q) : Append(q, s)[i] = q[i]
      /\ Append(q, s)[Len(q) + 1] = s
  BY <1>1, AppendRange
<1>3. Len(q) \in Nat
  BY <1>1, LenProperties
<1>4. ASSUME NEW i \in 1 .. Len(Append(q, s))
      PROVE  /\ Append(q, s)[i].track \in tracks
             /\ i > 1 => /\ Append(q, s)[i].track \notin sought /\ Append(q, s)[i].written = 0
                         /\ Announced[Append(q, s)[i].track] # 0 => Append(q, s)[i].total # 0
  <2>1. CASE i \in 1 .. Len(q)
    BY <1>1, <1>2, <2>1
  <2>2. CASE i = Len(q) + 1
    BY <1>2, <2>2
  <2> QED
    BY <1>2, <1>3, <2>1, <2>2
<1>5. q # <<>> => Head(Append(q, s)) = Head(q)
  <2> SUFFICES ASSUME q # <<>> PROVE Head(Append(q, s)) = Head(q)
    OBVIOUS
  <2>1. Head(q) = q[1] /\ Len(q) \in Nat \ {0}
    BY <1>1, TailRange
  <2>2. Head(Append(q, s)) = Append(q, s)[1]
    BY <1>2, TailRange
  <2> QED
    BY <1>2, <2>1, <2>2
<1> QED
  BY <1>2, <1>4, <1>5 DEF QueueGood

\* Changing the numbers of sounds, but not of one behind the first that was not
\* sought so that it has no samples or some of it was played.
LEMMA QueueChange ==
  ASSUME NEW q, NEW tracks, NEW sought, QueueGood(q, tracks, sought),
         NEW r, r = [i \in DOMAIN q |-> r[i]],
         \A i \in 1 .. Len(q) : /\ r[i] \in Sound /\ r[i].track = q[i].track
                                /\ i > 1 => /\ r[i].written = q[i].written
                                            /\ q[i].total # 0 => r[i].total # 0
  PROVE  /\ QueueGood(r, tracks, sought) /\ Len(r) = Len(q)
         /\ r = <<>> <=> q = <<>>
         /\ q # <<>> => Head(r).track = Head(q).track
<1>1. /\ q \in Seq(Sound)
      /\ \A i \in 1 .. Len(q) :
           /\ q[i].track \in tracks
           /\ i > 1 => /\ q[i].track \notin sought /\ q[i].written = 0
                       /\ Announced[q[i].track] # 0 => q[i].total # 0
  BY DEF QueueGood
<1>2. DOMAIN q = 1 .. Len(q) /\ Len(q) \in Nat
  BY <1>1, LenProperties
<1>3. r \in [1 .. Len(q) -> Sound]
  BY <1>2
<1>4. r \in Seq(Sound) /\ Len(r) = Len(q)
  BY <1>2, <1>3
<1>5. QueueGood(r, tracks, sought)
  BY <1>1, <1>4 DEF QueueGood
<1>6. r = <<>> <=> q = <<>>
  BY <1>1, <1>4, EmptySeq
<1>7. q # <<>> => Head(r).track = Head(q).track
  <2> SUFFICES ASSUME q # <<>> PROVE Head(r).track = Head(q).track
    OBVIOUS
  <2>1. Head(q) = q[1] /\ Len(q) \in Nat \ {0}
    BY <1>1, TailRange
  <2>2. Head(r) = r[1]
    BY <1>4, <1>6, TailRange
  <2>3. 1 \in 1 .. Len(q)
    BY <2>1
  <2>4. r[1].track = q[1].track
    BY <2>3
  <2> QED
    BY <2>1, <2>2, <2>4
<1> QED
  BY <1>4, <1>5, <1>6, <1>7

-----------------------------------------------------------------------------
(* The jobs.                                                                *)

\* The first job runs: its track may be one with a buffer after that.
LEMMA JobsTail ==
  ASSUME NEW js, NEW due, NEW opened, NEW tracks, NEW sought, NEW more,
         JobsGood(js, due, opened, tracks, sought), js # <<>>,
         more # opened => Head(js) = Job("add", Head(js).track) /\ more = opened \cup {Head(js).track}
  PROVE  JobsGood(Tail(js), due, more, tracks, sought)
<1>1. /\ js \in Seq(JobType)
      /\ \A i \in 1 .. Len(js) :
           /\ js[i].op = "add" => /\ js[i].track \in tracks \ opened
                                  /\ \A j \in 1 .. Len(js) : js[j] = js[i] => j = i
                                  /\ due \/ \E j \in 1 .. Len(js) : j > i /\ js[j].op = "play"
           /\ js[i].op = "pause_play" => \E j \in 1 .. Len(js) : j > i /\ js[j].op = "resume"
           /\ js[i].op = "seek" => js[i].track \in sought
           /\ js[i].op = "update" => js[i].track \in sought \/ js[i].value # 0
  BY DEF JobsGood
<1>2. /\ Tail(js) \in Seq(JobType) /\ Len(Tail(js)) = Len(js) - 1 /\ Len(js) \in Nat \ {0}
      /\ \A i \in 1 .. Len(Tail(js)) : Tail(js)[i] = js[i + 1] /\ i + 1 \in 1 .. Len(js)
      /\ Head(js) = js[1]
  BY <1>1, TailRange
<1>3. ASSUME NEW i \in 1 .. Len(Tail(js)), NEW op,
             \E j \in 1 .. Len(js) : j > i + 1 /\ js[j].op = op
      PROVE  \E j \in 1 .. Len(Tail(js)) : j > i /\ Tail(js)[j].op = op
  <2>1. PICK j \in 1 .. Len(js) : j > i + 1 /\ js[j].op = op
    BY <1>3
  <2>2. j - 1 \in 1 .. Len(Tail(js)) /\ j - 1 > i /\ (j - 1) + 1 = j
    BY <1>2, <2>1
  <2>3. Tail(js)[j - 1] = js[j]
    BY <1>2, <2>2
  <2> QED
    BY <2>1, <2>2, <2>3
<1>4. ASSUME NEW i \in 1 .. Len(Tail(js)), Tail(js)[i].op = "add"
      PROVE  /\ Tail(js)[i].track \in tracks \ more
             /\ \A j \in 1 .. Len(Tail(js)) : Tail(js)[j] = Tail(js)[i] => j = i
             /\ due \/ \E j \in 1 .. Len(Tail(js)) : j > i /\ Tail(js)[j].op = "play"
  <2>1. Tail(js)[i] = js[i + 1] /\ i + 1 \in 1 .. Len(js) /\ js[i + 1].op = "add" /\ i \in Nat
    BY <1>2, <1>4
  <2>2. \A j \in 1 .. Len(js) : js[j] = js[i + 1] => j = i + 1
    BY <1>1, <2>1
  <2>3. ASSUME NEW j \in 1 .. Len(Tail(js)), Tail(js)[j] = Tail(js)[i] PROVE j = i
    <3>1. Tail(js)[j] = js[j + 1] /\ j + 1 \in 1 .. Len(js) /\ j \in Nat
      BY <1>2
    <3>2. j + 1 = i + 1
      BY <2>1, <2>2, <2>3, <3>1
    <3> QED
      BY <2>1, <3>1, <3>2
  <2>4. due \/ \E j \in 1 .. Len(Tail(js)) : j > i /\ Tail(js)[j].op = "play"
    BY <1>1, <1>3, <2>1
  <2>5. js[i + 1].track \in tracks \ opened
    BY <1>1, <2>1
  <2>6. CASE more # opened
    <3>1. Head(js) = Job("add", Head(js).track) /\ more = opened \cup {Head(js).track}
      BY <2>6
    <3>2. js[i + 1] \in [op : {"add", "clear"}, track : Track]
      BY <1>1, <2>1 DEF JobType, PluginStates
    <3>3. js[i + 1] = Job("add", js[i + 1].track)
      BY <2>1, <3>2 DEF Job
    <3>4. js[1] # js[i + 1]
      BY <1>2, <2>1, <2>2
    <3>5. js[i + 1].track # Head(js).track
      BY <1>2, <3>1, <3>3, <3>4
    <3> QED
      BY <2>1, <2>3, <2>4, <2>5, <3>1, <3>5
  <2> QED
    BY <2>1, <2>3, <2>4, <2>5, <2>6
<1>5. ASSUME NEW i \in 1 .. Len(Tail(js))
      PROVE  /\ Tail(js)[i].op = "pause_play" => \E j \in 1 .. Len(Tail(js)) : j > i /\ Tail(js)[j].op = "resume"
             /\ Tail(js)[i].op = "seek" => Tail(js)[i].track \in sought
             /\ Tail(js)[i].op = "update" => Tail(js)[i].track \in sought \/ Tail(js)[i].value # 0
  <2>1. Tail(js)[i] = js[i + 1] /\ i + 1 \in 1 .. Len(js)
    BY <1>2
  <2> QED
    BY <1>1, <1>3, <2>1
<1>6. more \subseteq tracks
  <2>1. CASE more # opened
    <3>1. Head(js).op = "add" /\ more = opened \cup {Head(js).track} /\ 1 \in 1 .. Len(js)
      BY <1>2, <2>1 DEF Job
    <3>2. Head(js).track \in tracks
      BY <1>1, <1>2, <3>1
    <3> QED
      BY <3>1, <3>2 DEF JobsGood
  <2>2. CASE more = opened
    BY <2>2 DEF JobsGood
  <2> QED
    BY <2>1, <2>2
<1> QED
  BY <1>2, <1>4, <1>5, <1>6 DEF JobsGood

\* Jobs are posted behind those that wait.
LEMMA JobsPosted ==
  ASSUME NEW js, NEW due, NEW opened, NEW tracks, NEW sought, JobsGood(js, due, opened, tracks, sought),
         NEW ks, NEW dueNow, NEW tracksNow, NEW soughtNow, JobsGood(ks, dueNow, opened, tracksNow, soughtNow),
         tracks \subseteq tracksNow, sought \subseteq soughtNow,
         due => dueNow \/ \E j \in 1 .. Len(ks) : ks[j].op = "play",
         \A i \in 1 .. Len(ks) : ks[i].op = "add" => ks[i].track \notin tracks
  PROVE  JobsGood(js \o ks, dueNow, opened, tracksNow, soughtNow)
<1>1. /\ js \in Seq(JobType)
      /\ \A i \in 1 .. Len(js) :
           /\ js[i].op = "add" => /\ js[i].track \in tracks \ opened
                                  /\ \A j \in 1 .. Len(js) : js[j] = js[i] => j = i
                                  /\ due \/ \E j \in 1 .. Len(js) : j > i /\ js[j].op = "play"
           /\ js[i].op = "pause_play" => \E j \in 1 .. Len(js) : j > i /\ js[j].op = "resume"
           /\ js[i].op = "seek" => js[i].track \in sought
           /\ js[i].op = "update" => js[i].track \in sought \/ js[i].value # 0
  BY DEF JobsGood
<1>2. /\ ks \in Seq(JobType)
      /\ \A i \in 1 .. Len(ks) :
           /\ ks[i].op = "add" => /\ ks[i].track \in tracksNow \ opened
                                  /\ \A j \in 1 .. Len(ks) : ks[j] = ks[i] => j = i
                                  /\ dueNow \/ \E j \in 1 .. Len(ks) : j > i /\ ks[j].op = "play"
           /\ ks[i].op = "pause_play" => \E j \in 1 .. Len(ks) : j > i /\ ks[j].op = "resume"
           /\ ks[i].op = "seek" => ks[i].track \in soughtNow
           /\ ks[i].op = "update" => ks[i].track \in soughtNow \/ ks[i].value # 0
  BY DEF JobsGood
<1> DEFINE all == js \o ks
<1>3. /\ all \in Seq(JobType) /\ Len(all) = Len(js) + Len(ks)
      /\ \A i \in 1 .. Len(js) + Len(ks) : all[i] = IF i <= Len(js) THEN js[i] ELSE ks[i - Len(js)]
  BY <1>1, <1>2, ConcatRange
<1>4. Len(js) \in Nat /\ Len(ks) \in Nat
  BY <1>1, <1>2, LenProperties
<1> HIDE DEF all
<1>5. \A i \in 1 .. Len(js) : all[i] = js[i] /\ i \in 1 .. Len(all)
  BY <1>3, <1>4
<1>6. \A j \in 1 .. Len(ks) : all[Len(js) + j] = ks[j] /\ Len(js) + j \in 1 .. Len(all)
  <2> TAKE j \in 1 .. Len(ks)
  <2>1. Len(js) + j \in 1 .. Len(js) + Len(ks) /\ ~(Len(js) + j <= Len(js)) /\ (Len(js) + j) - Len(js) = j
    BY <1>4
  <2> QED
    BY <1>3, <2>1
<1>7. ASSUME NEW i \in 1 .. Len(all)
      PROVE  \/ i \in 1 .. Len(js)
             \/ \E j \in 1 .. Len(ks) : i = Len(js) + j
  <2>1. CASE i > Len(js)
    <3>1. i - Len(js) \in 1 .. Len(ks) /\ i = Len(js) + (i - Len(js))
      BY <1>3, <1>4, <2>1
    <3> QED
      BY <3>1
  <2>2. CASE ~(i > Len(js))
    BY <1>3, <1>4, <2>2
  <2> QED
    BY <2>1, <2>2
<1>8. ASSUME NEW i \in 1 .. Len(js)
      PROVE  /\ js[i].op = "add" => /\ js[i].track \in tracksNow \ opened
                                    /\ \A j \in 1 .. Len(all) : all[j] = js[i] => j = i
                                    /\ dueNow \/ \E j \in 1 .. Len(all) : j > i /\ all[j].op = "play"
             /\ js[i].op = "pause_play" => \E j \in 1 .. Len(all) : j > i /\ all[j].op = "resume"
             /\ js[i].op = "seek" => js[i].track \in soughtNow
             /\ js[i].op = "update" => js[i].track \in soughtNow \/ js[i].value # 0
  <2>1. ASSUME NEW op, \E j \in 1 .. Len(js) : j > i /\ js[j].op = op
        PROVE  \E j \in 1 .. Len(all) : j > i /\ all[j].op = op
    BY <1>5, <2>1
  <2>2. ASSUME NEW op, \E j \in 1 .. Len(ks) : ks[j].op = op
        PROVE  \E j \in 1 .. Len(all) : j > i /\ all[j].op = op
    <3>1. PICK j \in 1 .. Len(ks) : ks[j].op = op
      BY <2>2
    <3>2. Len(js) + j > i
      BY <1>4
    <3> QED
      BY <1>6, <3>1, <3>2
  <2>3. ASSUME js[i].op = "add", NEW j \in 1 .. Len(all), all[j] = js[i]
        PROVE  j = i
    <3>1. CASE j \in 1 .. Len(js)
      BY <1>1, <1>5, <2>3, <3>1
    <3>2. ASSUME NEW k \in 1 .. Len(ks), j = Len(js) + k
          PROVE  FALSE
      <4>1. ks[k] = js[i]
        BY <1>6, <2>3, <3>2
      <4>2. js[i].track \in tracks /\ js[i].track \notin tracks
        BY <1>1, <2>3, <4>1
      <4> QED
        BY <4>2
    <3> QED
      BY <1>7, <3>1, <3>2
  <2>4. js[i].op = "add" => dueNow \/ \E j \in 1 .. Len(all) : j > i /\ all[j].op = "play"
    BY <1>1, <2>1, <2>2
  <2> QED
    BY <1>1, <2>1, <2>3, <2>4
<1>9. ASSUME NEW k \in 1 .. Len(ks)
      PROVE  /\ ks[k].op = "add" => /\ ks[k].track \in tracksNow \ opened
                                    /\ \A j \in 1 .. Len(all) : all[j] = ks[k] => j = Len(js) + k
                                    /\ dueNow \/ \E j \in 1 .. Len(all) : j > Len(js) + k /\ all[j].op = "play"
             /\ ks[k].op = "pause_play" => \E j \in 1 .. Len(all) : j > Len(js) + k /\ all[j].op = "resume"
             /\ ks[k].op = "seek" => ks[k].track \in soughtNow
             /\ ks[k].op = "update" => ks[k].track \in soughtNow \/ ks[k].value # 0
  <2>1. ASSUME NEW op, \E j \in 1 .. Len(ks) : j > k /\ ks[j].op = op
        PROVE  \E j \in 1 .. Len(all) : j > Len(js) + k /\ all[j].op = op
    <3>1. PICK j \in 1 .. Len(ks) : j > k /\ ks[j].op = op
      BY <2>1
    <3>2. Len(js) + j > Len(js) + k
      BY <1>4, <3>1
    <3> QED
      BY <1>6, <3>1, <3>2
  <2>2. ASSUME ks[k].op = "add", NEW j \in 1 .. Len(all), all[j] = ks[k]
        PROVE  j = Len(js) + k
    <3>1. ASSUME j \in 1 .. Len(js) PROVE FALSE
      <4>1. js[j] = ks[k]
        BY <1>5, <2>2, <3>1
      <4>2. js[j].track \in tracks /\ ks[k].track \notin tracks
        BY <1>1, <2>2, <3>1, <4>1
      <4> QED
        BY <4>1, <4>2
    <3>2. ASSUME NEW l \in 1 .. Len(ks), j = Len(js) + l PROVE l = k
      BY <1>2, <1>6, <2>2, <3>2
    <3> QED
      BY <1>7, <3>1, <3>2
  <2> QED
    BY <1>2, <2>1, <2>2
<1>10. \A i \in 1 .. Len(all) :
         /\ all[i].op = "add" => /\ all[i].track \in tracksNow \ opened
                                 /\ \A j \in 1 .. Len(all) : all[j] = all[i] => j = i
                                 /\ dueNow \/ \E j \in 1 .. Len(all) : j > i /\ all[j].op = "play"
         /\ all[i].op = "pause_play" => \E j \in 1 .. Len(all) : j > i /\ all[j].op = "resume"
         /\ all[i].op = "seek" => all[i].track \in soughtNow
         /\ all[i].op = "update" => all[i].track \in soughtNow \/ all[i].value # 0
  <2> TAKE i \in 1 .. Len(all)
  <2>1. CASE i \in 1 .. Len(js)
    BY <1>5, <1>8, <2>1
  <2>2. ASSUME NEW k \in 1 .. Len(ks), i = Len(js) + k
        PROVE  /\ all[i].op = "add" => /\ all[i].track \in tracksNow \ opened
                                       /\ \A j \in 1 .. Len(all) : all[j] = all[i] => j = i
                                       /\ dueNow \/ \E j \in 1 .. Len(all) : j > i /\ all[j].op = "play"
               /\ all[i].op = "pause_play" => \E j \in 1 .. Len(all) : j > i /\ all[j].op = "resume"
               /\ all[i].op = "seek" => all[i].track \in soughtNow
               /\ all[i].op = "update" => all[i].track \in soughtNow \/ all[i].value # 0
    BY <1>6, <1>9, <2>2
  <2> QED
    BY <1>7, <2>1, <2>2
<1>11. opened \subseteq tracksNow
  BY DEF JobsGood
<1>12. JobsGood(all, dueNow, opened, tracksNow, soughtNow)
  BY <1>3, <1>10, <1>11 DEF JobsGood
<1> QED
  BY <1>12 DEF all

\* One job is posted.
LEMMA JobPosted ==
  ASSUME NEW js, NEW due, NEW opened, NEW tracks, NEW sought, JobsGood(js, due, opened, tracks, sought),
         NEW e \in JobType, NEW dueNow, NEW tracksNow, tracks \subseteq tracksNow,
         e.op = "add" => e.track \in tracksNow \ opened /\ e.track \notin tracks /\ dueNow,
         due => dueNow \/ e.op = "play",
         e.op \notin {"pause_play", "seek"},
         e.op = "update" => e.track \in sought \/ e.value # 0
  PROVE  JobsGood(Append(js, e), dueNow, opened, tracksNow, sought)
<1>1. <<e>> \in Seq(JobType) /\ Len(<<e>>) = 1 /\ <<e>>[1] = e
  BY SingleSeq
<1>2. \A i \in 1 .. 1 : i = 1
  OBVIOUS
<1> DEFINE es == <<e>>
<1> HIDE DEF es
<1>3. es \in Seq(JobType) /\ Len(es) = 1 /\ es[1] = e
  BY <1>1 DEF es
<1>4. JobsGood(es, dueNow, opened, tracksNow, sought)
  <2>1. opened \subseteq tracksNow
    BY DEF JobsGood
  <2> QED
    BY <1>2, <1>3, <2>1 DEF JobsGood
<1>5. /\ due => dueNow \/ \E j \in 1 .. Len(es) : es[j].op = "play"
      /\ \A i \in 1 .. Len(es) : es[i].op = "add" => es[i].track \notin tracks
  <2>1. 1 \in 1 .. Len(es)
    BY <1>3
  <2> QED
    BY <1>2, <1>3, <2>1
<1>6. JobsGood(js \o es, dueNow, opened, tracksNow, sought)
  BY <1>4, <1>5, JobsPosted
<1>7. js \in Seq(JobType)
  BY DEF JobsGood
<1>8. Append(js, e) = js \o es
  BY <1>7, AppendRange DEF es
<1> QED
  BY <1>6, <1>8

-----------------------------------------------------------------------------
(* play().                                                                  *)

\* init_alsa() leaves the card without a format or with that of the sound.
LEMMA CardSetUp ==
  ASSUME DecoderOK, CardOK, NEW t \in Track, NEW c \in CardStates, NEW r \in init_alsa(t, c)
  PROVE  /\ r.ok \in BOOLEAN /\ r.card \in CardStates
         /\ r.format \subseteq {decoder[t].format} /\ r.format \subseteq AllFormats
<1>1. decoder[t].format \in AllFormats
  BY DEF DecoderOK, DecoderType
<1>2. CASE same_as_before(t)
  <2>1. r = CardResult(TRUE, c, cardFormat)
    BY <1>2 DEF init_alsa
  <2>2. PICK u \in Track : prev = {u}
    BY <1>2 DEF same_as_before, CardOK
  <2>3. cardFormat \subseteq {decoder[u].format} /\ decoder[u].format = decoder[t].format
    BY <1>2, <2>2 DEF same_as_before, CardOK
  <2> QED
    BY <1>1, <2>1, <2>3 DEF CardResult
<1>3. CASE ~same_as_before(t)
  <2>1. \E s \in init_hw_params(t) : r \in init_sw_params(s)
    BY <1>3 DEF init_alsa
  <2>2. PICK s \in init_hw_params(t) : r = s \/ r = [s EXCEPT !.ok = FALSE]
    BY <2>1 DEF init_sw_params
  <2>3. \/ s = [ok |-> TRUE, card |-> "ready", format |-> {decoder[t].format}]
        \/ s = [ok |-> FALSE, card |-> "setup", format |-> {}]
    BY DEF init_hw_params, CardResult
  <2> DEFINE R == [ok : BOOLEAN, card : {"ready", "setup"}, format : {{decoder[t].format}, {}}]
  <2>4. s \in R
    <3>1. [ok |-> TRUE, card |-> "ready", format |-> {decoder[t].format}] \in R
      OBVIOUS
    <3>2. [ok |-> FALSE, card |-> "setup", format |-> {}] \in R
      OBVIOUS
    <3> QED
      BY <2>3, <3>1, <3>2
  <2>5. r \in R
    BY <2>2, <2>4
  <2>6. r.ok \in BOOLEAN /\ r.card \in {"ready", "setup"} /\ r.format \in {{decoder[t].format}, {}}
    BY <2>5
  <2> QED
    BY <1>1, <2>6 DEF CardStates
<1> QED
  BY <1>2, <1>3

\* What ReArm leaves: one timer calls play() at most, and one if it is to go on.
LEMMA ReArmOK ==
  ASSUME NEW st, NEW q, NEW tm, ClocksGood(tm), ~is_active_timer(tm, playTimer), ReArm(st, q, tm),
         polls' = polls
  PROVE  ClocksOK' /\ (st = "play" /\ ~is_no_job(q) => timers'.active # {})
<1>1. tm.active \subseteq polls /\ TimersOK(tm)
  BY DEF ClocksGood, is_active_timer
<1>2. CASE st = "play" /\ ~is_no_job(q)
  <2>1. timers' = CreateGetTimer(tm) /\ playTimer' = TimerToGet(tm)
    BY <1>2 DEF ReArm
  <2>2. /\ TimersOK(timers') /\ timers'.active = tm.active \cup {TimerToGet(tm)}
        /\ TimerToGet(tm) \in 1 .. timers'.made
    BY <1>1, <2>1, CreateOK
  <2>3. TimerToGet(tm) \in 0 .. timers'.made
    BY <2>2 DEF TimersOK
  <2> QED
    BY <1>1, <2>1, <2>2, <2>3 DEF ClocksOK, ClocksGood
<1>3. CASE ~(st = "play" /\ ~is_no_job(q))
  BY <1>3 DEF ReArm, ClocksOK, ClocksGood
<1> QED
  BY <1>2, <1>3

\* What the buffers may become when the output takes data out of them.
LEMMA BuffersShrink ==
  ASSUME BuffersOK, NEW new \in [Buffer -> Seq(1 .. ChunkSize)],
         \A b \in Buffer : Len(new[b]) <= Len(data[b]),
         data' = new, filling' = filling
  PROVE  BuffersOK'
<1>1. \A b \in Buffer : Len(new[b]) \in Nat /\ Len(data[b]) \in Nat
  BY DEF BuffersOK
<1>2. ChunkCount \in Nat
  BY OutputAssumption
<1> QED
  BY <1>1, <1>2 DEF BuffersOK

\* A buffer is emptied.
LEMMA BufferEmptied ==
  ASSUME BuffersOK, NEW new \in [Buffer -> Seq(1 .. ChunkSize)],
         \A c \in Buffer : Len(new[c]) <= Len(data[c]), NEW b
  PROVE  /\ [new EXCEPT ![b] = <<>>] \in [Buffer -> Seq(1 .. ChunkSize)]
         /\ \A c \in Buffer : Len([new EXCEPT ![b] = <<>>][c]) <= Len(data[c])
<1> DEFINE none == <<>>
<1>1. none \in Seq(1 .. ChunkSize) /\ Len(none) = 0
  BY NothingIn
<1>2. \A c \in Buffer : Len(data[c]) \in Nat
  BY DEF BuffersOK
<1> HIDE DEF none
<1>3. /\ [new EXCEPT ![b] = none] \in [Buffer -> Seq(1 .. ChunkSize)]
      /\ \A c \in Buffer : [new EXCEPT ![b] = none][c] \in {new[c], none}
  BY <1>1
<1>4. \A c \in Buffer : Len([new EXCEPT ![b] = none][c]) <= Len(data[c])
  BY <1>1, <1>2, <1>3
<1> QED
  BY <1>3, <1>4 DEF none

\* Any buffers are emptied.
LEMMA BuffersEmptied ==
  ASSUME BuffersOK, NEW P, data' = [b \in Buffer |-> IF b \in P THEN <<>> ELSE data[b]], filling' = filling
  PROVE  BuffersOK'
<1> DEFINE none == <<>>
<1>1. none \in Seq(1 .. ChunkSize) /\ Len(none) = 0
  BY NothingIn
<1>2. data \in [Buffer -> Seq(1 .. ChunkSize)] /\ \A b \in Buffer : Len(data[b]) \in Nat
  BY DEF BuffersOK
<1> DEFINE new == [b \in Buffer |-> IF b \in P THEN none ELSE data[b]]
<1>3. data' = new
  OBVIOUS
<1> HIDE DEF none
<1>4. new \in [Buffer -> Seq(1 .. ChunkSize)]
  BY <1>1, <1>2
<1>5. \A b \in Buffer : new[b] = none \/ new[b] = data[b]
  OBVIOUS
<1> HIDE DEF new
<1>6. \A b \in Buffer : Len(new[b]) <= Len(data[b])
  BY <1>1, <1>2, <1>5
<1> QED
  BY <1>3, <1>4, <1>6, BuffersShrink

\* Samples are taken from the first chunk of a buffer.
LEMMA BufferTaken ==
  ASSUME BuffersOK, NEW b \in Buffer, data[b] # <<>>, NEW n \in Written(Head(data[b])), NEW isFinished \in BOOLEAN
  PROVE  /\ [data EXCEPT ![b] = Taken(@, n, isFinished)] \in [Buffer -> Seq(1 .. ChunkSize)]
         /\ \A c \in Buffer : Len([data EXCEPT ![b] = Taken(@, n, isFinished)][c]) <= Len(data[c])
<1>1. data[b] \in Seq(1 .. ChunkSize) /\ data \in [Buffer -> Seq(1 .. ChunkSize)]
  BY DEF BuffersOK
<1>2. /\ Head(data[b]) \in 1 .. ChunkSize /\ Head(data[b]) = data[b][1] /\ Tail(data[b]) \in Seq(1 .. ChunkSize)
      /\ Len(Tail(data[b])) = Len(data[b]) - 1 /\ Len(data[b]) \in Nat \ {0}
  BY <1>1, TailRange
<1>3. ChunkSize \in Nat /\ n \in 0 .. Head(data[b])
  BY OutputAssumption DEF Written
<1>4. Taken(data[b], n, isFinished) \in Seq(1 .. ChunkSize) /\ Len(Taken(data[b], n, isFinished)) <= Len(data[b])
  <2>1. CASE isFinished \/ n = Head(data[b])
    BY <1>2, <2>1 DEF Taken
  <2>2. CASE ~(isFinished \/ n = Head(data[b]))
    <3>1. data[b][1] - n \in 1 .. ChunkSize
      BY <1>2, <1>3, <2>2
    <3> DEFINE less == [data[b] EXCEPT ![1] = data[b][1] - n]
    <3>2. Taken(data[b], n, isFinished) = less
      BY <2>2 DEF Taken
    <3>3. data[b] \in [1 .. Len(data[b]) -> 1 .. ChunkSize]
      BY <1>1, LenProperties
    <3>4. less \in [1 .. Len(data[b]) -> 1 .. ChunkSize]
      BY <3>1, <3>3
    <3> HIDE DEF less
    <3>5. less \in Seq(1 .. ChunkSize) /\ Len(less) = Len(data[b])
      BY <1>2, <3>4, FunctionSeq
    <3> QED
      BY <1>2, <3>2, <3>5
  <2> QED
    BY <2>1, <2>2
<1>5. \A c \in Buffer : Len(data[c]) \in Nat
  BY <1>1
<1> QED
  BY <1>1, <1>4, <1>5

\* A buffer that is given back is free or dropped, and has no track.
LEMMA PoolPutBack ==
  ASSUME PoolOK, NEW t \in Track, pool' = put_cache_back(pool, t), decoder' = decoder
  PROVE  PoolOK'
<1>1. Opened' = Opened
  BY DEF Opened
<1>2. CASE ~is_in_cache(pool, t)
  <2>1. pool' = pool
    BY <1>2 DEF put_cache_back
  <2> QED
    BY <1>1, <2>1 DEF PoolOK
<1>3. CASE is_in_cache(pool, t)
  <2> DEFINE free == IF Len(pool.free) < MaxCacheCount THEN Append(pool.free, pool.used[t]) ELSE pool.free
  <2>1. /\ pool.used \in [Track -> 0 .. pool.made] /\ pool.free \in Seq(1 .. pool.made) /\ pool.made \in Nat
        /\ pool = [used |-> pool.used, free |-> pool.free, made |-> pool.made]
        /\ IsInjective(pool.free) /\ pool.used[t] \notin Range(pool.free)
    BY <1>3 DEF PoolOK, PoolType
  <2>2. pool.used[t] \in 1 .. pool.made
    BY <1>3, <2>1 DEF is_in_cache
  <2>3. /\ free \in Seq(1 .. pool.made) /\ IsInjective(free)
        /\ Range(free) \subseteq Range(pool.free) \cup {pool.used[t]}
    <3> DEFINE S == 1 .. pool.made
               f == pool.free
               b == pool.used[t]
    <3>1. b \in S /\ f \in Seq(S) /\ IsInjective(f) /\ b \notin Range(f)
      BY <2>1, <2>2
    <3> HIDE DEF S, f, b
    <3>2. /\ Append(f, b) \in Seq(S) /\ Range(Append(f, b)) = Range(f) \cup {b}
          /\ IsInjective(Append(f, b)) <=> IsInjective(f) /\ b \notin Range(f)
      BY <3>1, AppendRange
    <3>3. free \in {Append(f, b), f}
      BY DEF f, b
    <3> HIDE DEF free
    <3>4. free \in Seq(S) /\ IsInjective(free) /\ Range(free) \subseteq Range(f) \cup {b}
      BY <3>1, <3>2, <3>3
    <3> QED
      BY <3>4 DEF S, f, b
  <2>4. pool' = [used |-> [pool.used EXCEPT ![t] = 0], free |-> free, made |-> pool.made]
    BY <1>3, <2>1 DEF put_cache_back
  <2> HIDE DEF free
  <2>5. pool'.used = [pool.used EXCEPT ![t] = 0] /\ pool'.free = free /\ pool'.made = pool.made
    BY <2>4
  <2>6. pool' \in PoolType(pool'.made) /\ pool'.made \in Nat /\ pool'.made <= Cardinality(Opened)
    BY <2>1, <2>3, <2>4, <2>5 DEF PoolOK, PoolType
  <2>7. \A u \in Track : pool'.used[u] = IF u = t THEN 0 ELSE pool.used[u]
    BY <2>1, <2>5
  <2>8. \A u, v \in Track : pool'.used[u] = pool'.used[v] => u = v \/ ~is_in_cache(pool', u)
    BY <2>7 DEF PoolOK, is_in_cache
  <2>9. \A u \in Track : is_in_cache(pool', u) => u \in Opened /\ pool'.used[u] \notin Range(pool'.free)
    <3> TAKE u \in Track
    <3> HAVE is_in_cache(pool', u)
    <3>1. u # t /\ pool'.used[u] = pool.used[u] /\ is_in_cache(pool, u)
      BY <2>7 DEF is_in_cache
    <3>2. u \in Opened /\ pool.used[u] \notin Range(pool.free) /\ pool.used[u] # pool.used[t]
      BY <3>1 DEF PoolOK
    <3> QED
      BY <2>3, <2>5, <3>1, <3>2
  <2> QED
    BY <1>1, <2>3, <2>5, <2>6, <2>8, <2>9 DEF PoolOK
<1> QED
  BY <1>2, <1>3

\* The output plays and has something to play,
Busy == state = "play" /\ queue # <<>> /\ Announced[Head(queue).track] # 0 /\ ~Deaf

\* and a timer or a job to go on.
Alive == timers.active # {} \/ contDue \/ \E i \in DOMAIN jobs : jobs[i].op \in {"play", "resume", "poll"}

\* A sound that leaves leaves a timer, if the next one is to be played.
LEMMA SoundLeaves ==
  ASSUME QueueOK, queue # <<>>, queue' = Tail(queue), NEW st, NEW tm,
         ClocksGood(tm), ~is_active_timer(tm, playTimer), ReArm(st, queue', tm),
         state' = st, UNCHANGED <<polls, added, seeks>>
  PROVE  QueueOK' /\ ClocksOK' /\ (Busy' => timers'.active # {})
<1>1. /\ QueueGood(Tail(queue), added, Range(seeks))
      /\ Tail(queue) # <<>> /\ is_no_job(Tail(queue)) => Announced[Head(Tail(queue)).track] = 0
  BY QueueTail DEF QueueOK
<1>2. ClocksOK' /\ (st = "play" /\ ~is_no_job(queue') => timers'.active # {})
  BY ReArmOK
<1>3. QueueOK'
  BY <1>1 DEF QueueOK
<1>4. Busy' => st = "play" /\ ~is_no_job(queue')
  BY <1>1 DEF Busy
<1> QED
  BY <1>2, <1>3, <1>4

\* play() keeps the parts it is about, whatever way it takes; it leaves a timer if
\* there is something to play.
LEMMA PlayKeeps ==
  ASSUME IInv, NEW c \in CardStates, NEW p \in BOOLEAN, NEW tm, ClocksGood(tm), play(c, p, tm),
         UNCHANGED <<filling, polls, others>>
  PROVE  /\ ValuesOK' /\ DecoderOK' /\ PoolOK' /\ BuffersOK' /\ QueueOK' /\ ClocksOK' /\ CardOK'
         /\ Busy' => timers'.active # {}
<1> USE DEF IInv
<1>1. UNCHANGED <<added, contDue, decoder, seeks, filling, polls>>
  BY DEF others
<1>2. DecoderOK'
  BY <1>1, Frame
<1>3. CASE ~MayPlay(tm)
  <2>1. /\ card' = c /\ paused' = p /\ timers' = tm
        /\ UNCHANGED <<state, queue, prev, initApi, cardFormat, starved, pool, data, playTimer, reported>>
    BY <1>3 DEF play
  <2>2. ValuesOK'
    BY <1>1, <2>1 DEF ValuesOK
  <2>3. PoolOK' /\ BuffersOK' /\ QueueOK' /\ CardOK'
    BY <1>1, <2>1, Frame
  <2>4. ClocksOK'
    BY <1>1, <2>1 DEF ClocksOK, ClocksGood
  <2>5. Busy' => timers'.active # {}
    BY <1>3, <2>1 DEF Busy, MayPlay, is_active_timer
  <2> QED
    BY <1>2, <2>2, <2>3, <2>4, <2>5
<1>4. CASE MayPlay(tm)
  <2>1. /\ state = "play" /\ ~is_active_timer(tm, playTimer) /\ queue # <<>>
    BY <1>4 DEF MayPlay
  <2>2. PICK r \in IF initApi THEN {CardResult(TRUE, c, cardFormat)} ELSE init_alsa(Head(queue).track, c) :
           /\ cardFormat' = r.format /\ paused' = (initApi /\ p)
           /\ prev' = IF initApi THEN prev ELSE {Head(queue).track}
           /\ \/ ~r.ok /\ PlayRefused(r.card, tm)
              \/ r.ok /\ (PlayStarves(r.card, tm) \/ PlayFails(r.card, tm))
              \/ /\ r.ok /\ data[Head(queue).buffer] # <<>> /\ xrun_recovery(r.card)
                 /\ \E n \in Written(Head(data[Head(queue).buffer])), t \in prev' : PlayWrites(n, t, r.card, tm)
    BY <1>4 DEF play
  <2>3. /\ queue \in Seq(Sound) /\ Len(queue) \in Nat \ {0} /\ Head(queue) = queue[1] /\ queue[1] \in Sound
        /\ Head(queue).track \in Track /\ Head(queue).track \in added
        /\ Head(queue).buffer \in Buffer /\ Head(queue).total \in Nat /\ Head(queue).written \in Nat
    BY <2>1, FirstSound
  <2>4. /\ r.card \in CardStates /\ cardFormat' \subseteq AllFormats
        /\ prev' = {} \/ \E t \in Track : prev' = {t}
        /\ \A t \in prev' : cardFormat' \subseteq {decoder'[t].format}
        /\ ~(starved /\ initApi) => prev' = {Head(queue).track}
    <3>1. CASE initApi
      <4>1. r.card = c /\ r.format = cardFormat
        BY <2>2, <3>1 DEF CardResult
      <4> QED
        BY <1>1, <2>2, <3>1, <4>1 DEF CardOK
    <3>2. CASE ~initApi
      <4>1. r \in init_alsa(Head(queue).track, c)
        BY <2>2, <3>2
      <4>2. /\ r.card \in CardStates /\ r.format \subseteq {decoder[Head(queue).track].format}
            /\ r.format \subseteq AllFormats
        BY <2>3, <4>1, CardSetUp
      <4> QED
        BY <1>1, <2>2, <2>3, <3>2, <4>2
    <3> QED
      BY <3>1, <3>2
  <2>5. /\ paused' \in BOOLEAN /\ prev' \subseteq Track
    BY <2>2, <2>4 DEF ValuesOK
  <2>6. data \in [Buffer -> Seq(1 .. ChunkSize)] /\ \A b \in Buffer : Len(data[b]) \in Nat
    BY DEF BuffersOK
  <2>7. CASE PlayRefused(r.card, tm)
    <3>1. /\ initApi' = FALSE /\ card' = r.card /\ reported' = reported \cup {Head(queue).track}
          /\ data' = [data EXCEPT ![Head(queue).buffer] = <<>>]
          /\ queue' = Tail(queue) /\ ReArm(state, queue', tm)
          /\ UNCHANGED <<state, pool, starved>>
      BY <2>7 DEF PlayRefused
    <3>2. ValuesOK'
      BY <1>1, <2>3, <2>4, <2>5, <3>1 DEF ValuesOK
    <3>3. QueueOK' /\ ClocksOK' /\ (Busy' => timers'.active # {})
      BY <1>1, <2>1, <3>1, SoundLeaves
    <3>4. BuffersOK'
      <4>1. /\ data' \in [Buffer -> Seq(1 .. ChunkSize)]
            /\ \A b \in Buffer : Len(data'[b]) <= Len(data[b])
        BY <2>6, <3>1, BufferEmptied
      <4> QED
        BY <1>1, <4>1, BuffersShrink
    <3>5. PoolOK'
      BY <1>1, <3>1, Frame
    <3>6. CardOK'
      BY <2>4, <3>1 DEF CardOK
    <3> QED
      BY <1>2, <3>2, <3>3, <3>4, <3>5, <3>6
  <2>8. CASE PlayStarves(r.card, tm)
    <3>1. /\ initApi' = TRUE /\ card' = r.card /\ starved' = TRUE
          /\ queue' = Tail(queue) /\ ReArm(state, queue', tm)
          /\ UNCHANGED <<state, pool, data, reported>>
      BY <2>8 DEF PlayStarves
    <3>2. ValuesOK'
      BY <1>1, <2>4, <2>5, <3>1 DEF ValuesOK
    <3>3. QueueOK' /\ ClocksOK' /\ (Busy' => timers'.active # {})
      BY <1>1, <2>1, <3>1, SoundLeaves
    <3>4. BuffersOK' /\ PoolOK'
      BY <1>1, <3>1, Frame
    <3>5. CardOK'
      BY <2>4, <3>1 DEF CardOK
    <3> QED
      BY <1>2, <3>2, <3>3, <3>4, <3>5
  <2>9. CASE PlayFails(r.card, tm)
    <3>1. /\ initApi' = TRUE /\ card' = r.card /\ starved' = (starved /\ initApi) /\ ~xrun_recovery(r.card)
          /\ ReArm(state, queue, tm)
          /\ UNCHANGED <<state, queue, pool, data, reported>>
      BY <2>9 DEF PlayFails
    <3>2. ValuesOK'
      BY <1>1, <2>4, <2>5, <3>1 DEF ValuesOK
    <3>3. ClocksOK'
      BY <1>1, <2>1, <3>1, ReArmOK
    <3>4. QueueOK' /\ BuffersOK' /\ PoolOK'
      BY <1>1, <3>1, Frame
    <3>5. CardOK'
      BY <2>1, <2>4, <3>1 DEF CardOK
    <3>6. ~Busy'
      BY <3>1 DEF Busy, Deaf, xrun_recovery
    <3> QED
      BY <1>2, <3>2, <3>3, <3>4, <3>5, <3>6
  <2>10. ASSUME data[Head(queue).buffer] # <<>>, NEW n \in Written(Head(data[Head(queue).buffer])),
                NEW t \in prev', PlayWrites(n, t, r.card, tm)
         PROVE  /\ ValuesOK' /\ PoolOK' /\ BuffersOK' /\ QueueOK' /\ ClocksOK' /\ CardOK'
                /\ Busy' => timers'.active # {}
    <3> DEFINE b == Head(queue).buffer
               written == Head(queue).written + n
               isFinished == written = Head(queue).total
               taken == [data EXCEPT ![b] = Taken(@, n, isFinished)]
    <3>1. /\ starved' = (starved /\ initApi)
          /\ IF isFinished THEN SoundFinished(t, r.card, tm, taken)
               ELSE /\ queue' = [queue EXCEPT ![1].written = written] /\ data' = taken
                    /\ card' = r.card /\ initApi' = TRUE
                    /\ ReArm(state, queue', tm)
                    /\ UNCHANGED <<state, pool, reported>>
      BY <2>10 DEF PlayWrites
    <3>2. n \in Nat /\ written \in Nat
      <4>1. Head(data[b]) \in 1 .. ChunkSize
        BY <2>3, <2>6, <2>10, TailRange
      <4> QED
        BY <2>3, <4>1, OutputAssumption DEF Written
    <3>3. isFinished \in BOOLEAN
      OBVIOUS
    <3>4. /\ taken \in [Buffer -> Seq(1 .. ChunkSize)]
          /\ \A d \in Buffer : Len(taken[d]) <= Len(data[d])
      <4> HIDE DEF isFinished
      <4> QED
        BY <2>3, <2>10, <3>3, BufferTaken
    <3> HIDE DEF taken
    <3>5. CASE isFinished
      <4>1. /\ queue' = Tail(queue) /\ reported' = reported \cup {Head(queue).track}
            /\ card' \in {r.card, "setup"}
            /\ pool' = put_cache_back(pool, t)
            /\ data' = IF is_in_cache(pool, t) THEN [taken EXCEPT ![pool.used[t]] = <<>>] ELSE taken
            /\ initApi' = FALSE
            /\ state' = IF is_no_job(queue') THEN "stop" ELSE state
            /\ ReArm(state', queue', tm)
        BY <3>1, <3>5 DEF SoundFinished
      <4>2. ValuesOK'
        BY <1>1, <2>3, <2>4, <2>5, <3>1, <4>1 DEF ValuesOK, CardStates, PluginStates
      <4>3. QueueOK' /\ ClocksOK' /\ (Busy' => timers'.active # {})
        BY <1>1, <2>1, <4>1, SoundLeaves
      <4>4. BuffersOK'
        <5>1. /\ [taken EXCEPT ![pool.used[t]] = <<>>] \in [Buffer -> Seq(1 .. ChunkSize)]
              /\ \A d \in Buffer : Len([taken EXCEPT ![pool.used[t]] = <<>>][d]) <= Len(data[d])
          BY <3>4, BufferEmptied
        <5>2. /\ data' \in [Buffer -> Seq(1 .. ChunkSize)]
              /\ \A d \in Buffer : Len(data'[d]) <= Len(data[d])
          BY <3>4, <4>1, <5>1
        <5> QED
          BY <1>1, <5>2, BuffersShrink
      <4>5. PoolOK'
        BY <1>1, <2>5, <4>1, PoolPutBack
      <4>6. CardOK'
        BY <2>4, <4>1 DEF CardOK
      <4> QED
        BY <4>2, <4>3, <4>4, <4>5, <4>6
    <3>6. CASE ~isFinished
      <4>1. /\ queue' = [queue EXCEPT ![1].written = written] /\ data' = taken
            /\ card' = r.card /\ initApi' = TRUE
            /\ ReArm(state, queue', tm)
            /\ UNCHANGED <<state, pool, reported>>
        BY <3>1, <3>6
      <4>2. ValuesOK'
        BY <1>1, <2>4, <2>5, <3>1, <4>1 DEF ValuesOK
      <4> DEFINE first == [queue[1] EXCEPT !.written = written]
      <4>3. /\ \A i \in 1 .. Len(queue) : queue'[i] = IF i = 1 THEN [queue[1] EXCEPT !.written = written] ELSE queue[i]
            /\ queue' = [i \in DOMAIN queue |-> queue'[i]]
        <5>1. queue' = [queue EXCEPT ![1] = first]
          BY <4>1
        <5> HIDE DEF first
        <5>2. DOMAIN queue = 1 .. Len(queue)
          BY <2>3, LenProperties
        <5>3. /\ \A i \in 1 .. Len(queue) : queue'[i] = IF i = 1 THEN first ELSE queue[i]
              /\ queue' = [i \in DOMAIN queue |-> queue'[i]]
          BY <5>1, <5>2
        <5> QED
          BY <5>3 DEF first
      <4> HIDE DEF written, first
      <4>4. \A i \in 1 .. Len(queue) : /\ queue'[i] \in Sound /\ queue'[i].track = queue[i].track
                                       /\ i > 1 => /\ queue'[i].written = queue[i].written
                                                   /\ queue[i].total # 0 => queue'[i].total # 0
        <5> TAKE i \in 1 .. Len(queue)
        <5>1. queue[i] \in Sound
          BY <2>3
        <5>2. CASE i = 1
          <6>1. queue'[i] = [queue[1] EXCEPT !.written = written]
            BY <4>3, <5>2
          <6>2. [queue[1] EXCEPT !.written = written] \in Sound /\ [queue[1] EXCEPT !.written = written].track = queue[1].track
            BY <2>3, <3>2 DEF Sound
          <6> QED
            BY <5>2, <6>1, <6>2
        <5>3. CASE i # 1
          BY <4>3, <5>1, <5>3
        <5> QED
          BY <5>2, <5>3
      <4>5. /\ QueueGood(queue', added, Range(seeks)) /\ Len(queue') = Len(queue) /\ queue' # <<>>
            /\ Head(queue').track = Head(queue).track
        BY <2>1, <4>3, <4>4, QueueChange DEF QueueOK
      <4>6. QueueOK'
        BY <1>1, <4>5 DEF QueueOK
      <4>7. ~is_no_job(queue')
        <5>1. Head(queue') = queue'[1]
          BY <4>5, TailRange DEF QueueGood
        <5>2. queue'[1] = [queue[1] EXCEPT !.written = written]
          BY <2>3, <4>3
        <5>3. queue'[1].written = written /\ queue'[1].total = Head(queue).total
          BY <2>3, <5>2 DEF Sound
        <5> QED
          BY <3>6, <4>5, <5>1, <5>3 DEF is_no_job
      <4>8. ClocksOK' /\ timers'.active # {}
        BY <1>1, <2>1, <4>1, <4>7, ReArmOK
      <4>9. BuffersOK'
        BY <1>1, <3>4, <4>1, BuffersShrink
      <4>10. PoolOK'
        BY <1>1, <4>1, Frame
      <4>11. CardOK'
        BY <2>4, <3>1, <4>1, <4>5 DEF CardOK
      <4> QED
        BY <4>2, <4>6, <4>8, <4>9, <4>10, <4>11
    <3> QED
      BY <3>5, <3>6
  <2> QED
    BY <1>2, <2>2, <2>7, <2>8, <2>9, <2>10
<1> QED
  BY <1>3, <1>4

-----------------------------------------------------------------------------
(* The other jobs of the output.                                            *)

\* One of the jobs js goes on.
GoesOn(js) == \E i \in DOMAIN js : js[i].op \in {"play", "resume", "poll"}

\* Jobs that go on are still there when others are posted, and when one that does
\* not go on has run.
LEMMA GoesOnStill ==
  ASSUME NEW js \in Seq(JobType)
  PROVE  /\ \A ks \in Seq(JobType) : GoesOn(js) \/ GoesOn(ks) => GoesOn(js \o ks)
         /\ \A e \in JobType : GoesOn(js) \/ e.op \in {"play", "resume", "poll"} => GoesOn(Append(js, e))
         /\ js # <<>> /\ Head(js).op \notin {"play", "resume", "poll"} /\ GoesOn(js) => GoesOn(Tail(js))
<1> USE DEF GoesOn
<1>1. ASSUME NEW ks \in Seq(JobType), GoesOn(js) \/ GoesOn(ks) PROVE GoesOn(js \o ks)
  <2> DEFINE all == js \o ks
  <2>1. /\ all \in Seq(JobType) /\ Len(all) = Len(js) + Len(ks)
        /\ \A i \in 1 .. Len(js) + Len(ks) : all[i] = IF i <= Len(js) THEN js[i] ELSE ks[i - Len(js)]
    BY ConcatRange
  <2>2. Len(js) \in Nat /\ Len(ks) \in Nat
    BY LenProperties
  <2> HIDE DEF all
  <2>3. DOMAIN all = 1 .. Len(all)
    BY <2>1, LenProperties
  <2>4. ASSUME NEW i \in DOMAIN js, js[i].op \in {"play", "resume", "poll"} PROVE GoesOn(all)
    <3>1. i \in DOMAIN all /\ all[i] = js[i]
      BY <2>1, <2>2, <2>3
    <3> QED
      BY <2>4, <3>1
  <2>5. ASSUME NEW i \in DOMAIN ks, ks[i].op \in {"play", "resume", "poll"} PROVE GoesOn(all)
    <3>1. /\ Len(js) + i \in 1 .. Len(js) + Len(ks) /\ ~(Len(js) + i <= Len(js))
          /\ (Len(js) + i) - Len(js) = i
      BY <2>2
    <3>2. all[Len(js) + i] = ks[i]
      BY <2>1, <3>1
    <3> QED
      BY <2>1, <2>3, <2>5, <3>1, <3>2
  <2>6. GoesOn(all)
    BY <1>1, <2>4, <2>5
  <2> QED
    BY <2>6 DEF all
<1>2. ASSUME NEW e \in JobType, GoesOn(js) \/ e.op \in {"play", "resume", "poll"} PROVE GoesOn(Append(js, e))
  <2> DEFINE es == <<e>>
  <2>1. es \in Seq(JobType) /\ Len(es) = 1 /\ es[1] = e
    BY SingleSeq
  <2>2. Append(js, e) = js \o es
    BY AppendRange
  <2> HIDE DEF es
  <2>3. DOMAIN es = 1 .. 1 /\ 1 \in 1 .. 1
    BY <2>1, LenProperties
  <2>4. e.op \in {"play", "resume", "poll"} => GoesOn(es)
    BY <2>1, <2>3
  <2> QED
    BY <1>1, <1>2, <2>1, <2>2, <2>4
<1>3. ASSUME js # <<>>, Head(js).op \notin {"play", "resume", "poll"}, GoesOn(js) PROVE GoesOn(Tail(js))
  <2>1. /\ Tail(js) \in Seq(JobType) /\ Len(Tail(js)) = Len(js) - 1 /\ Len(js) \in Nat \ {0}
        /\ \A i \in 1 .. Len(Tail(js)) : Tail(js)[i] = js[i + 1] /\ i + 1 \in 1 .. Len(js)
        /\ Head(js) = js[1]
    BY <1>3, TailRange
  <2>2. DOMAIN js = 1 .. Len(js) /\ DOMAIN Tail(js) = 1 .. Len(Tail(js))
    BY <2>1, LenProperties
  <2>3. PICK i \in 1 .. Len(js) : js[i].op \in {"play", "resume", "poll"}
    BY <1>3, <2>2
  <2>4. i # 1
    BY <1>3, <2>1, <2>3
  <2>5. i - 1 \in 1 .. Len(Tail(js)) /\ (i - 1) + 1 = i
    BY <2>1, <2>4
  <2>6. Tail(js)[i - 1] = js[i]
    BY <2>1, <2>5
  <2> QED
    BY <2>2, <2>3, <2>5, <2>6
<1> QED
  BY <1>1, <1>2, <1>3

\* The output goes on if it has something to play.
LEMMA ChainIs ==
  /\ PlayChainAlive <=> (Busy => timers.active # {} \/ contDue \/ GoesOn(jobs))
  /\ PlayChainAlive' <=> (Busy' => timers'.active # {} \/ contDue' \/ GoesOn(jobs'))
<1> USE DEF PlayChainAlive, Busy, GoesOn
<1>1. PlayChainAlive <=> (Busy => timers.active # {} \/ contDue \/ GoesOn(jobs))
  OBVIOUS
<1>2. PlayChainAlive' <=> (Busy' => timers'.active # {} \/ contDue' \/ GoesOn(jobs'))
  OBVIOUS
<1> QED
  BY <1>1, <1>2

\* A job that is taken leaves the others good, if it is not the adding of a track.
LEMMA JobTaken ==
  ASSUME JobsOK, NEW op, Takes(op), op # "add", jobs' = Rest,
         UNCHANGED <<contDue, decoder, added, seeks>>
  PROVE  /\ JobsOK' /\ jobs \in Seq(JobType) /\ jobs # <<>> /\ Head(jobs) \in JobType /\ Head(jobs).op = op
         /\ Head(jobs) = jobs[1] /\ 1 \in 1 .. Len(jobs)
         /\ op \notin {"play", "resume", "poll"} /\ GoesOn(jobs) => GoesOn(jobs')
         /\ op = "pause_play" => GoesOn(jobs')
<1>1. jobs # <<>> /\ Head(jobs).op = op /\ jobs' = Tail(jobs)
  BY DEF Takes, Rest
<1>2. jobs \in Seq(JobType)
  BY DEF JobsOK, JobsGood
<1>3. /\ Head(jobs) \in JobType /\ Head(jobs) = jobs[1] /\ Len(jobs) \in Nat \ {0}
  BY <1>1, <1>2, TailRange
<1>4. JobsGood(Tail(jobs), contDue, Opened, added, Range(seeks))
  BY <1>1, JobsTail DEF JobsOK
<1>5. Opened' = Opened
  BY DEF Opened
<1>6. JobsOK'
  BY <1>1, <1>4, <1>5 DEF JobsOK
<1>7. op \notin {"play", "resume", "poll"} /\ GoesOn(jobs) => GoesOn(jobs')
  BY <1>1, <1>2, GoesOnStill
<1>8. ASSUME op = "pause_play" PROVE GoesOn(jobs')
  <2>1. \E j \in 1 .. Len(jobs) : jobs[j].op = "resume"
    BY <1>1, <1>3, <1>8 DEF JobsOK, JobsGood
  <2>2. GoesOn(jobs)
    BY <1>2, <2>1, LenProperties DEF GoesOn
  <2> QED
    BY <1>1, <1>7, <1>8, <2>2
<1> QED
  BY <1>1, <1>2, <1>3, <1>6, <1>7, <1>8

\* cont_internal() sets the card up for the first sound, and posts a job that goes on.
LEMMA ContKeeps ==
  ASSUME IInv, NEW st \in PluginStates, NEW js, NEW tm, JobsGood(js, contDue, Opened, added, Range(seeks)),
         cont_internal(st, js, tm), queue' = queue, UNCHANGED others
  PROVE  /\ card' \in CardStates /\ {initApi', paused', starved'} \subseteq BOOLEAN
         /\ CardOK' /\ JobsOK' /\ GoesOn(jobs') /\ timers' = tm
<1> USE DEF IInv
<1>1. UNCHANGED <<added, contDue, decoder, seeks>> /\ Opened' = Opened
  BY DEF others, Opened
<1>2. js \in Seq(JobType)
  BY DEF JobsGood
<1>3. timers' = tm /\ jobs' \in {Append(js, Control("poll")), Append(js, Control("resume"))}
  BY DEF cont_internal
<1>4. ASSUME NEW op \in {"poll", "resume"}
      PROVE  JobsGood(Append(js, Control(op)), contDue, Opened, added, Range(seeks)) /\ GoesOn(Append(js, Control(op)))
  <2>1. Control(op) \in JobType /\ Control(op).op = op
    BY DEF Control, JobType
  <2>2. JobsGood(Append(js, Control(op)), contDue, Opened, added, Range(seeks))
    BY <2>1, JobPosted
  <2> QED
    BY <1>2, <2>1, <2>2, GoesOnStill
<1>5. JobsOK' /\ GoesOn(jobs')
  BY <1>1, <1>3, <1>4 DEF JobsOK
<1>6. card' \in CardStates /\ {initApi', paused', starved'} \subseteq BOOLEAN /\ CardOK'
  <2>1. CASE UNCHANGED device
    <3>1. UNCHANGED <<prev, initApi, card, cardFormat, paused, starved>>
      BY <2>1 DEF device
    <3> QED
      BY <1>1, <3>1, Frame DEF ValuesOK
  <2>2. CASE ~UNCHANGED device
    <3>1. queue # <<>>
      BY <2>2 DEF cont_internal
    <3>2. PICK r \in init_alsa(Head(queue).track, card) :
             /\ initApi' = r.ok /\ card' = r.card /\ cardFormat' = r.format
             /\ prev' = {Head(queue).track} /\ paused' = FALSE /\ starved' = FALSE
      BY <2>2, <3>1 DEF cont_internal
    <3>3. Head(queue).track \in Track /\ card \in CardStates
      BY <3>1, FirstSound DEF ValuesOK
    <3>4. /\ r.ok \in BOOLEAN /\ r.card \in CardStates
          /\ r.format \subseteq {decoder[Head(queue).track].format} /\ r.format \subseteq AllFormats
      BY <3>3, CardSetUp
    <3>5. CardOK'
      BY <1>1, <3>1, <3>2, <3>3, <3>4 DEF CardOK
    <3> QED
      BY <3>2, <3>4, <3>5
  <2> QED
    BY <2>1, <2>2
<1> QED
  BY <1>3, <1>5, <1>6

\* cont() sets the state to play.
LEMMA ContOK == IInv /\ Cont => IInv'
<1> SUFFICES ASSUME IInv, Cont PROVE IInv'
  OBVIOUS
<1> USE DEF IInv
<1>1. /\ Takes("play") /\ state' = "play" /\ cont_internal("play", Rest, timers)
      /\ UNCHANGED <<queue, pool, buffers, playTimer, polls, others, reported>>
  BY DEF Cont
<1>2. /\ UNCHANGED <<queue, pool, data, filling, playTimer, polls, added, contDue, decoder, seeks, reported>>
      /\ UNCHANGED others
  BY <1>1 DEF buffers, others
<1>3. JobsGood(Rest, contDue, Opened, added, Range(seeks))
  BY <1>1, JobsTail DEF JobsOK, Takes, Rest
<1>4. /\ card' \in CardStates /\ {initApi', paused', starved'} \subseteq BOOLEAN
      /\ CardOK' /\ JobsOK' /\ GoesOn(jobs') /\ timers' = timers
  <2>1. "play" \in PluginStates
    BY DEF PluginStates
  <2> QED
    BY <1>1, <1>2, <1>3, <2>1, ContKeeps
<1>5. ValuesOK'
  BY <1>1, <1>2, <1>4 DEF ValuesOK, PluginStates
<1>6. DecoderOK' /\ PoolOK' /\ BuffersOK' /\ QueueOK' /\ ClocksOK'
  BY <1>2, <1>4, Frame
<1>7. PlayChainAlive'
  BY <1>4, ChainIs
<1> QED
  BY <1>4, <1>5, <1>6, <1>7

\* The timer of cont() is not one that calls play().
LEMMA ArmPollOK == IInv /\ ArmPoll => IInv'
<1> SUFFICES ASSUME IInv, ArmPoll PROVE IInv'
  OBVIOUS
<1> USE DEF IInv
<1>1. /\ Takes("poll") /\ jobs' = Rest
      /\ timers' = CreateGetTimer(timers) /\ polls' = polls \cup {TimerToGet(timers)}
      /\ UNCHANGED <<state, queue, prev, initApi, card, cardFormat, paused, starved, pool, data, filling,
                     playTimer, added, contDue, decoder, seeks, reported>>
  BY DEF ArmPoll, device, buffers, others
<1>2. ValuesOK'
  BY <1>1 DEF ValuesOK
<1>3. DecoderOK' /\ PoolOK' /\ BuffersOK' /\ QueueOK' /\ CardOK'
  BY <1>1, Frame
<1>4. JobsOK'
  BY <1>1, JobTaken
<1>5. /\ TimersOK(timers') /\ timers'.made >= timers.made
      /\ timers'.active = timers.active \cup {TimerToGet(timers)}
  BY <1>1, CreateOK DEF ClocksOK, ClocksGood
<1>6. playTimer \in 0 .. timers.made /\ timers.made \in Nat /\ timers'.made \in Nat
  BY <1>5 DEF ClocksOK, ClocksGood, TimersOK
<1>7. playTimer' \in 0 .. timers'.made
  BY <1>1, <1>5, <1>6
<1>8. ClocksOK'
  BY <1>1, <1>5, <1>7 DEF ClocksOK, ClocksGood
<1>9. PlayChainAlive'
  BY <1>5, ChainIs
<1> QED
  BY <1>2, <1>3, <1>4, <1>8, <1>9

\* pause() leaves nothing to play.
LEMMA PauseOK == IInv /\ pause_internal => IInv'
<1> SUFFICES ASSUME IInv, pause_internal PROVE IInv'
  OBVIOUS
<1> USE DEF IInv
<1>1. /\ Takes("pause") /\ jobs' = Rest /\ pause_alsa /\ state' = "pause"
      /\ UNCHANGED <<queue, prev, initApi, cardFormat, starved, pool, data, filling, timers, playTimer, polls,
                     added, contDue, decoder, seeks, reported>>
  BY DEF pause_internal, buffers, clocks, others
<1>2. card' \in CardStates /\ paused' = TRUE
  BY <1>1 DEF pause_alsa, ValuesOK, CardStates
<1>3. ValuesOK'
  BY <1>1, <1>2 DEF ValuesOK, PluginStates
<1>4. DecoderOK' /\ PoolOK' /\ BuffersOK' /\ QueueOK' /\ ClocksOK' /\ CardOK'
  BY <1>1, Frame
<1>5. JobsOK'
  BY <1>1, JobTaken
<1>6. PlayChainAlive'
  BY <1>1, ChainIs DEF Busy
<1> QED
  BY <1>3, <1>4, <1>5, <1>6

\* The pause of a seek is taken back by a job that waits.
LEMMA PausePlayOK == IInv /\ pause_play_internal => IInv'
<1> SUFFICES ASSUME IInv, pause_play_internal PROVE IInv'
  OBVIOUS
<1> USE DEF IInv
<1>1. /\ Takes("pause_play") /\ jobs' = Rest /\ pause_alsa
      /\ UNCHANGED <<state, queue, prev, initApi, cardFormat, starved, pool, data, filling, timers, playTimer, polls,
                     added, contDue, decoder, seeks, reported>>
  BY DEF pause_play_internal, buffers, clocks, others
<1>2. card' \in CardStates /\ paused' = TRUE
  BY <1>1 DEF pause_alsa, ValuesOK, CardStates
<1>3. ValuesOK'
  BY <1>1, <1>2 DEF ValuesOK
<1>4. DecoderOK' /\ PoolOK' /\ BuffersOK' /\ QueueOK' /\ ClocksOK' /\ CardOK'
  BY <1>1, Frame
<1>5. JobsOK' /\ GoesOn(jobs')
  BY <1>1, JobTaken
<1>6. PlayChainAlive'
  BY <1>5, ChainIs
<1> QED
  BY <1>3, <1>4, <1>5, <1>6

\* stop() leaves no sound.
LEMMA StopOK == IInv /\ stop_internal => IInv'
<1> SUFFICES ASSUME IInv, stop_internal PROVE IInv'
  OBVIOUS
<1> USE DEF IInv
<1>1. /\ Takes("stop") /\ jobs' = Rest /\ state' = "stop"
      /\ reported' = reported \cup {queue[i].track : i \in DOMAIN queue}
      /\ queue' = <<>> /\ prev' = {} /\ initApi' = FALSE /\ pool' = reset(pool)
      /\ data' = [b \in Buffer |-> IF \E i \in DOMAIN queue : queue[i].buffer = b THEN <<>> ELSE data[b]]
      /\ UNCHANGED <<card, cardFormat, paused, starved, filling, timers, playTimer, polls, added, contDue, decoder, seeks>>
  BY DEF stop_internal, clocks, others
<1>2. queue \in Seq(Sound) /\ DOMAIN queue = 1 .. Len(queue) /\ \A i \in 1 .. Len(queue) : queue[i].track \in added
  <2>1. queue \in Seq(Sound) /\ \A i \in 1 .. Len(queue) : queue[i].track \in added
    BY DEF QueueOK, QueueGood
  <2> QED
    BY <2>1, LenProperties
<1>3. ValuesOK'
  BY <1>1, <1>2 DEF ValuesOK, PluginStates
<1>4. DecoderOK' /\ ClocksOK'
  BY <1>1, Frame
<1>5. PoolOK'
  <2>1. pool' = [used |-> [t \in Track |-> 0], free |-> <<>>, made |-> pool.made]
    BY <1>1 DEF reset, NoPool
  <2>2. <<>> \in Seq(1 .. pool.made) /\ IsInjective(<<>>)
    BY NothingIn
  <2>3. pool.made \in Nat /\ pool.made <= Cardinality(Opened) /\ Opened' = Opened
    BY <1>1 DEF PoolOK, Opened
  <2> DEFINE none == <<>>
             nobody == [t \in Track |-> 0]
  <2>4. none \in Seq(1 .. pool.made) /\ IsInjective(none) /\ nobody \in [Track -> 0 .. pool.made] /\ \A t \in Track : nobody[t] = 0
    BY <2>2, <2>3
  <2>5. pool' = [used |-> nobody, free |-> none, made |-> pool.made]
    BY <2>1
  <2> HIDE DEF none, nobody
  <2>6. pool' \in PoolType(pool'.made) /\ pool'.made = pool.made /\ pool'.used = nobody /\ pool'.free = none
    BY <2>3, <2>4, <2>5 DEF PoolType
  <2> QED
    BY <2>3, <2>4, <2>6 DEF PoolOK, is_in_cache
<1>6. BuffersOK'
  <2> DEFINE P == {b \in Buffer : \E i \in DOMAIN queue : queue[i].buffer = b}
  <2>1. data' = [b \in Buffer |-> IF b \in P THEN <<>> ELSE data[b]]
    BY <1>1
  <2> HIDE DEF P
  <2> QED
    BY <1>1, <2>1, BuffersEmptied
<1>7. QueueOK'
  BY <1>1, NothingIn DEF QueueOK, QueueGood
<1>8. JobsOK'
  BY <1>1, JobTaken
<1>9. CardOK'
  BY <1>1 DEF CardOK
<1>10. PlayChainAlive'
  BY <1>1, ChainIs DEF Busy
<1> QED
  BY <1>3, <1>4, <1>5, <1>6, <1>7, <1>8, <1>9, <1>10

\* resume_play_internal() takes a job that goes on, and play() leaves a timer.
LEMMA ResumeOK == IInv /\ ResumePlay => IInv'
<1> SUFFICES ASSUME IInv, ResumePlay PROVE IInv'
  OBVIOUS
<1>1. /\ Takes("resume") /\ jobs' = Rest /\ play(Unpaused, FALSE, timers)
      /\ UNCHANGED <<filling, polls, others>> /\ UNCHANGED <<contDue, decoder, added, seeks>>
  BY DEF ResumePlay, others
<1>2. Unpaused \in CardStates /\ ClocksGood(timers)
  BY DEF IInv, Unpaused, ValuesOK, CardStates, ClocksOK
<1>3. /\ ValuesOK' /\ DecoderOK' /\ PoolOK' /\ BuffersOK' /\ QueueOK' /\ ClocksOK' /\ CardOK'
      /\ Busy' => timers'.active # {}
  BY <1>1, <1>2, PlayKeeps
<1>4. JobsOK'
  BY <1>1, JobTaken DEF IInv
<1>5. PlayChainAlive'
  BY <1>3, ChainIs
<1> QED
  BY <1>3, <1>4, <1>5 DEF IInv

\* A job that changes the numbers of sounds, as far as the queue allows it.
LEMMA SoundsChanged ==
  ASSUME IInv, NEW op \in {"update", "seek"}, Takes(op), jobs' = Rest,
         queue' = [i \in DOMAIN queue |-> queue'[i]],
         \A i \in 1 .. Len(queue) : /\ queue'[i] \in Sound /\ queue'[i].track = queue[i].track
                                    /\ i > 1 => /\ queue'[i].written = queue[i].written
                                                /\ queue[i].total # 0 => queue'[i].total # 0,
         UNCHANGED <<state, device, pool, buffers, clocks, others, reported>>
  PROVE  IInv'
<1> USE DEF IInv
<1>1. UNCHANGED <<state, prev, initApi, card, cardFormat, paused, starved, pool, data, filling, timers, playTimer, polls,
                  added, contDue, decoder, seeks, reported>>
  BY DEF device, buffers, clocks, others
<1>2. /\ QueueGood(queue', added, Range(seeks)) /\ (queue' = <<>> <=> queue = <<>>)
      /\ queue # <<>> => Head(queue').track = Head(queue).track
  BY QueueChange DEF QueueOK
<1>3. ValuesOK'
  BY <1>1 DEF ValuesOK
<1>4. DecoderOK' /\ PoolOK' /\ BuffersOK' /\ ClocksOK'
  BY <1>1, Frame
<1>5. QueueOK'
  BY <1>1, <1>2 DEF QueueOK
<1>6. JobsOK' /\ (GoesOn(jobs) => GoesOn(jobs'))
  BY <1>1, JobTaken
<1>7. CardOK'
  BY <1>1, <1>2 DEF CardOK
<1>8. Busy' => Busy
  BY <1>1, <1>2 DEF Busy, Deaf
<1>9. PlayChainAlive'
  BY <1>1, <1>6, <1>8, ChainIs
<1> QED
  BY <1>3, <1>4, <1>5, <1>6, <1>7, <1>9

\* The number of samples of a track that was not sought is not corrected to none.
LEMMA UpdateOK == IInv /\ update_total_samples_internal => IInv'
<1> SUFFICES ASSUME IInv, update_total_samples_internal PROVE IInv'
  OBVIOUS
<1>1. /\ Takes("update") /\ jobs' = Rest
      /\ queue' = [i \in DOMAIN queue |->
                     IF queue[i].track = Head(jobs).track THEN [queue[i] EXCEPT !.total = Head(jobs).value] ELSE queue[i]]
      /\ UNCHANGED <<state, device, pool, buffers, clocks, others, reported>>
  BY DEF update_total_samples_internal
<1> DEFINE job == Head(jobs)
<1>2. job \in JobType /\ job.op = "update" /\ (job.track \in Range(seeks) \/ job.value # 0)
  <2>1. jobs # <<>> /\ job.op = "update" /\ jobs \in Seq(JobType)
    BY <1>1 DEF IInv, JobsOK, JobsGood, Takes
  <2>2. job = jobs[1] /\ Len(jobs) \in Nat \ {0} /\ job \in JobType
    BY <2>1, TailRange
  <2> QED
    BY <2>1, <2>2 DEF IInv, JobsOK, JobsGood
<1>3. job.value \in Nat
  BY <1>2 DEF JobType, PluginStates
<1> HIDE DEF job
<1>4. /\ queue \in Seq(Sound) /\ DOMAIN queue = 1 .. Len(queue)
      /\ \A i \in 1 .. Len(queue) : i > 1 => queue[i].track \notin Range(seeks)
  <2>1. queue \in Seq(Sound) /\ \A i \in 1 .. Len(queue) : i > 1 => queue[i].track \notin Range(seeks)
    BY DEF IInv, QueueOK, QueueGood
  <2> QED
    BY <2>1, LenProperties
<1>5. queue' = [i \in DOMAIN queue |-> IF queue[i].track = job.track THEN [queue[i] EXCEPT !.total = job.value] ELSE queue[i]]
  <2>1. Head(jobs) = job
    BY DEF job
  <2> QED
    BY <1>1, <2>1
<1>6. queue' = [i \in DOMAIN queue |-> queue'[i]]
  BY <1>5
<1>7. ASSUME NEW i \in 1 .. Len(queue)
      PROVE  /\ queue'[i] \in Sound /\ queue'[i].track = queue[i].track
             /\ i > 1 => /\ queue'[i].written = queue[i].written
                         /\ queue[i].total # 0 => queue'[i].total # 0
  <2>1. queue[i] \in Sound
    BY <1>4
  <2>2. CASE queue[i].track = job.track
    <3>1. queue'[i] = [queue[i] EXCEPT !.total = job.value]
      BY <1>4, <1>5, <2>2
    <3>2. queue'[i] = [track |-> queue[i].track, total |-> job.value, written |-> queue[i].written, buffer |-> queue[i].buffer]
      BY <2>1, <3>1 DEF Sound
    <3>3. queue'[i] \in Sound
      BY <1>3, <2>1, <3>2 DEF Sound
    <3>4. i > 1 => job.value # 0
      BY <1>2, <1>4, <2>2
    <3> QED
      BY <3>2, <3>3, <3>4
  <2>3. CASE queue[i].track # job.track
    BY <1>4, <1>5, <2>1, <2>3
  <2> QED
    BY <2>2, <2>3
<1> QED
  BY <1>1, <1>6, <1>7, SoundsChanged

\* The position of a seek is that of the first sound.
LEMMA SetSeekOK == IInv /\ set_seek_duration_internal => IInv'
<1> SUFFICES ASSUME IInv, set_seek_duration_internal PROVE IInv'
  OBVIOUS
<1>1. /\ Takes("seek") /\ jobs' = Rest
      /\ queue' = [i \in DOMAIN queue |->
                     IF queue[i].track = Head(jobs).track THEN [queue[i] EXCEPT !.written = Head(jobs).value] ELSE queue[i]]
      /\ UNCHANGED <<state, device, pool, buffers, clocks, others, reported>>
  BY DEF set_seek_duration_internal
<1> DEFINE job == Head(jobs)
<1>2. job \in JobType /\ job.op = "seek" /\ job.track \in Range(seeks)
  <2>1. jobs # <<>> /\ job.op = "seek" /\ jobs \in Seq(JobType)
    BY <1>1 DEF IInv, JobsOK, JobsGood, Takes
  <2>2. job = jobs[1] /\ Len(jobs) \in Nat \ {0} /\ job \in JobType
    BY <2>1, TailRange
  <2> QED
    BY <2>1, <2>2 DEF IInv, JobsOK, JobsGood
<1>3. job.value \in Nat
  BY <1>2 DEF JobType, PluginStates
<1> HIDE DEF job
<1>4. /\ queue \in Seq(Sound) /\ DOMAIN queue = 1 .. Len(queue)
      /\ \A i \in 1 .. Len(queue) : i > 1 => queue[i].track \notin Range(seeks)
  <2>1. queue \in Seq(Sound) /\ \A i \in 1 .. Len(queue) : i > 1 => queue[i].track \notin Range(seeks)
    BY DEF IInv, QueueOK, QueueGood
  <2> QED
    BY <2>1, LenProperties
<1>5. queue' = [i \in DOMAIN queue |-> IF queue[i].track = job.track THEN [queue[i] EXCEPT !.written = job.value] ELSE queue[i]]
  BY <1>1 DEF job
<1>6. queue' = [i \in DOMAIN queue |-> queue'[i]]
  BY <1>5
<1>7. ASSUME NEW i \in 1 .. Len(queue)
      PROVE  /\ queue'[i] \in Sound /\ queue'[i].track = queue[i].track
             /\ i > 1 => /\ queue'[i].written = queue[i].written
                         /\ queue[i].total # 0 => queue'[i].total # 0
  <2>1. queue[i] \in Sound
    BY <1>4
  <2>2. CASE queue[i].track = job.track
    <3>1. queue'[i] = [queue[i] EXCEPT !.written = job.value]
      BY <1>4, <1>5, <2>2
    <3>2. queue'[i] = [track |-> queue[i].track, total |-> queue[i].total, written |-> job.value, buffer |-> queue[i].buffer]
      BY <2>1, <3>1 DEF Sound
    <3>3. queue'[i] \in Sound
      BY <1>3, <2>1, <3>2 DEF Sound
    <3>4. ~(i > 1)
      BY <1>2, <1>4, <2>2
    <3> QED
      BY <3>2, <3>3, <3>4
  <2>3. CASE queue[i].track # job.track
    BY <1>4, <1>5, <2>1, <2>3
  <2> QED
    BY <2>2, <2>3
<1> QED
  BY <1>1, <1>6, <1>7, SoundsChanged

\* clear_play_data() empties a buffer.
LEMMA ClearOK == IInv /\ clear_play_data_internal => IInv'
<1> SUFFICES ASSUME IInv, clear_play_data_internal PROVE IInv'
  OBVIOUS
<1> USE DEF IInv
<1>1. /\ Takes("clear") /\ jobs' = Rest
      /\ data' = [b \in Buffer |-> IF \E i \in InQueue(Head(jobs).track) : queue[i].buffer = b THEN <<>> ELSE data[b]]
      /\ UNCHANGED <<state, queue, prev, initApi, card, cardFormat, paused, starved, pool, filling, timers, playTimer, polls,
                     added, contDue, decoder, seeks, reported>>
  BY DEF clear_play_data_internal, device, clocks, others
<1>2. ValuesOK'
  BY <1>1 DEF ValuesOK
<1>3. DecoderOK' /\ PoolOK' /\ QueueOK' /\ ClocksOK' /\ CardOK'
  BY <1>1, Frame
<1>4. BuffersOK'
  <2> DEFINE P == {b \in Buffer : \E i \in InQueue(Head(jobs).track) : queue[i].buffer = b}
  <2>1. data' = [b \in Buffer |-> IF b \in P THEN <<>> ELSE data[b]]
    BY <1>1
  <2> HIDE DEF P
  <2> QED
    BY <1>1, <2>1, BuffersEmptied
<1>5. JobsOK' /\ (GoesOn(jobs) => GoesOn(jobs'))
  BY <1>1, JobTaken
<1>6. PlayChainAlive'
  <2>1. Busy' => Busy
    BY <1>1 DEF Busy, Deaf
  <2> QED
    BY <1>1, <1>5, <2>1, ChainIs
<1> QED
  BY <1>2, <1>3, <1>4, <1>5, <1>6

\* A timer expires and is retired; what it calls goes on.
LEMMA TimeoutOK == IInv /\ (\E timer \in timers.active : Timeout(timer)) => IInv'
<1> SUFFICES ASSUME IInv, NEW timer \in timers.active, Timeout(timer) PROVE IInv'
  OBVIOUS
<1> DEFINE tm == HandleTimeout(timers, timer)
<1>1. /\ TimersOK(tm) /\ tm.active = timers.active \ {timer} /\ tm.made = timers.made
  <2>1. timers.made \in Nat /\ timers \in TimersType(timers.made)
    BY DEF IInv, ClocksOK, ClocksGood, TimersOK
  <2>2. /\ tm \in TimersType(timers.made) /\ tm.active = timers.active \ {timer} /\ tm.made = timers.made
    BY <2>1, RetireTimer
  <2> QED
    BY <2>1, <2>2 DEF TimersOK
<1> HIDE DEF tm
<1>2. /\ playTimer \in 0 .. timers.made /\ polls \subseteq timers.active /\ timers.active \ polls \subseteq {playTimer}
  BY DEF IInv, ClocksOK, ClocksGood
<1>3. CASE timer \in polls
  <2>1. /\ cont_internal(state, jobs, tm) /\ polls' = polls \ {timer}
        /\ UNCHANGED <<state, queue, pool, data, filling, playTimer, reported, added, contDue, decoder, seeks>>
        /\ UNCHANGED others
    BY <1>3 DEF Timeout, others, tm
  <2>2. state \in PluginStates /\ JobsGood(jobs, contDue, Opened, added, Range(seeks))
    BY DEF IInv, ValuesOK, JobsOK
  <2>3. /\ card' \in CardStates /\ {initApi', paused', starved'} \subseteq BOOLEAN
        /\ CardOK' /\ JobsOK' /\ GoesOn(jobs') /\ timers' = tm
    BY <2>1, <2>2, ContKeeps
  <2>4. ValuesOK'
    BY <2>1, <2>3 DEF IInv, ValuesOK
  <2>5. DecoderOK' /\ PoolOK' /\ BuffersOK' /\ QueueOK'
    BY <2>1, Frame DEF IInv
  <2>6. ClocksOK'
    BY <1>1, <1>2, <2>1, <2>3 DEF ClocksOK, ClocksGood
  <2>7. PlayChainAlive'
    BY <2>3, ChainIs
  <2> QED
    BY <2>3, <2>4, <2>5, <2>6, <2>7 DEF IInv
<1>4. CASE timer \notin polls
  <2>1. /\ play(card, paused, tm) /\ UNCHANGED <<polls, jobs, filling, others>>
        /\ UNCHANGED <<jobs, contDue, decoder, added, seeks>>
    BY <1>4 DEF Timeout, others, tm
  <2>2. ClocksGood(tm)
    BY <1>1, <1>2, <1>4 DEF ClocksGood
  <2>3. card \in CardStates /\ paused \in BOOLEAN
    BY DEF IInv, ValuesOK
  <2>4. /\ ValuesOK' /\ DecoderOK' /\ PoolOK' /\ BuffersOK' /\ QueueOK' /\ ClocksOK' /\ CardOK'
        /\ Busy' => timers'.active # {}
    BY <2>1, <2>2, <2>3, PlayKeeps
  <2>5. JobsOK'
    BY <2>1, Frame DEF IInv
  <2>6. PlayChainAlive'
    BY <2>4, ChainIs
  <2> QED
    BY <2>4, <2>5, <2>6 DEF IInv
<1> QED
  BY <1>3, <1>4

-----------------------------------------------------------------------------
(* The decoder manager and the playlist manager.                            *)

\* What the decoder does to a track with a buffer leaves its format and its buffer.
LEMMA DecoderStep ==
  ASSUME IInv, NEW t \in Opened, NEW d \in DecoderType, decoder' = [decoder EXCEPT ![t] = d],
         d.format = decoder[t].format, d.buffer = decoder[t].buffer,
         Range(seeks) \subseteq Range(seeks'), Range(seeks') \subseteq Range(seeks) \cup {t},
         t \notin Range(seeks') => d.written + d.rest = Length[t],
         UNCHANGED <<device, queue, pool, state, clocks>>
  PROVE  /\ DecoderOK' /\ Opened' = Opened /\ PoolOK' /\ CardOK' /\ ClocksOK' /\ (Busy' => Busy)
<1> USE DEF IInv
<1>1. UNCHANGED <<prev, initApi, card, cardFormat, paused, starved, timers, playTimer, polls>> /\ t \in Track
  BY DEF device, clocks, Opened
<1>2. /\ decoder \in [Track -> DecoderType]
      /\ \A u \in Track : decoder'[u] = IF u = t THEN d ELSE decoder[u]
  BY <1>1 DEF DecoderOK
<1>3. decoder' \in [Track -> DecoderType]
  BY <1>2
<1>4. \A u \in Track : decoder'[u].format = decoder[u].format /\ decoder'[u].buffer = decoder[u].buffer
  BY <1>2
<1>5. Opened' = Opened
  BY <1>4 DEF Opened
<1>6. DecoderOK'
  <2>1. ASSUME NEW u \in Track
        PROVE  /\ decoder'[u].ended = "posted" => u \in Opened
               /\ u \in Range(seeks') => u \in Opened
               /\ u \notin Range(seeks') => decoder'[u].written + decoder'[u].rest = Length[u]
    <3>1. CASE u = t
      BY <1>2, <3>1
    <3>2. CASE u # t
      BY <1>2, <3>2 DEF DecoderOK
    <3> QED
      BY <3>1, <3>2
  <2> QED
    BY <1>3, <1>5, <2>1 DEF DecoderOK
<1>7. PoolOK'
  BY <1>5 DEF PoolOK
<1>8. CardOK'
  BY <1>1, <1>4 DEF CardOK
<1>9. ClocksOK'
  BY <1>1, Frame
<1>10. Busy' => Busy
  BY <1>1 DEF Busy, Deaf
<1> QED
  BY <1>5, <1>6, <1>7, <1>8, <1>9, <1>10

\* A chunk is passed on while there is a place for it.
LEMMA BufferPassed ==
  ASSUME BuffersOK, NEW b \in Buffer, NEW n \in 0 .. ChunkSize, n # 0 => Len(data[b]) < ChunkCount,
         data' = [data EXCEPT ![b] = PassOn(b, n)], filling' = [filling EXCEPT ![b] = 0]
  PROVE  BuffersOK'
<1>1. /\ data \in [Buffer -> Seq(1 .. ChunkSize)] /\ filling \in [Buffer -> 0 .. ChunkSize - 1]
      /\ \A c \in Buffer : Len(data[c]) <= ChunkCount /\ (filling[c] # 0 => Len(data[c]) < ChunkCount)
  BY DEF BuffersOK
<1>2. ChunkSize \in Nat \ {0} /\ ChunkCount \in Nat
  BY OutputAssumption
<1>3. PassOn(b, n) \in Seq(1 .. ChunkSize) /\ Len(PassOn(b, n)) <= ChunkCount
  <2>1. CASE n = 0
    BY <1>1, <2>1 DEF PassOn
  <2>2. CASE n # 0
    <3>1. n \in 1 .. ChunkSize
      BY <1>2, <2>2
    <3>2. Append(data[b], n) \in Seq(1 .. ChunkSize) /\ Len(Append(data[b], n)) = Len(data[b]) + 1
      BY <1>1, <3>1, AppendRange
    <3>3. Len(data[b]) \in Nat
      BY <1>1
    <3> QED
      BY <1>2, <2>2, <3>2, <3>3 DEF PassOn
  <2> QED
    BY <2>1, <2>2
<1> DEFINE passed == PassOn(b, n)
<1> HIDE DEF passed
<1>4. data' = [data EXCEPT ![b] = passed] /\ passed \in Seq(1 .. ChunkSize) /\ Len(passed) <= ChunkCount
  BY <1>3 DEF passed
<1>5. data' \in [Buffer -> Seq(1 .. ChunkSize)] /\ filling' \in [Buffer -> 0 .. ChunkSize - 1]
  BY <1>1, <1>2, <1>4
<1>6. \A c \in Buffer : data'[c] = (IF c = b THEN passed ELSE data[c]) /\ filling'[c] = (IF c = b THEN 0 ELSE filling[c])
  BY <1>1, <1>4
<1> QED
  BY <1>1, <1>4, <1>5, <1>6 DEF BuffersOK

\* A sample is written.
LEMMA DecodeOK == \A t \in Track : IInv /\ Decode(t) => IInv'
<1> SUFFICES ASSUME IInv, NEW t \in Track, Decode(t) PROVE IInv'
  OBVIOUS
<1> USE DEF IInv
<1> DEFINE b == decoder[t].buffer
           n == filling[b] + 1
           d == [decoder[t] EXCEPT !.written = @ + 1, !.rest = @ - 1]
           last == decoder[t].written + 1 = decoder[t].total
<1>1. /\ b # 0 /\ decoder[t].rest > 0 /\ Len(data[b]) < ChunkCount
      /\ decoder' = [decoder EXCEPT ![t].written = @ + 1, ![t].rest = @ - 1]
      /\ IF n = ChunkSize \/ last
           THEN data' = [data EXCEPT ![b] = PassOn(b, n)] /\ filling' = [filling EXCEPT ![b] = 0]
           ELSE filling' = [filling EXCEPT ![b] = n] /\ UNCHANGED data
      /\ UNCHANGED <<state, queue, device, pool, jobs, clocks, added, contDue, seeks, reported>>
  BY DEF Decode
<1>2. decoder[t] \in DecoderType /\ decoder \in [Track -> DecoderType]
  BY DEF DecoderOK
<1>3. /\ d \in DecoderType /\ d.format = decoder[t].format /\ d.buffer = b
      /\ d.written + d.rest = decoder[t].written + decoder[t].rest
  BY <1>1, <1>2 DEF DecoderType
<1>4. decoder' = [decoder EXCEPT ![t] = d]
  BY <1>1, <1>2
<1>5. t \in Opened /\ b \in Buffer
  BY <1>1, <1>2 DEF Opened, DecoderType
<1>6. t \notin Range(seeks) => decoder[t].written + decoder[t].rest = Length[t]
  BY DEF DecoderOK
<1> HIDE DEF d, last
<1>7. DecoderOK' /\ Opened' = Opened /\ PoolOK' /\ CardOK' /\ ClocksOK' /\ (Busy' => Busy)
  BY <1>1, <1>3, <1>4, <1>5, <1>6, DecoderStep, ZenonT(40)
<1> HIDE DEF b
<1>8. BuffersOK'
  <2>1. /\ data \in [Buffer -> Seq(1 .. ChunkSize)] /\ filling \in [Buffer -> 0 .. ChunkSize - 1]
        /\ \A c \in Buffer : Len(data[c]) <= ChunkCount /\ (filling[c] # 0 => Len(data[c]) < ChunkCount)
    BY DEF BuffersOK
  <2>2. ChunkSize \in Nat \ {0} /\ n \in 1 .. ChunkSize /\ n \in 0 .. ChunkSize
    BY <1>5, <2>1, OutputAssumption
  <2>3. CASE n = ChunkSize \/ last
    BY <1>1, <1>5, <2>2, <2>3, BufferPassed
  <2>4. CASE ~(n = ChunkSize \/ last)
    <3>1. filling' = [filling EXCEPT ![b] = n] /\ data' = data /\ n \in 0 .. ChunkSize - 1
      BY <1>1, <2>2, <2>4
    <3> HIDE DEF n
    <3>2. filling' \in [Buffer -> 0 .. ChunkSize - 1] /\ \A c \in Buffer : filling'[c] = IF c = b THEN n ELSE filling[c]
      BY <2>1, <3>1
    <3> QED
      BY <1>1, <2>1, <3>1, <3>2 DEF BuffersOK
  <2> QED
    BY <2>3, <2>4
<1>9. ValuesOK' /\ QueueOK'
  BY <1>1 DEF ValuesOK, QueueOK, device
<1>10. JobsOK'
  BY <1>1, <1>7 DEF JobsOK
<1>11. PlayChainAlive'
  BY <1>1, <1>7, ChainIs DEF clocks
<1> QED
  BY <1>7, <1>8, <1>9, <1>10, <1>11

\* A track ends: it has samples if it was not sought.
LEMMA DecodeEndOK == \A t \in Track : IInv /\ DecodeEnd(t) => IInv'
<1> SUFFICES ASSUME IInv, NEW t \in Track, DecodeEnd(t) PROVE IInv'
  OBVIOUS
<1> USE DEF IInv
<1> DEFINE d == [decoder[t] EXCEPT !.total = decoder[t].written, !.ended = "posted"]
           job == Value("update", t, decoder[t].written)
<1>1. /\ decoder[t].buffer # 0 /\ decoder[t].rest = 0
      /\ jobs' = jobs \o IF decoder[t].written = decoder[t].total THEN <<>> ELSE <<job>>
      /\ decoder' = [decoder EXCEPT ![t].total = decoder[t].written, ![t].ended = "posted"]
      /\ UNCHANGED <<state, queue, device, pool, buffers, clocks, added, contDue, seeks, reported>>
  BY DEF DecodeEnd
<1>2. decoder[t] \in DecoderType /\ decoder \in [Track -> DecoderType]
  BY DEF DecoderOK
<1>3. /\ d \in DecoderType /\ d.format = decoder[t].format /\ d.buffer = decoder[t].buffer
      /\ d.written + d.rest = decoder[t].written + decoder[t].rest
  BY <1>1, <1>2 DEF DecoderType
<1>4. decoder' = [decoder EXCEPT ![t] = d]
  BY <1>1, <1>2
<1>5. t \in Opened
  BY <1>1, <1>2 DEF Opened
<1>6. t \notin Range(seeks) => decoder[t].written + decoder[t].rest = Length[t]
  BY DEF DecoderOK
<1> HIDE DEF d
<1>7. DecoderOK' /\ Opened' = Opened /\ PoolOK' /\ CardOK' /\ ClocksOK' /\ (Busy' => Busy)
  BY <1>1, <1>3, <1>4, <1>5, <1>6, DecoderStep
<1>8. JobsOK' /\ (GoesOn(jobs) => GoesOn(jobs'))
  <2>1. jobs \in Seq(JobType) /\ JobsGood(jobs, contDue, Opened, added, Range(seeks))
    BY DEF JobsOK, JobsGood
  <2>2. CASE decoder[t].written = decoder[t].total
    <3>1. jobs' = jobs
      BY <1>1, <2>1, <2>2, ConcatEmptySeq
    <3> QED
      BY <1>1, <1>7, <2>1, <3>1 DEF JobsOK
  <2>3. CASE decoder[t].written # decoder[t].total
    <3>1. job \in JobType /\ job.op = "update" /\ job.track = t /\ job.value = decoder[t].written
      BY <1>2 DEF Value, JobType, DecoderType
    <3>2. job.track \in Range(seeks) \/ job.value # 0
      BY <1>1, <1>2, <1>6, <3>1, OutputAssumption DEF DecoderType
    <3> HIDE DEF job
    <3>3. jobs' = Append(jobs, job)
      <4>1. jobs' = jobs \o <<job>>
        BY <1>1, <2>3
      <4> QED
        BY <2>1, <3>1, <4>1, AppendRange
    <3>4. JobsGood(jobs', contDue, Opened, added, Range(seeks))
      BY <2>1, <3>1, <3>2, <3>3, JobPosted
    <3>5. GoesOn(jobs) => GoesOn(jobs')
      BY <2>1, <3>1, <3>3, GoesOnStill
    <3> QED
      BY <1>1, <1>7, <3>4, <3>5 DEF JobsOK
  <2> QED
    BY <2>2, <2>3
<1>9. ValuesOK' /\ QueueOK' /\ BuffersOK'
  BY <1>1 DEF ValuesOK, QueueOK, BuffersOK, device, buffers
<1>10. PlayChainAlive'
  BY <1>1, <1>7, <1>8, ChainIs DEF clocks
<1> QED
  BY <1>7, <1>8, <1>9, <1>10

\* The last samples are passed on.
LEMMA SyncCacheOK == \A t \in Track : IInv /\ SyncCache(t) => IInv'
<1> SUFFICES ASSUME IInv, NEW t \in Track, SyncCache(t) PROVE IInv'
  OBVIOUS
<1> USE DEF IInv
<1> DEFINE b == decoder[t].buffer
           d == [decoder[t] EXCEPT !.ended = "yes"]
<1>1. /\ decoder[t].ended = "posted"
      /\ decoder' = [decoder EXCEPT ![t].ended = "yes"]
      /\ data' = [data EXCEPT ![b] = PassOn(b, filling[b])] /\ filling' = [filling EXCEPT ![b] = 0]
      /\ UNCHANGED <<state, queue, device, pool, jobs, clocks, added, contDue, seeks, reported>>
  BY DEF SyncCache
<1>2. decoder[t] \in DecoderType /\ decoder \in [Track -> DecoderType]
  BY DEF DecoderOK
<1>3. /\ d \in DecoderType /\ d.format = decoder[t].format /\ d.buffer = b
      /\ d.written + d.rest = decoder[t].written + decoder[t].rest
  BY <1>2 DEF DecoderType
<1>4. decoder' = [decoder EXCEPT ![t] = d]
  BY <1>1, <1>2
<1>5. t \in Opened /\ b \in Buffer
  BY <1>1, <1>2 DEF Opened, DecoderType, DecoderOK
<1>6. t \notin Range(seeks) => decoder[t].written + decoder[t].rest = Length[t]
  BY DEF DecoderOK
<1> HIDE DEF d
<1>7. DecoderOK' /\ Opened' = Opened /\ PoolOK' /\ CardOK' /\ ClocksOK' /\ (Busy' => Busy)
  BY <1>1, <1>3, <1>4, <1>5, <1>6, DecoderStep
<1> HIDE DEF b
<1>8. BuffersOK'
  <2>1. filling[b] \in 0 .. ChunkSize /\ (filling[b] # 0 => Len(data[b]) < ChunkCount)
    BY <1>5, OutputAssumption DEF BuffersOK
  <2> QED
    BY <1>1, <1>5, <2>1, BufferPassed
<1>9. ValuesOK' /\ QueueOK'
  BY <1>1 DEF ValuesOK, QueueOK, device
<1>10. JobsOK'
  BY <1>1, <1>7 DEF JobsOK
<1>11. PlayChainAlive'
  BY <1>1, <1>7, ChainIs DEF clocks
<1> QED
  BY <1>7, <1>8, <1>9, <1>10, <1>11

\* The jobs of a seek: the pause is taken back by the last.
LEMMA SeekJobs ==
  ASSUME NEW t \in Track, NEW n \in Nat, NEW due, NEW opened, NEW tracks, NEW sought, t \in sought,
         opened \subseteq tracks
  PROVE  LET js == <<Control("pause_play"), Job("clear", t), Value("seek", t, n), Control("resume")>>
         IN /\ JobsGood(js, due, opened, tracks, sought) /\ GoesOn(js)
            /\ \A i \in 1 .. Len(js) : js[i].op # "add"
<1> DEFINE js == <<Control("pause_play"), Job("clear", t), Value("seek", t, n), Control("resume")>>
<1>1. /\ Control("pause_play") \in JobType /\ Job("clear", t) \in JobType
      /\ Value("seek", t, n) \in JobType /\ Control("resume") \in JobType
  BY DEF Control, Job, Value, JobType
<1>2. /\ js \in Seq(JobType) /\ Len(js) = 4
      /\ js[1] = Control("pause_play") /\ js[2] = Job("clear", t)
      /\ js[3] = Value("seek", t, n) /\ js[4] = Control("resume")
  BY <1>1
<1> HIDE DEF js
<1>3. /\ js[1].op = "pause_play" /\ js[2].op = "clear" /\ js[3].op = "seek" /\ js[3].track = t
      /\ js[4].op = "resume"
  BY <1>2 DEF Control, Job, Value
<1>4. \A i \in 1 .. Len(js) : i \in {1, 2, 3, 4}
  BY <1>2
<1>5. JobsGood(js, due, opened, tracks, sought)
  <2>1. ASSUME NEW i \in 1 .. Len(js)
        PROVE  /\ js[i].op = "add" => /\ js[i].track \in tracks \ opened
                                      /\ \A j \in 1 .. Len(js) : js[j] = js[i] => j = i
                                      /\ due \/ \E j \in 1 .. Len(js) : j > i /\ js[j].op = "play"
               /\ js[i].op = "pause_play" => \E j \in 1 .. Len(js) : j > i /\ js[j].op = "resume"
               /\ js[i].op = "seek" => js[i].track \in sought
               /\ js[i].op = "update" => js[i].track \in sought \/ js[i].value # 0
    <3>1. js[i].op # "add" /\ js[i].op # "update" /\ (js[i].op = "pause_play" => i = 1) /\ (js[i].op = "seek" => i = 3)
      BY <1>3, <1>4
    <3>2. 4 \in 1 .. Len(js)
      BY <1>2
    <3> QED
      BY <1>3, <3>1, <3>2
  <2> QED
    BY <1>2, <2>1 DEF JobsGood
<1>6. GoesOn(js)
  <2>1. 4 \in DOMAIN js
    BY <1>2
  <2> QED
    BY <1>3, <2>1 DEF GoesOn
<1>7. \A i \in 1 .. Len(js) : js[i].op # "add"
  BY <1>3, <1>4
<1> QED
  BY <1>5, <1>6, <1>7 DEF js

\* A seek is of the first sound, or of one that is not in the queue.
LEMMA SeekDurationOK == \A t \in Track : IInv /\ SeekDuration(t) => IInv'
<1> SUFFICES ASSUME IInv, NEW t \in Track, SeekDuration(t) PROVE IInv'
  OBVIOUS
<1> USE DEF IInv
<1>1. /\ seeks' = Append(seeks, t)
      /\ decoder[t].buffer # 0 /\ decoder[t].ended # "posted" /\ InQueue(t) \subseteq {1}
      /\ filling' = [filling EXCEPT ![decoder[t].buffer] = 0]
      /\ UNCHANGED <<state, queue, device, pool, data, clocks, added, contDue, reported>>
  BY DEF SeekDuration
<1>2. PICK n \in 0 .. Length[t] : \E rest \in flac_seek(t, n) \cup ffmpeg_seek(t, n) :
        /\ decoder' = [decoder EXCEPT ![t].written = n, ![t].rest = rest, ![t].ended = "no"]
        /\ jobs' = jobs \o <<Control("pause_play"), Job("clear", t), Value("seek", t, n), Control("resume")>>
  BY DEF SeekDuration
<1>3. PICK rest \in flac_seek(t, n) \cup ffmpeg_seek(t, n) :
        /\ decoder' = [decoder EXCEPT ![t].written = n, ![t].rest = rest, ![t].ended = "no"]
        /\ jobs' = jobs \o <<Control("pause_play"), Job("clear", t), Value("seek", t, n), Control("resume")>>
  BY <1>2
<1> DEFINE d == [decoder[t] EXCEPT !.written = n, !.rest = rest, !.ended = "no"]
           more == <<Control("pause_play"), Job("clear", t), Value("seek", t, n), Control("resume")>>
<1>4. decoder[t] \in DecoderType /\ decoder \in [Track -> DecoderType]
  BY DEF DecoderOK
<1>5. n \in Nat /\ Length[t] \in Nat
  BY OutputAssumption
<1>6. rest \in Nat
  <2>1. decoder[t].rest \in Nat /\ Length[t] - n \in Nat
    BY <1>4, <1>5 DEF DecoderType
  <2>2. n \notin {0, Length[t]} => Length[t] - n - 1 \in Nat
    BY <1>5
  <2> QED
    BY <2>1, <2>2 DEF flac_seek, ffmpeg_seek
<1>7. d \in DecoderType /\ d.format = decoder[t].format /\ d.buffer = decoder[t].buffer
  BY <1>4, <1>5, <1>6 DEF DecoderType
<1>8. decoder' = [decoder EXCEPT ![t] = d]
  BY <1>3, <1>4
<1>9. t \in Opened /\ decoder[t].buffer \in Buffer
  BY <1>1, <1>4 DEF Opened, DecoderType
<1> HIDE DEF d
<1>10. seeks' \in Seq(Track) /\ Range(seeks') = Range(seeks) \cup {t}
  <2>1. seeks \in Seq(Track)
    BY DEF ValuesOK
  <2>2. /\ Append(seeks, t) \in Seq(Track) /\ Range(Append(seeks, t)) = Range(seeks) \cup {t}
    BY <2>1, AppendRange
  <2> QED
    BY <1>1, <2>2
<1>11. DecoderOK' /\ Opened' = Opened /\ PoolOK' /\ CardOK' /\ ClocksOK' /\ (Busy' => Busy)
  BY <1>1, <1>7, <1>8, <1>9, <1>10, DecoderStep
<1>12. BuffersOK'
  <2>1. /\ data \in [Buffer -> Seq(1 .. ChunkSize)] /\ filling \in [Buffer -> 0 .. ChunkSize - 1]
        /\ 0 \in 0 .. ChunkSize - 1
    BY OutputAssumption DEF BuffersOK
  <2> DEFINE b == decoder[t].buffer
  <2> HIDE DEF b
  <2>2. filling' = [filling EXCEPT ![b] = 0] /\ data' = data
    BY <1>1 DEF b
  <2>3. filling' \in [Buffer -> 0 .. ChunkSize - 1] /\ \A c \in Buffer : filling'[c] = IF c = b THEN 0 ELSE filling[c]
    BY <2>1, <2>2
  <2> QED
    BY <2>1, <2>2, <2>3 DEF BuffersOK
<1>13. ValuesOK'
  BY <1>1, <1>10 DEF ValuesOK, device
<1>14. QueueOK'
  <2>1. /\ queue \in Seq(Sound) /\ DOMAIN queue = 1 .. Len(queue)
        /\ \A i \in 1 .. Len(queue) :
             /\ queue[i].track \in added
             /\ i > 1 => /\ queue[i].track \notin Range(seeks) /\ queue[i].written = 0
                         /\ Announced[queue[i].track] # 0 => queue[i].total # 0
    <3>1. queue \in Seq(Sound)
      BY DEF QueueOK, QueueGood
    <3> QED
      BY <3>1, LenProperties DEF QueueOK, QueueGood
  <2>2. \A i \in 1 .. Len(queue) : i > 1 => queue[i].track # t
    BY <1>1, <2>1 DEF InQueue
  <2> QED
    BY <1>1, <1>10, <2>1, <2>2 DEF QueueOK, QueueGood
<1>15. JobsOK' /\ GoesOn(jobs')
  <2>1. /\ jobs \in Seq(JobType) /\ JobsGood(jobs, contDue, Opened, added, Range(seeks))
        /\ Opened \subseteq added
    BY DEF JobsOK, JobsGood
  <2>2. t \in Range(seeks')
    BY <1>10
  <2>3. /\ JobsGood(more, contDue, Opened, added, Range(seeks')) /\ GoesOn(more)
        /\ \A i \in 1 .. Len(more) : more[i].op # "add"
    BY <1>5, <2>1, <2>2, SeekJobs
  <2>4. jobs' = jobs \o more
    BY <1>3
  <2> HIDE DEF more
  <2>5. JobsGood(jobs', contDue, Opened, added, Range(seeks'))
    BY <1>10, <2>1, <2>3, <2>4, JobsPosted
  <2>6. GoesOn(jobs')
    BY <2>1, <2>3, <2>4, GoesOnStill DEF JobsGood
  <2> QED
    BY <1>1, <1>11, <2>5, <2>6 DEF JobsOK
<1>16. PlayChainAlive'
  BY <1>15, ChainIs
<1> QED
  BY <1>11, <1>12, <1>13, <1>14, <1>15, <1>16

\* A track that has no buffer is given one.
LEMMA PoolGets ==
  ASSUME PoolOK, DecoderOK, NEW t \in Track, t \notin Opened, pool' = get_from_cache(pool, t),
         decoder' = [decoder EXCEPT ![t].buffer = pool'.used[t]]
  PROVE  PoolOK' /\ pool'.used[t] \in Buffer /\ Opened' = Opened \cup {t}
<1> DEFINE free == IF pool.free = <<>> THEN <<>> ELSE Tail(pool.free)
           made == IF pool.free = <<>> THEN pool.made + 1 ELSE pool.made
           b == get_cache_helper(pool)
<1>1. /\ pool.used \in [Track -> 0 .. pool.made] /\ pool.free \in Seq(1 .. pool.made) /\ pool.made \in Nat
      /\ pool.made <= Cardinality(Opened) /\ IsInjective(pool.free)
      /\ \A u, v \in Track : pool.used[u] = pool.used[v] => u = v \/ ~is_in_cache(pool, u)
      /\ \A u \in Track : is_in_cache(pool, u) => u \in Opened /\ pool.used[u] \notin Range(pool.free)
  BY DEF PoolOK, PoolType
<1>2. ~is_in_cache(pool, t)
  BY <1>1
<1>3. pool' = [used |-> [pool.used EXCEPT ![t] = b], free |-> free, made |-> made]
  BY <1>2 DEF get_from_cache
<1>4. /\ b \in 1 .. made /\ made \in Nat /\ made >= pool.made /\ made <= pool.made + 1
      /\ free \in Seq(1 .. made) /\ IsInjective(free) /\ b \notin Range(free)
      /\ Range(free) \subseteq Range(pool.free)
      /\ \A u \in Track : is_in_cache(pool, u) => pool.used[u] # b
  <2>1. CASE pool.free = <<>>
    <3>1. free = <<>> /\ made = pool.made + 1 /\ b = pool.made + 1
      BY <2>1 DEF get_cache_helper
    <3>2. free \in Seq(1 .. made) /\ Range(free) = {} /\ IsInjective(free)
      BY <3>1, NothingIn
    <3> QED
      BY <1>1, <3>1, <3>2
  <2>2. CASE pool.free # <<>>
    <3>1. free = Tail(pool.free) /\ made = pool.made /\ b = Head(pool.free)
      BY <2>2 DEF get_cache_helper
    <3>2. /\ Head(pool.free) \in 1 .. pool.made /\ Tail(pool.free) \in Seq(1 .. pool.made)
          /\ Range(pool.free) = {Head(pool.free)} \cup Range(Tail(pool.free))
          /\ IsInjective(Tail(pool.free)) /\ Head(pool.free) \notin Range(Tail(pool.free))
      BY <1>1, <2>2, TailRange
    <3> QED
      BY <1>1, <3>1, <3>2
  <2> QED
    BY <2>1, <2>2
<1> HIDE DEF free, made, b
<1>5. /\ pool'.used = [pool.used EXCEPT ![t] = b] /\ pool'.free = free /\ pool'.made = made
      /\ \A u \in Track : pool'.used[u] = IF u = t THEN b ELSE pool.used[u]
  BY <1>1, <1>3
<1>6. /\ decoder \in [Track -> DecoderType]
      /\ \A u \in Track : decoder'[u].buffer = IF u = t THEN b ELSE decoder[u].buffer
  <2>1. decoder \in [Track -> DecoderType]
    BY DEF DecoderOK
  <2>2. decoder' = [decoder EXCEPT ![t].buffer = b]
    BY <1>5
  <2>3. decoder' = [decoder EXCEPT ![t] = [decoder[t] EXCEPT !.buffer = b]] /\ decoder[t] \in DecoderType
    BY <2>1, <2>2
  <2>4. [decoder[t] EXCEPT !.buffer = b].buffer = b
    BY <2>3 DEF DecoderType
  <2> DEFINE d == [decoder[t] EXCEPT !.buffer = b]
  <2> HIDE DEF d
  <2>5. decoder' = [decoder EXCEPT ![t] = d] /\ d.buffer = b
    BY <2>3, <2>4 DEF d
  <2>6. \A u \in Track : decoder'[u] = IF u = t THEN d ELSE decoder[u]
    BY <2>1, <2>5
  <2> QED
    BY <2>1, <2>5, <2>6
<1>7. Opened' = Opened \cup {t}
  BY <1>4, <1>6 DEF Opened
<1>8. IsFiniteSet(Track) /\ Opened \subseteq Track
  BY OutputAssumption DEF Opened
<1>9. IsFiniteSet(Opened) /\ Cardinality(Opened \cup {t}) = Cardinality(Opened) + 1
  <2>1. IsFiniteSet(Opened)
    BY <1>8, FS_Subset
  <2> QED
    BY <2>1, FS_AddElement
<1>10. Cardinality(Opened \cup {t}) <= Cardinality(Track) /\ Cardinality(Opened) \in Nat /\ Cardinality(Track) \in Nat
  <2>1. Opened \cup {t} \subseteq Track
    BY <1>8
  <2>2. Cardinality(Opened \cup {t}) <= Cardinality(Track)
    BY <1>8, <2>1, FS_Subset
  <2> QED
    BY <1>8, <1>9, <2>2, FS_CardinalityType
<1>11. made <= Cardinality(Opened') /\ b \in Buffer
  BY <1>1, <1>4, <1>7, <1>9, <1>10 DEF Buffer
<1>12. pool' \in PoolType(pool'.made)
  <2>1. [pool.used EXCEPT ![t] = b] \in [Track -> 0 .. made]
    BY <1>1, <1>4
  <2> QED
    BY <1>3, <1>4, <1>5, <2>1 DEF PoolType
<1>13. \A u, v \in Track : pool'.used[u] = pool'.used[v] => u = v \/ ~is_in_cache(pool', u)
  BY <1>1, <1>4, <1>5 DEF is_in_cache
<1>14. \A u \in Track : is_in_cache(pool', u) => u \in Opened' /\ pool'.used[u] \notin Range(pool'.free)
  BY <1>1, <1>4, <1>5, <1>7 DEF is_in_cache
<1> QED
  BY <1>4, <1>5, <1>7, <1>11, <1>12, <1>13, <1>14 DEF PoolOK

\* A sound is added to the queue, and its cont() is still to come.
LEMMA AddOK == IInv /\ add_sound_details_internal => IInv'
<1> SUFFICES ASSUME IInv, add_sound_details_internal PROVE IInv'
  OBVIOUS
<1> USE DEF IInv
<1> DEFINE t == Head(jobs).track
           sound == [track |-> t, total |-> Announced[t], written |-> 0, buffer |-> pool'.used[t]]
<1>1. /\ Takes("add") /\ jobs' = Rest
      /\ pool' = get_from_cache(pool, t) /\ queue' = Append(queue, sound)
      /\ decoder' = [decoder EXCEPT ![t].buffer = pool'.used[t]]
      /\ UNCHANGED <<state, prev, initApi, card, cardFormat, paused, starved, data, filling, timers, playTimer, polls,
                     added, contDue, seeks, reported>>
  BY DEF add_sound_details_internal, device, buffers, clocks
<1>2. /\ jobs # <<>> /\ Head(jobs).op = "add" /\ jobs \in Seq(JobType) /\ Head(jobs) = jobs[1] /\ Head(jobs) \in JobType
      /\ 1 \in 1 .. Len(jobs) /\ Tail(jobs) \in Seq(JobType)
  <2>1. jobs # <<>> /\ Head(jobs).op = "add" /\ jobs \in Seq(JobType)
    BY <1>1 DEF JobsOK, JobsGood, Takes
  <2>2. Head(jobs) = jobs[1] /\ Head(jobs) \in JobType /\ Len(jobs) \in Nat \ {0} /\ Tail(jobs) \in Seq(JobType)
    BY <2>1, TailRange
  <2> QED
    BY <2>1, <2>2
<1>3. /\ t \in added \ Opened /\ (contDue \/ \E j \in 1 .. Len(jobs) : j > 1 /\ jobs[j].op = "play")
      /\ t \in Track /\ Head(jobs) = Job("add", t)
  <2>1. t \in added \ Opened /\ (contDue \/ \E j \in 1 .. Len(jobs) : j > 1 /\ jobs[j].op = "play")
    BY <1>2 DEF JobsOK, JobsGood
  <2>2. Head(jobs) \in [op : {"add", "clear"}, track : Track]
    BY <1>2 DEF JobType, PluginStates
  <2>3. Head(jobs) = Job("add", t)
    BY <1>2, <2>2 DEF Job
  <2> QED
    BY <2>1, <2>2, <2>3
<1> DEFINE now == Opened \cup {t}
<1>4. JobsGood(Tail(jobs), contDue, now, added, Range(seeks))
  <2>1. JobsGood(jobs, contDue, Opened, added, Range(seeks))
    BY DEF JobsOK
  <2> QED
    BY <1>2, <1>3, <2>1, JobsTail
<1>5. contDue \/ GoesOn(Tail(jobs))
  <2>1. CASE contDue
    BY <2>1
  <2>2. ASSUME NEW j \in 1 .. Len(jobs), jobs[j].op = "play" PROVE GoesOn(Tail(jobs))
    <3>1. GoesOn(jobs)
      BY <1>2, <2>2, LenProperties DEF GoesOn
    <3> QED
      BY <1>2, <3>1, GoesOnStill
  <2> QED
    BY <1>3, <2>1, <2>2
<1> HIDE DEF t
<1>6. PoolOK' /\ pool'.used[t] \in Buffer /\ Opened' = Opened \cup {t}
  BY <1>1, <1>3, PoolGets
<1>7. JobsOK' /\ (contDue' \/ GoesOn(jobs'))
  BY <1>1, <1>4, <1>5, <1>6 DEF JobsOK, Rest
<1>8. /\ decoder \in [Track -> DecoderType]
      /\ \A u \in Track : /\ u # t => decoder'[u] = decoder[u]
                          /\ decoder'[u] \in DecoderType /\ decoder'[u].format = decoder[u].format
                          /\ decoder'[u].ended = decoder[u].ended /\ decoder'[u].written = decoder[u].written
                          /\ decoder'[u].rest = decoder[u].rest
      /\ decoder' \in [Track -> DecoderType]
  <2> DEFINE b == pool'.used[t]
             d == [decoder[t] EXCEPT !.buffer = b]
  <2>1. decoder \in [Track -> DecoderType] /\ decoder[t] \in DecoderType
    BY <1>3 DEF DecoderOK
  <2> HIDE DEF b
  <2>2. b \in Buffer /\ decoder' = [decoder EXCEPT ![t].buffer = b]
    BY <1>1, <1>6 DEF b
  <2>3. /\ d \in DecoderType /\ d.format = decoder[t].format /\ d.ended = decoder[t].ended
        /\ d.written = decoder[t].written /\ d.rest = decoder[t].rest
    BY <2>1, <2>2 DEF DecoderType
  <2>4. decoder' = [decoder EXCEPT ![t] = d]
    BY <2>1, <2>2
  <2> HIDE DEF d
  <2>5. \A u \in Track : decoder'[u] = IF u = t THEN d ELSE decoder[u]
    BY <2>1, <2>4
  <2> QED
    BY <2>1, <2>3, <2>4, <2>5
<1>9. DecoderOK'
  BY <1>1, <1>6, <1>8 DEF DecoderOK
<1>10. /\ QueueGood(queue', added, Range(seeks)) /\ (queue # <<>> => Head(queue') = Head(queue)) /\ queue' # <<>>
  <2>1. t \notin Range(seeks)
    BY <1>3 DEF DecoderOK
  <2>2. /\ sound \in Sound /\ sound.track = t /\ sound.written = 0 /\ sound.total = Announced[t]
    BY <1>3, <1>6, OutputAssumption DEF Sound
  <2> HIDE DEF sound
  <2>3. queue \in Seq(Sound)
    BY DEF QueueOK, QueueGood
  <2>4. queue' # <<>>
    BY <1>1, <2>2, <2>3, AppendRange
  <2> QED
    BY <1>1, <1>3, <2>1, <2>2, <2>4, QueueAdd DEF QueueOK
<1>11. ValuesOK' /\ QueueOK'
  BY <1>1, <1>10 DEF ValuesOK, QueueOK
<1>12. BuffersOK' /\ ClocksOK'
  BY <1>1, Frame
<1>13. CardOK'
  BY <1>1, <1>8, <1>10 DEF CardOK
<1>14. PlayChainAlive'
  BY <1>7, ChainIs
<1> QED
  BY <1>6, <1>7, <1>9, <1>11, <1>12, <1>13, <1>14

\* The playlist manager adds a track that it has not added before.
LEMMA AddSoundOK == IInv /\ AddSound => IInv'
<1> SUFFICES ASSUME IInv, AddSound PROVE IInv'
  OBVIOUS
<1> USE DEF IInv
<1>1. PICK t \in Track \ added :
        /\ ~contDue /\ contDue' = TRUE
        /\ jobs' = Append(jobs, Job("add", t)) /\ added' = added \cup {t}
        /\ UNCHANGED <<state, queue, device, pool, buffers, clocks, decoder, seeks, reported>>
  BY DEF AddSound
<1>2. UNCHANGED <<state, queue, prev, initApi, card, cardFormat, paused, starved, pool, data, filling, timers, playTimer,
                  polls, decoder, seeks, reported>>
  BY <1>1 DEF device, buffers, clocks
<1>3. /\ JobsGood(jobs, contDue, Opened, added, Range(seeks)) /\ jobs \in Seq(JobType)
      /\ t \notin Opened
  BY <1>1 DEF JobsOK, JobsGood
<1>4. /\ Job("add", t) \in JobType /\ Job("add", t).op = "add" /\ Job("add", t).track = t
  BY <1>1 DEF Job, JobType
<1> DEFINE now == added \cup {t}
           job == Job("add", t)
<1>5. job \in JobType /\ job.op = "add" /\ job.track = t /\ t \in now /\ added \subseteq now
  BY <1>4
<1> HIDE DEF now, job
<1>6. JobsGood(Append(jobs, job), TRUE, Opened, now, Range(seeks))
  BY <1>1, <1>3, <1>5, JobPosted
<1>7. Opened' = Opened
  BY <1>2 DEF Opened
<1>8. JobsOK'
  BY <1>1, <1>2, <1>6, <1>7 DEF JobsOK, now, job
<1>9. ValuesOK' /\ QueueOK'
  <2>1. QueueGood(queue, added \cup {t}, Range(seeks))
    BY DEF QueueOK, QueueGood
  <2> QED
    BY <1>1, <1>2, <2>1 DEF ValuesOK, QueueOK
<1>10. DecoderOK' /\ PoolOK' /\ BuffersOK' /\ ClocksOK' /\ CardOK'
  BY <1>2, Frame
<1>11. PlayChainAlive'
  BY <1>1, ChainIs
<1> QED
  BY <1>8, <1>9, <1>10, <1>11

\* The playlist manager posts a job that adds nothing, and cont() when it is due.
LEMMA Posted ==
  ASSUME IInv, NEW op \in {"play", "pause", "stop"}, jobs' = Append(jobs, Control(op)),
         (contDue' = contDue) \/ (contDue' = FALSE /\ op = "play"),
         UNCHANGED <<state, queue, device, pool, buffers, clocks, added, decoder, seeks, reported>>
  PROVE  IInv'
<1> USE DEF IInv
<1>1. UNCHANGED <<state, queue, prev, initApi, card, cardFormat, paused, starved, pool, data, filling, timers, playTimer,
                  polls, added, decoder, seeks, reported>>
  BY DEF device, buffers, clocks
<1>2. Control(op) \in JobType /\ Control(op).op = op
  BY DEF Control, JobType, PluginStates
<1>3. JobsGood(jobs, contDue, Opened, added, Range(seeks)) /\ jobs \in Seq(JobType)
  BY DEF JobsOK, JobsGood
<1> DEFINE job == Control(op)
           due == contDue'
<1>4. job \in JobType /\ job.op = op /\ jobs' = Append(jobs, job) /\ (contDue => due \/ op = "play")
  BY <1>2
<1> HIDE DEF job, due
<1>5. JobsGood(Append(jobs, job), due, Opened, added, Range(seeks))
  BY <1>3, <1>4, JobPosted
<1>6. Opened' = Opened
  BY <1>1 DEF Opened
<1>7. JobsOK'
  BY <1>1, <1>4, <1>5, <1>6 DEF JobsOK, due
<1>8. ValuesOK'
  BY <1>1 DEF ValuesOK
<1>9. DecoderOK' /\ PoolOK' /\ BuffersOK' /\ QueueOK' /\ ClocksOK' /\ CardOK'
  BY <1>1, Frame
<1>10. GoesOn(jobs) \/ op = "play" => GoesOn(jobs')
  BY <1>3, <1>4, GoesOnStill
<1>11. PlayChainAlive'
  <2>1. Busy' => Busy
    BY <1>1 DEF Busy, Deaf
  <2> QED
    BY <1>1, <1>4, <1>10, <2>1, ChainIs DEF due
<1> QED
  BY <1>7, <1>8, <1>9, <1>11

-----------------------------------------------------------------------------
(* The theorems.                                                            *)

\* The output starts with nothing to play.
LEMMA InitOK == Init => IInv
<1> SUFFICES ASSUME Init PROVE IInv
  OBVIOUS
<1>1. /\ state \in PluginStates /\ queue = <<>>
      /\ prev = {} /\ initApi = FALSE /\ card = "setup" /\ cardFormat = {} /\ paused = FALSE
      /\ pool = NoPool /\ data = [b \in Buffer |-> <<>>] /\ filling = [b \in Buffer |-> 0]
      /\ jobs = <<>> /\ timers = NoTimers /\ playTimer = NoTimer /\ polls = {}
      /\ added = {} /\ contDue = FALSE /\ reported = {} /\ seeks = <<>> /\ starved = FALSE
  BY DEF Init
<1>2. PICK format \in Formats :
        decoder = [t \in Track |-> [format |-> format[t], buffer |-> 0, written |-> 0, rest |-> Length[t],
                                    total |-> Announced[t], ended |-> "no"]]
  BY DEF Init
<1> DEFINE none == <<>>
<1>3. /\ \A S : none \in Seq(S)
      /\ Range(none) = {} /\ IsInjective(none) /\ Len(none) = 0
  BY NothingIn
<1>4. queue = none /\ jobs = none /\ seeks = none /\ data = [b \in Buffer |-> none] /\ NoPool.free = none
      /\ timers = [active |-> {}, expired |-> none, made |-> 0]
  BY <1>1 DEF NoPool, NoTimers
<1> HIDE DEF none
<1>5. ValuesOK
  BY <1>1, <1>3, <1>4 DEF ValuesOK, CardStates
<1>6. DecoderOK /\ Opened = {}
  <2>1. \A t \in Track : format[t] \in AllFormats /\ Length[t] \in Nat /\ Announced[t] \in Nat
    BY OutputAssumption DEF AllFormats, Range
  <2>2. decoder \in [Track -> DecoderType]
    BY <1>2, <2>1 DEF DecoderType
  <2>3. \A t \in Track : /\ decoder[t].buffer = 0 /\ decoder[t].ended = "no"
                         /\ decoder[t].written + decoder[t].rest = Length[t]
    BY <1>2, <2>1
  <2>4. Opened = {}
    BY <2>3 DEF Opened
  <2> QED
    BY <1>3, <1>4, <2>2, <2>3, <2>4 DEF DecoderOK
<1>7. PoolOK
  <2> DEFINE nobody == [t \in Track |-> 0]
  <2>1. nobody \in [Track -> 0 .. 0] /\ \A t \in Track : nobody[t] = 0
    OBVIOUS
  <2>2. pool = [used |-> nobody, free |-> none, made |-> 0]
    BY <1>1 DEF NoPool, none
  <2> HIDE DEF nobody
  <2>3. pool.used = nobody /\ pool.free = none /\ pool.made = 0 /\ pool \in PoolType(0)
    BY <1>3, <2>1, <2>2 DEF PoolType
  <2>4. Cardinality(Opened) = 0
    BY <1>6, FS_EmptySet
  <2> QED
    BY <1>3, <2>1, <2>3, <2>4 DEF PoolOK, is_in_cache
<1>8. BuffersOK
  <2>1. ChunkSize \in Nat \ {0} /\ ChunkCount \in Nat
    BY OutputAssumption
  <2>2. data \in [Buffer -> Seq(1 .. ChunkSize)] /\ \A b \in Buffer : data[b] = none
    BY <1>3, <1>4
  <2>3. filling \in [Buffer -> 0 .. ChunkSize - 1] /\ \A b \in Buffer : filling[b] = 0
    BY <1>1, <2>1
  <2> QED
    BY <1>3, <2>1, <2>2, <2>3 DEF BuffersOK
<1>9. QueueOK
  BY <1>3, <1>4 DEF QueueOK, QueueGood
<1>10. JobsOK
  BY <1>1, <1>3, <1>4, <1>6 DEF JobsOK, JobsGood
<1>11. ClocksOK
  <2>1. timers \in TimersType(0) /\ timers.made = 0 /\ timers.active = {}
    BY <1>3, <1>4 DEF TimersType
  <2> QED
    BY <1>1, <2>1 DEF ClocksOK, ClocksGood, TimersOK, NoTimer
<1>12. CardOK
  BY <1>1 DEF CardOK
<1>13. PlayChainAlive
  BY <1>1 DEF PlayChainAlive
<1> QED
  BY <1>5, <1>6, <1>7, <1>8, <1>9, <1>10, <1>11, <1>12, <1>13 DEF IInv

\* Every step keeps the invariant.
LEMMA NextOK == IInv /\ [Next]_vars => IInv'
<1> SUFFICES ASSUME IInv, [Next]_vars PROVE IInv'
  OBVIOUS
<1>1. CASE RunJob
  BY <1>1, AddOK, ContOK, ArmPollOK, PauseOK, PausePlayOK, StopOK, ResumeOK, UpdateOK, ClearOK, SetSeekOK DEF RunJob
<1>2. CASE Decoder
  BY <1>2, DecodeOK, DecodeEndOK, SyncCacheOK, SeekDurationOK DEF Decoder
<1>3. CASE AddSound
  BY <1>3, AddSoundOK
<1>4. CASE ContAfterAdd
  <2>1. /\ jobs' = Append(jobs, Control("play")) /\ contDue' = FALSE
        /\ UNCHANGED <<state, queue, device, pool, buffers, clocks, added, decoder, seeks, reported>>
    BY <1>4 DEF ContAfterAdd
  <2> QED
    BY <2>1, Posted
<1>5. CASE ControlOutput
  <2>1. PICK op \in {"pause", "stop"} :
          /\ jobs' = Append(jobs, Control(op)) /\ contDue' = contDue
          /\ UNCHANGED <<state, queue, device, pool, buffers, clocks, added, decoder, seeks, reported>>
    BY <1>5 DEF ControlOutput, others
  <2> QED
    BY <2>1, Posted
<1>6. CASE \E timer \in timers.active : Timeout(timer)
  BY <1>6, TimeoutOK
<1>7. CASE UNCHANGED vars
  <2>1. UNCHANGED <<state, queue, prev, initApi, card, cardFormat, paused, starved, pool, data, filling, jobs, timers,
                    playTimer, polls, added, contDue, decoder, seeks, reported>>
    BY <1>7 DEF vars, device, buffers, clocks, others
  <2>2. ValuesOK'
    BY <2>1 DEF IInv, ValuesOK
  <2>3. DecoderOK' /\ PoolOK' /\ BuffersOK' /\ QueueOK' /\ JobsOK' /\ ClocksOK' /\ CardOK'
    BY <2>1, Frame DEF IInv
  <2>4. PlayChainAlive'
    BY <2>1 DEF IInv, PlayChainAlive, Deaf
  <2> QED
    BY <2>2, <2>3, <2>4 DEF IInv
<1> QED
  BY <1>1, <1>2, <1>3, <1>4, <1>5, <1>6, <1>7 DEF Next

\* The invariant holds in every state.
THEOREM Invariant == Spec => []IInv
<1>1. Init => IInv
  BY InitOK
<1>2. IInv /\ [Next]_vars => IInv'
  BY NextOK
<1> QED
  BY <1>1, <1>2, PTL DEF Spec

\* Every variable of the output keeps its type: no buffer is larger than it may be
\* or has two tracks, and one timer calls play().
THEOREM TypeCorrect == Spec => []TypeOK
<1>1. IInv => TypeOK
  <2> SUFFICES ASSUME IInv PROVE TypeOK
    OBVIOUS
  <2> USE DEF IInv
  <2>1. /\ state \in PluginStates /\ card \in {"setup", "ready", "paused"}
        /\ initApi \in BOOLEAN /\ paused \in BOOLEAN /\ starved \in BOOLEAN /\ contDue \in BOOLEAN
        /\ added \subseteq Track /\ reported \subseteq added /\ seeks \in Seq(Track)
    BY DEF ValuesOK, CardStates
  <2>2. queue \in Seq([track : Track, total : Nat, written : Nat, buffer : Buffer])
    BY DEF QueueOK, QueueGood, Sound
  <2>3. prev \subseteq Track /\ cardFormat \subseteq UNION {Range(f) : f \in Formats}
    BY DEF CardOK, AllFormats
  <2>4. pool \in PoolType(Cardinality(Track))
    <3>1. IsFiniteSet(Track) /\ Opened \subseteq Track
      BY OutputAssumption DEF Opened
    <3>2. Cardinality(Opened) <= Cardinality(Track) /\ Cardinality(Opened) \in Nat /\ Cardinality(Track) \in Nat
      BY <3>1, FS_Subset, FS_CardinalityType
    <3>3. /\ pool.made \in Nat /\ pool.made <= Cardinality(Track)
          /\ pool.used \in [Track -> 0 .. pool.made] /\ pool.free \in Seq(1 .. pool.made)
          /\ pool = [used |-> pool.used, free |-> pool.free, made |-> pool.made]
      BY <3>2 DEF PoolOK, PoolType
    <3>4. pool.used \in [Track -> 0 .. Cardinality(Track)] /\ pool.free \in Seq(1 .. Cardinality(Track))
      BY <3>2, <3>3
    <3> QED
      BY <3>2, <3>3, <3>4 DEF PoolType
  <2>5. \A t, u \in Track : pool.used[t] = pool.used[u] => t = u \/ ~is_in_cache(pool, t)
    BY DEF PoolOK
  <2>6. \A b \in Buffer : /\ Len(data[b]) <= ChunkCount /\ \A i \in DOMAIN data[b] : data[b][i] \in 1 .. ChunkSize
                          /\ filling[b] \in 0 .. ChunkSize - 1
    <3> SUFFICES ASSUME NEW b \in Buffer
                 PROVE  /\ Len(data[b]) <= ChunkCount /\ \A i \in DOMAIN data[b] : data[b][i] \in 1 .. ChunkSize
                        /\ filling[b] \in 0 .. ChunkSize - 1
      OBVIOUS
    <3>1. Len(data[b]) <= ChunkCount /\ filling[b] \in 0 .. ChunkSize - 1 /\ data[b] \in Seq(1 .. ChunkSize)
      BY DEF BuffersOK
    <3> DEFINE chunks == data[b]
               sizes == 1 .. ChunkSize
    <3>2. chunks \in Seq(sizes)
      BY <3>1
    <3> HIDE DEF chunks, sizes
    <3>3. \A i \in DOMAIN chunks : chunks[i] \in sizes
      BY <3>2, InRange
    <3> QED
      BY <3>1, <3>3 DEF chunks, sizes
  <2>7. jobs \in Seq(JobType)
    BY DEF JobsOK, JobsGood
  <2>8. /\ timers.made \in Nat /\ timers \in TimersType(timers.made) /\ playTimer \in 0 .. timers.made
        /\ polls \subseteq timers.active /\ timers.active \ polls \subseteq {playTimer}
    BY DEF ClocksOK, ClocksGood, TimersOK
  <2> QED
    BY <2>1, <2>2, <2>3, <2>4, <2>5, <2>6, <2>7, <2>8 DEF TypeOK
<1> QED
  BY <1>1, Invariant, PTL

\* The card plays a sound in its own format, or has refused it; but for a sound
\* behind one that starved.
THEOREM CardPlaysItsFormat == Spec => []CardFormat
<1>1. IInv => CardFormat
  BY DEF IInv, CardOK, CardFormat
<1> QED
  BY <1>1, Invariant, PTL

\* While the output plays and has something to play, a timer runs or a job waits that
\* goes on with it.
THEOREM PlayGoesOn == Spec => []PlayChainAlive
<1>1. IInv => PlayChainAlive
  BY DEF IInv
<1> QED
  BY <1>1, Invariant, PTL

-----------------------------------------------------------------------------
(* No sample is lost or played twice.                                       *)

Asks(job, op, t) == job.op = op /\ job.track = t

\* Track t is sought, and its buffer cleared, by one of the jobs js.
Sought(js, t) == \E k \in 1 .. Len(js) : Asks(js[k], "seek", t)

Cleared(js, t) == \E k \in 1 .. Len(js) : Asks(js[k], "clear", t)

\* The jobs js take a sound of track t from sample w to sample p: to where the last
\* of its seeks goes.
GoesTo(js, t, w, p) ==
  \/ ~Sought(js, t) /\ p = w
  \/ \E k \in 1 .. Len(js) : /\ Asks(js[k], "seek", t) /\ p = js[k].value
                             /\ \A j \in 1 .. Len(js) : j > k => ~Asks(js[j], "seek", t)

\* Of a sound of track t that is at sample w, of which the output has d samples and the
\* decoder f, no more is left when the jobs js have run than the n samples decoded.
Kept(js, t, w, d, f, n) ==
  \A p \in Nat : GoesTo(js, t, w, p) => p + (IF Cleared(js, t) THEN 0 ELSE d) + f <= n

\* A track is cleared only to be sought.
SeeksGood(js, sought) ==
  \A i \in 1 .. Len(js) :
    js[i].op = "clear" =>
      js[i].track \in sought /\ \E j \in 1 .. Len(js) : j > i /\ Asks(js[j], "seek", js[i].track)

\* Nor is less, if the track was not sought.
SoundKept(js, s, d, f, n, sought) ==
  Kept(js, s.track, s.written, d, f, n) /\ (s.track \notin sought => s.written + d + f = n)

AllKept(js, q, chunks, filled, dec, sought) ==
  \A i \in 1 .. Len(q) :
    SoundKept(js, q[i], Total(chunks[q[i].buffer]), filled[q[i].buffer], dec[q[i].track].written, sought)

\* No buffer is used again: each track has its own, if any, and one that was never
\* made is empty.
BuffersOnce ==
  /\ pool.free = <<>>
  /\ \A t \in Track : /\ decoder[t].buffer <= pool.made /\ pool.used[t] \in {0, decoder[t].buffer}
                      /\ t \notin Opened => decoder[t].written = 0
  /\ \A t, u \in Opened : decoder[t].buffer = decoder[u].buffer => t = u
  /\ \A b \in Buffer : b > pool.made => data[b] = <<>> /\ filling[b] = 0

\* A track is in the queue once, with its buffer, and not once the card plays on
\* without it.
SoundsOnce ==
  /\ \A i \in 1 .. Len(queue) : queue[i].track \in Opened /\ queue[i].buffer = decoder[queue[i].track].buffer
  /\ \A i, j \in 1 .. Len(queue) : queue[i].track = queue[j].track => i = j
  /\ prev \subseteq Opened
  /\ initApi /\ starved => \A i \in 1 .. Len(queue) : queue[i].track \notin prev

SamplesOK ==
  /\ BuffersOnce /\ SoundsOnce /\ SeeksGood(jobs, Range(seeks))
  /\ AllKept(jobs, queue, data, filling, decoder, Range(seeks))

\* The places of two sequences in the one made of them.
LEMMA Places ==
  ASSUME NEW S, NEW js \in Seq(S), NEW ks \in Seq(S)
  PROVE  /\ js \o ks \in Seq(S) /\ Len(js) \in Nat /\ Len(ks) \in Nat /\ Len(js \o ks) = Len(js) + Len(ks)
         /\ \A i \in 1 .. Len(js) : i \in 1 .. Len(js \o ks) /\ (js \o ks)[i] = js[i]
         /\ \A k \in 1 .. Len(ks) : Len(js) + k \in 1 .. Len(js \o ks) /\ (js \o ks)[Len(js) + k] = ks[k]
         /\ \A i \in 1 .. Len(js \o ks) : i \in 1 .. Len(js) \/ \E k \in 1 .. Len(ks) : i = Len(js) + k
<1> DEFINE all == js \o ks
<1>1. /\ all \in Seq(S) /\ Len(all) = Len(js) + Len(ks)
      /\ \A i \in 1 .. Len(js) + Len(ks) : all[i] = IF i <= Len(js) THEN js[i] ELSE ks[i - Len(js)]
  BY ConcatRange
<1>2. Len(js) \in Nat /\ Len(ks) \in Nat
  BY LenProperties
<1> HIDE DEF all
<1>3. \A i \in 1 .. Len(js) : i \in 1 .. Len(all) /\ all[i] = js[i]
  BY <1>1, <1>2
<1>4. \A k \in 1 .. Len(ks) : Len(js) + k \in 1 .. Len(all) /\ all[Len(js) + k] = ks[k]
  <2> TAKE k \in 1 .. Len(ks)
  <2>1. Len(js) + k \in 1 .. Len(js) + Len(ks) /\ ~(Len(js) + k <= Len(js)) /\ (Len(js) + k) - Len(js) = k
    BY <1>2
  <2> QED
    BY <1>1, <2>1
<1>5. \A i \in 1 .. Len(all) : i \in 1 .. Len(js) \/ \E k \in 1 .. Len(ks) : i = Len(js) + k
  <2> TAKE i \in 1 .. Len(all)
  <2>1. CASE i > Len(js)
    <3>1. i - Len(js) \in 1 .. Len(ks) /\ i = Len(js) + (i - Len(js))
      BY <1>1, <1>2, <2>1
    <3> QED
      BY <3>1
  <2>2. CASE ~(i > Len(js))
    BY <1>1, <1>2, <2>2
  <2> QED
    BY <2>1, <2>2
<1> QED
  BY <1>1, <1>2, <1>3, <1>4, <1>5 DEF all

\* The first job runs: it may clear or seek the track.
LEMMA KeptTail ==
  ASSUME NEW js \in Seq(JobType), js # <<>>, NEW t, NEW w, NEW d, NEW f, NEW n, Kept(js, t, w, d, f, n)
  PROVE  /\ ~Asks(Head(js), "seek", t) /\ ~Asks(Head(js), "clear", t) => Kept(Tail(js), t, w, d, f, n)
         /\ Asks(Head(js), "seek", t) => Kept(Tail(js), t, Head(js).value, d, f, n)
         /\ Asks(Head(js), "clear", t) => Kept(Tail(js), t, w, 0, f, n)
<1>1. /\ Len(Tail(js)) = Len(js) - 1 /\ Len(js) \in Nat \ {0} /\ Head(js) = js[1]
      /\ \A i \in 1 .. Len(Tail(js)) : Tail(js)[i] = js[i + 1] /\ i + 1 \in 1 .. Len(js)
  BY TailRange
<1> DEFINE ks == Tail(js)
           e == Head(js)
<1> HIDE DEF ks, e
<1>2. /\ Len(ks) = Len(js) - 1 /\ Len(js) \in Nat \ {0} /\ e = js[1]
      /\ \A i \in 1 .. Len(ks) : ks[i] = js[i + 1] /\ i + 1 \in 1 .. Len(js)
  BY <1>1 DEF ks, e
<1>3. \A i \in 1 .. Len(js) : i = 1 \/ (i - 1 \in 1 .. Len(ks) /\ ks[i - 1] = js[i])
  <2> TAKE i \in 1 .. Len(js)
  <2>1. i # 1 => i - 1 \in 1 .. Len(ks) /\ (i - 1) + 1 = i
    BY <1>2
  <2> QED
    BY <1>2, <2>1
<1>4. \A op : (\E k \in 1 .. Len(js) : Asks(js[k], op, t)) <=> Asks(e, op, t) \/ \E k \in 1 .. Len(ks) : Asks(ks[k], op, t)
  <2> TAKE op
  <2>1. ASSUME NEW k \in 1 .. Len(js), Asks(js[k], op, t)
        PROVE  Asks(e, op, t) \/ \E j \in 1 .. Len(ks) : Asks(ks[j], op, t)
    BY <1>2, <1>3, <2>1
  <2>2. ASSUME NEW k \in 1 .. Len(ks), Asks(ks[k], op, t)
        PROVE  \E j \in 1 .. Len(js) : Asks(js[j], op, t)
    BY <1>2, <2>2
  <2>3. 1 \in 1 .. Len(js)
    BY <1>2
  <2> QED
    BY <1>2, <2>1, <2>2, <2>3
<1>5. /\ Sought(js, t) <=> Asks(e, "seek", t) \/ Sought(ks, t)
      /\ Cleared(js, t) <=> Asks(e, "clear", t) \/ Cleared(ks, t)
  BY <1>4 DEF Sought, Cleared
<1>6. ASSUME NEW p, NEW k \in 1 .. Len(ks), Asks(ks[k], "seek", t), p = ks[k].value,
             \A j \in 1 .. Len(ks) : j > k => ~Asks(ks[j], "seek", t)
      PROVE  GoesTo(js, t, w, p)
  <2>1. k + 1 \in 1 .. Len(js) /\ js[k + 1] = ks[k]
    BY <1>2
  <2>2. \A j \in 1 .. Len(js) : j > k + 1 => ~Asks(js[j], "seek", t)
    <3> TAKE j \in 1 .. Len(js)
    <3> HAVE j > k + 1
    <3>1. j # 1 /\ j - 1 > k
      BY <1>2
    <3> QED
      BY <1>3, <1>6, <3>1
  <2> QED
    BY <1>6, <2>1, <2>2 DEF GoesTo
<1>7. ASSUME ~Asks(e, "seek", t), NEW p, GoesTo(ks, t, w, p) PROVE GoesTo(js, t, w, p)
  <2>1. CASE ~Sought(ks, t) /\ p = w
    BY <1>5, <1>7, <2>1 DEF GoesTo
  <2>2. CASE ~(~Sought(ks, t) /\ p = w)
    BY <1>6, <1>7, <2>2 DEF GoesTo
  <2> QED
    BY <2>1, <2>2
<1>8. ASSUME Asks(e, "seek", t), NEW p, GoesTo(ks, t, e.value, p) PROVE GoesTo(js, t, w, p)
  <2>1. CASE ~Sought(ks, t) /\ p = e.value
    <3>1. 1 \in 1 .. Len(js) /\ Asks(js[1], "seek", t) /\ p = js[1].value
      BY <1>2, <1>8, <2>1
    <3>2. \A j \in 1 .. Len(js) : j > 1 => ~Asks(js[j], "seek", t)
      BY <1>3, <2>1 DEF Sought
    <3> QED
      BY <3>1, <3>2 DEF GoesTo
  <2>2. CASE ~(~Sought(ks, t) /\ p = e.value)
    BY <1>6, <1>8, <2>2 DEF GoesTo
  <2> QED
    BY <2>1, <2>2
<1>9. ~Asks(e, "seek", t) /\ ~Asks(e, "clear", t) => Kept(ks, t, w, d, f, n)
  BY <1>5, <1>7 DEF Kept
<1>10. Asks(e, "seek", t) => Kept(ks, t, e.value, d, f, n)
  <2>1. Asks(e, "seek", t) => ~Asks(e, "clear", t)
    BY DEF Asks
  <2> QED
    BY <1>5, <1>8, <2>1 DEF Kept
<1>11. Asks(e, "clear", t) => Kept(ks, t, w, 0, f, n)
  <2>1. Asks(e, "clear", t) => ~Asks(e, "seek", t) /\ Cleared(js, t)
    BY <1>5 DEF Asks
  <2>2. ASSUME Asks(e, "clear", t), NEW p \in Nat, GoesTo(ks, t, w, p) PROVE p + 0 + f <= n
    BY <1>7, <2>1, <2>2 DEF Kept
  <2> QED
    BY <2>2 DEF Kept
<1> QED
  BY <1>9, <1>10, <1>11 DEF ks, e

\* Jobs are posted behind those that wait: jobs that neither clear nor seek the track,
LEMMA KeptMore ==
  ASSUME NEW js \in Seq(JobType), NEW ks \in Seq(JobType), NEW t, NEW w, NEW d, NEW f, NEW n, Kept(js, t, w, d, f, n),
         \A k \in 1 .. Len(ks) : ~Asks(ks[k], "seek", t) /\ ~Asks(ks[k], "clear", t)
  PROVE  Kept(js \o ks, t, w, d, f, n)
<1> DEFINE all == js \o ks
<1>1. /\ Len(js) \in Nat /\ Len(ks) \in Nat /\ Len(all) = Len(js) + Len(ks)
      /\ \A i \in 1 .. Len(js) : i \in 1 .. Len(all) /\ all[i] = js[i]
      /\ \A k \in 1 .. Len(ks) : Len(js) + k \in 1 .. Len(all) /\ all[Len(js) + k] = ks[k]
      /\ \A i \in 1 .. Len(all) : i \in 1 .. Len(js) \/ \E k \in 1 .. Len(ks) : i = Len(js) + k
  BY Places
<1> HIDE DEF all
<1>2. \A i \in 1 .. Len(all), op \in {"seek", "clear"} : Asks(all[i], op, t) => i \in 1 .. Len(js) /\ Asks(js[i], op, t)
  BY <1>1
<1>3. (Sought(all, t) <=> Sought(js, t)) /\ (Cleared(all, t) <=> Cleared(js, t))
  <2>1. \A op \in {"seek", "clear"} :
          (\E i \in 1 .. Len(all) : Asks(all[i], op, t)) <=> (\E i \in 1 .. Len(js) : Asks(js[i], op, t))
    BY <1>1, <1>2
  <2> QED
    BY <2>1 DEF Sought, Cleared
<1>4. ASSUME NEW p, GoesTo(all, t, w, p) PROVE GoesTo(js, t, w, p)
  <2>1. CASE ~Sought(all, t) /\ p = w
    BY <1>3, <2>1 DEF GoesTo
  <2>2. ASSUME NEW k \in 1 .. Len(all), Asks(all[k], "seek", t), p = all[k].value,
               \A j \in 1 .. Len(all) : j > k => ~Asks(all[j], "seek", t)
        PROVE  GoesTo(js, t, w, p)
    <3>1. k \in 1 .. Len(js) /\ Asks(js[k], "seek", t)
      BY <1>2, <2>2
    <3>2. p = js[k].value /\ \A j \in 1 .. Len(js) : j > k => ~Asks(js[j], "seek", t)
      BY <1>1, <2>2, <3>1
    <3> QED
      BY <3>1, <3>2 DEF GoesTo
  <2> QED
    BY <1>4, <2>1, <2>2 DEF GoesTo
<1>5. Kept(all, t, w, d, f, n)
  BY <1>3, <1>4 DEF Kept
<1> QED
  BY <1>5 DEF all

\* and those of a seek to sample v.
LEMMA KeptSeek ==
  ASSUME NEW js \in Seq(JobType), NEW ks \in Seq(JobType), NEW t, NEW w, NEW d, NEW f \in Nat, NEW n \in Nat,
         NEW v \in Nat, v + f <= n, Sought(ks, t), Cleared(ks, t),
         \A k \in 1 .. Len(ks) : Asks(ks[k], "seek", t) => ks[k].value = v
  PROVE  Kept(js \o ks, t, w, d, f, n)
<1> DEFINE all == js \o ks
<1>1. /\ Len(js) \in Nat /\ Len(ks) \in Nat /\ Len(all) = Len(js) + Len(ks)
      /\ \A i \in 1 .. Len(js) : i \in 1 .. Len(all) /\ all[i] = js[i]
      /\ \A k \in 1 .. Len(ks) : Len(js) + k \in 1 .. Len(all) /\ all[Len(js) + k] = ks[k]
      /\ \A i \in 1 .. Len(all) : i \in 1 .. Len(js) \/ \E k \in 1 .. Len(ks) : i = Len(js) + k
  BY Places
<1> HIDE DEF all
<1>2. PICK s \in 1 .. Len(ks) : Asks(ks[s], "seek", t)
  BY DEF Sought
<1>3. Len(js) + s \in 1 .. Len(all) /\ Asks(all[Len(js) + s], "seek", t)
  BY <1>1, <1>2
<1>4. Sought(all, t) /\ Cleared(all, t)
  BY <1>1, <1>3 DEF Sought, Cleared
<1>5. ASSUME NEW p, GoesTo(all, t, w, p) PROVE p = v
  <2>1. PICK k \in 1 .. Len(all) : /\ Asks(all[k], "seek", t) /\ p = all[k].value
                                   /\ \A j \in 1 .. Len(all) : j > k => ~Asks(all[j], "seek", t)
    BY <1>4, <1>5 DEF GoesTo
  <2>2. ~(Len(js) + s > k)
    BY <1>3, <2>1
  <2>3. k \notin 1 .. Len(js)
    BY <1>1, <2>2
  <2>4. PICK l \in 1 .. Len(ks) : k = Len(js) + l
    BY <1>1, <2>3
  <2> QED
    BY <1>1, <2>1, <2>4
<1>6. Kept(all, t, w, d, f, n)
  BY <1>4, <1>5 DEF Kept
<1> QED
  BY <1>6 DEF all

\* The numbers change, and no more is kept than more was decoded.
LEMMA KeptNumbers ==
  ASSUME NEW js \in Seq(JobType), NEW sought, SeeksGood(js, sought), NEW t,
         NEW w \in Nat, NEW d \in Nat, NEW f \in Nat, NEW n \in Nat, Kept(js, t, w, d, f, n),
         NEW v \in Nat, NEW e \in Nat, NEW g \in Nat, NEW m \in Nat,
         v + e + g + n <= w + d + f + m, e + g + n <= d + f + m, g + n <= f + m
  PROVE  Kept(js, t, v, e, g, m)
<1>1. Cleared(js, t) => Sought(js, t)
  <2> SUFFICES ASSUME NEW i \in 1 .. Len(js), Asks(js[i], "clear", t) PROVE Sought(js, t)
    BY DEF Cleared
  <2>1. \E j \in 1 .. Len(js) : j > i /\ Asks(js[j], "seek", t)
    BY DEF SeeksGood, Asks
  <2> QED
    BY <2>1 DEF Sought
<1> SUFFICES ASSUME NEW p \in Nat, GoesTo(js, t, v, p) PROVE p + (IF Cleared(js, t) THEN 0 ELSE e) + g <= m
  BY DEF Kept
<1>2. CASE Sought(js, t)
  <2>1. GoesTo(js, t, w, p)
    BY <1>2 DEF GoesTo
  <2>2. p + (IF Cleared(js, t) THEN 0 ELSE d) + f <= n
    BY <2>1 DEF Kept
  <2> QED
    BY <2>2
<1>3. CASE ~Sought(js, t)
  <2>1. p = v /\ ~Cleared(js, t) /\ GoesTo(js, t, w, w)
    BY <1>1, <1>3 DEF GoesTo, Sought
  <2>2. w + d + f <= n
    BY <2>1 DEF Kept
  <2> QED
    BY <2>1, <2>2
<1> QED
  BY <1>2, <1>3

\* The first job runs.
LEMMA SeeksTail ==
  ASSUME NEW js \in Seq(JobType), js # <<>>, NEW sought, SeeksGood(js, sought)
  PROVE  SeeksGood(Tail(js), sought)
<1>1. /\ Len(Tail(js)) = Len(js) - 1 /\ Len(js) \in Nat \ {0}
      /\ \A i \in 1 .. Len(Tail(js)) : Tail(js)[i] = js[i + 1] /\ i + 1 \in 1 .. Len(js)
  BY TailRange
<1> DEFINE ks == Tail(js)
<1> HIDE DEF ks
<1>2. /\ Len(ks) = Len(js) - 1 /\ Len(js) \in Nat \ {0}
      /\ \A i \in 1 .. Len(ks) : ks[i] = js[i + 1] /\ i + 1 \in 1 .. Len(js)
  BY <1>1 DEF ks
<1>3. ASSUME NEW i \in 1 .. Len(ks), ks[i].op = "clear"
      PROVE  ks[i].track \in sought /\ \E j \in 1 .. Len(ks) : j > i /\ Asks(ks[j], "seek", ks[i].track)
  <2>1. i + 1 \in 1 .. Len(js) /\ js[i + 1] = ks[i]
    BY <1>2
  <2>2. ks[i].track \in sought
    BY <1>3, <2>1 DEF SeeksGood
  <2>3. PICK j \in 1 .. Len(js) : j > i + 1 /\ Asks(js[j], "seek", ks[i].track)
    BY <1>3, <2>1 DEF SeeksGood
  <2>4. j - 1 \in 1 .. Len(ks) /\ (j - 1) + 1 = j /\ j - 1 > i
    BY <1>2, <2>3
  <2>5. ks[j - 1] = js[j]
    BY <1>2, <2>4
  <2> QED
    BY <2>2, <2>3, <2>4, <2>5
<1> QED
  BY <1>3 DEF SeeksGood, ks

\* Jobs are posted behind those that wait.
LEMMA SeeksMore ==
  ASSUME NEW js \in Seq(JobType), NEW sought, SeeksGood(js, sought), NEW more, sought \subseteq more,
         NEW ks \in Seq(JobType), SeeksGood(ks, more)
  PROVE  SeeksGood(js \o ks, more)
<1> DEFINE all == js \o ks
<1>1. /\ Len(js) \in Nat /\ Len(ks) \in Nat
      /\ \A i \in 1 .. Len(js) : i \in 1 .. Len(all) /\ all[i] = js[i]
      /\ \A k \in 1 .. Len(ks) : Len(js) + k \in 1 .. Len(all) /\ all[Len(js) + k] = ks[k]
      /\ \A i \in 1 .. Len(all) : i \in 1 .. Len(js) \/ \E k \in 1 .. Len(ks) : i = Len(js) + k
  BY Places
<1> HIDE DEF all
<1>2. ASSUME NEW i \in 1 .. Len(js), js[i].op = "clear"
      PROVE  js[i].track \in more /\ \E j \in 1 .. Len(all) : j > i /\ Asks(all[j], "seek", js[i].track)
  BY <1>1, <1>2 DEF SeeksGood
<1>3. ASSUME NEW k \in 1 .. Len(ks), ks[k].op = "clear"
      PROVE  ks[k].track \in more /\ \E j \in 1 .. Len(all) : j > Len(js) + k /\ Asks(all[j], "seek", ks[k].track)
  <2>1. PICK j \in 1 .. Len(ks) : j > k /\ Asks(ks[j], "seek", ks[k].track)
    BY <1>3 DEF SeeksGood
  <2>2. Len(js) + j > Len(js) + k
    BY <1>1, <2>1
  <2> QED
    BY <1>1, <1>3, <2>1, <2>2 DEF SeeksGood
<1>4. ASSUME NEW i \in 1 .. Len(all), all[i].op = "clear"
      PROVE  all[i].track \in more /\ \E j \in 1 .. Len(all) : j > i /\ Asks(all[j], "seek", all[i].track)
  <2>1. CASE i \in 1 .. Len(js)
    BY <1>1, <1>2, <1>4, <2>1
  <2>2. ASSUME NEW k \in 1 .. Len(ks), i = Len(js) + k
        PROVE  all[i].track \in more /\ \E j \in 1 .. Len(all) : j > i /\ Asks(all[j], "seek", all[i].track)
    BY <1>1, <1>3, <1>4, <2>2
  <2> QED
    BY <1>1, <2>1, <2>2
<1> QED
  BY <1>4 DEF SeeksGood, all

\* A job that has nothing to do with seeks runs, or is posted.
LEMMA JobsPass ==
  ASSUME NEW js \in Seq(JobType), NEW q, NEW chunks, NEW filled, NEW dec, NEW sought,
         SeeksGood(js, sought), AllKept(js, q, chunks, filled, dec, sought)
  PROVE  /\ js # <<>> /\ Head(js).op \notin {"clear", "seek"} =>
              SeeksGood(Tail(js), sought) /\ AllKept(Tail(js), q, chunks, filled, dec, sought)
         /\ \A e \in JobType : e.op \notin {"clear", "seek"} =>
              SeeksGood(Append(js, e), sought) /\ AllKept(Append(js, e), q, chunks, filled, dec, sought)
<1>1. ASSUME js # <<>>, Head(js).op \notin {"clear", "seek"}
      PROVE  SeeksGood(Tail(js), sought) /\ AllKept(Tail(js), q, chunks, filled, dec, sought)
  <2>1. SeeksGood(Tail(js), sought)
    BY <1>1, SeeksTail
  <2>2. \A t, w, d, f, n : Kept(js, t, w, d, f, n) => Kept(Tail(js), t, w, d, f, n)
    <3>1. \A t : ~Asks(Head(js), "seek", t) /\ ~Asks(Head(js), "clear", t)
      BY <1>1 DEF Asks
    <3> QED
      BY <1>1, <3>1, KeptTail
  <2> QED
    BY <2>1, <2>2 DEF AllKept, SoundKept
<1>2. ASSUME NEW e \in JobType, e.op \notin {"clear", "seek"}
      PROVE  SeeksGood(Append(js, e), sought) /\ AllKept(Append(js, e), q, chunks, filled, dec, sought)
  <2> DEFINE es == <<e>>
  <2>1. es \in Seq(JobType) /\ Len(es) = 1 /\ es[1] = e
    BY SingleSeq
  <2>2. Append(js, e) = js \o es
    BY AppendRange
  <2> HIDE DEF es
  <2>3. \A k \in 1 .. Len(es) : es[k] = e
    BY <2>1
  <2>4. SeeksGood(es, sought) /\ \A t : \A k \in 1 .. Len(es) : ~Asks(es[k], "seek", t) /\ ~Asks(es[k], "clear", t)
    BY <1>2, <2>3 DEF SeeksGood, Asks
  <2>5. SeeksGood(js \o es, sought)
    BY <2>1, <2>4, SeeksMore
  <2>6. \A t, w, d, f, n : Kept(js, t, w, d, f, n) => Kept(js \o es, t, w, d, f, n)
    BY <2>1, <2>4, KeptMore
  <2> QED
    BY <2>2, <2>5, <2>6 DEF AllKept, SoundKept
<1> QED
  BY <1>1, <1>2

-----------------------------------------------------------------------------
(* What is in the buffers.                                                  *)

\* The sizes of chunks are numbers.
LEMMA SizesTotal ==
  ASSUME NEW c \in Seq(1 .. ChunkSize)
  PROVE  c \in Seq(Nat) /\ c \in Seq(Int) /\ Total(c) \in Nat
<1>1. 1 .. ChunkSize \subseteq Nat
  BY OutputAssumption
<1>2. c \in Seq(Nat)
  BY <1>1, SeqMonotonic
<1> QED
  BY <1>2, TotalNat

\* n samples are taken out, when the sound is not finished,
LEMMA TakenTotal ==
  ASSUME NEW c \in Seq(1 .. ChunkSize), c # <<>>, NEW n \in Written(Head(c))
  PROVE  /\ n \in Nat /\ Total(c) \in Nat /\ Taken(c, n, FALSE) \in Seq(1 .. ChunkSize)
         /\ Total(Taken(c, n, FALSE)) \in Nat /\ Total(Taken(c, n, FALSE)) + n = Total(c)
<1>1. /\ Head(c) \in 1 .. ChunkSize /\ Head(c) = c[1] /\ Len(c) \in Nat \ {0} /\ Tail(c) \in Seq(1 .. ChunkSize)
  BY TailRange
<1>2. ChunkSize \in Nat /\ n \in 0 .. Head(c)
  BY OutputAssumption DEF Written
<1>3. c \in Seq(Int) /\ Total(c) \in Nat
  BY SizesTotal
<1>4. CASE n = Head(c)
  <2>1. Taken(c, n, FALSE) = Tail(c)
    BY <1>4 DEF Taken
  <2>2. Total(c) = Head(c) + Total(Tail(c)) /\ Total(Tail(c)) \in Int
    BY <1>3, TotalTail
  <2>3. Total(Tail(c)) \in Nat
    BY <1>1, SizesTotal
  <2>4. \A a, h, r \in Nat : a = h + r => r + h = a
    OBVIOUS
  <2>5. Head(c) \in Nat
    BY <1>1, <1>2
  <2>6. Total(Tail(c)) + n = Total(c)
    BY <1>3, <1>4, <2>2, <2>3, <2>4, <2>5
  <2> QED
    BY <1>1, <1>3, <1>4, <2>1, <2>3, <2>5, <2>6
<1>5. CASE n # Head(c)
  <2>1. c[1] - n \in 1 .. ChunkSize /\ n \in Nat
    BY <1>1, <1>2, <1>5
  <2> DEFINE less == [c EXCEPT ![1] = c[1] - n]
  <2>2. Taken(c, n, FALSE) = less
    BY <1>5 DEF Taken
  <2>3. less \in Seq(1 .. ChunkSize)
    <3>1. c \in [1 .. Len(c) -> 1 .. ChunkSize]
      BY LenProperties
    <3>2. less \in [1 .. Len(c) -> 1 .. ChunkSize]
      BY <2>1, <3>1
    <3> HIDE DEF less
    <3> QED
      BY <1>1, <3>2, FunctionSeq
  <2>4. 1 \in 1 .. Len(c) /\ c[1] - n \in Int
    BY <1>1, <2>1
  <2>5. Total(less) = Total(c) + ((c[1] - n) - c[1])
    BY <1>3, <2>4, TotalExcept
  <2> HIDE DEF less
  <2>6. Total(less) \in Nat
    BY <2>3, SizesTotal
  <2>7. c[1] \in Int /\ Total(c) \in Int
    BY <1>1, <1>2, <1>3
  <2>8. \A a, x, k, y \in Int : y = a + ((x - k) - x) => y + k = a
    OBVIOUS
  <2>9. Total(less) + n = Total(c)
    BY <2>1, <2>5, <2>6, <2>7, <2>8
  <2> QED
    BY <1>3, <2>1, <2>2, <2>3, <2>6, <2>9
<1> QED
  BY <1>4, <1>5

\* and passed on.
LEMMA PassedTotal ==
  ASSUME BuffersOK, NEW b \in Buffer, NEW n \in 0 .. ChunkSize
  PROVE  /\ PassOn(b, n) \in Seq(1 .. ChunkSize) /\ Total(data[b]) \in Nat
         /\ Total(PassOn(b, n)) = Total(data[b]) + n
<1> DEFINE c == data[b]
<1>1. c \in Seq(1 .. ChunkSize)
  BY DEF BuffersOK
<1>2. PassOn(b, n) = IF n = 0 THEN c ELSE Append(c, n)
  BY DEF PassOn
<1> HIDE DEF c
<1>3. c \in Seq(Int) /\ Total(c) \in Nat
  BY <1>1, SizesTotal
<1>4. CASE n = 0
  BY <1>1, <1>2, <1>3, <1>4 DEF c
<1>5. CASE n # 0
  <2>1. n \in 1 .. ChunkSize /\ n \in Int
    BY <1>5, OutputAssumption
  <2>2. Append(c, n) \in Seq(1 .. ChunkSize)
    BY <1>1, <2>1, AppendRange
  <2>3. Total(Append(c, n)) = Total(c) + n
    BY <1>3, <2>1, TotalAppend
  <2> QED
    BY <1>2, <1>3, <1>5, <2>2, <2>3 DEF c
<1> QED
  BY <1>4, <1>5

\* What the parts say of a sound in the queue.
LEMMA SoundNumbers ==
  ASSUME IInv, SamplesOK, NEW i \in 1 .. Len(queue)
  PROVE  /\ queue[i] \in Sound /\ queue[i].track \in Track /\ queue[i].track \in Opened
         /\ queue[i].buffer \in Buffer /\ queue[i].written \in Nat
         /\ queue[i].buffer = decoder[queue[i].track].buffer
         /\ data[queue[i].buffer] \in Seq(1 .. ChunkSize) /\ Total(data[queue[i].buffer]) \in Nat
         /\ filling[queue[i].buffer] \in Nat /\ decoder[queue[i].track].written \in Nat
         /\ SoundKept(jobs, queue[i], Total(data[queue[i].buffer]), filling[queue[i].buffer],
                      decoder[queue[i].track].written, Range(seeks))
<1>1. queue \in Seq(Sound)
  BY DEF IInv, QueueOK, QueueGood
<1>2. queue[i] \in Sound
  BY <1>1
<1>3. /\ queue[i].track \in Track /\ queue[i].buffer \in Buffer /\ queue[i].written \in Nat
  BY <1>2 DEF Sound
<1>4. /\ queue[i].track \in Opened /\ queue[i].buffer = decoder[queue[i].track].buffer
  BY DEF SamplesOK, SoundsOnce
<1>5. data[queue[i].buffer] \in Seq(1 .. ChunkSize) /\ filling[queue[i].buffer] \in Nat
  BY <1>3, OutputAssumption DEF IInv, BuffersOK
<1>6. Total(data[queue[i].buffer]) \in Nat
  BY <1>5, SizesTotal
<1>7. decoder[queue[i].track].written \in Nat
  BY <1>3 DEF IInv, DecoderOK, DecoderType
<1> QED
  BY <1>2, <1>3, <1>4, <1>5, <1>6, <1>7 DEF SamplesOK, AllKept

\* No two sounds have one buffer, and each was made.
LEMMA BuffersApart ==
  ASSUME IInv, SamplesOK
  PROVE  /\ \A i, j \in 1 .. Len(queue) : queue[i].buffer = queue[j].buffer => i = j
         /\ \A i \in 1 .. Len(queue) : queue[i].buffer <= pool.made /\ queue[i].buffer \in Nat
         /\ pool.made \in Nat
<1>1. ASSUME NEW i \in 1 .. Len(queue), NEW j \in 1 .. Len(queue), queue[i].buffer = queue[j].buffer
      PROVE  i = j
  <2>1. /\ queue[i].track \in Opened /\ queue[i].buffer = decoder[queue[i].track].buffer
        /\ queue[j].track \in Opened /\ queue[j].buffer = decoder[queue[j].track].buffer
    BY DEF SamplesOK, SoundsOnce
  <2>2. queue[i].track = queue[j].track
    BY <1>1, <2>1 DEF SamplesOK, BuffersOnce
  <2> QED
    BY <2>2 DEF SamplesOK, SoundsOnce
<1>2. ASSUME NEW i \in 1 .. Len(queue)
      PROVE  queue[i].buffer <= pool.made /\ queue[i].buffer \in Nat
  <2>1. /\ queue[i].track \in Track /\ queue[i].buffer \in Buffer /\ queue[i].buffer = decoder[queue[i].track].buffer
    BY SoundNumbers
  <2>2. decoder[queue[i].track].buffer <= pool.made
    BY <2>1 DEF SamplesOK, BuffersOnce
  <2> QED
    BY <2>1, <2>2 DEF Buffer
<1>3. pool.made \in Nat
  BY DEF IInv, PoolOK
<1> QED
  BY <1>1, <1>2, <1>3

\* The decoder gives a track what it takes from it, or passes on what it has.
LEMMA BufferStep ==
  ASSUME IInv, SamplesOK, NEW t \in Opened, NEW m \in Nat, NEW e \in Nat, NEW g \in Nat,
         \A u \in Track : /\ decoder'[u].buffer = decoder[u].buffer
                          /\ decoder'[u].written = IF u = t THEN m ELSE decoder[u].written,
         \A c \in Buffer : c # decoder[t].buffer => data'[c] = data[c] /\ filling'[c] = filling[c],
         Total(data'[decoder[t].buffer]) = e, filling'[decoder[t].buffer] = g,
         e + g + decoder[t].written = Total(data[decoder[t].buffer]) + filling[decoder[t].buffer] + m,
         g + decoder[t].written <= filling[decoder[t].buffer] + m,
         UNCHANGED <<queue, pool, prev, initApi, starved, seeks>>
  PROVE  BuffersOnce' /\ SoundsOnce' /\ AllKept(jobs, queue', data', filling', decoder', Range(seeks'))
<1>1. t \in Track /\ Opened' = Opened
  BY DEF Opened
<1>2. BuffersOnce'
  <2>1. \A c \in Buffer : c > pool.made => c # decoder[t].buffer
    <3>1. decoder[t].buffer <= pool.made /\ pool.made \in Nat /\ decoder[t].buffer \in Nat
      BY <1>1 DEF SamplesOK, BuffersOnce, IInv, PoolOK, DecoderOK, DecoderType, Buffer
    <3> QED
      BY <3>1 DEF Buffer
  <2>2. \A u \in Track : u \notin Opened => u # t
    OBVIOUS
  <2>3. /\ pool.free = <<>>
        /\ \A u \in Track : /\ decoder[u].buffer <= pool.made /\ pool.used[u] \in {0, decoder[u].buffer}
                            /\ u \notin Opened => decoder[u].written = 0
        /\ \A u, v \in Opened : decoder[u].buffer = decoder[v].buffer => u = v
        /\ \A c \in Buffer : c > pool.made => data[c] = <<>> /\ filling[c] = 0
    BY DEF SamplesOK, BuffersOnce
  <2>4. \A u, v \in Opened : decoder'[u].buffer = decoder'[v].buffer => u = v
    BY <2>3 DEF Opened
  <2> QED
    BY <1>1, <2>1, <2>2, <2>3, <2>4 DEF BuffersOnce
<1>3. SoundsOnce'
  <2>1. \A i \in 1 .. Len(queue) : queue[i].track \in Track
    BY SoundNumbers
  <2> QED
    BY <1>1, <2>1 DEF SamplesOK, SoundsOnce
<1>4. ASSUME NEW i \in 1 .. Len(queue)
      PROVE  SoundKept(jobs, queue[i], Total(data'[queue[i].buffer]), filling'[queue[i].buffer],
                       decoder'[queue[i].track].written, Range(seeks))
  <2>1. /\ queue[i].track \in Track /\ queue[i].track \in Opened /\ queue[i].buffer \in Buffer /\ queue[i].written \in Nat
        /\ queue[i].buffer = decoder[queue[i].track].buffer
        /\ Total(data[queue[i].buffer]) \in Nat
        /\ filling[queue[i].buffer] \in Nat /\ decoder[queue[i].track].written \in Nat
        /\ SoundKept(jobs, queue[i], Total(data[queue[i].buffer]), filling[queue[i].buffer],
                     decoder[queue[i].track].written, Range(seeks))
    BY SoundNumbers
  <2>2. CASE queue[i].track # t
    <3>1. queue[i].buffer # decoder[t].buffer
      BY <2>1, <2>2 DEF SamplesOK, BuffersOnce
    <3> QED
      BY <2>1, <2>2, <3>1
  <2>3. CASE queue[i].track = t
    <3> DEFINE b == decoder[t].buffer
               w == queue[i].written
               d == Total(data[b])
               f == filling[b]
               n == decoder[t].written
    <3>1. /\ w \in Nat /\ d \in Nat /\ f \in Nat /\ n \in Nat /\ queue[i].buffer = b
          /\ Kept(jobs, t, w, d, f, n) /\ (t \notin Range(seeks) => w + d + f = n)
          /\ e + g + n = d + f + m /\ g + n <= f + m
      BY <2>1, <2>3 DEF SoundKept
    <3>2. decoder'[t].written = m /\ Total(data'[b]) = e /\ filling'[b] = g
      BY <1>1
    <3> HIDE DEF b, w, d, f, n
    <3>3. jobs \in Seq(JobType) /\ SeeksGood(jobs, Range(seeks))
      BY DEF IInv, JobsOK, JobsGood, SamplesOK
    <3>4. w + e + g + n <= w + d + f + m /\ e + g + n <= d + f + m
      BY <3>1
    <3>5. Kept(jobs, t, w, e, g, m)
      BY <3>1, <3>3, <3>4, KeptNumbers
    <3>6. t \notin Range(seeks) => w + e + g = m
      <4>1. \A a, h, k, x, y, z, r \in Nat : a + h + k = x /\ y + z + x = h + k + r => a + y + z = r
        OBVIOUS
      <4> QED
        BY ONLY <3>1, <4>1, e \in Nat, g \in Nat, m \in Nat
    <3> QED
      BY <2>3, <3>1, <3>2, <3>5, <3>6 DEF SoundKept, w
  <2> QED
    BY <2>2, <2>3
<1>5. AllKept(jobs, queue', data', filling', decoder', Range(seeks'))
  BY <1>4 DEF AllKept
<1> QED
  BY <1>2, <1>3, <1>5

-----------------------------------------------------------------------------
(* play() takes samples out of a buffer, and gives a buffer back.           *)

\* A buffer that is given back is dropped.
LEMMA PutBackOnce ==
  ASSUME MaxCacheCount = 0, PoolOK, pool.free = <<>>, NEW t \in Track
  PROVE  /\ put_cache_back(pool, t).free = <<>> /\ put_cache_back(pool, t).made = pool.made
         /\ \A u \in Track : put_cache_back(pool, t).used[u] \in {0, pool.used[u]}
<1>1. /\ pool.used \in [Track -> 0 .. pool.made] /\ Len(pool.free) = 0
      /\ pool = [used |-> pool.used, free |-> pool.free, made |-> pool.made]
  BY EmptySeq DEF PoolOK, PoolType
<1>2. CASE ~is_in_cache(pool, t)
  BY <1>2 DEF put_cache_back
<1>3. CASE is_in_cache(pool, t)
  <2>1. ~(Len(pool.free) < MaxCacheCount)
    BY <1>1
  <2>2. put_cache_back(pool, t) = [used |-> [pool.used EXCEPT ![t] = 0], free |-> pool.free, made |-> pool.made]
    BY <1>1, <1>3, <2>1 DEF put_cache_back
  <2>3. /\ put_cache_back(pool, t).used = [pool.used EXCEPT ![t] = 0]
        /\ put_cache_back(pool, t).free = pool.free /\ put_cache_back(pool, t).made = pool.made
    BY <2>2
  <2> QED
    BY <1>1, <2>3
<1> QED
  BY <1>2, <1>3

\* Buffers stay apart when one that was made, c, changes and others are emptied.
LEMMA OnceStill ==
  ASSUME IInv, BuffersOnce, UNCHANGED <<decoder, filling>>, pool'.free = <<>>, pool'.made = pool.made,
         \A t \in Track : pool'.used[t] \in {0, pool.used[t]},
         NEW c \in Nat, c <= pool.made, \A b \in Buffer : b = c \/ data'[b] \in {data[b], <<>>}
  PROVE  BuffersOnce'
<1>1. Opened' = Opened
  BY DEF Opened
<1>2. \A b \in Buffer : b > pool'.made => data'[b] = <<>> /\ filling'[b] = 0
  <2>1. pool.made \in Nat
    BY DEF IInv, PoolOK
  <2>2. \A b \in Buffer : b > pool.made => b # c
    BY <2>1 DEF Buffer
  <2> QED
    BY <2>2 DEF BuffersOnce
<1> QED
  BY <1>1, <1>2 DEF BuffersOnce

\* The first sound leaves, and the buffers of the others keep what they have.
LEMMA SoundGone ==
  ASSUME IInv, SamplesOK, queue # <<>>, queue' = Tail(queue), UNCHANGED <<filling, decoder, seeks>>,
         \A i \in 1 .. Len(queue) : i > 1 => data'[queue[i].buffer] = data[queue[i].buffer]
  PROVE  /\ AllKept(jobs, queue', data', filling', decoder', Range(seeks'))
         /\ \A i \in 1 .. Len(queue') : queue'[i].track \in Opened' /\ queue'[i].buffer = decoder'[queue'[i].track].buffer
         /\ \A i, j \in 1 .. Len(queue') : queue'[i].track = queue'[j].track => i = j
<1>1. /\ Len(Tail(queue)) = Len(queue) - 1 /\ Len(queue) \in Nat \ {0}
      /\ \A i \in 1 .. Len(Tail(queue)) : Tail(queue)[i] = queue[i + 1] /\ i + 1 \in 1 .. Len(queue)
  BY TailRange DEF IInv, QueueOK, QueueGood
<1>2. Opened' = Opened
  BY DEF Opened
<1>3. \A i \in 1 .. Len(queue') : queue'[i] = queue[i + 1] /\ i + 1 \in 1 .. Len(queue) /\ i + 1 > 1
  BY <1>1
<1>4. AllKept(jobs, queue', data', filling', decoder', Range(seeks'))
  BY <1>3 DEF SamplesOK, AllKept
<1>5. \A i \in 1 .. Len(queue') : queue'[i].track \in Opened' /\ queue'[i].buffer = decoder'[queue'[i].track].buffer
  BY <1>2, <1>3 DEF SamplesOK, SoundsOnce
<1>6. ASSUME NEW i \in 1 .. Len(queue'), NEW j \in 1 .. Len(queue'), queue'[i].track = queue'[j].track
      PROVE  i = j
  <2>1. i + 1 = j + 1
    BY <1>3, <1>6 DEF SamplesOK, SoundsOnce
  <2>2. i \in Int /\ j \in Int
    BY <1>1
  <2> QED
    BY <2>1, <2>2
<1> QED
  BY <1>4, <1>5, <1>6

\* play() keeps what every sound has, whatever way it takes.
LEMMA PlaySamples ==
  ASSUME IInv, SamplesOK, MaxCacheCount = 0, NEW c, NEW p, NEW tm, play(c, p, tm), UNCHANGED <<filling, others>>
  PROVE  BuffersOnce' /\ SoundsOnce' /\ AllKept(jobs, queue', data', filling', decoder', Range(seeks'))
<1>1. UNCHANGED <<filling, decoder, seeks>> /\ Opened' = Opened
  BY DEF others, Opened
<1>2. BuffersOnce /\ SoundsOnce /\ AllKept(jobs, queue, data, filling, decoder, Range(seeks))
  BY DEF SamplesOK
<1>3. CASE ~MayPlay(tm)
  <2>1. UNCHANGED <<queue, prev, initApi, starved, pool, data>>
    BY <1>3 DEF play
  <2> QED
    BY <1>1, <1>2, <2>1 DEF BuffersOnce, SoundsOnce, AllKept
<1>4. CASE MayPlay(tm)
  <2>1. queue # <<>>
    BY <1>4 DEF MayPlay
  <2>2. PICK r \in IF initApi THEN {CardResult(TRUE, c, cardFormat)} ELSE init_alsa(Head(queue).track, c) :
           /\ prev' = IF initApi THEN prev ELSE {Head(queue).track}
           /\ \/ ~r.ok /\ PlayRefused(r.card, tm)
              \/ r.ok /\ (PlayStarves(r.card, tm) \/ PlayFails(r.card, tm))
              \/ /\ r.ok /\ data[Head(queue).buffer] # <<>> /\ xrun_recovery(r.card)
                 /\ \E n \in Written(Head(data[Head(queue).buffer])), t \in prev' : PlayWrites(n, t, r.card, tm)
    BY <1>4 DEF play
  <2>3. /\ queue \in Seq(Sound) /\ Len(queue) \in Nat \ {0} /\ Head(queue) = queue[1] /\ queue[1] \in Sound
        /\ Head(queue).track \in Track /\ Head(queue).buffer \in Buffer
    BY <2>1, FirstSound DEF IInv
  <2>4. 1 \in 1 .. Len(queue) /\ queue[1].track \in Opened
    BY <2>3, SoundNumbers
  <2> DEFINE b == Head(queue).buffer
  <2>5. /\ b \in Buffer /\ b \in Nat /\ b <= pool.made
        /\ \A i \in 1 .. Len(queue) : i > 1 => queue[i].buffer # b
    BY <2>3, <2>4, BuffersApart
  <2>6. /\ prev' \subseteq Opened
        /\ \A i \in 1 .. Len(queue) : i > 1 => queue[i].track \notin prev'
    <3>1. \A i \in 1 .. Len(queue) : i > 1 => queue[i].track # queue[1].track
      BY <1>2, <2>4 DEF SoundsOnce
    <3>2. initApi => prev' = prev /\ (starved \/ prev = {queue[1].track})
      BY <2>2, <2>3 DEF IInv, CardOK
    <3>3. ~initApi => prev' = {queue[1].track}
      BY <2>2, <2>3
    <3> QED
      BY <1>2, <2>4, <3>1, <3>2, <3>3 DEF SoundsOnce
  <2>7. /\ pool.free = <<>> /\ \A t \in Track : pool.used[t] \in {0, pool.used[t]}
    BY <1>2 DEF BuffersOnce
  <2>8. ASSUME queue' = Tail(queue), \A i \in 1 .. Len(queue) : i > 1 => data'[queue[i].buffer] = data[queue[i].buffer]
        PROVE  SoundsOnce' /\ AllKept(jobs, queue', data', filling', decoder', Range(seeks'))
    <3>1. /\ AllKept(jobs, queue', data', filling', decoder', Range(seeks'))
          /\ \A i \in 1 .. Len(queue') : queue'[i].track \in Opened' /\ queue'[i].buffer = decoder'[queue'[i].track].buffer
          /\ \A i, j \in 1 .. Len(queue') : queue'[i].track = queue'[j].track => i = j
      BY <1>1, <2>1, <2>8, SoundGone
    <3>2. \A i \in 1 .. Len(queue') : queue'[i] = queue[i + 1] /\ i + 1 \in 1 .. Len(queue) /\ i + 1 > 1
      <4>1. /\ Len(Tail(queue)) = Len(queue) - 1
            /\ \A i \in 1 .. Len(Tail(queue)) : Tail(queue)[i] = queue[i + 1] /\ i + 1 \in 1 .. Len(queue)
        BY <2>1, <2>3, TailRange
      <4> QED
        BY <2>3, <2>8, <4>1
    <3>3. \A i \in 1 .. Len(queue') : queue'[i].track \notin prev'
      BY <2>6, <3>2
    <3> QED
      BY <1>1, <2>6, <3>1, <3>3 DEF SoundsOnce
  <2>9. data \in [Buffer -> Seq(1 .. ChunkSize)] /\ \A i \in 1 .. Len(queue) : queue[i].buffer \in Buffer
    BY SoundNumbers DEF IInv, BuffersOK
  <2> HIDE DEF b
  <2>10. CASE PlayRefused(r.card, tm)
    <3>1. /\ data' = [data EXCEPT ![b] = <<>>] /\ queue' = Tail(queue) /\ pool' = pool
      BY <2>10 DEF PlayRefused, b
    <3>2. \A d \in Buffer : data'[d] = IF d = b THEN <<>> ELSE data[d]
      BY <2>9, <3>1
    <3>3. BuffersOnce'
      BY <1>1, <1>2, <2>5, <2>7, <3>1, <3>2, OnceStill
    <3>4. \A i \in 1 .. Len(queue) : i > 1 => data'[queue[i].buffer] = data[queue[i].buffer]
      BY <2>5, <2>9, <3>2
    <3> QED
      BY <2>8, <3>1, <3>3, <3>4
  <2>11. CASE PlayStarves(r.card, tm)
    <3>1. UNCHANGED <<data, pool>> /\ queue' = Tail(queue)
      BY <2>11 DEF PlayStarves
    <3>2. BuffersOnce'
      BY <1>1, <1>2, <3>1 DEF BuffersOnce
    <3> QED
      BY <2>8, <3>1, <3>2
  <2>12. ASSUME starved' = (starved /\ initApi), DOMAIN queue' = 1 .. Len(queue), Len(queue') = Len(queue),
                \A i \in 1 .. Len(queue) : queue'[i].track = queue[i].track /\ queue'[i].buffer = queue[i].buffer
         PROVE  SoundsOnce'
    <3>1. initApi' /\ starved' => \A i \in 1 .. Len(queue) : queue[i].track \notin prev'
      BY <1>2, <2>2, <2>12 DEF SoundsOnce
    <3> QED
      BY <1>1, <1>2, <2>6, <2>12, <3>1 DEF SoundsOnce
  <2>13. CASE PlayFails(r.card, tm)
    <3>1. UNCHANGED <<data, pool, queue>> /\ starved' = (starved /\ initApi)
      BY <2>13 DEF PlayFails
    <3>2. BuffersOnce' /\ AllKept(jobs, queue', data', filling', decoder', Range(seeks'))
      BY <1>1, <1>2, <3>1 DEF BuffersOnce, AllKept
    <3>3. SoundsOnce'
      BY <2>3, <2>12, <3>1, LenProperties
    <3> QED
      BY <3>2, <3>3
  <2>14. ASSUME data[b] # <<>>, NEW n \in Written(Head(data[b])), NEW t \in prev', PlayWrites(n, t, r.card, tm)
         PROVE  BuffersOnce' /\ SoundsOnce' /\ AllKept(jobs, queue', data', filling', decoder', Range(seeks'))
    <3> DEFINE written == Head(queue).written + n
               isFinished == written = Head(queue).total
               taken == [data EXCEPT ![b] = Taken(@, n, isFinished)]
    <3>1. /\ starved' = (starved /\ initApi)
          /\ IF isFinished THEN SoundFinished(t, r.card, tm, taken)
               ELSE /\ queue' = [queue EXCEPT ![1].written = written] /\ data' = taken
                    /\ UNCHANGED pool
      BY <2>14 DEF PlayWrites, b
    <3>2. \A d \in Buffer : taken[d] = IF d = b THEN Taken(data[b], n, isFinished) ELSE data[d]
      BY <2>5, <2>9
    <3>3. t \in Opened /\ t \in Track
      BY <2>6 DEF Opened
    <3>4. CASE isFinished
      <4>1. /\ queue' = Tail(queue) /\ pool' = put_cache_back(pool, t)
            /\ data' = IF is_in_cache(pool, t) THEN [taken EXCEPT ![pool.used[t]] = <<>>] ELSE taken
        BY <3>1, <3>4 DEF SoundFinished
      <4>2. \A d \in Buffer : taken[d] = IF d = b THEN taken[b] ELSE data[d]
        BY <3>2
      <4>3. DOMAIN taken = Buffer
        BY <2>9
      <4> HIDE DEF taken
      <4>4. \A d \in Buffer : data'[d] = IF is_in_cache(pool, t) /\ d = pool.used[t] THEN <<>> ELSE taken[d]
        BY <4>1, <4>3
      <4>5. /\ pool'.free = <<>> /\ pool'.made = pool.made
            /\ \A u \in Track : pool'.used[u] \in {0, pool.used[u]}
        BY <2>7, <3>3, <4>1, PutBackOnce DEF IInv
      <4>6. \A d \in Buffer : d = b \/ data'[d] \in {data[d], <<>>}
        BY <4>2, <4>4
      <4>7. BuffersOnce'
        BY <1>1, <1>2, <2>5, <4>5, <4>6, OnceStill
      <4>8. \A i \in 1 .. Len(queue) : i > 1 => data'[queue[i].buffer] = data[queue[i].buffer]
        <5> SUFFICES ASSUME NEW i \in 1 .. Len(queue), i > 1 PROVE data'[queue[i].buffer] = data[queue[i].buffer]
          OBVIOUS
        <5>1. queue[i].buffer \in Buffer /\ queue[i].buffer # b /\ queue[i].track \notin prev'
          BY <2>5, <2>6, <2>9
        <5>2. ~(is_in_cache(pool, t) /\ queue[i].buffer = pool.used[t])
          <6>1. is_in_cache(pool, t) => pool.used[t] = decoder[t].buffer
            BY <1>2, <3>3 DEF BuffersOnce, is_in_cache
          <6>2. queue[i].track \in Opened /\ queue[i].buffer = decoder[queue[i].track].buffer
            BY SoundNumbers
          <6>3. queue[i].buffer = decoder[t].buffer => queue[i].track = t
            BY <1>2, <3>3, <6>2 DEF BuffersOnce
          <6> QED
            BY <5>1, <6>1, <6>3
        <5> QED
          BY <4>2, <4>4, <5>1, <5>2
      <4> QED
        BY <2>8, <4>1, <4>7, <4>8
    <3>5. CASE ~isFinished
      <4>1. /\ queue' = [queue EXCEPT ![1].written = written] /\ data' = taken /\ UNCHANGED pool
        BY <3>1, <3>5
      <4>2. /\ n \in Nat /\ Total(data[b]) \in Nat /\ Total(Taken(data[b], n, FALSE)) \in Nat
            /\ Total(Taken(data[b], n, FALSE)) + n = Total(data[b])
        <5>1. data[b] \in Seq(1 .. ChunkSize)
          BY <2>5, <2>9
        <5> QED
          BY <2>14, <5>1, TakenTotal
      <4>3. Taken(data[b], n, isFinished) = Taken(data[b], n, FALSE)
        BY <3>5
      <4>4. \A d \in Buffer : data'[d] = IF d = b THEN Taken(data[b], n, FALSE) ELSE data[d]
        BY <3>2, <4>1, <4>3
      <4>5. BuffersOnce'
        BY <1>1, <1>2, <2>5, <2>7, <4>1, <4>4, OnceStill
      <4> DEFINE first == [queue[1] EXCEPT !.written = written]
      <4>6. queue' = [queue EXCEPT ![1] = first] /\ DOMAIN queue = 1 .. Len(queue)
        BY <2>3, <4>1, LenProperties
      <4>7. first.track = queue[1].track /\ first.buffer = queue[1].buffer /\ first.written = written
        BY <2>3 DEF Sound
      <4> HIDE DEF first
      <4>8. /\ \A i \in 1 .. Len(queue) : queue'[i] = IF i = 1 THEN first ELSE queue[i]
            /\ DOMAIN queue' = 1 .. Len(queue)
        BY <4>6
      <4>9. Len(queue') = Len(queue)
        BY <2>3, <4>8
      <4>10. SoundsOnce'
        <5>1. \A i \in 1 .. Len(queue) : queue'[i].track = queue[i].track /\ queue'[i].buffer = queue[i].buffer
          BY <4>7, <4>8
        <5> QED
          BY <2>12, <3>1, <4>8, <4>9, <5>1
      <4>11. ASSUME NEW i \in 1 .. Len(queue)
             PROVE  SoundKept(jobs, queue'[i], Total(data'[queue'[i].buffer]), filling'[queue'[i].buffer],
                              decoder'[queue'[i].track].written, Range(seeks'))
        <5>1. CASE i # 1
          <6>1. queue'[i] = queue[i] /\ queue[i].buffer # b /\ queue[i].buffer \in Buffer
            BY <2>5, <2>9, <4>8, <5>1
          <6>2. data'[queue[i].buffer] = data[queue[i].buffer]
            BY <4>4, <6>1
          <6> QED
            BY <1>1, <6>1, <6>2, SoundNumbers
        <5>2. CASE i = 1
          <6> DEFINE s == queue[1].track
                     w == queue[1].written
                     d == Total(data[b])
                     e == Total(Taken(data[b], n, FALSE))
                     f == filling[b]
                     m == decoder[s].written
          <6>1. /\ w \in Nat /\ f \in Nat /\ m \in Nat /\ Kept(jobs, s, w, d, f, m)
                /\ s \notin Range(seeks) => w + d + f = m
            BY <2>3, <2>4, SoundNumbers DEF SoundKept, b
          <6>2. d \in Nat /\ e \in Nat /\ e + n = d /\ n \in Nat
            BY <4>2
          <6>3. data'[b] = Taken(data[b], n, FALSE)
            BY <2>5, <4>4
          <6>4. queue'[i] = first /\ first.buffer = b /\ first.track = s /\ first.written = w + n
            BY <2>3, <4>7, <4>8, <5>2 DEF b
          <6> HIDE DEF s, w, d, e, f, m
          <6>5. jobs \in Seq(JobType) /\ SeeksGood(jobs, Range(seeks))
            BY DEF IInv, JobsOK, JobsGood, SamplesOK
          <6>6. w + n \in Nat /\ w + n + e + f + m <= w + d + f + m /\ e + f + m <= d + f + m /\ f + m <= f + m
            BY <6>1, <6>2
          <6>7. Kept(jobs, s, w + n, e, f, m)
            BY <6>1, <6>2, <6>5, <6>6, KeptNumbers
          <6>8. s \notin Range(seeks) => w + n + e + f = m
            BY <6>1, <6>2
          <6>9. Total(data'[b]) = e /\ filling'[b] = f /\ decoder'[s].written = m
            BY <1>1, <6>3 DEF e, f, m
          <6> QED
            BY <1>1, <6>4, <6>7, <6>8, <6>9 DEF SoundKept
        <5> QED
          BY <5>1, <5>2
      <4>12. AllKept(jobs, queue', data', filling', decoder', Range(seeks'))
        BY <4>9, <4>11 DEF AllKept
      <4> QED
        BY <4>5, <4>10, <4>12
    <3> QED
      BY <3>4, <3>5
  <2> QED
    BY <2>2, <2>10, <2>11, <2>13, <2>14 DEF b
<1> QED
  BY <1>3, <1>4

-----------------------------------------------------------------------------
(* The jobs of the output.                                                  *)

\* A step that leaves the sounds and the buffers alone keeps what the jobs keep.
LEMMA SamplesFrame ==
  ASSUME SamplesOK, UNCHANGED <<queue, pool, data, filling, decoder, seeks>>,
         prev' \subseteq Opened, initApi' /\ starved' => \A i \in 1 .. Len(queue) : queue[i].track \notin prev',
         SeeksGood(jobs', Range(seeks)), AllKept(jobs', queue, data, filling, decoder, Range(seeks))
  PROVE  SamplesOK'
<1>1. Opened' = Opened
  BY DEF Opened
<1>2. BuffersOnce'
  BY <1>1 DEF SamplesOK, BuffersOnce
<1>3. SoundsOnce'
  BY <1>1 DEF SamplesOK, SoundsOnce
<1> QED
  BY <1>2, <1>3 DEF SamplesOK

\* What the invariants say of the jobs.
LEMMA JobsKeep ==
  ASSUME IInv, SamplesOK
  PROVE  /\ jobs \in Seq(JobType) /\ SeeksGood(jobs, Range(seeks))
         /\ AllKept(jobs, queue, data, filling, decoder, Range(seeks))
         /\ \A op : Takes(op) => /\ jobs # <<>> /\ Head(jobs).op = op /\ Rest = Tail(jobs)
                                 /\ Head(jobs) = jobs[1] /\ 1 \in 1 .. Len(jobs) /\ Head(jobs) \in JobType
                                 /\ Rest \in Seq(JobType)
<1>1. jobs \in Seq(JobType)
  BY DEF IInv, JobsOK, JobsGood
<1>2. SUFFICES ASSUME NEW op, Takes(op)
               PROVE  /\ jobs # <<>> /\ Head(jobs).op = op /\ Rest = Tail(jobs)
                      /\ Head(jobs) = jobs[1] /\ 1 \in 1 .. Len(jobs) /\ Head(jobs) \in JobType
                      /\ Rest \in Seq(JobType)
  BY <1>1 DEF SamplesOK
<1>3. jobs # <<>> /\ Head(jobs).op = op /\ Rest = Tail(jobs)
  BY <1>2 DEF Takes, Rest
<1>4. Head(jobs) = jobs[1] /\ Head(jobs) \in JobType /\ Len(jobs) \in Nat \ {0} /\ Tail(jobs) \in Seq(JobType)
  BY <1>1, <1>3, TailRange
<1> QED
  BY <1>3, <1>4

\* A job that has nothing to do with seeks leaves the rest good.
LEMMA JobsRest ==
  ASSUME IInv, SamplesOK, NEW op, Takes(op), op \notin {"clear", "seek"}
  PROVE  SeeksGood(Rest, Range(seeks)) /\ AllKept(Rest, queue, data, filling, decoder, Range(seeks))
<1>1. /\ jobs \in Seq(JobType) /\ SeeksGood(jobs, Range(seeks))
      /\ AllKept(jobs, queue, data, filling, decoder, Range(seeks))
      /\ jobs # <<>> /\ Head(jobs).op = op /\ Rest = Tail(jobs)
  BY JobsKeep
<1> QED
  BY <1>1, JobsPass

\* A sound is added with a new buffer, which is empty.
LEMMA AddSamples == IInv /\ SamplesOK /\ add_sound_details_internal => SamplesOK'
<1> SUFFICES ASSUME IInv, SamplesOK, add_sound_details_internal PROVE SamplesOK'
  OBVIOUS
<1> DEFINE t == Head(jobs).track
           sound == [track |-> t, total |-> Announced[t], written |-> 0, buffer |-> pool'.used[t]]
<1>1. /\ Takes("add") /\ jobs' = Rest
      /\ pool' = get_from_cache(pool, t) /\ queue' = Append(queue, sound)
      /\ decoder' = [decoder EXCEPT ![t].buffer = pool'.used[t]]
      /\ UNCHANGED <<prev, initApi, starved, data, filling, seeks>>
  BY DEF add_sound_details_internal, device, buffers
<1>2. /\ BuffersOnce /\ SoundsOnce /\ jobs \in Seq(JobType) /\ SeeksGood(jobs, Range(seeks))
      /\ jobs # <<>> /\ Rest = Tail(jobs) /\ Head(jobs) = jobs[1] /\ 1 \in 1 .. Len(jobs) /\ Head(jobs).op = "add"
      /\ Head(jobs) \in JobType /\ Rest \in Seq(JobType)
  BY <1>1, JobsKeep DEF SamplesOK
<1>3. t \in Track /\ t \notin Opened /\ t \notin Range(seeks)
  <2>1. t \in added /\ t \notin Opened
    BY <1>2 DEF IInv, JobsOK, JobsGood
  <2> QED
    BY <2>1 DEF IInv, ValuesOK, DecoderOK
<1>4. SeeksGood(Rest, Range(seeks)) /\ AllKept(Rest, queue, data, filling, decoder, Range(seeks))
  BY <1>1, JobsRest
<1> HIDE DEF t
<1>5. pool'.used[t] \in Buffer /\ Opened' = Opened \cup {t}
  BY <1>1, <1>3, PoolGets DEF IInv
<1>6. /\ decoder \in [Track -> DecoderType] /\ decoder[t].buffer = 0 /\ decoder[t].written = 0 /\ pool.used[t] = 0
      /\ pool.made \in Nat /\ pool.used \in [Track -> 0 .. pool.made]
  <2>1. decoder \in [Track -> DecoderType] /\ pool.used \in [Track -> 0 .. pool.made] /\ pool.made \in Nat
    BY DEF IInv, DecoderOK, PoolOK, PoolType
  <2>2. decoder[t].buffer = 0
    BY <1>3 DEF Opened
  <2> QED
    BY <1>2, <1>3, <2>1, <2>2 DEF BuffersOnce
<1>7. /\ pool'.used = [pool.used EXCEPT ![t] = pool.made + 1] /\ pool'.free = <<>> /\ pool'.made = pool.made + 1
  <2>1. pool.free = <<>> /\ ~is_in_cache(pool, t)
    BY <1>2, <1>6 DEF BuffersOnce, is_in_cache
  <2>2. pool' = [used |-> [pool.used EXCEPT ![t] = pool.made + 1], free |-> <<>>, made |-> pool.made + 1]
    BY <1>1, <2>1 DEF get_from_cache, get_cache_helper
  <2> QED
    BY <2>2
<1> DEFINE b == pool.made + 1
<1>8. /\ \A u \in Track : pool'.used[u] = IF u = t THEN b ELSE pool.used[u]
      /\ pool'.used[t] = b /\ b \in Buffer
  BY <1>3, <1>5, <1>6, <1>7
<1> HIDE DEF b
<1>9. \A u \in Track : /\ decoder'[u].buffer = IF u = t THEN b ELSE decoder[u].buffer
                       /\ decoder'[u].written = decoder[u].written
  <2> DEFINE d == [decoder[t] EXCEPT !.buffer = b]
  <2>1. decoder' = [decoder EXCEPT ![t] = d]
    BY <1>1, <1>3, <1>6, <1>8
  <2>2. d.buffer = b /\ d.written = decoder[t].written
    BY <1>3, <1>6 DEF DecoderType
  <2> HIDE DEF d
  <2>3. \A u \in Track : decoder'[u] = IF u = t THEN d ELSE decoder[u]
    BY <1>6, <2>1
  <2> QED
    BY <2>2, <2>3
<1>10. /\ b > pool.made /\ b \in Nat /\ data[b] = <<>> /\ filling[b] = 0
       /\ \A u \in Track : decoder[u].buffer <= pool.made /\ decoder[u].buffer \in Nat
  <2>1. \A u \in Track : decoder[u].buffer <= pool.made /\ decoder[u].buffer \in Nat
    BY <1>2, <1>6 DEF BuffersOnce, DecoderType, Buffer
  <2>2. b > pool.made /\ b \in Nat
    BY <1>6 DEF b
  <2> QED
    BY <1>2, <1>8, <2>1, <2>2 DEF BuffersOnce
<1>11. BuffersOnce'
  <2>1. \A u \in Track : /\ decoder'[u].buffer <= pool'.made /\ pool'.used[u] \in {0, decoder'[u].buffer}
                         /\ u \notin Opened' => decoder'[u].written = 0
    BY <1>2, <1>5, <1>6, <1>7, <1>8, <1>9, <1>10 DEF BuffersOnce, b
  <2>2. \A u, v \in Opened' : decoder'[u].buffer = decoder'[v].buffer => u = v
    <3>1. \A u \in Opened' : u = t \/ (u \in Opened /\ u \in Track)
      BY <1>5 DEF Opened
    <3>2. \A u \in Opened : decoder[u].buffer # b
      BY <1>6, <1>10 DEF Opened
    <3> QED
      BY <1>2, <1>3, <1>9, <3>1, <3>2 DEF BuffersOnce
  <2>3. \A c \in Buffer : c > pool'.made => data'[c] = <<>> /\ filling'[c] = 0
    <3>1. \A c \in Buffer : c > pool'.made => c > pool.made
      BY <1>6, <1>7 DEF Buffer
    <3> QED
      BY <1>1, <1>2, <3>1 DEF BuffersOnce
  <2> QED
    BY <1>7, <2>1, <2>2, <2>3 DEF BuffersOnce
<1>12. /\ Len(queue') = Len(queue) + 1 /\ Len(queue) \in Nat /\ sound.track = t /\ sound.buffer = b /\ sound.written = 0
       /\ \A i \in 1 .. Len(queue) : queue'[i] = queue[i]
       /\ queue'[Len(queue) + 1] = sound
  <2>1. queue \in Seq(Sound) /\ sound \in Sound
    BY <1>3, <1>5, OutputAssumption DEF IInv, QueueOK, QueueGood, Sound
  <2>2. sound.track = t /\ sound.buffer = b /\ sound.written = 0
    BY <1>8
  <2> HIDE DEF sound
  <2> QED
    BY <1>1, <2>1, <2>2, AppendRange, LenProperties
<1> HIDE DEF sound
<1>13. /\ \A i \in 1 .. Len(queue') : i \in 1 .. Len(queue) \/ (i = Len(queue) + 1 /\ queue'[i] = sound)
       /\ \A i \in 1 .. Len(queue) : queue'[i] = queue[i] /\ queue[i].track \in Opened /\ queue[i].track \in Track
                                     /\ queue[i].track # t
  BY <1>3, <1>12, SoundNumbers
<1>14. SoundsOnce'
  <2>1. \A i \in 1 .. Len(queue') : queue'[i].track \in Opened' /\ queue'[i].buffer = decoder'[queue'[i].track].buffer
    BY <1>2, <1>3, <1>5, <1>9, <1>12, <1>13 DEF SoundsOnce
  <2>2. \A i, j \in 1 .. Len(queue') : queue'[i].track = queue'[j].track => i = j
    BY <1>2, <1>12, <1>13 DEF SoundsOnce
  <2>3. prev \subseteq Opened
    BY <1>2 DEF SoundsOnce
  <2>4. initApi' /\ starved' => \A i \in 1 .. Len(queue') : queue'[i].track \notin prev'
    <3>1. initApi /\ starved => \A i \in 1 .. Len(queue) : queue[i].track \notin prev
      BY <1>2 DEF SoundsOnce
    <3> QED
      BY <1>1, <1>3, <1>12, <1>13, <2>3, <3>1
  <2> QED
    BY <1>1, <1>5, <2>1, <2>2, <2>3, <2>4 DEF SoundsOnce
<1>15. Kept(Rest, t, 0, 0, 0, 0)
  <2>1. \A i \in 1 .. Len(Rest) : Rest[i] = jobs[i + 1] /\ i + 1 \in 1 .. Len(jobs)
    BY <1>2, TailRange
  <2>2. \A i \in 1 .. Len(jobs) : ~Asks(jobs[i], "seek", t)
    BY <1>3 DEF IInv, JobsOK, JobsGood, Asks
  <2>3. ~Sought(Rest, t)
    BY <2>1, <2>2 DEF Sought
  <2>4. \A p \in Nat : GoesTo(Rest, t, 0, p) => p = 0
    BY <2>3 DEF GoesTo, Sought
  <2> QED
    BY <2>4 DEF Kept
<1>16. ASSUME NEW i \in 1 .. Len(queue')
       PROVE  SoundKept(jobs', queue'[i], Total(data'[queue'[i].buffer]), filling'[queue'[i].buffer],
                        decoder'[queue'[i].track].written, Range(seeks'))
  <2>1. CASE i \in 1 .. Len(queue)
    BY <1>1, <1>4, <1>9, <1>13, <2>1 DEF AllKept
  <2>2. CASE queue'[i] = sound
    <3>1. Total(data'[b]) = 0 /\ filling'[b] = 0 /\ decoder'[t].written = 0
      BY <1>1, <1>3, <1>6, <1>9, <1>10, TotalNothing
    <3> QED
      BY <1>1, <1>12, <1>15, <2>2, <3>1 DEF SoundKept
  <2> QED
    BY <1>13, <2>1, <2>2
<1>17. AllKept(jobs', queue', data', filling', decoder', Range(seeks'))
  BY <1>16 DEF AllKept
<1>18. SeeksGood(jobs', Range(seeks'))
  BY <1>1, <1>4
<1> QED
  BY <1>11, <1>14, <1>17, <1>18 DEF SamplesOK

\* cont_internal() sets the card up for the first sound.
LEMMA ContSamples ==
  ASSUME IInv, SamplesOK, NEW st, NEW js \in Seq(JobType), NEW tm, cont_internal(st, js, tm),
         SeeksGood(js, Range(seeks)), AllKept(js, queue, data, filling, decoder, Range(seeks)),
         UNCHANGED <<queue, pool, data, filling, decoder, seeks>>
  PROVE  SamplesOK'
<1>1. jobs' \in {Append(js, Control("poll")), Append(js, Control("resume"))}
  BY DEF cont_internal
<1>2. \A op \in {"poll", "resume"} : Control(op) \in JobType /\ Control(op).op \notin {"clear", "seek"}
  BY DEF Control, JobType
<1>3. SeeksGood(jobs', Range(seeks)) /\ AllKept(jobs', queue, data, filling, decoder, Range(seeks))
  BY <1>1, <1>2, JobsPass
<1>4. /\ prev' \subseteq Opened
      /\ initApi' /\ starved' => \A i \in 1 .. Len(queue) : queue[i].track \notin prev'
  <2>1. CASE UNCHANGED device
    BY <2>1 DEF device, SamplesOK, SoundsOnce
  <2>2. CASE ~UNCHANGED device
    <3>1. queue # <<>> /\ prev' = {Head(queue).track} /\ starved' = FALSE
      BY <2>2 DEF cont_internal
    <3>2. Head(queue) = queue[1] /\ 1 \in 1 .. Len(queue)
      <4>1. Head(queue) = queue[1] /\ Len(queue) \in Nat \ {0}
        BY <3>1, FirstSound DEF IInv
      <4> QED
        BY <4>1
    <3> QED
      BY <3>1, <3>2, SoundNumbers
  <2> QED
    BY <2>1, <2>2
<1> QED
  BY <1>3, <1>4, SamplesFrame

\* A job that has nothing to do with seeks, and leaves sounds, buffers and card alone.
LEMMA QuietJob ==
  ASSUME IInv, SamplesOK, NEW op, Takes(op), op \notin {"clear", "seek"}, jobs' = Rest,
         UNCHANGED <<queue, pool, data, filling, decoder, seeks, prev, initApi, starved>>
  PROVE  SamplesOK'
<1>1. SeeksGood(Rest, Range(seeks)) /\ AllKept(Rest, queue, data, filling, decoder, Range(seeks))
  BY JobsRest
<1>2. prev \subseteq Opened /\ (initApi /\ starved => \A i \in 1 .. Len(queue) : queue[i].track \notin prev)
  BY DEF SamplesOK, SoundsOnce
<1> QED
  BY <1>1, <1>2, SamplesFrame

\* stop() drops all buffers.
LEMMA StopSamples == IInv /\ SamplesOK /\ stop_internal => SamplesOK'
<1> SUFFICES ASSUME IInv, SamplesOK, stop_internal PROVE SamplesOK'
  OBVIOUS
<1>1. /\ Takes("stop") /\ jobs' = Rest /\ queue' = <<>> /\ prev' = {} /\ initApi' = FALSE /\ pool' = reset(pool)
      /\ data' = [b \in Buffer |-> IF \E i \in DOMAIN queue : queue[i].buffer = b THEN <<>> ELSE data[b]]
      /\ UNCHANGED <<filling, decoder, seeks>>
  BY DEF stop_internal, others
<1>2. Opened' = Opened /\ Len(queue') = 0
  BY <1>1, EmptySeq DEF Opened
<1>3. BuffersOnce'
  <2>1. pool' = [used |-> [t \in Track |-> 0], free |-> <<>>, made |-> pool.made]
    BY <1>1 DEF reset, NoPool
  <2>2. pool'.free = <<>> /\ pool'.made = pool.made /\ \A t \in Track : pool'.used[t] = 0
    BY <2>1
  <2>3. \A b \in Buffer : data'[b] \in {data[b], <<>>}
    BY <1>1
  <2> QED
    BY <1>1, <1>2, <2>2, <2>3 DEF SamplesOK, BuffersOnce
<1>4. SoundsOnce' /\ AllKept(jobs', queue', data', filling', decoder', Range(seeks'))
  BY <1>1, <1>2 DEF SoundsOnce, AllKept
<1>5. SeeksGood(jobs', Range(seeks'))
  BY <1>1, JobsRest
<1> QED
  BY <1>3, <1>4, <1>5 DEF SamplesOK

\* resume_play_internal() plays.
LEMMA ResumeSamples == MaxCacheCount = 0 /\ IInv /\ SamplesOK /\ ResumePlay => SamplesOK'
<1> SUFFICES ASSUME MaxCacheCount = 0, IInv, SamplesOK, ResumePlay PROVE SamplesOK'
  OBVIOUS
<1>1. /\ Takes("resume") /\ jobs' = Rest /\ play(Unpaused, FALSE, timers)
      /\ UNCHANGED <<filling, others>> /\ UNCHANGED seeks
  BY DEF ResumePlay, others
<1>2. BuffersOnce' /\ SoundsOnce' /\ AllKept(jobs, queue', data', filling', decoder', Range(seeks'))
  BY <1>1, PlaySamples
<1>3. /\ jobs \in Seq(JobType) /\ SeeksGood(jobs, Range(seeks')) /\ jobs # <<>> /\ Head(jobs).op = "resume"
      /\ Rest = Tail(jobs)
  BY <1>1, JobsKeep
<1>4. SeeksGood(Rest, Range(seeks')) /\ AllKept(Rest, queue', data', filling', decoder', Range(seeks'))
  <2>1. "resume" \notin {"clear", "seek"}
    OBVIOUS
  <2> QED
    BY <1>2, <1>3, <2>1, JobsPass
<1> QED
  BY <1>1, <1>2, <1>4 DEF SamplesOK

\* A timer of play() plays, one of cont() goes on with it.
LEMMA TimeoutSamples ==
  MaxCacheCount = 0 /\ IInv /\ SamplesOK /\ (\E timer \in timers.active : Timeout(timer)) => SamplesOK'
<1> SUFFICES ASSUME MaxCacheCount = 0, IInv, SamplesOK, NEW timer \in timers.active, Timeout(timer) PROVE SamplesOK'
  OBVIOUS
<1> DEFINE tm == HandleTimeout(timers, timer)
<1> HIDE DEF tm
<1>1. /\ jobs \in Seq(JobType) /\ SeeksGood(jobs, Range(seeks))
      /\ AllKept(jobs, queue, data, filling, decoder, Range(seeks))
  BY JobsKeep
<1>2. CASE timer \in polls
  <2>1. /\ cont_internal(state, jobs, tm)
        /\ UNCHANGED <<queue, pool, data, filling, decoder, seeks>>
    BY <1>2 DEF Timeout, others, tm
  <2> QED
    BY <1>1, <2>1, ContSamples
<1>3. CASE timer \notin polls
  <2>1. /\ play(card, paused, tm) /\ UNCHANGED <<filling, others>> /\ jobs' = jobs /\ seeks' = seeks
    BY <1>3 DEF Timeout, others, tm
  <2>2. BuffersOnce' /\ SoundsOnce' /\ AllKept(jobs, queue', data', filling', decoder', Range(seeks'))
    BY <2>1, PlaySamples
  <2> QED
    BY <1>1, <2>1, <2>2 DEF SamplesOK
<1> QED
  BY <1>2, <1>3

\* A job gives sounds another number of samples, or the sounds of a track another
\* position.
LEMMA SoundsGiven ==
  ASSUME IInv, SamplesOK, NEW op \in {"update", "seek"}, Takes(op), jobs' = Rest,
         DOMAIN queue' = DOMAIN queue,
         \A i \in 1 .. Len(queue) : /\ queue'[i].track = queue[i].track /\ queue'[i].buffer = queue[i].buffer
                                    /\ queue'[i].written = IF op = "seek" /\ queue[i].track = Head(jobs).track
                                                             THEN Head(jobs).value ELSE queue[i].written,
         UNCHANGED <<pool, data, filling, decoder, seeks, prev, initApi, starved>>
  PROVE  SamplesOK'
<1> DEFINE job == Head(jobs)
<1>1. /\ jobs \in Seq(JobType) /\ SeeksGood(jobs, Range(seeks)) /\ AllKept(jobs, queue, data, filling, decoder, Range(seeks))
      /\ jobs # <<>> /\ job.op = op /\ Rest = Tail(jobs) /\ job = jobs[1] /\ 1 \in 1 .. Len(jobs)
  BY JobsKeep
<1> HIDE DEF job
<1>2. Opened' = Opened
  BY DEF Opened
<1>3. Len(queue) \in Nat /\ DOMAIN queue = 1 .. Len(queue) /\ Len(queue') = Len(queue)
  <2>1. queue \in Seq(Sound)
    BY DEF IInv, QueueOK, QueueGood
  <2>2. Len(queue) \in Nat /\ DOMAIN queue = 1 .. Len(queue)
    BY <2>1, LenProperties
  <2> QED
    BY <2>2
<1>4. BuffersOnce'
  BY <1>2 DEF SamplesOK, BuffersOnce
<1>5. SoundsOnce'
  BY <1>2, <1>3 DEF SamplesOK, SoundsOnce
<1>6. SeeksGood(Rest, Range(seeks))
  BY <1>1, SeeksTail
<1>7. ASSUME NEW i \in 1 .. Len(queue)
      PROVE  SoundKept(Rest, queue'[i], Total(data[queue[i].buffer]), filling[queue[i].buffer],
                       decoder[queue[i].track].written, Range(seeks))
  <2> DEFINE t == queue[i].track
             w == queue[i].written
             d == Total(data[queue[i].buffer])
             f == filling[queue[i].buffer]
             n == decoder[queue[i].track].written
  <2>1. Kept(jobs, t, w, d, f, n) /\ (t \notin Range(seeks) => w + d + f = n)
    BY <1>1 DEF AllKept, SoundKept
  <2>2. /\ queue'[i].track = t
        /\ queue'[i].written = IF op = "seek" /\ t = job.track THEN job.value ELSE w
    BY DEF job
  <2> HIDE DEF t, w, d, f, n
  <2>3. CASE Asks(job, "seek", t)
    <3>1. queue'[i].written = job.value
      BY <1>1, <2>2, <2>3 DEF Asks
    <3>2. Kept(Rest, t, job.value, d, f, n)
      BY <1>1, <2>1, <2>3, KeptTail DEF job
    <3>3. t \in Range(seeks)
      BY <1>1, <2>3 DEF Asks, IInv, JobsOK, JobsGood
    <3> QED
      BY <2>2, <3>1, <3>2, <3>3 DEF SoundKept, d, f, n
  <2>4. CASE ~Asks(job, "seek", t)
    <3>1. queue'[i].written = w
      BY <1>1, <2>2, <2>4 DEF Asks
    <3>2. ~Asks(job, "clear", t)
      BY <1>1 DEF Asks
    <3>3. Kept(Rest, t, w, d, f, n)
      BY <1>1, <2>1, <2>4, <3>2, KeptTail DEF job
    <3> QED
      BY <2>1, <2>2, <3>1, <3>3 DEF SoundKept, d, f, n
  <2> QED
    BY <2>3, <2>4
<1>8. AllKept(jobs', queue', data', filling', decoder', Range(seeks'))
  BY <1>3, <1>7 DEF AllKept
<1> QED
  BY <1>4, <1>5, <1>6, <1>8 DEF SamplesOK

\* Its number of samples says nothing of where a sound is,
LEMMA UpdateSamples == IInv /\ SamplesOK /\ update_total_samples_internal => SamplesOK'
<1> SUFFICES ASSUME IInv, SamplesOK, update_total_samples_internal PROVE SamplesOK'
  OBVIOUS
<1>1. /\ Takes("update") /\ jobs' = Rest
      /\ queue' = [i \in DOMAIN queue |->
                     IF queue[i].track = Head(jobs).track THEN [queue[i] EXCEPT !.total = Head(jobs).value] ELSE queue[i]]
      /\ UNCHANGED <<pool, data, filling, decoder, seeks, prev, initApi, starved>>
  BY DEF update_total_samples_internal, device, buffers, others
<1>2. queue \in Seq(Sound) /\ DOMAIN queue = 1 .. Len(queue)
  BY LenProperties DEF IInv, QueueOK, QueueGood
<1> DEFINE job == Head(jobs)
           value == job.value
<1>3. queue' = [i \in DOMAIN queue |-> IF queue[i].track = job.track THEN [queue[i] EXCEPT !.total = value] ELSE queue[i]]
  BY <1>1
<1> HIDE DEF job, value
<1>4. \A i \in 1 .. Len(queue) : /\ queue'[i].track = queue[i].track /\ queue'[i].buffer = queue[i].buffer
                                 /\ queue'[i].written = queue[i].written
  <2> TAKE i \in 1 .. Len(queue)
  <2>1. queue[i] \in Sound
    BY <1>2
  <2>2. queue'[i] \in {queue[i], [queue[i] EXCEPT !.total = value]}
    BY <1>2, <1>3
  <2> QED
    BY <2>1, <2>2 DEF Sound
<1>5. DOMAIN queue' = DOMAIN queue
  BY <1>3
<1> QED
  BY <1>1, <1>4, <1>5, SoundsGiven

\* but the position of a seek does.
LEMMA SetSeekSamples == IInv /\ SamplesOK /\ set_seek_duration_internal => SamplesOK'
<1> SUFFICES ASSUME IInv, SamplesOK, set_seek_duration_internal PROVE SamplesOK'
  OBVIOUS
<1>1. /\ Takes("seek") /\ jobs' = Rest
      /\ queue' = [i \in DOMAIN queue |->
                     IF queue[i].track = Head(jobs).track THEN [queue[i] EXCEPT !.written = Head(jobs).value] ELSE queue[i]]
      /\ UNCHANGED <<pool, data, filling, decoder, seeks, prev, initApi, starved>>
  BY DEF set_seek_duration_internal, device, buffers, others
<1>2. queue \in Seq(Sound) /\ DOMAIN queue = 1 .. Len(queue)
  BY LenProperties DEF IInv, QueueOK, QueueGood
<1> DEFINE job == Head(jobs)
           value == job.value
<1>3. queue' = [i \in DOMAIN queue |-> IF queue[i].track = job.track THEN [queue[i] EXCEPT !.written = value] ELSE queue[i]]
  BY <1>1
<1> HIDE DEF job, value
<1>4. \A i \in 1 .. Len(queue) : /\ queue'[i].track = queue[i].track /\ queue'[i].buffer = queue[i].buffer
                                 /\ queue'[i].written = IF queue[i].track = job.track THEN value ELSE queue[i].written
  <2> TAKE i \in 1 .. Len(queue)
  <2>1. queue[i] \in Sound
    BY <1>2
  <2>2. queue'[i] = IF queue[i].track = job.track THEN [queue[i] EXCEPT !.written = value] ELSE queue[i]
    BY <1>2, <1>3
  <2> QED
    BY <2>1, <2>2 DEF Sound
<1>5. DOMAIN queue' = DOMAIN queue
  BY <1>3
<1> QED
  BY <1>1, <1>4, <1>5, SoundsGiven DEF job, value

\* clear_play_data() empties the buffer of the track that is sought.
LEMMA ClearSamples == IInv /\ SamplesOK /\ clear_play_data_internal => SamplesOK'
<1> SUFFICES ASSUME IInv, SamplesOK, clear_play_data_internal PROVE SamplesOK'
  OBVIOUS
<1> DEFINE job == Head(jobs)
<1>1. /\ Takes("clear") /\ jobs' = Rest
      /\ data' = [b \in Buffer |-> IF \E i \in InQueue(job.track) : queue[i].buffer = b THEN <<>> ELSE data[b]]
      /\ UNCHANGED <<queue, pool, filling, decoder, seeks, prev, initApi, starved>>
  BY DEF clear_play_data_internal, device, others
<1>2. /\ jobs \in Seq(JobType) /\ SeeksGood(jobs, Range(seeks)) /\ AllKept(jobs, queue, data, filling, decoder, Range(seeks))
      /\ jobs # <<>> /\ job.op = "clear" /\ Rest = Tail(jobs) /\ job = jobs[1] /\ 1 \in 1 .. Len(jobs)
  BY <1>1, JobsKeep
<1>3. job.track \in Range(seeks)
  BY <1>2 DEF SeeksGood
<1> HIDE DEF job
<1>4. /\ DOMAIN queue = 1 .. Len(queue) /\ \A i, j \in 1 .. Len(queue) : queue[i].buffer = queue[j].buffer => i = j
  <2>1. queue \in Seq(Sound)
    BY DEF IInv, QueueOK, QueueGood
  <2> QED
    BY <2>1, LenProperties, BuffersApart
<1>5. Opened' = Opened
  BY <1>1 DEF Opened
<1>6. BuffersOnce'
  <2>1. \A b \in Buffer : data'[b] \in {data[b], <<>>}
    BY <1>1
  <2> QED
    BY <1>1, <1>5, <2>1 DEF SamplesOK, BuffersOnce
<1>7. SoundsOnce'
  BY <1>1, <1>5 DEF SamplesOK, SoundsOnce
<1>8. SeeksGood(Rest, Range(seeks))
  BY <1>2, SeeksTail
<1>9. ASSUME NEW i \in 1 .. Len(queue)
      PROVE  SoundKept(Rest, queue[i], Total(data'[queue[i].buffer]), filling[queue[i].buffer],
                       decoder[queue[i].track].written, Range(seeks))
  <2> DEFINE t == queue[i].track
             b == queue[i].buffer
             w == queue[i].written
             f == filling[b]
             n == decoder[t].written
  <2>1. Kept(jobs, t, w, Total(data[b]), f, n) /\ (t \notin Range(seeks) => w + Total(data[b]) + f = n)
    BY <1>2 DEF AllKept, SoundKept
  <2>2. b \in Buffer
    BY SoundNumbers
  <2>3. data'[b] = IF t = job.track THEN <<>> ELSE data[b]
    BY <1>1, <1>4, <2>2 DEF InQueue
  <2> HIDE DEF t, b, w, f, n
  <2>4. CASE t = job.track
    <3>1. Total(data'[b]) = 0
      BY <2>3, <2>4, TotalNothing
    <3>2. Asks(job, "clear", t)
      BY <1>2, <2>4 DEF Asks
    <3>3. Kept(Rest, t, w, 0, f, n)
      BY <1>2, <2>1, <3>2, KeptTail DEF job
    <3> QED
      BY <1>3, <2>4, <3>1, <3>3 DEF SoundKept, t, b, w, f, n
  <2>5. CASE t # job.track
    <3>1. ~Asks(job, "clear", t) /\ ~Asks(job, "seek", t)
      BY <1>2, <2>5 DEF Asks
    <3>2. Kept(Rest, t, w, Total(data[b]), f, n)
      BY <1>2, <2>1, <3>1, KeptTail DEF job
    <3> QED
      BY <2>1, <2>3, <2>5, <3>2 DEF SoundKept, t, b, w, f, n
  <2> QED
    BY <2>4, <2>5
<1>10. AllKept(jobs', queue', data', filling', decoder', Range(seeks'))
  BY <1>1, <1>9 DEF AllKept
<1> QED
  BY <1>1, <1>6, <1>7, <1>8, <1>10 DEF SamplesOK

\* cont(), the timer of a poll and the pauses leave sounds and buffers alone.
LEMMA QuietSamples ==
  IInv /\ SamplesOK /\ (Cont \/ ArmPoll \/ pause_internal \/ pause_play_internal) => SamplesOK'
<1> SUFFICES ASSUME IInv, SamplesOK, Cont \/ ArmPoll \/ pause_internal \/ pause_play_internal PROVE SamplesOK'
  OBVIOUS
<1>1. CASE Cont
  <2>1. /\ Takes("play") /\ cont_internal("play", Rest, timers)
        /\ UNCHANGED <<queue, pool, data, filling, decoder, seeks>>
    BY <1>1 DEF Cont, buffers, others
  <2>2. /\ Rest \in Seq(JobType)
        /\ SeeksGood(Rest, Range(seeks)) /\ AllKept(Rest, queue, data, filling, decoder, Range(seeks))
    <3>1. "play" \notin {"clear", "seek"}
      OBVIOUS
    <3> QED
      BY <2>1, <3>1, JobsKeep, JobsRest
  <2> DEFINE js == Rest
  <2>3. cont_internal("play", js, timers) /\ js \in Seq(JobType)
    BY <2>1, <2>2
  <2>4. SeeksGood(js, Range(seeks)) /\ AllKept(js, queue, data, filling, decoder, Range(seeks))
    BY <2>2
  <2> HIDE DEF js
  <2> QED
    BY <2>1, <2>3, <2>4, ContSamples
<1>2. ASSUME NEW op \in {"poll", "pause", "pause_play"}, Takes(op), jobs' = Rest,
             UNCHANGED <<queue, pool, data, filling, decoder, seeks, prev, initApi, starved>>
      PROVE  SamplesOK'
  BY <1>2, QuietJob
<1>3. CASE ArmPoll
  BY <1>2, <1>3 DEF ArmPoll, device, buffers, others
<1>4. CASE pause_internal
  BY <1>2, <1>4 DEF pause_internal, buffers, others
<1>5. CASE pause_play_internal
  BY <1>2, <1>5 DEF pause_play_internal, buffers, others
<1> QED
  BY <1>1, <1>3, <1>4, <1>5

\* Jobs that have nothing to do with seeks are posted.
LEMMA PostSamples ==
  ASSUME IInv, SamplesOK, NEW job \in JobType, job.op \notin {"clear", "seek"}, jobs' = Append(jobs, job),
         UNCHANGED <<queue, pool, data, filling, decoder, seeks, prev, initApi, starved>>
  PROVE  SamplesOK'
<1>1. jobs \in Seq(JobType) /\ SeeksGood(jobs, Range(seeks)) /\ AllKept(jobs, queue, data, filling, decoder, Range(seeks))
  BY JobsKeep
<1>2. SeeksGood(jobs', Range(seeks)) /\ AllKept(jobs', queue, data, filling, decoder, Range(seeks))
  BY <1>1, JobsPass
<1>3. prev \subseteq Opened /\ (initApi /\ starved => \A i \in 1 .. Len(queue) : queue[i].track \notin prev)
  BY DEF SamplesOK, SoundsOnce
<1> QED
  BY <1>2, <1>3, SamplesFrame

-----------------------------------------------------------------------------
(* The decoder.                                                             *)

\* A track that is opened has numbers of samples in its buffer.
LEMMA TrackNumbers ==
  ASSUME IInv, NEW t \in Opened
  PROVE  /\ t \in Track /\ decoder[t].buffer \in Buffer /\ decoder[t].written \in Nat
         /\ filling[decoder[t].buffer] \in 0 .. ChunkSize - 1
         /\ data[decoder[t].buffer] \in Seq(1 .. ChunkSize) /\ Total(data[decoder[t].buffer]) \in Nat
<1>1. t \in Track /\ decoder[t].buffer # 0 /\ decoder[t] \in DecoderType
  BY DEF Opened, IInv, DecoderOK
<1>2. decoder[t].buffer \in Buffer /\ decoder[t].written \in Nat
  BY <1>1 DEF DecoderType
<1>3. filling[decoder[t].buffer] \in 0 .. ChunkSize - 1 /\ data[decoder[t].buffer] \in Seq(1 .. ChunkSize)
  BY <1>2 DEF IInv, BuffersOK
<1> QED
  BY <1>1, <1>2, <1>3, SizesTotal

\* A sample is written, and is in the chunk being filled or passed on with it.
LEMMA DecodeSamples == \A t \in Track : IInv /\ SamplesOK /\ Decode(t) => SamplesOK'
<1> SUFFICES ASSUME IInv, SamplesOK, NEW t \in Track, Decode(t) PROVE SamplesOK'
  OBVIOUS
<1> DEFINE b == decoder[t].buffer
           n == filling[b] + 1
           last == decoder[t].written + 1 = decoder[t].total
           w == decoder[t].written
<1>1. /\ b # 0
      /\ decoder' = [decoder EXCEPT ![t].written = @ + 1, ![t].rest = @ - 1]
      /\ IF n = ChunkSize \/ last
           THEN data' = [data EXCEPT ![b] = PassOn(b, n)] /\ filling' = [filling EXCEPT ![b] = 0]
           ELSE filling' = [filling EXCEPT ![b] = n] /\ UNCHANGED data
      /\ UNCHANGED <<queue, pool, jobs, seeks, prev, initApi, starved>>
  BY DEF Decode, device
<1>2. t \in Opened
  BY <1>1 DEF Opened
<1>3. /\ b \in Buffer /\ w \in Nat /\ filling[b] \in 0 .. ChunkSize - 1 /\ Total(data[b]) \in Nat
  BY <1>2, TrackNumbers
<1>4. decoder \in [Track -> DecoderType] /\ BuffersOK
  BY DEF IInv, DecoderOK
<1>5. \A u \in Track : /\ decoder'[u].buffer = decoder[u].buffer
                       /\ decoder'[u].written = IF u = t THEN w + 1 ELSE decoder[u].written
  BY <1>1, <1>4 DEF DecoderType
<1>6. ChunkSize \in Nat \ {0} /\ filling[b] \in Nat /\ n \in 0 .. ChunkSize /\ n \in Nat /\ w + 1 \in Nat
  BY <1>3, OutputAssumption
<1>7. data \in [Buffer -> Seq(1 .. ChunkSize)] /\ filling \in [Buffer -> 0 .. ChunkSize - 1]
  BY <1>4 DEF BuffersOK
<1> DEFINE e == Total(data'[b])
           g == filling'[b]
           d == Total(data[b])
           f == filling[b]
<1>8. e \in Nat /\ g \in Nat /\ e + g = d + n /\ g <= n
  <2>1. CASE n = ChunkSize \/ last
    <3>1. data'[b] = PassOn(b, n) /\ g = 0
      BY <1>1, <1>3, <1>7, <2>1
    <3>2. Total(PassOn(b, n)) = d + n
      BY <1>3, <1>4, <1>6, PassedTotal
    <3>3. e = d + n
      BY <3>1, <3>2
    <3> HIDE DEF d, e, g, n
    <3> QED
      BY <1>3, <1>6, <3>1, <3>3 DEF d
  <2>2. CASE ~(n = ChunkSize \/ last)
    <3>1. data'[b] = data[b] /\ g = n
      BY <1>1, <1>3, <1>7, <2>2
    <3> HIDE DEF n
    <3> QED
      BY <1>3, <1>6, <3>1
  <2> QED
    BY <2>1, <2>2
<1>9. \A c \in Buffer : c # b => data'[c] = data[c] /\ filling'[c] = filling[c]
  BY <1>1, <1>7
<1> DEFINE m == w + 1
<1>10. e + g + w = d + f + m /\ g + w <= f + m
  <2>1. \A x, y, z, k, l \in Nat : x + y = z + (k + 1) /\ y <= k + 1 => x + y + l = z + k + (l + 1) /\ y + l <= k + (l + 1)
    OBVIOUS
  <2>2. n = f + 1 /\ m = w + 1 /\ f \in Nat /\ w \in Nat /\ d \in Nat
    BY <1>3, <1>6
  <2> HIDE DEF e, g, d, f, w, m, n
  <2> QED
    BY <1>8, <2>1, <2>2
<1>11. m \in Nat
  BY <1>6
<1>12. BuffersOnce' /\ SoundsOnce' /\ AllKept(jobs, queue', data', filling', decoder', Range(seeks'))
  <2>1. \A u \in Track : /\ decoder'[u].buffer = decoder[u].buffer
                         /\ decoder'[u].written = IF u = t THEN m ELSE decoder[u].written
    BY <1>5
  <2>2. Total(data'[decoder[t].buffer]) = e /\ filling'[decoder[t].buffer] = g
    OBVIOUS
  <2>3. e + g + decoder[t].written = Total(data[decoder[t].buffer]) + filling[decoder[t].buffer] + m
    BY <1>10
  <2>4. g + decoder[t].written <= filling[decoder[t].buffer] + m
    BY <1>10
  <2>5. \A c \in Buffer : c # decoder[t].buffer => data'[c] = data[c] /\ filling'[c] = filling[c]
    BY <1>9
  <2>6. e \in Nat /\ g \in Nat
    BY <1>8
  <2> HIDE DEF e, g, m, b, n, last, w, d, f
  <2> QED
    BY <1>1, <1>2, <1>11, <2>1, <2>2, <2>3, <2>4, <2>5, <2>6, BufferStep
<1>13. SeeksGood(jobs, Range(seeks))
  BY JobsKeep
<1> QED
  BY <1>1, <1>12, <1>13 DEF SamplesOK

\* A track ends, and the output may be told its number of samples.
LEMMA DecodeEndSamples == \A t \in Track : IInv /\ SamplesOK /\ DecodeEnd(t) => SamplesOK'
<1> SUFFICES ASSUME IInv, SamplesOK, NEW t \in Track, DecodeEnd(t) PROVE SamplesOK'
  OBVIOUS
<1> DEFINE job == Value("update", t, decoder[t].written)
<1>1. /\ decoder[t].buffer # 0
      /\ jobs' = jobs \o IF decoder[t].written = decoder[t].total THEN <<>> ELSE <<job>>
      /\ decoder' = [decoder EXCEPT ![t].total = decoder[t].written, ![t].ended = "posted"]
      /\ UNCHANGED <<queue, pool, data, filling, seeks, prev, initApi, starved>>
  BY DEF DecodeEnd, device, buffers
<1>2. t \in Opened
  BY <1>1 DEF Opened
<1>3. decoder \in [Track -> DecoderType]
  BY DEF IInv, DecoderOK
<1>4. \A u \in Track : decoder'[u].buffer = decoder[u].buffer /\ decoder'[u].written = decoder[u].written
  BY <1>1, <1>3 DEF DecoderType
<1>5. BuffersOnce' /\ SoundsOnce' /\ AllKept(jobs, queue', data', filling', decoder', Range(seeks'))
  <2>1. Opened' = Opened
    BY <1>4 DEF Opened
  <2>2. BuffersOnce'
    <3>1. \A u, v \in Opened : decoder'[u].buffer = decoder'[v].buffer => u = v
      BY <1>4 DEF SamplesOK, BuffersOnce, Opened
    <3> QED
      BY <1>1, <1>4, <2>1, <3>1 DEF SamplesOK, BuffersOnce
  <2>3. \A i \in 1 .. Len(queue) : queue[i].track \in Track
    BY SoundNumbers
  <2>4. SoundsOnce'
    BY <1>1, <1>4, <2>1, <2>3 DEF SamplesOK, SoundsOnce
  <2>5. AllKept(jobs, queue', data', filling', decoder', Range(seeks'))
    BY <1>1, <1>4, <2>3 DEF SamplesOK, AllKept
  <2> QED
    BY <2>2, <2>4, <2>5
<1>6. jobs \in Seq(JobType) /\ SeeksGood(jobs, Range(seeks'))
  BY <1>1, JobsKeep
<1>7. SeeksGood(jobs', Range(seeks')) /\ AllKept(jobs', queue', data', filling', decoder', Range(seeks'))
  <2>1. CASE decoder[t].written = decoder[t].total
    <3>1. jobs' = jobs
      BY <1>1, <1>6, <2>1, ConcatEmptySeq
    <3> QED
      BY <1>5, <1>6, <3>1
  <2>2. CASE decoder[t].written # decoder[t].total
    <3>1. job \in JobType /\ job.op = "update"
      BY <1>3 DEF Value, JobType, DecoderType
    <3> HIDE DEF job
    <3>2. jobs' = Append(jobs, job)
      <4>1. jobs' = jobs \o <<job>>
        BY <1>1, <2>2
      <4> QED
        BY <1>6, <3>1, <4>1, AppendRange
    <3>3. job.op \notin {"clear", "seek"}
      BY <3>1
    <3> QED
      BY <1>5, <1>6, <3>1, <3>2, <3>3, JobsPass
  <2> QED
    BY <2>1, <2>2
<1> QED
  BY <1>5, <1>7 DEF SamplesOK

\* The last samples are passed on.
LEMMA SyncCacheSamples == \A t \in Track : IInv /\ SamplesOK /\ SyncCache(t) => SamplesOK'
<1> SUFFICES ASSUME IInv, SamplesOK, NEW t \in Track, SyncCache(t) PROVE SamplesOK'
  OBVIOUS
<1> DEFINE b == decoder[t].buffer
           w == decoder[t].written
           d == Total(data[b])
           f == filling[b]
           e == Total(data'[b])
<1>1. /\ decoder[t].ended = "posted"
      /\ decoder' = [decoder EXCEPT ![t].ended = "yes"]
      /\ data' = [data EXCEPT ![b] = PassOn(b, f)] /\ filling' = [filling EXCEPT ![b] = 0]
      /\ UNCHANGED <<queue, pool, jobs, seeks, prev, initApi, starved>>
  BY DEF SyncCache, device
<1>2. t \in Opened
  BY <1>1 DEF IInv, DecoderOK
<1>3. b \in Buffer /\ w \in Nat /\ f \in 0 .. ChunkSize - 1 /\ d \in Nat
  BY <1>2, TrackNumbers
<1>4. decoder \in [Track -> DecoderType] /\ BuffersOK
  BY DEF IInv, DecoderOK
<1>5. \A u \in Track : /\ decoder'[u].buffer = decoder[u].buffer
                       /\ decoder'[u].written = IF u = t THEN w ELSE decoder[u].written
  BY <1>1, <1>4 DEF DecoderType
<1>6. f \in 0 .. ChunkSize /\ f \in Nat
  BY <1>3, OutputAssumption
<1>7. data \in [Buffer -> Seq(1 .. ChunkSize)] /\ filling \in [Buffer -> 0 .. ChunkSize - 1]
  BY <1>4 DEF BuffersOK
<1>8. e = d + f /\ filling'[b] = 0
  <2>1. data'[b] = PassOn(b, f) /\ filling'[b] = 0
    BY <1>1, <1>3, <1>7
  <2>2. Total(PassOn(b, f)) = d + f
    BY <1>3, <1>4, <1>6, PassedTotal
  <2> QED
    BY <2>1, <2>2
<1>9. \A c \in Buffer : c # b => data'[c] = data[c] /\ filling'[c] = filling[c]
  BY <1>1, <1>7
<1>10. e + 0 + w = d + f + w /\ 0 + w <= f + w /\ e \in Nat
  <2> HIDE DEF e, d, f, w
  <2> QED
    BY <1>3, <1>6, <1>8
<1>11. BuffersOnce' /\ SoundsOnce' /\ AllKept(jobs, queue', data', filling', decoder', Range(seeks'))
  <2> DEFINE g == 0
             m == w
  <2>1. \A u \in Track : /\ decoder'[u].buffer = decoder[u].buffer
                         /\ decoder'[u].written = IF u = t THEN m ELSE decoder[u].written
    BY <1>5
  <2>2. Total(data'[decoder[t].buffer]) = e /\ filling'[decoder[t].buffer] = g
    BY <1>8
  <2>3. e + g + decoder[t].written = Total(data[decoder[t].buffer]) + filling[decoder[t].buffer] + m
    BY <1>10
  <2>4. g + decoder[t].written <= filling[decoder[t].buffer] + m
    BY <1>10
  <2>5. \A c \in Buffer : c # decoder[t].buffer => data'[c] = data[c] /\ filling'[c] = filling[c]
    BY <1>9
  <2>6. e \in Nat /\ g \in Nat /\ m \in Nat
    BY <1>3, <1>10
  <2>7. UNCHANGED <<queue, pool, prev, initApi, starved, seeks>>
    BY <1>1
  <2> HIDE DEF e, g, m, b, w, d, f
  <2> QED
    BY <1>2, <2>7, <2>1, <2>2, <2>3, <2>4, <2>5, <2>6, BufferStep
<1>12. SeeksGood(jobs, Range(seeks))
  BY JobsKeep
<1> QED
  BY <1>1, <1>11, <1>12 DEF SamplesOK

\* What the jobs of a seek of track t do: they clear it and send it to sample n, and
\* do nothing to other tracks.
LEMMA SeekMoves ==
  ASSUME NEW t \in Track, NEW n \in Nat
  PROVE  LET js == <<Control("pause_play"), Job("clear", t), Value("seek", t, n), Control("resume")>>
         IN /\ js \in Seq(JobType) /\ Sought(js, t) /\ Cleared(js, t)
            /\ \A k \in 1 .. Len(js) : Asks(js[k], "seek", t) => js[k].value = n
            /\ \A u : u # t => \A k \in 1 .. Len(js) : ~Asks(js[k], "seek", u) /\ ~Asks(js[k], "clear", u)
            /\ \A sought : t \in sought => SeeksGood(js, sought)
<1> DEFINE js == <<Control("pause_play"), Job("clear", t), Value("seek", t, n), Control("resume")>>
<1>1. /\ Control("pause_play") \in JobType /\ Job("clear", t) \in JobType
      /\ Value("seek", t, n) \in JobType /\ Control("resume") \in JobType
  BY DEF Control, Job, Value, JobType
<1>2. /\ js \in Seq(JobType) /\ Len(js) = 4
      /\ js[1] = Control("pause_play") /\ js[2] = Job("clear", t)
      /\ js[3] = Value("seek", t, n) /\ js[4] = Control("resume")
  BY <1>1
<1> HIDE DEF js
<1>3. /\ js[1].op = "pause_play" /\ js[2].op = "clear" /\ js[2].track = t
      /\ js[3].op = "seek" /\ js[3].track = t /\ js[3].value = n /\ js[4].op = "resume"
  BY <1>2 DEF Control, Job, Value
<1>4. \A i \in 1 .. Len(js) : i \in {1, 2, 3, 4}
  BY <1>2
<1>5. 2 \in 1 .. Len(js) /\ 3 \in 1 .. Len(js)
  BY <1>2
<1>6. Sought(js, t) /\ Cleared(js, t)
  BY <1>3, <1>5 DEF Sought, Cleared, Asks
<1>7. \A u : \A k \in 1 .. Len(js) : /\ Asks(js[k], "seek", u) => k = 3 /\ u = t
                                     /\ Asks(js[k], "clear", u) => k = 2 /\ u = t
  BY <1>3, <1>4 DEF Asks
<1>8. \A sought : t \in sought => SeeksGood(js, sought)
  <2>1. \A i \in 1 .. Len(js) : js[i].op = "clear" => i = 2
    BY <1>3, <1>4
  <2>2. Asks(js[3], "seek", js[2].track) /\ 3 > 2
    BY <1>3 DEF Asks
  <2> QED
    BY <1>3, <1>5, <2>1, <2>2 DEF SeeksGood
<1>9. \A k \in 1 .. Len(js) : Asks(js[k], "seek", t) => js[k].value = n
  BY <1>3, <1>7
<1> QED
  BY <1>2, <1>6, <1>7, <1>8, <1>9 DEF js

\* A seek is taken for granted by the decoder, and the output will follow.
LEMMA SeekSamples == \A t \in Track : IInv /\ SamplesOK /\ SeekDuration(t) => SamplesOK'
<1> SUFFICES ASSUME IInv, SamplesOK, NEW t \in Track, SeekDuration(t) PROVE SamplesOK'
  OBVIOUS
<1> DEFINE b == decoder[t].buffer
<1>1. /\ seeks' = Append(seeks, t) /\ b # 0
      /\ filling' = [filling EXCEPT ![b] = 0]
      /\ UNCHANGED <<queue, pool, data, prev, initApi, starved>>
  BY DEF SeekDuration, device
<1>2. PICK n \in 0 .. Length[t] : \E rest \in flac_seek(t, n) \cup ffmpeg_seek(t, n) :
        /\ decoder' = [decoder EXCEPT ![t].written = n, ![t].rest = rest, ![t].ended = "no"]
        /\ jobs' = jobs \o <<Control("pause_play"), Job("clear", t), Value("seek", t, n), Control("resume")>>
  BY DEF SeekDuration
<1>3. PICK rest :
        /\ decoder' = [decoder EXCEPT ![t].written = n, ![t].rest = rest, ![t].ended = "no"]
        /\ jobs' = jobs \o <<Control("pause_play"), Job("clear", t), Value("seek", t, n), Control("resume")>>
  BY <1>2
<1> DEFINE more == <<Control("pause_play"), Job("clear", t), Value("seek", t, n), Control("resume")>>
<1>4. decoder \in [Track -> DecoderType] /\ filling \in [Buffer -> 0 .. ChunkSize - 1]
  BY DEF IInv, DecoderOK, BuffersOK
<1>5. n \in Nat
  BY OutputAssumption
<1>6. \A u \in Track : /\ decoder'[u].buffer = decoder[u].buffer
                       /\ decoder'[u].written = IF u = t THEN n ELSE decoder[u].written
  <2>1. decoder[t] \in DecoderType
    BY <1>4
  <2> QED
    BY <1>3, <1>4, <2>1 DEF DecoderType
<1>7. t \in Opened /\ Opened' = Opened
  BY <1>1, <1>6 DEF Opened
<1>8. b \in Buffer
  BY <1>7, TrackNumbers
<1>9. \A c \in Buffer : filling'[c] = IF c = b THEN 0 ELSE filling[c]
  BY <1>1, <1>4, <1>8
<1>10. Range(seeks') = Range(seeks) \cup {t}
  <2>1. seeks \in Seq(Track)
    BY DEF IInv, ValuesOK
  <2>2. Range(Append(seeks, t)) = Range(seeks) \cup {t}
    BY <2>1, AppendRange
  <2> QED
    BY <1>1, <2>2
<1>11. /\ more \in Seq(JobType) /\ Sought(more, t) /\ Cleared(more, t)
       /\ \A k \in 1 .. Len(more) : Asks(more[k], "seek", t) => more[k].value = n
       /\ \A u : u # t => \A k \in 1 .. Len(more) : ~Asks(more[k], "seek", u) /\ ~Asks(more[k], "clear", u)
       /\ \A sought : t \in sought => SeeksGood(more, sought)
  BY <1>5, SeekMoves
<1>12. jobs' = jobs \o more
  BY <1>3
<1> HIDE DEF more, b
<1>13. jobs \in Seq(JobType) /\ SeeksGood(jobs, Range(seeks))
  BY JobsKeep
<1>14. SeeksGood(jobs', Range(seeks'))
  <2> DEFINE now == Range(seeks')
  <2>1. SeeksGood(more, now) /\ Range(seeks) \subseteq now
    BY <1>10, <1>11
  <2> HIDE DEF now
  <2>2. SeeksGood(jobs \o more, now)
    BY <1>11, <1>13, <2>1, SeeksMore
  <2> QED
    BY <1>12, <2>2 DEF now
<1>15. BuffersOnce'
  <2>1. \A u \in Track : u \notin Opened => u # t
    BY <1>7
  <2>2. \A u, v \in Opened : decoder'[u].buffer = decoder'[v].buffer => u = v
    BY <1>6 DEF SamplesOK, BuffersOnce, Opened
  <2>3. \A c \in Buffer : c > pool.made => data'[c] = <<>> /\ filling'[c] = 0
    BY <1>1, <1>9 DEF SamplesOK, BuffersOnce
  <2> QED
    BY <1>1, <1>6, <1>7, <2>1, <2>2, <2>3 DEF SamplesOK, BuffersOnce
<1>16. SoundsOnce'
  <2>1. \A i \in 1 .. Len(queue) : queue[i].track \in Track
    BY SoundNumbers
  <2> QED
    BY <1>1, <1>6, <1>7, <2>1 DEF SamplesOK, SoundsOnce
<1>17. ASSUME NEW i \in 1 .. Len(queue)
       PROVE  SoundKept(jobs', queue[i], Total(data[queue[i].buffer]), filling'[queue[i].buffer],
                        decoder'[queue[i].track].written, Range(seeks'))
  <2> DEFINE u == queue[i].track
             c == queue[i].buffer
             d == Total(data[c])
  <2>1. /\ u \in Track /\ u \in Opened /\ c \in Buffer /\ c = decoder[u].buffer /\ d \in Nat
        /\ filling[c] \in Nat /\ decoder[u].written \in Nat
        /\ SoundKept(jobs, queue[i], d, filling[c], decoder[u].written, Range(seeks))
    BY SoundNumbers
  <2>2. CASE u = t
    <3>1. filling'[c] = 0 /\ decoder'[u].written = n
      BY <1>6, <1>9, <2>1, <2>2 DEF b
    <3>2. n + 0 <= n /\ 0 \in Nat
      BY <1>5
    <3>3. Kept(jobs \o more, t, queue[i].written, d, 0, n)
      BY <1>5, <1>11, <1>13, <3>2, KeptSeek
    <3>4. t \in Range(seeks')
      BY <1>10
    <3> QED
      BY <1>12, <2>2, <3>1, <3>3, <3>4 DEF SoundKept
  <2>3. CASE u # t
    <3>1. c # b
      BY <1>7, <2>1, <2>3 DEF SamplesOK, BuffersOnce, b
    <3>2. filling'[c] = filling[c] /\ decoder'[u].written = decoder[u].written
      BY <1>6, <1>9, <2>1, <2>3, <3>1
    <3>3. \A k \in 1 .. Len(more) : ~Asks(more[k], "seek", u) /\ ~Asks(more[k], "clear", u)
      BY <1>11, <2>3
    <3> DEFINE f == filling[c]
               m == decoder[u].written
               w == queue[i].written
    <3>4. Kept(jobs, u, w, d, f, m) /\ (u \notin Range(seeks) => w + d + f = m)
      BY <2>1 DEF SoundKept
    <3> HIDE DEF f, m, w, d, u
    <3>5. Kept(jobs \o more, u, w, d, f, m)
      BY <1>11, <1>13, <3>3, <3>4, KeptMore
    <3> QED
      BY <1>10, <1>12, <3>2, <3>4, <3>5 DEF SoundKept, f, m, w, d, u
  <2> QED
    BY <2>2, <2>3
<1>18. AllKept(jobs', queue', data', filling', decoder', Range(seeks'))
  BY <1>1, <1>17 DEF AllKept
<1> QED
  BY <1>14, <1>15, <1>16, <1>18 DEF SamplesOK

\* The output starts with empty buffers and no sounds.
LEMMA InitSamples == Init => SamplesOK
<1> SUFFICES ASSUME Init PROVE SamplesOK
  OBVIOUS
<1>1. /\ queue = <<>> /\ jobs = <<>> /\ prev = {} /\ initApi = FALSE /\ pool = NoPool
      /\ data = [b \in Buffer |-> <<>>] /\ filling = [b \in Buffer |-> 0]
  BY DEF Init
<1>2. \A t \in Track : decoder[t].buffer = 0 /\ decoder[t].written = 0
  BY DEF Init
<1>3. Opened = {}
  BY <1>2 DEF Opened
<1>4. Len(queue) = 0 /\ Len(jobs) = 0
  BY <1>1, EmptySeq
<1>5. pool.free = <<>> /\ pool.made = 0 /\ \A t \in Track : pool.used[t] = 0
  BY <1>1 DEF NoPool
<1>6. BuffersOnce
  BY <1>1, <1>2, <1>3, <1>5 DEF BuffersOnce
<1>7. SoundsOnce /\ SeeksGood(jobs, Range(seeks)) /\ AllKept(jobs, queue, data, filling, decoder, Range(seeks))
  BY <1>1, <1>4 DEF SoundsOnce, SeeksGood, AllKept
<1> QED
  BY <1>6, <1>7 DEF SamplesOK

\* Every step keeps what the jobs will make of the sounds, if no buffer is used again.
LEMMA NextSamples == MaxCacheCount = 0 /\ IInv /\ SamplesOK /\ [Next]_vars => SamplesOK'
<1> SUFFICES ASSUME MaxCacheCount = 0, IInv, SamplesOK, [Next]_vars PROVE SamplesOK'
  OBVIOUS
<1>1. CASE RunJob
  BY <1>1, AddSamples, QuietSamples, StopSamples, ResumeSamples, UpdateSamples, ClearSamples, SetSeekSamples DEF RunJob
<1>2. CASE Decoder
  BY <1>2, DecodeSamples, DecodeEndSamples, SyncCacheSamples, SeekSamples DEF Decoder
<1>3. CASE AddSound
  <2>1. PICK t \in Track :
          /\ jobs' = Append(jobs, Job("add", t))
          /\ UNCHANGED <<queue, pool, data, filling, decoder, seeks, prev, initApi, starved>>
    BY <1>3 DEF AddSound, device, buffers
  <2>2. Job("add", t) \in JobType /\ Job("add", t).op = "add"
    BY DEF Job, JobType
  <2> QED
    BY <2>1, <2>2, PostSamples
<1>4. CASE ContAfterAdd \/ ControlOutput
  <2>1. PICK op \in {"play", "pause", "stop"} :
          /\ jobs' = Append(jobs, Control(op))
          /\ UNCHANGED <<queue, pool, data, filling, decoder, seeks, prev, initApi, starved>>
    BY <1>4 DEF ContAfterAdd, ControlOutput, device, buffers, others
  <2>2. Control(op) \in JobType /\ Control(op).op = op
    BY DEF Control, JobType, PluginStates
  <2> QED
    BY <2>1, <2>2, PostSamples
<1>5. CASE \E timer \in timers.active : Timeout(timer)
  BY <1>5, TimeoutSamples
<1>6. CASE UNCHANGED vars
  <2>1. UNCHANGED <<queue, pool, data, filling, jobs, decoder, seeks, prev, initApi, starved>>
    BY <1>6 DEF vars, device, buffers, others
  <2>2. /\ prev \subseteq Opened /\ (initApi /\ starved => \A i \in 1 .. Len(queue) : queue[i].track \notin prev)
        /\ SeeksGood(jobs, Range(seeks)) /\ AllKept(jobs, queue, data, filling, decoder, Range(seeks))
    BY DEF SamplesOK, SoundsOnce
  <2> QED
    BY <2>1, <2>2, SamplesFrame
<1> QED
  BY <1>1, <1>2, <1>3, <1>4, <1>5, <1>6 DEF Next

\* No sample of a sound in the queue is lost or played twice, but for those that a
\* seek drops: what was written and what its buffer holds is what was decoded.  The
\* pool of sound_plugin_api keeps no buffer, as _cache_buf_mgr(0) has it.
THEOREM SamplesKept ==
  ASSUME MaxCacheCount = 0
  PROVE  Spec => []SamplesAccounted
<1>1. Init => IInv /\ SamplesOK
  BY InitOK, InitSamples
<1>2. IInv /\ SamplesOK /\ [Next]_vars => IInv' /\ SamplesOK'
  BY NextOK, NextSamples
<1>3. IInv /\ SamplesOK => SamplesAccounted
  <2> SUFFICES ASSUME IInv, SamplesOK, NEW i \in DOMAIN queue,
                      queue[i].track \notin {jobs[j].track : j \in {k \in DOMAIN jobs : jobs[k].op \in {"clear", "seek"}}}
               PROVE  LET t == queue[i].track  b == queue[i].buffer
                          known == queue[i].written + Total(data[b]) + filling[b]
                      IN known <= decoder[t].written /\ (t \notin Range(seeks) => known = decoder[t].written)
    BY DEF SamplesAccounted
  <2>1. queue \in Seq(Sound) /\ jobs \in Seq(JobType)
    BY DEF IInv, QueueOK, QueueGood, JobsOK, JobsGood
  <2>2. i \in 1 .. Len(queue) /\ DOMAIN jobs = 1 .. Len(jobs)
    BY <2>1, LenProperties
  <2> DEFINE t == queue[i].track
             w == queue[i].written
             d == Total(data[queue[i].buffer])
             f == filling[queue[i].buffer]
             n == decoder[queue[i].track].written
  <2>3. /\ w \in Nat /\ d \in Nat /\ f \in Nat /\ n \in Nat
        /\ Kept(jobs, t, w, d, f, n) /\ (t \notin Range(seeks) => w + d + f = n)
    BY <2>2, SoundNumbers DEF SoundKept
  <2>4. ~Sought(jobs, t) /\ ~Cleared(jobs, t)
    BY <2>2 DEF Sought, Cleared, Asks
  <2>5. w + d + f <= n
    <3> HIDE DEF t, w, d, f, n
    <3>1. GoesTo(jobs, t, w, w)
      BY <2>4 DEF GoesTo
    <3> QED
      BY <2>3, <2>4, <3>1 DEF Kept
  <2> QED
    BY <2>3, <2>5
<1> QED
  BY <1>1, <1>2, <1>3, PTL DEF Spec
=============================================================================
