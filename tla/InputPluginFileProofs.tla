----------------------- MODULE InputPluginFileProofs -----------------------
(***************************************************************************)
(* Proofs, for any tracks, any limit on finished files and any files, that *)
(* input_plugin_file has each track once, reads in one chain of timers     *)
(* that goes on while it plays, never has more finished files than it may, *)
(* and seeks only where there is a buffer.                                 *)
(***************************************************************************)
EXTENDS InputPluginFile, OperatorProofs

Listed == Range(files) \cup Range(finishedFiles)

\* Each track is once in one of the two lists.
ListedOnce ==
  /\ IsInjective(files) /\ IsInjective(finishedFiles)
  /\ Range(files) \cap Range(finishedFiles) = {}

\* A file is read to its end into its buffer, which it keeps.
FinishedHaveBuffer == Range(finishedFiles) \subseteq hasBuf

\* The jobs that name a track
TrackOps == {"add", "set_buf", "seek", "close"}

\* Whatever is done to a track is done after it was added,
AllAdded ==
  /\ Listed \cup opened \cup decoding \subseteq added
  /\ \A i \in 1 .. Len(jobs) : jobs[i].op \in TrackOps => jobs[i].track \in added

\* and after its add_file() has run.
AddsFirst ==
  \A i \in 1 .. Len(jobs) : jobs[i].op = "add" =>
    /\ jobs[i].track \notin Listed \cup opened \cup decoding
    /\ \A j \in 1 .. Len(jobs) :
         jobs[j].op \in TrackOps /\ jobs[j].track = jobs[i].track => i = j

\* Once the first n jobs have run, t has a buffer if it is listed.
BufferAfter(t, n) ==
  t \in Listed => t \in hasBuf \/ \E i \in 1 .. n : jobs[i] = Job("set_buf", t)

\* The decoder manager seeks only in a track whose buffer it has posted.
BufferFirst ==
  /\ \A t \in decoding : BufferAfter(t, Len(jobs))
  /\ \A i \in 1 .. Len(jobs) : jobs[i].op = "seek" => BufferAfter(jobs[i].track, i - 1)

IInv == /\ TypeOK /\ ListedOnce /\ OneReadChain /\ ChainAlive /\ FinishedBound
        /\ FinishedHaveBuffer /\ AllAdded /\ AddsFirst /\ BufferFirst

-----------------------------------------------------------------------------
(* The timers of the chain, and try_read().                                 *)

\* What Reschedule() leaves: one timer at most, the one remembered; and one if
\* there is a file.
LEMMA RescheduleOK ==
  ASSUME NEW fs, NEW tm, TimersOK(tm), readTimer \in 0 .. tm.made, tm.active \subseteq {readTimer},
         Reschedule(fs, tm)
  PROVE  /\ TimersOK(timers') /\ readTimer' \in 0 .. timers.made'
         /\ timers.active' \subseteq {readTimer'}
         /\ fs # <<>> => timers.active' # {}
<1>1. CASE fs # <<>> /\ ~is_active_timer(tm, readTimer)
  <2>1. timers' = CreateGetTimer(tm) /\ readTimer' = TimerToGet(tm)
    BY <1>1 DEF Reschedule
  <2>2. tm.active = {}
    BY <1>1 DEF is_active_timer
  <2> QED
    BY <2>1, <2>2, CreateOK
<1>2. CASE ~(fs # <<>> /\ ~is_active_timer(tm, readTimer))
  <2>1. timers' = tm /\ readTimer' = readTimer
    BY <1>2 DEF Reschedule
  <2> QED
    BY <1>2, <2>1 DEF is_active_timer
<1> QED
  BY <1>1, <1>2

\* The lists as try_read() may be given them, and as it leaves them.
GoodLists(fs, fin, lf) ==
  /\ fs \in Seq(Track) /\ fin \in Seq(Track) /\ lf \in [Track -> 0 .. Chunks]
  /\ IsInjective(fs) /\ IsInjective(fin) /\ Range(fs) \cap Range(fin) = {}
  /\ Len(fin) <= MaxFinishFiles

\* What try_read() does to the lists and to the tracks reported open, whatever
\* becomes of the file.
LEMMA TryReadLists ==
  ASSUME NEW st, NEW fs, NEW fin, NEW lf, NEW tm,
         isOpen \subseteq Track, opened \subseteq Track,
         GoodLists(fs, fin, lf), Range(fin) \subseteq hasBuf,
         try_read(st, fs, fin, lf, tm)
  PROVE  /\ GoodLists(files', finishedFiles', left')
         /\ Listed' \subseteq Range(fs) \cup Range(fin) /\ Range(finishedFiles') \subseteq hasBuf
         /\ isOpen' \subseteq Track /\ opened' \subseteq opened \cup Range(fs)
<1> USE InputAssumption
<1>1. CASE UNCHANGED <<isOpen, opened>> /\ Set(fs, fin, lf)
  BY <1>1 DEF Set, Listed
<1>2. CASE fs # <<>> /\ OpenFails(fs, fin, lf, tm)
  <2>1. /\ Tail(fs) \in Seq(Track) /\ Range(fs) = {Head(fs)} \cup Range(Tail(fs))
        /\ IsInjective(Tail(fs))
    BY <1>2, TailRange DEF GoodLists
  <2>2. files' = Tail(fs) /\ finishedFiles' = fin /\ left' = lf /\ UNCHANGED <<isOpen, opened>>
    BY <1>2 DEF OpenFails, Set
  <2> QED
    BY <2>1, <2>2 DEF GoodLists, Listed
<1>3. CASE fs # <<>> /\ OpenFile(fs, fin, lf, tm)
  <2>1. Head(fs) \in Track /\ Head(fs) \in Range(fs)
    BY <1>3, TailRange DEF GoodLists
  <2> QED
    BY <1>3, <2>1 DEF OpenFile, Set, Listed
<1>4. CASE fs # <<>> /\ Len(fin) < MaxFinishFiles /\ ReadChunk(fs, fin, lf, tm)
  <2> DEFINE t == Head(fs)
  <2>1. /\ t \in Track /\ Tail(fs) \in Seq(Track) /\ Range(fs) = {t} \cup Range(Tail(fs))
        /\ IsInjective(Tail(fs)) /\ t \notin Range(Tail(fs))
    BY <1>4, TailRange DEF GoodLists
  <2>2. t \in hasBuf /\ UNCHANGED <<isOpen, opened>>
    BY <1>4 DEF ReadChunk
  <2>3. CASE LastRead(lf[t])
    <3>1. files' = Tail(fs) /\ finishedFiles' = Append(fin, t) /\ left' = [lf EXCEPT ![t] = 0]
      BY <1>4, <2>3 DEF ReadChunk, Set
    <3>2. /\ Append(fin, t) \in Seq(Track) /\ Len(Append(fin, t)) = Len(fin) + 1
          /\ Range(Append(fin, t)) = Range(fin) \cup {t} /\ IsInjective(Append(fin, t))
      <4>1. fin \in Seq(Track) /\ IsInjective(fin) /\ t \notin Range(fin)
        BY <2>1 DEF GoodLists
      <4> HIDE DEF t
      <4>2. t \in Track
        BY <2>1
      <4> QED
        BY <4>1, <4>2, AppendRange
    <3>3. Len(fin) + 1 <= MaxFinishFiles
      <4>1. Len(fin) \in Nat
        BY LenProperties DEF GoodLists
      <4> QED
        BY <1>4, <4>1
    <3>4. left' \in [Track -> 0 .. Chunks]
      BY <2>1, <3>1 DEF GoodLists
    <3> QED
      BY <2>1, <2>2, <3>1, <3>2, <3>3, <3>4 DEF GoodLists, Listed
  <2>4. CASE ~LastRead(lf[t])
    <3>1. files' = fs /\ finishedFiles' = fin /\ left' = [lf EXCEPT ![t] = @ - 1]
      BY <1>4, <2>4 DEF ReadChunk, Set
    <3>2. lf[t] - 1 \in 0 .. Chunks
      BY <2>1, <2>4 DEF LastRead, GoodLists
    <3>3. left' \in [Track -> 0 .. Chunks]
      BY <3>1, <3>2 DEF GoodLists
    <3> QED
      BY <2>1, <2>2, <3>1, <3>3 DEF GoodLists, Listed
  <2> QED
    BY <2>3, <2>4
<1>5. \/ UNCHANGED <<isOpen, opened>> /\ Set(fs, fin, lf)
      \/ fs # <<>> /\ OpenFails(fs, fin, lf, tm)
      \/ fs # <<>> /\ OpenFile(fs, fin, lf, tm)
      \/ fs # <<>> /\ ~(Len(fin) >= MaxFinishFiles) /\ ReadChunk(fs, fin, lf, tm)
  BY DEF try_read, MayRead, Throttled, NothingToReadInto
<1>6. ~(Len(fin) >= MaxFinishFiles) => Len(fin) < MaxFinishFiles
  BY LenProperties DEF GoodLists
<1> QED
  BY <1>1, <1>2, <1>3, <1>4, <1>5, <1>6

\* try_read() leaves one timer at most, and one if the player plays and has a file.
LEMMA TryReadTimers ==
  ASSUME NEW st, NEW fs, NEW fin, NEW lf, NEW tm,
         TimersOK(tm), readTimer \in 0 .. tm.made, tm.active \subseteq {readTimer},
         try_read(st, fs, fin, lf, tm)
  PROVE  /\ TimersOK(timers') /\ readTimer' \in 0 .. timers.made'
         /\ timers.active' \subseteq {readTimer'}
         /\ st = "play" /\ files' # <<>> => timers.active' # {}
<1>1. CASE ~MayRead(st, fs, tm)
  BY <1>1 DEF try_read, MayRead, Set, is_active_timer
<1>2. CASE MayRead(st, fs, tm)
  <2>1. Reschedule(files', tm)
    BY <1>2 DEF try_read, MayRead, OpenFails, OpenFile, NothingToReadInto, ReadChunk, Set
  <2> QED
    BY <2>1, RescheduleOK
<1> QED
  BY <1>1, <1>2

-----------------------------------------------------------------------------
(* The jobs.                                                                *)

\* What the order of the jobs promises survives a job posted at the end: a track
\* added is new; the others were taken up, or are now, by the decoder manager.
LEMMA JobPosted ==
  ASSUME AllAdded, AddsFirst, BufferFirst, jobs \in Seq(JobType), NEW job \in JobType,
         jobs' = Append(jobs, job), UNCHANGED <<files, finishedFiles, hasBuf>>,
         added \subseteq added', opened' \subseteq opened,
         decoding' \subseteq decoding \cup opened,
         \A t \in decoding' \ decoding : job = Job("set_buf", t),
         job.op \in TrackOps => job.track \in added',
         job.op = "add" => job.track \notin added,
         job.op \in TrackOps \ {"add"} => job.track \in opened \cup decoding,
         job.op = "seek" => job.track \in decoding
  PROVE  AllAdded' /\ AddsFirst' /\ BufferFirst'
<1>1. /\ Len(jobs) \in Nat /\ Len(jobs') = Len(jobs) + 1 /\ jobs'[Len(jobs) + 1] = job
      /\ \A i \in 1 .. Len(jobs) : jobs'[i] = jobs[i]
  BY AppendRange, LenProperties
<1>2. \A i \in 1 .. Len(jobs') : i \in 1 .. Len(jobs) \/ i = Len(jobs) + 1
  BY <1>1
<1>3. Listed' = Listed /\ hasBuf' = hasBuf
  BY DEF Listed
<1>4. AllAdded'
  <2>1. Listed' \cup opened' \cup decoding' \subseteq added'
    BY <1>3 DEF AllAdded
  <2>2. ASSUME NEW i \in 1 .. Len(jobs'), jobs'[i].op \in TrackOps
        PROVE  jobs'[i].track \in added'
    BY <1>1, <1>2, <2>2 DEF AllAdded
  <2> QED
    BY <2>1, <2>2 DEF AllAdded
<1>5. AddsFirst'
  <2> SUFFICES ASSUME NEW i \in 1 .. Len(jobs'), jobs'[i].op = "add"
               PROVE  /\ jobs'[i].track \notin Listed' \cup opened' \cup decoding'
                      /\ \A j \in 1 .. Len(jobs') :
                           jobs'[j].op \in TrackOps /\ jobs'[j].track = jobs'[i].track => i = j
    BY DEF AddsFirst
  <2>1. CASE i \in 1 .. Len(jobs)
    <3>1. jobs'[i] = jobs[i] /\ jobs[i].op = "add" /\ jobs[i].track \in added
      BY <1>1, <2>1 DEF AllAdded, TrackOps
    <3>2. jobs[i].track \notin Listed \cup opened \cup decoding
      BY <2>1, <3>1 DEF AddsFirst
    <3>3. ASSUME NEW j \in 1 .. Len(jobs'), jobs'[j].op \in TrackOps, jobs'[j].track = jobs'[i].track
          PROVE  i = j
      <4>1. CASE j \in 1 .. Len(jobs)
        BY <1>1, <2>1, <3>1, <3>3, <4>1 DEF AddsFirst
      <4>2. CASE j = Len(jobs) + 1
        BY <1>1, <3>1, <3>2, <3>3, <4>2
      <4> QED
        BY <1>2, <4>1, <4>2
    <3> QED
      BY <1>3, <3>1, <3>2, <3>3
  <2>2. CASE i = Len(jobs) + 1
    <3>1. jobs'[i] = job /\ job.op = "add" /\ job.track \notin added
      BY <1>1, <2>2
    <3>2. job.track \notin Listed' \cup opened' \cup decoding'
      BY <1>3, <3>1 DEF AllAdded
    <3>3. \A j \in 1 .. Len(jobs) : jobs[j].op \in TrackOps => jobs[j].track # job.track
      BY <3>1 DEF AllAdded
    <3> QED
      BY <1>1, <1>2, <2>2, <3>1, <3>2, <3>3
  <2> QED
    BY <1>2, <2>1, <2>2
<1>6. BufferFirst'
  <2>1. ASSUME NEW t, NEW n \in 0 .. Len(jobs), BufferAfter(t, n)
        PROVE  /\ t \in Listed' => t \in hasBuf' \/ \E i \in 1 .. n : jobs'[i] = Job("set_buf", t)
    BY <1>1, <1>3, <2>1 DEF BufferAfter
  <2>2. ASSUME NEW t \in decoding'
        PROVE  t \in Listed' => t \in hasBuf' \/ \E i \in 1 .. Len(jobs') : jobs'[i] = Job("set_buf", t)
    <3>1. CASE t \in decoding
      <4>1. BufferAfter(t, Len(jobs)) /\ Len(jobs) \in 0 .. Len(jobs)
        BY <1>1, <3>1 DEF BufferFirst
      <4> QED
        BY <1>1, <2>1, <4>1
    <3>2. CASE t \notin decoding
      BY <1>1, <3>2
    <3> QED
      BY <3>1, <3>2
  <2>3. ASSUME NEW i \in 1 .. Len(jobs'), jobs'[i].op = "seek"
        PROVE  jobs'[i].track \in Listed' =>
                 \/ jobs'[i].track \in hasBuf'
                 \/ \E k \in 1 .. i - 1 : jobs'[k] = Job("set_buf", jobs'[i].track)
    <3>1. CASE i \in 1 .. Len(jobs)
      <4>1. jobs'[i] = jobs[i] /\ BufferAfter(jobs[i].track, i - 1) /\ i - 1 \in 0 .. Len(jobs)
        BY <1>1, <2>3, <3>1 DEF BufferFirst
      <4> QED
        BY <2>1, <4>1
    <3>2. CASE i = Len(jobs) + 1
      <4>1. jobs'[i] = job /\ BufferAfter(job.track, Len(jobs)) /\ i - 1 = Len(jobs)
        BY <1>1, <2>3, <3>2 DEF BufferFirst
      <4> QED
        BY <1>1, <2>1, <4>1
    <3> QED
      BY <1>2, <3>1, <3>2
  <2> QED
    BY <2>2, <2>3 DEF BufferFirst, BufferAfter
<1> QED
  BY <1>4, <1>5, <1>6

\* It survives a job taken from the front, when what it does to the track it names
\* is what the job is for: it lists a track added, it gives a buffer.
LEMMA JobTaken ==
  ASSUME AllAdded, AddsFirst, BufferFirst, jobs \in Seq(JobType), jobs # <<>>,
         jobs' \in Seq(JobType), Len(jobs') >= Len(jobs) - 1,
         \A i \in 1 .. Len(jobs') : IF i <= Len(jobs) - 1 THEN jobs'[i] = jobs[i + 1]
                                                         ELSE jobs'[i].op \notin TrackOps,
         UNCHANGED <<added, decoding>>, hasBuf \subseteq hasBuf',
         opened' \subseteq opened \cup Listed,
         \A t \in Listed' \ Listed : jobs[1] = Job("add", t),
         \A t \in Listed : jobs[1] = Job("set_buf", t) => t \in hasBuf'
  PROVE  AllAdded' /\ AddsFirst' /\ BufferFirst'
<1>1. /\ Len(jobs) \in Nat \ {0} /\ Len(jobs') \in Nat /\ 1 \in 1 .. Len(jobs)
      /\ \A i \in 1 .. Len(jobs) - 1 : i \in 1 .. Len(jobs') /\ i + 1 \in 1 .. Len(jobs) /\ jobs'[i] = jobs[i + 1]
  BY LenProperties, EmptySeq
<1>2. ASSUME NEW i \in 1 .. Len(jobs'), jobs'[i].op \in TrackOps
      PROVE  i \in 1 .. Len(jobs) - 1 /\ i + 1 \in 1 .. Len(jobs) /\ jobs'[i] = jobs[i + 1]
  BY <1>1, <1>2
<1>3. \A t \in Listed' \ Listed : jobs[1].op = "add" /\ jobs[1].track = t /\ jobs[1].op \in TrackOps
  <2> SUFFICES ASSUME NEW t \in Listed' \ Listed
               PROVE  jobs[1].op = "add" /\ jobs[1].track = t /\ jobs[1].op \in TrackOps
    OBVIOUS
  <2>1. jobs[1] = Job("add", t)
    OBVIOUS
  <2> QED
    BY <2>1 DEF Job, TrackOps
<1>4. Listed' \subseteq added /\ opened' \subseteq added /\ decoding \subseteq added
  BY <1>1, <1>3 DEF AllAdded
<1>5. AllAdded'
  <2>1. ASSUME NEW i \in 1 .. Len(jobs'), jobs'[i].op \in TrackOps
        PROVE  jobs'[i].track \in added
    BY <1>2, <2>1 DEF AllAdded
  <2> QED
    BY <1>4, <2>1 DEF AllAdded
\* A job left behind that adds a track does not add the one just added.
<1>6. AddsFirst'
  <2> SUFFICES ASSUME NEW i \in 1 .. Len(jobs'), jobs'[i].op = "add"
               PROVE  /\ jobs'[i].track \notin Listed' \cup opened' \cup decoding'
                      /\ \A j \in 1 .. Len(jobs') :
                           jobs'[j].op \in TrackOps /\ jobs'[j].track = jobs'[i].track => i = j
    BY DEF AddsFirst
  <2>1. i + 1 \in 1 .. Len(jobs) /\ jobs'[i] = jobs[i + 1] /\ jobs[i + 1].op = "add"
    BY <1>2 DEF TrackOps
  <2>2. /\ jobs[i + 1].track \notin Listed \cup opened \cup decoding
        /\ \A j \in 1 .. Len(jobs) :
             jobs[j].op \in TrackOps /\ jobs[j].track = jobs[i + 1].track => i + 1 = j
    BY <2>1 DEF AddsFirst
  <2>3. jobs[i + 1].track \notin Listed'
    <3>1. jobs[1].op \in TrackOps /\ jobs[1].track = jobs[i + 1].track => i + 1 = 1
      BY <1>1, <2>2
    <3> QED
      BY <1>3, <2>2, <3>1
  <2>4. ASSUME NEW j \in 1 .. Len(jobs'), jobs'[j].op \in TrackOps, jobs'[j].track = jobs'[i].track
        PROVE  i = j
    <3>1. j + 1 \in 1 .. Len(jobs) /\ jobs'[j] = jobs[j + 1]
      BY <1>2, <2>4
    <3>2. i + 1 = j + 1
      BY <2>1, <2>2, <2>4, <3>1
    <3> QED
      BY <3>2
  <2> QED
    BY <2>1, <2>2, <2>3, <2>4
\* No job left behind, and no seek, is about a track just added.
<1>7. ASSUME NEW t, t \in Listed', t \notin Listed
      PROVE  t \notin decoding /\ \A i \in 2 .. Len(jobs) : jobs[i].op = "seek" => jobs[i].track # t
  <2>1. jobs[1].op = "add" /\ jobs[1].track = t
    BY <1>3, <1>7
  <2>2. /\ t \notin decoding
        /\ \A j \in 1 .. Len(jobs) : jobs[j].op \in TrackOps /\ jobs[j].track = t => 1 = j
    BY <1>1, <2>1 DEF AddsFirst
  <2> QED
    BY <2>2 DEF TrackOps
\* Of the first n jobs one has run: it was not the one that gives the buffer, or it gave it.
<1>8. ASSUME NEW t \in Listed, NEW n \in 1 .. Len(jobs), BufferAfter(t, n)
      PROVE  t \in hasBuf' \/ \E i \in 1 .. n - 1 : jobs'[i] = Job("set_buf", t)
  <2>1. CASE t \in hasBuf
    BY <2>1
  <2>2. ASSUME NEW k \in 1 .. n, jobs[k] = Job("set_buf", t)
        PROVE  t \in hasBuf' \/ \E i \in 1 .. n - 1 : jobs'[i] = Job("set_buf", t)
    <3>1. CASE k = 1
      BY <2>2, <3>1
    <3>2. CASE k # 1
      <4>1. k - 1 \in 1 .. n - 1 /\ k - 1 \in 1 .. Len(jobs) - 1 /\ (k - 1) + 1 = k
        BY <1>1, <3>2
      <4>2. jobs'[k - 1] = jobs[k]
        BY <1>1, <4>1
      <4> QED
        BY <2>2, <4>1, <4>2
    <3> QED
      BY <3>1, <3>2
  <2> QED
    BY <1>8, <2>1, <2>2 DEF BufferAfter
<1>9. BufferFirst'
  <2>1. ASSUME NEW t \in decoding', t \in Listed'
        PROVE  t \in hasBuf' \/ \E i \in 1 .. Len(jobs') : jobs'[i] = Job("set_buf", t)
    <3>1. t \in Listed /\ BufferAfter(t, Len(jobs)) /\ Len(jobs) \in 1 .. Len(jobs)
      BY <1>1, <1>7, <2>1 DEF BufferFirst
    <3>2. t \in hasBuf' \/ \E i \in 1 .. Len(jobs) - 1 : jobs'[i] = Job("set_buf", t)
      BY <1>8, <3>1
    <3> QED
      BY <1>1, <3>2
  <2>2. ASSUME NEW i \in 1 .. Len(jobs'), jobs'[i].op = "seek", jobs'[i].track \in Listed'
        PROVE  \/ jobs'[i].track \in hasBuf'
               \/ \E k \in 1 .. i - 1 : jobs'[k] = Job("set_buf", jobs'[i].track)
    <3>1. /\ i + 1 \in 1 .. Len(jobs) /\ i + 1 \in 2 .. Len(jobs)
          /\ jobs'[i] = jobs[i + 1] /\ (i + 1) - 1 = i /\ i \in 1 .. Len(jobs)
      BY <1>1, <1>2, <2>2 DEF TrackOps
    <3>2. BufferAfter(jobs[i + 1].track, i)
      BY <2>2, <3>1 DEF BufferFirst
    <3>3. jobs[i + 1].track \in Listed
      BY <1>7, <2>2, <3>1
    <3> QED
      BY <1>8, <3>1, <3>2, <3>3
  <2> QED
    BY <2>1, <2>2 DEF BufferFirst, BufferAfter
<1> QED
  BY <1>5, <1>6, <1>9

-----------------------------------------------------------------------------
(* Every step keeps the invariant.                                          *)

\* The first job, and the jobs behind it.
LEMMA FirstJob ==
  ASSUME jobs \in Seq(JobType), NEW op, Takes(op)
  PROVE  /\ jobs # <<>> /\ jobs[1].op = op /\ Head(jobs) = jobs[1] /\ jobs[1] \in JobType
         /\ op \in TrackOps => jobs[1].track \in Track
         /\ jobs' \in Seq(JobType) /\ Len(jobs') >= Len(jobs) - 1
         /\ \A i \in 1 .. Len(jobs') : IF i <= Len(jobs) - 1 THEN jobs'[i] = jobs[i + 1]
                                                         ELSE jobs'[i].op \notin TrackOps
         /\ op # "play" => (Control("play") \in Range(jobs') <=> Control("play") \in Range(jobs))
<1>1. jobs # <<>> /\ Head(jobs).op = op /\ jobs' = Tail(jobs)
  BY DEF Takes
<1>2. /\ Head(jobs) \in JobType /\ Head(jobs) = jobs[1] /\ Tail(jobs) \in Seq(JobType)
      /\ Len(Tail(jobs)) = Len(jobs) - 1 /\ Len(jobs) \in Nat \ {0}
      /\ \A i \in 1 .. Len(Tail(jobs)) : Tail(jobs)[i] = jobs[i + 1]
      /\ Range(jobs) = {Head(jobs)} \cup Range(Tail(jobs))
  BY <1>1, TailRange
<1>3. op \in TrackOps => jobs[1].track \in Track
  BY <1>1, <1>2 DEF JobType, TrackOps, PluginStates
<1>4. op # "play" => Head(jobs) # Control("play")
  BY <1>1 DEF Control
<1>5. \A i \in 1 .. Len(jobs') : i <= Len(jobs) - 1 /\ jobs'[i] = jobs[i + 1]
  BY <1>1, <1>2
<1> QED
  BY <1>1, <1>2, <1>3, <1>4, <1>5

\* What the plugin promises about its lists and its timers, and a job waiting or
\* not, for the tracks the jobs and the other threads have.
Reading == /\ state \in PluginStates /\ isOpen \subseteq Track /\ hasBuf \subseteq Track
           /\ GoodLists(files, finishedFiles, left) /\ FinishedHaveBuffer
           /\ TimersOK(timers) /\ readTimer \in 0 .. timers.made /\ OneReadChain
Elsewhere == jobs \in Seq(JobType) /\ added \subseteq Track /\ opened \subseteq Track /\ decoding \subseteq Track

\* The parts of the invariant, grouped as the proof of a step takes them.
LEMMA Parts ==
  IInv <=> Reading /\ Elsewhere /\ ChainAlive /\ AllAdded /\ AddsFirst /\ BufferFirst
BY DEF IInv, TypeOK, ListedOnce, FinishedBound, Reading, Elsewhere, GoodLists, TimersOK

\* The same of the next state.
LEMMA PartsNext ==
  IInv' <=> Reading' /\ Elsewhere' /\ ChainAlive' /\ AllAdded' /\ AddsFirst' /\ BufferFirst'
BY DEF IInv, TypeOK, ListedOnce, FinishedBound, Reading, Elsewhere, GoodLists, TimersOK

\* A thread that posts a job, and changes no more than that, keeps the invariant.
LEMMA PostKeeps ==
  ASSUME IInv, NEW job \in JobType, jobs' = Append(jobs, job), UNCHANGED <<state, lists, hasBuf, clocks>>,
         Elsewhere'
  PROVE  (AllAdded' /\ AddsFirst' /\ BufferFirst') => IInv'
<1>1. Reading'
  BY Parts DEF Reading, GoodLists, FinishedHaveBuffer, TimersOK, OneReadChain, lists, clocks
<1>2. ChainAlive'
  <2>1. Range(jobs) \subseteq Range(jobs')
    <3>1. jobs \in Seq(JobType)
      BY Parts DEF Elsewhere
    <3>2. ASSUME NEW S, NEW s \in Seq(S), NEW e \in S
          PROVE  Range(s) \subseteq Range(Append(s, e))
      <4>1. Range(Append(s, e)) = Range(s) \cup {e}
        BY AppendRange
      <4> QED
        BY <4>1
    <3>3. Range(jobs) \subseteq Range(Append(jobs, job))
      BY <3>1, <3>2
    <3> QED
      BY <3>3
  <2> QED
    BY <2>1, Parts DEF ChainAlive, lists, clocks
<1> QED
  BY <1>1, <1>2, PartsNext

\* try_read() keeps what the plugin promises, for the lists and timers it is given.
LEMMA ReadKeeps ==
  ASSUME Reading, opened \subseteq Track, NEW st \in PluginStates,
         NEW fs, NEW fin, NEW lf, NEW tm, GoodLists(fs, fin, lf), Range(fin) \subseteq hasBuf,
         TimersOK(tm), readTimer \in 0 .. tm.made, tm.active \subseteq {readTimer},
         try_read(st, fs, fin, lf, tm), state' = st, UNCHANGED hasBuf
  PROVE  /\ Reading' /\ ChainAlive'
         /\ Listed' \subseteq Range(fs) \cup Range(fin)
         /\ opened' \subseteq opened \cup Range(fs) /\ opened' \subseteq Track
<1>1. /\ GoodLists(files', finishedFiles', left')
      /\ Listed' \subseteq Range(fs) \cup Range(fin) /\ Range(finishedFiles') \subseteq hasBuf
      /\ isOpen' \subseteq Track /\ opened' \subseteq opened \cup Range(fs)
  BY TryReadLists DEF Reading
<1>2. /\ TimersOK(timers') /\ readTimer' \in 0 .. timers.made'
      /\ timers.active' \subseteq {readTimer'}
      /\ st = "play" /\ files' # <<>> => timers.active' # {}
  BY TryReadTimers
<1>3. Range(fs) \subseteq Track
  BY InRange DEF GoodLists
<1> QED
  BY <1>1, <1>2, <1>3 DEF Reading, GoodLists, TimersOK, FinishedHaveBuffer, OneReadChain, ChainAlive

\* A job that reads, of tracks that were listed.
LEMMA JobReads ==
  ASSUME IInv, NEW op \in {"play", "seek"}, Takes(op), NEW fs, NEW fin, NEW lf,
         GoodLists(fs, fin, lf), Range(fin) \subseteq hasBuf, Range(fs) \cup Range(fin) \subseteq Listed,
         try_read("play", fs, fin, lf, timers), state' = "play", UNCHANGED <<hasBuf, others>>
  PROVE  IInv'
<1> USE Parts DEF others
<1>1. /\ jobs # <<>> /\ jobs[1].op = op /\ jobs' \in Seq(JobType) /\ Len(jobs') >= Len(jobs) - 1
      /\ \A i \in 1 .. Len(jobs') : IF i <= Len(jobs) - 1 THEN jobs'[i] = jobs[i + 1]
                                                      ELSE jobs'[i].op \notin TrackOps
  BY FirstJob DEF Elsewhere
<1>2. /\ Reading' /\ ChainAlive'
      /\ Listed' \subseteq Listed /\ opened' \subseteq opened \cup Listed /\ opened' \subseteq Track
  <2>1. opened \subseteq Track /\ "play" \in PluginStates
    BY DEF Elsewhere, PluginStates
  <2>2. /\ Reading' /\ ChainAlive'
        /\ Listed' \subseteq Range(fs) \cup Range(fin)
        /\ opened' \subseteq opened \cup Range(fs) /\ opened' \subseteq Track
    BY <2>1, ReadKeeps DEF Reading, OneReadChain
  <2> QED
    BY <2>2
<1>3. \A t : jobs[1] # Job("set_buf", t)
  BY <1>1 DEF Job
<1>4. AllAdded' /\ AddsFirst' /\ BufferFirst'
  BY <1>1, <1>2, <1>3, JobTaken DEF Elsewhere
<1> QED
  BY <1>1, <1>2, <1>4, PartsNext DEF Elsewhere

\* cont() reads the files as they are.
LEMMA ContKeeps ==
  ASSUME IInv, Cont PROVE IInv'
<1>1. GoodLists(files, finishedFiles, left) /\ Range(finishedFiles) \subseteq hasBuf
  BY Parts DEF Reading, FinishedHaveBuffer
<1>2. Range(files) \cup Range(finishedFiles) \subseteq Listed
  BY DEF Listed
<1> QED
  BY <1>1, <1>2, JobReads DEF Cont

\* A timer that expires leaves none armed, and try_read() arms the next.
LEMMA TimeoutKeeps ==
  ASSUME IInv, Timeout PROVE IInv'
<1> USE Parts DEF others
<1>1. PICK timer \in timers.active :
        /\ try_read(state, files, finishedFiles, left, HandleTimeout(timers, timer))
        /\ UNCHANGED <<state, hasBuf, jobs, others>>
  BY DEF Timeout
<1> DEFINE tm == HandleTimeout(timers, timer)
<1>2. /\ tm \in TimersType(timers.made) /\ tm.active = timers.active \ {timer}
      /\ tm.made = timers.made
  BY <1>1, RetireTimer DEF Reading, TimersOK
<1>3. TimersOK(tm) /\ readTimer \in 0 .. tm.made /\ tm.active \subseteq {readTimer}
  BY <1>2 DEF Reading, TimersOK, OneReadChain
<1>4. /\ Reading' /\ ChainAlive'
      /\ Listed' \subseteq Listed /\ opened' \subseteq opened \cup Listed /\ opened' \subseteq Track
  <2>1. /\ GoodLists(files, finishedFiles, left) /\ Range(finishedFiles) \subseteq hasBuf
        /\ state \in PluginStates /\ opened \subseteq Track
    BY DEF Reading, FinishedHaveBuffer, Elsewhere
  <2> HIDE DEF tm
  <2>2. try_read(state, files, finishedFiles, left, tm) /\ UNCHANGED <<state, hasBuf>>
    BY <1>1 DEF tm
  <2>3. /\ Reading' /\ ChainAlive'
        /\ Listed' \subseteq Range(files) \cup Range(finishedFiles)
        /\ opened' \subseteq opened \cup Range(files) /\ opened' \subseteq Track
    BY <1>3, <2>1, <2>2, ReadKeeps
  <2> QED
    BY <2>3 DEF Listed
<1>5. AllAdded'
  BY <1>1, <1>4 DEF AllAdded
<1>6. AddsFirst'
  <2>1. \A i \in 1 .. Len(jobs) : jobs[i].op = "add" =>
          jobs[i].track \notin Listed' \cup opened' \cup decoding'
    BY <1>1, <1>4 DEF AddsFirst
  <2> QED
    BY <1>1, <2>1 DEF AddsFirst
<1>7. BufferFirst'
  BY <1>1, <1>4 DEF BufferFirst, BufferAfter
<1> QED
  BY <1>1, <1>4, <1>5, <1>6, <1>7, PartsNext DEF Elsewhere

\* What another thread posts is about a track that was added.
LEMMA PostsKeep ==
  ASSUME IInv, Post PROVE IInv'
<1> USE Parts
<1>0. jobs \in Seq(JobType) /\ opened \cup decoding \subseteq added /\ added \subseteq Track
  BY DEF Elsewhere, AllAdded
<1>1. ASSUME NEW job \in JobType, add_job(job), UNCHANGED <<state, lists, hasBuf, clocks>>,
             added' \subseteq Track, opened' \subseteq Track, decoding' \subseteq Track,
             AllAdded' /\ AddsFirst' /\ BufferFirst'
      PROVE  IInv'
  <2>1. jobs' = Append(jobs, job)
    BY <1>1 DEF add_job
  <2>2. Elsewhere'
    <3>1. Append(jobs, job) \in Seq(JobType)
      BY <1>0
    <3> QED
      BY <1>1, <2>1, <3>1 DEF Elsewhere
  <2> QED
    BY <1>1, <2>1, <2>2, PostKeeps
<1>2. ASSUME AddInputItem PROVE IInv'
  <2>1. PICK t \in Track \ added :
          /\ add_job(Job("add", t)) /\ added' = added \cup {t}
          /\ UNCHANGED <<state, lists, hasBuf, clocks, opened, decoding>>
    BY <1>2 DEF AddInputItem
  <2>2. Job("add", t) \in JobType /\ Job("add", t).op = "add" /\ Job("add", t).track = t
    BY <2>1 DEF Job, JobType
  <2>3. AllAdded' /\ AddsFirst' /\ BufferFirst'
    BY <1>0, <2>1, <2>2, JobPosted DEF add_job, lists
  <2> QED
    BY <1>0, <1>1, <2>1, <2>2, <2>3
<1>3. ASSUME ControlInput PROVE IInv'
  <2>1. PICK op \in PluginStates :
          add_job(Control(op)) /\ UNCHANGED <<state, lists, hasBuf, clocks, opened, others>>
    BY <1>3 DEF ControlInput
  <2>2. Control(op) \in JobType /\ Control(op).op = op /\ op \notin TrackOps
    BY <2>1 DEF Control, JobType, TrackOps, PluginStates
  <2>3. op # "add" /\ op # "seek"
    BY <2>2 DEF TrackOps
  <2>4. AllAdded' /\ AddsFirst' /\ BufferFirst'
    BY <1>0, <2>1, <2>2, <2>3, JobPosted DEF add_job, lists, others
  <2> QED
    BY <1>0, <1>1, <2>1, <2>2, <2>4 DEF others
<1>4. ASSUME SetCacheBuffer PROVE IInv'
  <2>1. PICK t \in opened :
          /\ add_job(Job("set_buf", t))
          /\ opened' = opened \ {t} /\ decoding' = decoding \cup {t}
          /\ UNCHANGED <<state, lists, hasBuf, clocks, added>>
    BY <1>4 DEF SetCacheBuffer
  <2>2. Job("set_buf", t) \in JobType /\ Job("set_buf", t).op = "set_buf" /\ Job("set_buf", t).track = t
    BY <1>0, <2>1 DEF Job, JobType
  <2>3. t \in added /\ \A u \in decoding' \ decoding : u = t
    BY <1>0, <2>1
  <2>4. AllAdded' /\ AddsFirst' /\ BufferFirst'
    BY <1>0, <2>1, <2>2, <2>3, JobPosted DEF add_job, lists
  <2> QED
    BY <1>0, <1>1, <2>1, <2>2, <2>4
<1>5. ASSUME SeekCallback PROVE IInv'
  <2>1. PICK t \in decoding :
          add_job(Job("seek", t)) /\ UNCHANGED <<state, lists, hasBuf, clocks, opened, others>>
    BY <1>5 DEF SeekCallback
  <2>2. Job("seek", t) \in JobType /\ Job("seek", t).op = "seek" /\ Job("seek", t).track = t
    BY <1>0, <2>1 DEF Job, JobType
  <2>3. AllAdded' /\ AddsFirst' /\ BufferFirst'
    BY <1>0, <2>1, <2>2, JobPosted DEF add_job, lists, others
  <2> QED
    BY <1>0, <1>1, <2>1, <2>2, <2>3 DEF others
<1>6. ASSUME NEW t \in Track, DecoderFinish(t) PROVE IInv'
  <2>1. /\ t \in decoding /\ add_job(Job("close", t)) /\ decoding' = decoding \ {t}
        /\ UNCHANGED <<state, lists, hasBuf, clocks, opened, added>>
    BY <1>6 DEF DecoderFinish
  <2>2. Job("close", t) \in JobType /\ Job("close", t).op = "close" /\ Job("close", t).track = t
    BY DEF Job, JobType
  <2>3. AllAdded' /\ AddsFirst' /\ BufferFirst'
    BY <1>0, <2>1, <2>2, JobPosted DEF add_job, lists
  <2> QED
    BY <1>0, <1>1, <2>1, <2>2, <2>3
<1> QED
  BY <1>2, <1>3, <1>4, <1>5, <1>6 DEF Post

\* A job that neither reads nor arms a timer.
LEMMA JobKeeps ==
  ASSUME IInv, jobs # <<>>, jobs' \in Seq(JobType), Len(jobs') >= Len(jobs) - 1,
         \A i \in 1 .. Len(jobs') : IF i <= Len(jobs) - 1 THEN jobs'[i] = jobs[i + 1]
                                                         ELSE jobs'[i].op \notin TrackOps,
         UNCHANGED <<clocks, opened, others>>, Reading', ChainAlive',
         \A t \in Listed' \ Listed : jobs[1] = Job("add", t),
         \A t \in Listed : jobs[1] = Job("set_buf", t) => t \in hasBuf',
         hasBuf \subseteq hasBuf'
  PROVE  IInv'
<1>1. AllAdded' /\ AddsFirst' /\ BufferFirst'
  BY Parts, JobTaken DEF others, Elsewhere
<1> QED
  BY <1>1, Parts, PartsNext DEF others, Elsewhere

\* add_file(): what is played has the job that reads it.
LEMMA AddFileKeeps ==
  ASSUME IInv, AddFile PROVE IInv'
<1> USE Parts
<1> DEFINE t   == Head(jobs).track
           more == IF state = "play" THEN <<Control("play")>> ELSE <<>>
<1>1. /\ jobs # <<>> /\ Head(jobs).op = "add" /\ files' = Append(files, t) /\ jobs' = Tail(jobs) \o more
      /\ UNCHANGED <<state, finishedFiles, isOpen, left, hasBuf, clocks, opened, others>>
  BY DEF AddFile
<1>2. /\ Head(jobs) \in JobType /\ Head(jobs) = jobs[1] /\ Tail(jobs) \in Seq(JobType)
      /\ Len(Tail(jobs)) = Len(jobs) - 1 /\ Len(jobs) \in Nat \ {0}
      /\ \A i \in 1 .. Len(Tail(jobs)) : Tail(jobs)[i] = jobs[i + 1]
  BY <1>1, TailRange DEF Elsewhere
<1>3. t \in Track /\ jobs[1] = Job("add", t)
  BY <1>1, <1>2 DEF JobType, Job, PluginStates
<1>4. t \notin Listed
  <2>1. 1 \in 1 .. Len(jobs) /\ jobs[1].op = "add"
    BY <1>1, <1>2
  <2> QED
    BY <1>2, <2>1 DEF AddsFirst
<1>5. /\ more \in Seq(JobType) /\ Len(more) \in Nat
      /\ \A i \in 1 .. Len(more) : more[i].op \notin TrackOps
      /\ state = "play" => Control("play") \in Range(more)
  <2>1. Control("play") \in JobType /\ Control("play").op \notin TrackOps
    BY DEF Control, JobType, PluginStates, TrackOps
  <2>2. CASE state = "play"
    <3>1. /\ <<Control("play")>> \in Seq(JobType) /\ Len(<<Control("play")>>) = 1
          /\ <<Control("play")>>[1] = Control("play") /\ Range(<<Control("play")>>) = {Control("play")}
      BY <2>1, SingleSeq
    <3> QED
      BY <2>1, <2>2, <3>1
  <2>3. CASE state # "play"
    BY <2>3, NothingIn
  <2> QED
    BY <2>2, <2>3
<1> HIDE DEF more, t
<1>6. /\ jobs' \in Seq(JobType) /\ Len(jobs') = Len(jobs) - 1 + Len(more)
      /\ \A i \in 1 .. Len(jobs') : IF i <= Len(jobs) - 1 THEN jobs'[i] = jobs[i + 1]
                                                      ELSE jobs'[i].op \notin TrackOps
      /\ Range(more) \subseteq Range(jobs')
  <2>1. /\ Tail(jobs) \o more \in Seq(JobType)
        /\ Len(Tail(jobs) \o more) = Len(Tail(jobs)) + Len(more)
        /\ \A i \in 1 .. Len(Tail(jobs)) + Len(more) :
             (Tail(jobs) \o more)[i] = IF i <= Len(Tail(jobs)) THEN Tail(jobs)[i]
                                                               ELSE more[i - Len(Tail(jobs))]
        /\ Range(Tail(jobs) \o more) = Range(Tail(jobs)) \cup Range(more)
    BY <1>2, <1>5, ConcatRange, ZenonT(40)
  <2>2. \A i \in 1 .. Len(jobs') : IF i <= Len(jobs) - 1 THEN jobs'[i] = jobs[i + 1]
                                                      ELSE jobs'[i].op \notin TrackOps
    <3> SUFFICES ASSUME NEW i \in 1 .. Len(jobs) - 1 + Len(more)
                 PROVE  IF i <= Len(jobs) - 1 THEN jobs'[i] = jobs[i + 1] ELSE jobs'[i].op \notin TrackOps
      BY <1>1, <1>2, <2>1
    <3>1. CASE i <= Len(jobs) - 1
      BY <1>1, <1>2, <2>1, <3>1
    <3>2. CASE i > Len(jobs) - 1
      <4>1. i - (Len(jobs) - 1) \in 1 .. Len(more) /\ jobs'[i] = more[i - (Len(jobs) - 1)]
        BY <1>1, <1>2, <1>5, <2>1, <3>2
      <4> QED
        BY <1>2, <1>5, <3>2, <4>1
    <3> QED
      BY <1>2, <3>1, <3>2
  <2> QED
    BY <1>1, <1>2, <2>1, <2>2
<1>7. GoodLists(files', finishedFiles', left') /\ Range(files') = Range(files) \cup {t}
  <2>1. files \in Seq(Track) /\ IsInjective(files) /\ t \notin Range(files)
    BY <1>4 DEF Reading, GoodLists, Listed
  <2>2. /\ Append(files, t) \in Seq(Track) /\ Range(Append(files, t)) = Range(files) \cup {t}
        /\ IsInjective(Append(files, t))
    BY <1>3, <2>1, AppendRange
  <2> QED
    BY <1>1, <1>4, <2>2 DEF Reading, GoodLists, Listed
<1>8. Reading' /\ ChainAlive'
  <2>1. Reading'
    BY <1>1, <1>7 DEF Reading, GoodLists, FinishedHaveBuffer, TimersOK, OneReadChain, clocks
  <2> QED
    BY <1>1, <1>5, <1>6, <2>1 DEF ChainAlive
<1>9. Listed' = Listed \cup {t}
  BY <1>1, <1>7 DEF Listed
<1>10. \A u : jobs[1] # Job("set_buf", u)
  BY <1>1, <1>2 DEF Job
<1>11. Len(jobs') >= Len(jobs) - 1
  BY <1>2, <1>5, <1>6
<1> QED
  BY <1>1, <1>3, <1>6, <1>8, <1>9, <1>10, <1>11, JobKeeps

\* pause(), stop(), and add_file() of a file that does not exist change no list.
LEMMA QuietKeeps ==
  ASSUME IInv, NEW op \in {"add", "pause", "stop"}, Takes(op), state' \in PluginStates,
         state' = "play" => state = "play",
         UNCHANGED <<lists, hasBuf, clocks, opened, others>>
  PROVE  IInv'
<1> USE Parts
<1>1. /\ jobs # <<>> /\ jobs[1].op = op /\ jobs' \in Seq(JobType) /\ Len(jobs') >= Len(jobs) - 1
      /\ \A i \in 1 .. Len(jobs') : IF i <= Len(jobs) - 1 THEN jobs'[i] = jobs[i + 1]
                                                      ELSE jobs'[i].op \notin TrackOps
      /\ Control("play") \in Range(jobs') <=> Control("play") \in Range(jobs)
  BY FirstJob DEF Elsewhere
<1>2. Reading'
  BY DEF Reading, GoodLists, FinishedHaveBuffer, TimersOK, OneReadChain, clocks, lists
<1>3. ChainAlive'
  BY <1>1 DEF ChainAlive, clocks, lists
<1>4. Listed' = Listed /\ \A t : jobs[1] # Job("set_buf", t)
  BY <1>1 DEF Listed, Job, lists
<1> QED
  BY <1>1, <1>2, <1>3, <1>4, JobKeeps

\* set_cache_buffer(): a track listed and not finished gets its buffer, a finished
\* one has it.
LEMMA SetBufferKeeps ==
  ASSUME IInv, set_cache_buffer PROVE IInv'
<1> USE Parts
<1>1. /\ Takes("set_buf") /\ hasBuf' = hasBuf \cup ({Head(jobs).track} \cap Range(files))
      /\ UNCHANGED <<state, lists, clocks, opened, others>>
  BY DEF set_cache_buffer
<1>2. /\ jobs # <<>> /\ jobs[1].op = "set_buf" /\ Head(jobs) = jobs[1]
      /\ jobs[1].track \in Track
      /\ jobs' \in Seq(JobType) /\ Len(jobs') >= Len(jobs) - 1
      /\ \A i \in 1 .. Len(jobs') : IF i <= Len(jobs) - 1 THEN jobs'[i] = jobs[i + 1]
                                                      ELSE jobs'[i].op \notin TrackOps
      /\ Control("play") \in Range(jobs') <=> Control("play") \in Range(jobs)
  BY <1>1, FirstJob DEF Elsewhere, TrackOps
<1>3. Reading'
  BY <1>1, <1>2 DEF Reading, GoodLists, FinishedHaveBuffer, TimersOK, OneReadChain, clocks, lists
<1>4. ChainAlive'
  BY <1>1, <1>2 DEF ChainAlive, clocks, lists
<1>5. Listed' = Listed /\ \A t : jobs[1] # Job("add", t)
  BY <1>1, <1>2 DEF Listed, Job, lists
<1>6. ASSUME NEW t \in Listed, jobs[1] = Job("set_buf", t) PROVE t \in hasBuf'
  <2>1. Head(jobs).track = t
    BY <1>2, <1>6 DEF Job
  <2> QED
    BY <1>1, <2>1 DEF Listed, Reading, FinishedHaveBuffer
<1> QED
  BY <1>1, <1>2, <1>3, <1>4, <1>5, <1>6, JobKeeps

\* seek_callback_internal(): a finished file moves back to the files to read.
LEMMA SeekKeeps ==
  ASSUME IInv, seek_callback_internal PROVE IInv'
<1> USE Parts
<1> DEFINE t     == Head(jobs).track
           now   == IF t \in Range(finishedFiles) /\ t \notin Range(files)
                      THEN seek_finished(t) ELSE <<files, finishedFiles>>
           found == t \in Range(files) \cup Range(finishedFiles)
<1>1. PICK lf \in (IF found THEN {[left EXCEPT ![t] = n] : n \in 0 .. Chunks} ELSE {left}) :
        IF files = <<>>
          THEN state' = "play" /\ try_read("play", now[1], now[2], lf, timers)
          ELSE Set(now[1], now[2], lf) /\ UNCHANGED <<state, isOpen, clocks, opened>>
  BY DEF seek_callback_internal
<1>2. Takes("seek") /\ UNCHANGED <<hasBuf, others>>
  BY DEF seek_callback_internal
<1>3. /\ jobs # <<>> /\ jobs[1].op = "seek" /\ Head(jobs) = jobs[1] /\ t \in Track
      /\ jobs' \in Seq(JobType) /\ Len(jobs') >= Len(jobs) - 1
      /\ \A i \in 1 .. Len(jobs') : IF i <= Len(jobs) - 1 THEN jobs'[i] = jobs[i + 1]
                                                      ELSE jobs'[i].op \notin TrackOps
      /\ Control("play") \in Range(jobs') <=> Control("play") \in Range(jobs)
  BY <1>2, FirstJob DEF Elsewhere, TrackOps
<1>4. lf \in [Track -> 0 .. Chunks]
  BY <1>1, <1>3 DEF Reading, GoodLists
<1> HIDE DEF t
<1>5. /\ GoodLists(now[1], now[2], lf) /\ Range(now[2]) \subseteq hasBuf
      /\ Range(now[1]) \cup Range(now[2]) \subseteq Listed
  <2>1. /\ files \in Seq(Track) /\ finishedFiles \in Seq(Track)
        /\ IsInjective(files) /\ IsInjective(finishedFiles) /\ Range(files) \cap Range(finishedFiles) = {}
        /\ Len(finishedFiles) <= MaxFinishFiles /\ Range(finishedFiles) \subseteq hasBuf
    BY DEF Reading, GoodLists, FinishedHaveBuffer
  <2>2. CASE t \in Range(finishedFiles) /\ t \notin Range(files)
    <3>1. /\ <<t>> \o files \in Seq(Track) /\ Range(<<t>> \o files) = {t} \cup Range(files)
          /\ IsInjective(<<t>> \o files)
      BY <1>3, <2>1, <2>2, ConsRange
    <3>2. /\ RemoveFirst(finishedFiles, t) \in Seq(Track)
          /\ Len(RemoveFirst(finishedFiles, t)) \in 0 .. Len(finishedFiles)
          /\ Range(RemoveFirst(finishedFiles, t)) = Range(finishedFiles) \ {t}
          /\ IsInjective(RemoveFirst(finishedFiles, t))
      BY <2>1, RemoveOnce
    <3>3. Len(RemoveFirst(finishedFiles, t)) <= MaxFinishFiles
      <4>1. Len(finishedFiles) \in Nat /\ MaxFinishFiles \in Nat
        BY <2>1, LenProperties, InputAssumption
      <4> QED
        BY <2>1, <3>2, <4>1
    <3>4. now[1] = <<t>> \o files /\ now[2] = RemoveFirst(finishedFiles, t)
      BY <2>2 DEF seek_finished
    <3> HIDE DEF now
    <3> QED
      BY <1>4, <2>1, <2>2, <3>1, <3>2, <3>3, <3>4 DEF GoodLists, Listed
  <2>3. CASE ~(t \in Range(finishedFiles) /\ t \notin Range(files))
    <3>1. now[1] = files /\ now[2] = finishedFiles
      BY <2>3
    <3> HIDE DEF now
    <3> QED
      BY <1>4, <2>1, <3>1 DEF GoodLists, Listed
  <2> QED
    BY <2>2, <2>3
<1> HIDE DEF now, found
<1>6. CASE files = <<>>
  BY <1>1, <1>2, <1>5, <1>6, JobReads
<1>7. CASE files # <<>>
  <2>1. /\ files' = now[1] /\ finishedFiles' = now[2] /\ left' = lf
        /\ UNCHANGED <<state, isOpen, clocks, opened>>
    BY <1>1, <1>7 DEF Set
  <2>2. Reading'
    BY <1>2, <1>5, <2>1 DEF Reading, GoodLists, FinishedHaveBuffer, TimersOK, OneReadChain, clocks
  <2>3. ChainAlive'
    BY <1>3, <1>7, <2>1 DEF ChainAlive, clocks
  <2>4. Listed' \subseteq Listed /\ \A u : jobs[1] # Job("set_buf", u)
    BY <1>3, <1>5, <2>1 DEF Listed, Job
  <2> QED
    BY <1>2, <1>3, <2>1, <2>2, <2>3, <2>4, JobKeeps
<1> QED
  BY <1>6, <1>7

\* input_close(): a track that leaves the list it is in is listed no more.
LEMMA CloseKeeps ==
  ASSUME IInv, input_close PROVE IInv'
<1> USE Parts
<1> DEFINE t == Head(jobs).track
<1>1. /\ Takes("close")
      /\ IF t \in Range(finishedFiles)
           THEN finishedFiles' = RemoveFirst(finishedFiles, t) /\ UNCHANGED files
           ELSE files' = RemoveFirst(files, t) /\ UNCHANGED finishedFiles
      /\ UNCHANGED <<state, isOpen, left, hasBuf, clocks, opened, others>>
  BY DEF input_close
<1>2. /\ jobs # <<>> /\ jobs[1].op = "close"
      /\ jobs' \in Seq(JobType) /\ Len(jobs') >= Len(jobs) - 1
      /\ \A i \in 1 .. Len(jobs') : IF i <= Len(jobs) - 1 THEN jobs'[i] = jobs[i + 1]
                                                      ELSE jobs'[i].op \notin TrackOps
      /\ Control("play") \in Range(jobs') <=> Control("play") \in Range(jobs)
  BY <1>1, FirstJob DEF Elsewhere
<1> HIDE DEF t
<1>3. /\ files \in Seq(Track) /\ finishedFiles \in Seq(Track)
      /\ IsInjective(files) /\ IsInjective(finishedFiles) /\ Range(files) \cap Range(finishedFiles) = {}
      /\ Len(finishedFiles) <= MaxFinishFiles /\ Range(finishedFiles) \subseteq hasBuf
      /\ Len(finishedFiles) \in Nat /\ MaxFinishFiles \in Nat
  BY LenProperties, InputAssumption DEF Reading, GoodLists, FinishedHaveBuffer
<1>4. /\ files' \in Seq(Track) /\ finishedFiles' \in Seq(Track)
      /\ IsInjective(files') /\ IsInjective(finishedFiles')
      /\ Range(files') \subseteq Range(files) /\ Range(finishedFiles') \subseteq Range(finishedFiles)
      /\ Len(finishedFiles') <= MaxFinishFiles
  <2>1. CASE t \in Range(finishedFiles)
    <3>1. /\ RemoveFirst(finishedFiles, t) \in Seq(Track)
          /\ Len(RemoveFirst(finishedFiles, t)) \in 0 .. Len(finishedFiles)
          /\ Range(RemoveFirst(finishedFiles, t)) = Range(finishedFiles) \ {t}
          /\ IsInjective(RemoveFirst(finishedFiles, t))
      BY <1>3, RemoveOnce
    <3>2. finishedFiles' = RemoveFirst(finishedFiles, t) /\ files' = files
      BY <1>1, <2>1
    <3> QED
      BY <1>3, <3>1, <3>2
  <2>2. CASE t \notin Range(finishedFiles)
    <3>1. /\ RemoveFirst(files, t) \in Seq(Track)
          /\ Range(RemoveFirst(files, t)) = Range(files) \ {t}
          /\ IsInjective(RemoveFirst(files, t))
      BY <1>3, RemoveOnce
    <3>2. files' = RemoveFirst(files, t) /\ finishedFiles' = finishedFiles
      BY <1>1, <2>2
    <3> QED
      BY <1>3, <3>1, <3>2
  <2> QED
    BY <2>1, <2>2
<1>5. Reading'
  BY <1>1, <1>3, <1>4 DEF Reading, GoodLists, FinishedHaveBuffer, TimersOK, OneReadChain, clocks
<1>6. files' # <<>> => files # <<>>
  <2>1. (files = <<>> <=> Range(files) = {}) /\ (files' = <<>> <=> Range(files') = {})
    BY <1>3, <1>4, InRange
  <2> QED
    BY <1>4, <2>1
<1>7. ChainAlive'
  BY <1>1, <1>2, <1>6 DEF ChainAlive, clocks
<1>8. Listed' \subseteq Listed /\ \A u : jobs[1] # Job("set_buf", u)
  BY <1>2, <1>4 DEF Listed, Job
<1> QED
  BY <1>1, <1>2, <1>5, <1>7, <1>8, JobKeeps

-----------------------------------------------------------------------------
(* The invariant, and what follows from it.                                 *)

\* Nothing is listed at first.
LEMMA InitIInv == Init => IInv
<1> SUFFICES ASSUME Init PROVE IInv
  OBVIOUS
<1> USE DEF Init
<1>1. /\ jobs = <<>> /\ Len(jobs) = 0 /\ jobs \in Seq(JobType)
      /\ files = <<>> /\ finishedFiles = <<>> /\ Range(<<>>) = {} /\ IsInjective(<<>>)
      /\ <<>> \in Seq(Track) /\ <<>> \in Seq(1 .. 0) /\ Len(<<>>) = 0
  BY NothingIn
<1>2. TimersOK(timers) /\ readTimer \in 0 .. timers.made /\ OneReadChain
  BY <1>1 DEF TimersOK, TimersType, NoTimers, NoTimer, OneReadChain
<1>3. GoodLists(files, finishedFiles, left) /\ FinishedHaveBuffer
  BY <1>1, InputAssumption DEF GoodLists, FinishedHaveBuffer
<1>4. Listed = {}
  BY <1>1 DEF Listed
<1>5. ChainAlive /\ AllAdded /\ AddsFirst /\ BufferFirst
  BY <1>1, <1>4 DEF ChainAlive, AllAdded, AddsFirst, BufferFirst
<1> QED
  BY <1>1, <1>2, <1>3, <1>5, Parts DEF Reading, Elsewhere

\* Every step keeps the invariant.
LEMMA NextIInv == IInv /\ [Next]_vars => IInv'
<1> SUFFICES ASSUME IInv, [Next]_vars PROVE IInv'
  OBVIOUS
<1>1. CASE AddFile
  BY <1>1, AddFileKeeps
<1>2. CASE AddFileMissing
  BY <1>2, QuietKeeps, Parts DEF AddFileMissing, Reading
<1>3. CASE Cont
  BY <1>3, ContKeeps
<1>4. CASE PauseOrStop
  <2>1. PICK op \in {"pause", "stop"} :
          Takes(op) /\ state' = op /\ UNCHANGED <<lists, hasBuf, clocks, opened, others>>
    BY <1>4 DEF PauseOrStop
  <2> QED
    BY <2>1, QuietKeeps DEF PluginStates
<1>5. CASE set_cache_buffer
  BY <1>5, SetBufferKeeps
<1>6. CASE seek_callback_internal
  BY <1>6, SeekKeeps
<1>7. CASE input_close
  BY <1>7, CloseKeeps
<1>8. CASE Timeout
  BY <1>8, TimeoutKeeps
<1>9. CASE Post
  BY <1>9, PostsKeep
<1>10. CASE UNCHANGED vars
  BY <1>10 DEF vars, lists, clocks, others, IInv, TypeOK, ListedOnce, OneReadChain, ChainAlive,
               FinishedBound, FinishedHaveBuffer, AllAdded, AddsFirst, BufferFirst, BufferAfter, Listed
<1> QED
  BY <1>1, <1>2, <1>3, <1>4, <1>5, <1>6, <1>7, <1>8, <1>9, <1>10 DEF Next, RunJob

\* The inductive invariant holds in every state.
THEOREM Invariant == Spec => []IInv
BY InitIInv, NextIInv, PTL DEF Spec

\* Every variable has its type, however many tracks, jobs and timers there were.
THEOREM TypeCorrect == Spec => []TypeOK
<1>1. IInv => TypeOK
  BY DEF IInv
<1> QED
  BY <1>1, Invariant, PTL

\* try_read(), seek_callback_internal() and input_close() move a track from list to
\* list and never leave it in both, or twice in one.
THEOREM EachTrackOnce == Spec => []TracksOnce
<1>1. IInv => TracksOnce
  BY ConcatRange DEF IInv, TypeOK, ListedOnce, TracksOnce
<1> QED
  BY <1>1, Invariant, PTL

\* However often cont(), add_file() and seeks ask to read, there is one timer.
THEOREM OneChain == Spec => []OneReadChain
<1>1. IInv => OneReadChain
  BY DEF IInv
<1> QED
  BY <1>1, Invariant, PTL

\* The chain of timers is not lost while the plugin plays and has a file.
THEOREM ChainGoesOn == Spec => []ChainAlive
<1>1. IInv => ChainAlive
  BY DEF IInv
<1> QED
  BY <1>1, Invariant, PTL

\* seek_helper() finds a buffer to empty: the decoder manager posts the buffer of a
\* track before any seek in it, and the jobs run in the order posted.
THEOREM SeekFindsBuffer == Spec => []SeekHasBuffer
<1>1. IInv => SeekHasBuffer
  <2> SUFFICES ASSUME IInv, jobs # <<>>, Head(jobs).op = "seek", Head(jobs).track \in Listed
               PROVE  Head(jobs).track \in hasBuf
    BY DEF SeekHasBuffer, Listed
  <2>1. 1 \in 1 .. Len(jobs) /\ Head(jobs) = jobs[1]
    BY TailRange DEF IInv, TypeOK
  <2>2. BufferAfter(jobs[1].track, 1 - 1)
    BY <2>1 DEF IInv, BufferFirst
  <2>3. ~ \E i \in 1 .. 1 - 1 : jobs[i] = Job("set_buf", jobs[1].track)
    OBVIOUS
  <2> QED
    BY <2>1, <2>2, <2>3 DEF BufferAfter
<1> QED
  BY <1>1, Invariant, PTL

\* The limit on finished files holds although a seek may have a finished one read again.
THEOREM FinishedBounded == Spec => []FinishedBound
<1>1. IInv => FinishedBound
  BY DEF IInv
<1> QED
  BY <1>1, Invariant, PTL
=============================================================================
