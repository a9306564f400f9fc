-------------------------- MODULE InputPluginFile --------------------------
(***************************************************************************)
(* input_plugin_file: the list of the tracks to read, the list of those    *)
(* read to the end but not yet played, and the chain of timers that calls  *)
(* try_read() again and again.  Each action is one job, or one expiry of a *)
(* timer, on the thread of the plugin, or the posting of a job by another  *)
(* thread: the playlist manager adds tracks and controls the player, the   *)
(* decoder manager provides the buffer of a track it was told of, seeks in *)
(* it, and reports it finished.                                            *)
(*                                                                         *)
(* A file is a number of chunks to read; StreamSeek has its bytes.         *)
(* remove_input_item(), which nothing calls, is left out.                  *)
(***************************************************************************)
EXTENDS AsyncTasker, FiniteSets, SequencesExt

CONSTANTS Track,           \* the url ids of the tracks ever added
          MaxFinishFiles,  \* _max_finish_files
          Chunks,          \* bound: reads a whole file takes
          MaxJobs          \* bound: jobs waiting for the thread

ASSUME InputAssumption == /\ IsFiniteSet(Track)
                          /\ {MaxFinishFiles, Chunks, MaxJobs} \subseteq Nat \ {0}

VARIABLES
  state,          \* _current_state
  files,          \* _files
  finishedFiles,  \* _finished_files
  isOpen,         \* tracks whose _file is open
  hasBuf,         \* tracks with a _cache_buf
  left,           \* reads to go until the end of each file
  jobs,           \* the jobs posted and not yet run
  timers,         \* the timers of the async_tasker
  readTimer,      \* _file_read_timer
  added,          \* tracks the playlist manager added
  opened,         \* tracks reported open that the decoder manager has yet to take up
  decoding        \* tracks the decoder manager works on

lists   == <<files, finishedFiles, isOpen, left>>
clocks  == <<timers, readTimer>>
others  == <<added, decoding>>
vars    == <<state, lists, hasBuf, jobs, clocks, opened, others>>

PluginStates == {"play", "pause", "stop"}

Job(op, track) == [op |-> op, track |-> track]
Control(op)    == [op |-> op]

add_job(job) == jobs' = Append(jobs, job)

\* _current_state is not initialized.
Init ==
  /\ state \in PluginStates
  /\ files = <<>> /\ finishedFiles = <<>>
  /\ isOpen = {} /\ hasBuf = {} /\ left = [t \in Track |-> Chunks]
  /\ jobs = <<>> /\ timers = NoTimers /\ readTimer = NoTimer
  /\ added = {} /\ opened = {} /\ decoding = {}

-----------------------------------------------------------------------------
(* What other threads post.  Controls and seeks, of which there may be any  *)
(* number, are posted to a queue shorter than MaxJobs only.                 *)

\* playlist manager: add_input_item() of a new track
AddInputItem ==
  \E t \in Track \ added :
    /\ add_job(Job("add", t)) /\ added' = added \cup {t}
    /\ UNCHANGED <<state, lists, hasBuf, clocks, opened, decoding>>

\* playlist manager: cont(), pause() and stop()
ControlInput ==
  \E op \in PluginStates :
    /\ Len(jobs) < MaxJobs /\ add_job(Control(op))
    /\ UNCHANGED <<state, lists, hasBuf, clocks, opened, others>>

\* decoder manager: a track reported open gets its buffer.
SetCacheBuffer ==
  \E t \in opened :
    /\ add_job(Job("set_buf", t))
    /\ opened' = opened \ {t} /\ decoding' = decoding \cup {t}
    /\ UNCHANGED <<state, lists, hasBuf, clocks, added>>

\* Mutant of SeekCallback: the decoder seeks in a track it has not taken up.
SeekCallbackEarly ==
  \E t \in decoding \cup opened :
    /\ Len(jobs) < MaxJobs /\ add_job(Job("seek", t))
    /\ UNCHANGED <<state, lists, hasBuf, clocks, opened, others>>

\* decoder manager: seek_callback_job()
SeekCallback ==
  \E t \in decoding :
    /\ Len(jobs) < MaxJobs /\ add_job(Job("seek", t))
    /\ UNCHANGED <<state, lists, hasBuf, clocks, opened, others>>

\* decoder manager: decoder_finish(), once for a track; before the file was
\* read to the end when the track cannot be decoded or played.
DecoderFinish(t) ==
  /\ t \in decoding
  /\ add_job(Job("close", t))
  /\ decoding' = decoding \ {t}
  /\ UNCHANGED <<state, lists, hasBuf, clocks, opened, added>>

-----------------------------------------------------------------------------
(* try_read(), for the lists, the reads to go and the timers its caller has *)
(* got so far.                                                              *)

\* Mutant of Reschedule: the timer armed is not remembered.
RescheduleForget(fs, tm) ==
  /\ timers' = IF fs # <<>> /\ ~is_active_timer(tm, readTimer)
                 THEN CreateGetTimer(tm) ELSE tm
  /\ UNCHANGED readTimer

\* What SCOPE_EXIT does: while there is a file the timer is armed again.
Reschedule(fs, tm) ==
  IF fs # <<>> /\ ~is_active_timer(tm, readTimer)
    THEN timers' = CreateGetTimer(tm) /\ readTimer' = TimerToGet(tm)
    ELSE timers' = tm /\ UNCHANGED readTimer

\* The lists and the reads to go become these.
Set(fs, fin, lf) == files' = fs /\ finishedFiles' = fin /\ left' = lf

\* The file cannot be opened: it is dropped, and reported with _ok = false.
\* (The report is filled from the list node just erased; its receiver looks
\* at _ok only.)
OpenFails(fs, fin, lf, tm) ==
  /\ Head(fs) \notin isOpen
  /\ Set(Tail(fs), fin, lf) /\ UNCHANGED <<isOpen, opened>>
  /\ Reschedule(Tail(fs), tm)

\* The file is opened and reported; it has no buffer yet, so nothing is read.
OpenFile(fs, fin, lf, tm) ==
  /\ Head(fs) \notin isOpen
  /\ isOpen' = isOpen \cup {Head(fs)} /\ opened' = opened \cup {Head(fs)}
  /\ Set(fs, fin, lf)
  /\ Reschedule(fs, tm)

\* No chunk to read into: no buffer yet, or a full one.
NothingToReadInto(fs, fin, lf, tm) ==
  /\ Head(fs) \in isOpen
  /\ Set(fs, fin, lf) /\ UNCHANGED <<isOpen, opened>>
  /\ Reschedule(fs, tm)

\* Mutant of LastRead: a file positioned at its end is not at its end.
LastReadExactly(n) == n = 1

\* With n reads to go, this read comes to the end of the file.
LastRead(n) == n <= 1

\* A chunk is read; at the end of the file the track goes to _finished_files.
ReadChunk(fs, fin, lf, tm) ==
  LET t        == Head(fs)
      finished == LastRead(lf[t])
  IN /\ t \in isOpen \cap hasBuf
     /\ finished => Set(Tail(fs), Append(fin, t), [lf EXCEPT ![t] = 0])
     /\ ~finished => Set(fs, fin, [lf EXCEPT ![t] = @ - 1])
     /\ UNCHANGED <<isOpen, opened>>
     /\ Reschedule(IF finished THEN Tail(fs) ELSE fs, tm)

\* Mutant of Throttled: the limit is tested one too late.
ThrottledLate(fin) == Len(fin) > MaxFinishFiles

Throttled(fin) == Len(fin) >= MaxFinishFiles

\* try_read() returns at once when the player does not play, when there is no
\* file, and when the timer of the chain is armed.
MayRead(st, fs, tm) == st = "play" /\ fs # <<>> /\ ~is_active_timer(tm, readTimer)

try_read(st, fs, fin, lf, tm) ==
  \/ /\ ~MayRead(st, fs, tm)
     /\ Set(fs, fin, lf) /\ timers' = tm /\ UNCHANGED <<isOpen, opened, readTimer>>
  \/ /\ MayRead(st, fs, tm) /\ Throttled(fin)
     /\ Set(fs, fin, lf) /\ Reschedule(fs, tm) /\ UNCHANGED <<isOpen, opened>>
  \/ /\ MayRead(st, fs, tm) /\ ~Throttled(fin)
     /\ \/ OpenFails(fs, fin, lf, tm) \/ OpenFile(fs, fin, lf, tm)
        \/ NothingToReadInto(fs, fin, lf, tm) \/ ReadChunk(fs, fin, lf, tm)

-----------------------------------------------------------------------------
(* The jobs and the timer, as the thread of the plugin runs them.           *)

\* The first job is of this kind; it leaves the queue.
Takes(op) == jobs # <<>> /\ Head(jobs).op = op /\ jobs' = Tail(jobs)

\* Mutant of AddFile: the file is queued, and that is all.
AddFileQuiet ==
  /\ Takes("add") /\ files' = Append(files, Head(jobs).track)
  /\ UNCHANGED <<state, finishedFiles, isOpen, left, hasBuf, clocks, opened, others>>

\* add_file(): a player that plays posts itself a cont().
AddFile ==
  /\ jobs # <<>> /\ Head(jobs).op = "add"
  /\ files' = Append(files, Head(jobs).track)
  /\ jobs' = Tail(jobs) \o (IF state = "play" THEN <<Control("play")>> ELSE <<>>)
  /\ UNCHANGED <<state, finishedFiles, isOpen, left, hasBuf, clocks, opened, others>>

\* add_file() of a file that does not exist
AddFileMissing ==
  /\ Takes("add")
  /\ UNCHANGED <<state, lists, hasBuf, clocks, opened, others>>

\* cont(): play, and try to read.
Cont ==
  /\ Takes("play") /\ state' = "play"
  /\ try_read("play", files, finishedFiles, left, timers)
  /\ UNCHANGED <<hasBuf, others>>

\* pause() and stop() only set the state; the chain ends at the next expiry.
PauseOrStop ==
  \E op \in {"pause", "stop"} :
    /\ Takes(op) /\ state' = op
    /\ UNCHANGED <<lists, hasBuf, clocks, opened, others>>

\* set_cache_buffer(): only the files not yet read to the end are looked at.
set_cache_buffer ==
  /\ Takes("set_buf")
  /\ hasBuf' = hasBuf \cup ({Head(jobs).track} \cap Range(files))
  /\ UNCHANGED <<state, lists, clocks, opened, others>>

\* Mutant of seek_finished: the file stays among the finished ones.
seek_finishedTwice(t) == <<<<t>> \o files, finishedFiles>>

\* A file that was read to the end is the next to be read again.
seek_finished(t) == <<<<t>> \o files, RemoveFirst(finishedFiles, t)>>

\* seek_callback_internal(): the file is positioned anywhere; when there was
\* nothing to read the player plays, whatever its state and the file.
seek_callback_internal ==
  /\ Takes("seek")
  /\ LET t     == Head(jobs).track
         now   == IF t \in Range(finishedFiles) /\ t \notin Range(files)
                    THEN seek_finished(t) ELSE <<files, finishedFiles>>
         found == t \in Range(files) \cup Range(finishedFiles)
     IN \E lf \in IF found THEN {[left EXCEPT ![t] = n] : n \in 0 .. Chunks} ELSE {left} :
          IF files = <<>>
            THEN state' = "play" /\ try_read("play", now[1], now[2], lf, timers)
            ELSE Set(now[1], now[2], lf) /\ UNCHANGED <<state, isOpen, clocks, opened>>
  /\ UNCHANGED <<hasBuf, others>>

\* input_close(): the track leaves the list it is in, the finished ones first.
input_close ==
  /\ Takes("close")
  /\ LET t == Head(jobs).track
     IN IF t \in Range(finishedFiles)
          THEN finishedFiles' = RemoveFirst(finishedFiles, t) /\ UNCHANGED files
          ELSE files' = RemoveFirst(files, t) /\ UNCHANGED finishedFiles
  /\ UNCHANGED <<state, isOpen, left, hasBuf, clocks, opened, others>>

\* A timer expires: handle_timeout() retires it and calls try_read().
Timeout ==
  \E timer \in timers.active :
    /\ try_read(state, files, finishedFiles, left, HandleTimeout(timers, timer))
    /\ UNCHANGED <<state, hasBuf, jobs, others>>

RunJob == \/ AddFile \/ AddFileMissing \/ Cont \/ PauseOrStop \/ set_cache_buffer
          \/ seek_callback_internal \/ input_close

Post == \/ AddInputItem \/ ControlInput \/ SetCacheBuffer \/ SeekCallback
        \/ \E t \in Track : DecoderFinish(t)

Next == RunJob \/ Timeout \/ Post

Spec == Init /\ [][Next]_vars

\* The thread runs its jobs and its timers; the decoder manager takes up what
\* is reported open, and finishes what was read to the end; a file that could be
\* read, again and again, is: its decoder goes on emptying its buffer.
Fairness ==
  /\ WF_vars(RunJob) /\ WF_vars(Timeout) /\ WF_vars(SetCacheBuffer)
  /\ SF_vars(Timeout /\ <<files, isOpen, left>>' # <<files, isOpen, left>>)
  /\ \A t \in Track : WF_vars(t \in Range(finishedFiles) /\ DecoderFinish(t))

FairSpec == Spec /\ Fairness

-----------------------------------------------------------------------------
(* What is correct.                                                         *)

JobType == [op : {"add", "set_buf", "seek", "close"}, track : Track] \cup [op : PluginStates]

\* The values every variable may have.
TypeOK ==
  /\ state \in PluginStates
  /\ files \in Seq(Track) /\ finishedFiles \in Seq(Track)
  /\ isOpen \subseteq Track /\ hasBuf \subseteq Track
  /\ left \in [Track -> 0 .. Chunks]
  /\ jobs \in Seq(JobType)
  /\ timers.made \in Nat /\ timers \in TimersType(timers.made)
  /\ readTimer \in 0 .. timers.made
  /\ added \subseteq Track /\ opened \subseteq Track /\ decoding \subseteq Track

\* No track is twice among the files: a seek that takes a finished one back, and
\* the close_file() that finishes it once more, move it and never copy it.
TracksOnce == IsInjective(files \o finishedFiles)

\* At most one timer calls try_read(), the one the plugin remembers: cont(), a
\* new file and a seek may each have found no timer armed.
OneReadChain == timers.active \subseteq {readTimer}

\* A player that plays and has a file to read has the timer armed, or the job
\* that will arm it waits: nothing else calls try_read().
ChainAlive ==
  state = "play" /\ files # <<>> =>
    timers.active # {} \/ Control("play") \in Range(jobs)

\* seek_helper() empties the buffer of the track without looking whether it has
\* one: when a seek is the next job, a track that is listed has its buffer.
SeekHasBuffer ==
  jobs # <<>> /\ Head(jobs).op = "seek" =>
    {Head(jobs).track} \cap (Range(files) \cup Range(finishedFiles)) \subseteq hasBuf

\* No more than _max_finish_files files read to the end wait to be played,
\* whichever seeks took one back and had it read again.
FinishedBound == Len(finishedFiles) <= MaxFinishFiles

\* The player plays, and nobody seeks.
LeftAlone == state = "play" /\ \A i \in DOMAIN jobs : jobs[i].op # "seek"

\* When the player is left alone for good, every file that is listed is read to
\* its end, or given up: no timer is lost, and the limit on finished files holds
\* reading up only until one of them has been played.
EveryFileRead ==
  <>[]LeftAlone =>
    \A t \in Track : t \in Range(files) ~> t \notin Range(files)
=============================================================================
