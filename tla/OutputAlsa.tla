----------------------------- MODULE OutputAlsa -----------------------------
(***************************************************************************)
(* output_plugin_alsa and its base output_plugin_api: the queue of sounds, *)
(* the chain of timers that calls play(), and the sound card.  Each action *)
(* is one job or one expiry of a timer on the thread of the output, or a   *)
(* step of the decoder manager, which fills the buffer of a track, ends it *)
(* and seeks in it, or of the playlist manager, which adds and controls.   *)
(*                                                                         *)
(* A buffer is the sizes, in samples, of its chunks with data, and the     *)
(* samples of the chunk being filled; CacheBuffer has what they hold.      *)
(* Volume, the silence written before a drain and by fill_drain(), and an  *)
(* output whose card could not be opened at all are left out.              *)
(***************************************************************************)
EXTENDS AsyncTasker, CacheManage, Sums, FiniteSets, SequencesExt

CONSTANTS
  Length,     \* samples of each track
  Announced,  \* _total_samples when a track is opened: ffmpeg does not know them yet
  Formats,    \* the formats (rate, channels, bits) the tracks may have: functions on them
  CanPause,   \* _alsa_can_pause
  ChunkSize,  \* samples of a chunk
  ChunkCount, \* chunks of a buffer
  MaxSeeks,   \* bound: seeks of the user
  MaxJobs     \* bound: jobs waiting for the thread when a control is posted

ASSUME OutputAssumption ==
  /\ IsFiniteSet(Track) /\ Length \in [Track -> Nat \ {0}] /\ Announced \in [Track -> Nat]
  /\ CanPause \in BOOLEAN /\ \A f \in Formats : DOMAIN f = Track
  /\ {ChunkSize, ChunkCount, MaxJobs} \subseteq Nat \ {0} /\ MaxSeeks \in Nat

VARIABLES
  state,      \* _current_state
  queue,      \* _sound_details_queue
  prev,       \* the track of _prev_sound_details, or none
  initApi,    \* _init_api
  card,       \* the sound card: "setup", "ready" or "paused"
  cardFormat, \* the format it is set up for, or none
  paused,     \* _paused
  pool,       \* the buffers: the cache_manage of sound_plugin_api
  data,       \* sizes of the chunks with data of each buffer
  filling,    \* samples in the chunk of each buffer that the decoder fills
  jobs,       \* the jobs posted and not yet run
  timers,     \* the timers of the async_tasker
  playTimer,  \* _play_timer
  polls,      \* the active timers that call cont_internal()
  added,      \* tracks added; contDue: the cont() that follows is to be posted
  contDue,
  decoder,    \* what the decoder knows of each track
  reported,   \* tracks whose play finished callback was called
  seeks,      \* tracks sought, in order
  starved     \* the card plays on, without init_alsa(), after a sound that starved

device  == <<prev, initApi, card, cardFormat, paused, starved>>
buffers == <<data, filling>>
clocks  == <<timers, playTimer, polls>>
others  == <<added, contDue, decoder, seeks>>
vars    == <<state, queue, device, pool, buffers, jobs, clocks, others, reported>>

PluginStates == {"play", "pause", "stop"}

Job(op, track)     == [op |-> op, track |-> track]
Value(op, track, n) == [op |-> op, track |-> track, value |-> n]
Control(op)        == [op |-> op]

Buffer == 1 .. Cardinality(Track)

Init ==
  /\ state \in PluginStates /\ queue = <<>>
  /\ prev = {} /\ initApi = FALSE /\ card = "setup" /\ cardFormat = {} /\ paused = FALSE
  /\ pool = NoPool /\ data = [b \in Buffer |-> <<>>] /\ filling = [b \in Buffer |-> 0]
  /\ jobs = <<>> /\ timers = NoTimers /\ playTimer = NoTimer /\ polls = {}
  /\ added = {} /\ contDue = FALSE /\ reported = {} /\ seeks = <<>> /\ starved = FALSE
  /\ \E format \in Formats :
       decoder = [t \in Track |-> [format |-> format[t], buffer |-> 0, written |-> 0, rest |-> Length[t],
                                   total |-> Announced[t], ended |-> "no"]]

-----------------------------------------------------------------------------
(* The decoder manager and the playlist manager.                            *)

\* playlist manager, decoder_opened_cb(): add_sound_details(), of a track that is
\* opened when the one before it has ended,
AddSound ==
  \E t \in Track \ added :
    /\ ~contDue /\ contDue' = TRUE
    /\ \A u \in added \ reported : decoder[u].ended = "yes"
    /\ jobs' = Append(jobs, Job("add", t)) /\ added' = added \cup {t}
    /\ UNCHANGED <<state, queue, device, pool, buffers, clocks, decoder, seeks, reported>>

\* and cont().
ContAfterAdd ==
  /\ contDue /\ contDue' = FALSE
  /\ jobs' = Append(jobs, Control("play"))
  /\ UNCHANGED <<state, queue, device, pool, buffers, clocks, added, decoder, seeks, reported>>

\* playlist manager: pause() and stop()
ControlOutput ==
  \E op \in {"pause", "stop"} :
    /\ Len(jobs) < MaxJobs /\ jobs' = Append(jobs, Control(op))
    /\ UNCHANGED <<state, queue, device, pool, buffers, clocks, others, reported>>

\* A chunk of buffer b with n samples goes from the decoder to the output, unless
\* it has none.
PassOn(b, n) == IF n = 0 THEN data[b] ELSE Append(data[b], n)

\* decoder: a sample is written; a full chunk is passed on, and the very last data.
Decode(t) ==
  LET d == decoder[t]  b == d.buffer  n == filling[b] + 1
      last == d.written + 1 = d.total
  IN /\ b # 0 /\ d.rest > 0
     /\ Len(data[b]) < ChunkCount
     /\ decoder' = [decoder EXCEPT ![t].written = @ + 1, ![t].rest = @ - 1]
     /\ IF n = ChunkSize \/ last
          THEN data' = [data EXCEPT ![b] = PassOn(b, n)] /\ filling' = [filling EXCEPT ![b] = 0]
          ELSE filling' = [filling EXCEPT ![b] = n] /\ UNCHANGED data
     /\ UNCHANGED <<state, queue, device, pool, jobs, clocks, added, contDue, seeks, reported>>

\* decoder, finish_decode_internal_single(): the number of samples is corrected,
DecodeEnd(t) ==
  LET d == decoder[t]
  IN /\ d.buffer # 0 /\ d.rest = 0 /\ d.ended = "no"
     /\ jobs' = jobs \o IF d.written = d.total THEN <<>> ELSE <<Value("update", t, d.written)>>
     /\ decoder' = [decoder EXCEPT ![t].total = d.written, ![t].ended = "posted"]
     /\ UNCHANGED <<state, queue, device, pool, buffers, clocks, added, contDue, seeks, reported>>

\* and then sync_cache() passes on what is left.
SyncCache(t) ==
  LET d == decoder[t]
  IN /\ d.ended = "posted"
     /\ decoder' = [decoder EXCEPT ![t].ended = "yes"]
     /\ data' = [data EXCEPT ![d.buffer] = PassOn(d.buffer, filling[d.buffer])]
     /\ filling' = [filling EXCEPT ![d.buffer] = 0]
     /\ UNCHANGED <<state, queue, device, pool, jobs, clocks, added, contDue, seeks, reported>>

\* Samples to the end after a seek to sample n: FLAC finds it, or stays where it is;
flac_seek(t, n) == {Length[t] - n, decoder[t].rest}

\* ffmpeg does so, or finds one behind it, and never goes to the very start or end.
ffmpeg_seek(t, n) ==
  IF n \in {0, Length[t]} THEN {decoder[t].rest} ELSE {Length[t] - n, Length[t] - n - 1, decoder[t].rest}

InQueue(t) == {i \in DOMAIN queue : queue[i].track = t}

\* decoder, seek_duration(), of the track that plays or of one that has ended, for the
\* user seeks where the progress of a track is shown: decoding goes on, at sample n as
\* the manager takes for granted; the output gets a number of jobs.
SeekDuration(t) ==
  /\ Len(seeks) < MaxSeeks /\ seeks' = Append(seeks, t)
  /\ decoder[t].buffer # 0 /\ decoder[t].ended # "posted" /\ InQueue(t) \subseteq {1}
  /\ \E n \in 0 .. Length[t] : \E rest \in flac_seek(t, n) \cup ffmpeg_seek(t, n) :
       /\ decoder' = [decoder EXCEPT ![t].written = n, ![t].rest = rest, ![t].ended = "no"]
       /\ jobs' = jobs \o <<Control("pause_play"), Job("clear", t), Value("seek", t, n), Control("resume")>>
  /\ filling' = [filling EXCEPT ![decoder[t].buffer] = 0]
  /\ UNCHANGED <<state, queue, device, pool, data, clocks, added, contDue, reported>>

-----------------------------------------------------------------------------
(* The sound card.                                                          *)

\* pause_alsa(): a card that cannot pause is emptied, to be prepared again; one
\* that can is paused only when it runs.
pause_alsa ==
  /\ paused' = TRUE
  /\ card' \in IF paused \/ card # "ready" THEN {card} ELSE IF CanPause THEN {"ready", "paused"} ELSE {"setup"}

\* The card after unpause_alsa()
Unpaused ==
  IF ~paused THEN card
    ELSE IF card = "paused" \/ (~CanPause /\ cardFormat # {}) THEN "ready" ELSE card

same_as_before(t) == prev # {} /\ \A u \in prev : decoder[u].format = decoder[t].format

CardResult(ok, c, format) == [ok |-> ok, card |-> c, format |-> format]

\* init_hw_params(): the card takes the format, or refuses it and has none.
init_hw_params(t) == {CardResult(TRUE, "ready", {decoder[t].format}), CardResult(FALSE, "setup", {})}

\* init_sw_params() may fail although the card has the format.
init_sw_params(r) == {r, [r EXCEPT !.ok = FALSE]}

\* Mutant of init_alsa: the card is never set up again.
init_alsa_once(t, c) ==
  IF prev # {} THEN {CardResult(TRUE, c, cardFormat)}
    ELSE UNION {init_sw_params(r) : r \in init_hw_params(t)}

\* What init_alsa() may do for the first sound: nothing when its format is the
\* one before; else both are called.
init_alsa(t, c) ==
  IF same_as_before(t) THEN {CardResult(TRUE, c, cardFormat)}
    ELSE UNION {init_sw_params(r) : r \in init_hw_params(t)}

\* xrun_recovery(): playing goes on after an underrun, but not on a card that is not
\* set up.
xrun_recovery(c) == c # "setup"

\* poll_write(), direct_write(): the card has room for any number of the n samples
\* there are, and poll_write() may skip a period.
Written(n) == 0 .. n

-----------------------------------------------------------------------------
(* play(): c and p are the card and _paused, js the jobs and tm the timers    *)
(* that its caller leaves it.                                               *)

\* Mutant of is_no_job: the last sound counts as none.
is_no_job_last(q) == Len(q) <= 1

is_no_job(q) == q = <<>> \/ (Len(q) = 1 /\ Head(q).total = Head(q).written)

\* Mutant of ReArm: the timer is armed only when a sound waits behind the first.
ReArmLater(st, q, tm) ==
  IF st = "play" /\ Len(q) > 1
    THEN timers' = CreateGetTimer(tm) /\ playTimer' = TimerToGet(tm)
    ELSE timers' = tm /\ UNCHANGED playTimer

\* On every way out the timer is armed again while there is something to do.
ReArm(st, q, tm) ==
  IF st = "play" /\ ~is_no_job(q)
    THEN timers' = CreateGetTimer(tm) /\ playTimer' = TimerToGet(tm)
    ELSE timers' = tm /\ UNCHANGED playTimer

\* The card refuses the first sound: it is reported finished, and leaves.
PlayRefused(c, tm) ==
  /\ initApi' = FALSE /\ card' = c
  /\ data' = [data EXCEPT ![Head(queue).buffer] = <<>>]
  /\ reported' = reported \cup {Head(queue).track}
  /\ queue' = Tail(queue)
  /\ ReArm(state, queue', tm)
  /\ UNCHANGED <<state, pool, starved>>

\* No data came in two seconds: the sound leaves, and nobody is told.
PlayStarves(c, tm) ==
  /\ data[Head(queue).buffer] = <<>>
  /\ initApi' = TRUE /\ card' = c /\ starved' = TRUE
  /\ queue' = Tail(queue)
  /\ ReArm(state, queue', tm)
  /\ UNCHANGED <<state, pool, data, reported>>

\* A card that is not set up takes nothing.
PlayFails(c, tm) ==
  /\ data[Head(queue).buffer] # <<>> /\ ~xrun_recovery(c)
  /\ initApi' = TRUE /\ card' = c /\ starved' = (starved /\ initApi)
  /\ ReArm(state, queue, tm)
  /\ UNCHANGED <<state, queue, pool, data, reported>>

\* The data of a buffer without the first n samples, and without the rest of the
\* first chunk when the sound is finished.
Taken(chunks, n, isFinished) ==
  IF isFinished \/ n = Head(chunks) THEN Tail(chunks) ELSE [chunks EXCEPT ![1] = @ - n]

\* The first sound is finished: the card is drained unless the next has the format
\* it was set up for, and the buffer of t, which it was set up for, is given back.
SoundFinished(t, c, tm, taken) ==
  /\ queue' = Tail(queue) /\ reported' = reported \cup {Head(queue).track}
  /\ card' = IF queue' # <<>> /\ decoder[t].format = decoder[Head(queue').track].format THEN c ELSE "setup"
  /\ pool' = put_cache_back(pool, t)
  /\ data' = IF is_in_cache(pool, t) THEN [taken EXCEPT ![pool.used[t]] = <<>>] ELSE taken
  /\ initApi' = FALSE
  /\ state' = IF is_no_job(queue') THEN "stop" ELSE state
  /\ ReArm(state', queue', tm)

\* n samples of the first chunk go to a card set up for t.
PlayWrites(n, t, c, tm) ==
  LET b == Head(queue).buffer  written == Head(queue).written + n
      isFinished == written = Head(queue).total
      taken == [data EXCEPT ![b] = Taken(@, n, isFinished)]
  IN /\ starved' = (starved /\ initApi)
     /\ IF isFinished THEN SoundFinished(t, c, tm, taken)
          ELSE /\ queue' = [queue EXCEPT ![1].written = written] /\ data' = taken
               /\ card' = c /\ initApi' = TRUE
               /\ ReArm(state, queue', tm)
               /\ UNCHANGED <<state, pool, reported>>

\* Mutant of MayPlay: a timer that runs is not looked for.
MayPlayTwice(tm) == state = "play" /\ queue # <<>>

MayPlay(tm) == state = "play" /\ ~is_active_timer(tm, playTimer) /\ queue # <<>>

play(c, p, tm) ==
  IF ~MayPlay(tm)
    THEN card' = c /\ paused' = p /\ timers' = tm
         /\ UNCHANGED <<state, queue, prev, initApi, cardFormat, starved, pool, data, playTimer, reported>>
    ELSE \E r \in IF initApi THEN {CardResult(TRUE, c, cardFormat)} ELSE init_alsa(Head(queue).track, c) :
           /\ cardFormat' = r.format /\ paused' = (initApi /\ p)
           /\ prev' = IF initApi THEN prev ELSE {Head(queue).track}
           /\ \/ ~r.ok /\ PlayRefused(r.card, tm)
              \/ r.ok /\ (PlayStarves(r.card, tm) \/ PlayFails(r.card, tm))
              \/ /\ r.ok /\ data[Head(queue).buffer] # <<>> /\ xrun_recovery(r.card)
                 /\ \E n \in Written(Head(data[Head(queue).buffer])), t \in prev' : PlayWrites(n, t, r.card, tm)

-----------------------------------------------------------------------------
(* The jobs and the timers, as the thread of the output runs them.          *)

Takes(op) == jobs # <<>> /\ Head(jobs).op = op

Rest == Tail(jobs)

\* add_sound_details_internal(): the decoder is given the buffer.
add_sound_details_internal ==
  /\ Takes("add") /\ jobs' = Rest
  /\ LET t == Head(jobs).track
     IN /\ pool' = get_from_cache(pool, t)
        /\ queue' = Append(queue, [track |-> t, total |-> Announced[t], written |-> 0, buffer |-> pool'.used[t]])
        /\ decoder' = [decoder EXCEPT ![t].buffer = pool'.used[t]]
  /\ UNCHANGED <<state, device, buffers, clocks, added, contDue, seeks, reported>>

\* cont_internal() in state st: it waits for a sound, or sets the card up, whether
\* the card takes it or not, and posts the rest.
cont_internal(st, js, tm) ==
  /\ timers' = tm
  /\ IF queue = <<>> THEN jobs' = Append(js, Control("poll")) /\ UNCHANGED device
       ELSE /\ jobs' = Append(js, Control("resume"))
            /\ IF initApi \/ st # "play" THEN UNCHANGED device
                 ELSE \E r \in init_alsa(Head(queue).track, card) :
                        /\ initApi' = r.ok /\ card' = r.card /\ cardFormat' = r.format
                        /\ prev' = {Head(queue).track} /\ paused' = FALSE
                        /\ starved' = FALSE

Cont ==
  /\ Takes("play") /\ state' = "play"
  /\ cont_internal("play", Rest, timers)
  /\ UNCHANGED <<queue, pool, buffers, playTimer, polls, others, reported>>

\* add_job() with a delay makes its timer on the thread.
ArmPoll ==
  /\ Takes("poll") /\ jobs' = Rest
  /\ timers' = CreateGetTimer(timers) /\ polls' = polls \cup {TimerToGet(timers)}
  /\ UNCHANGED <<state, queue, device, pool, buffers, playTimer, others, reported>>

\* pause()
pause_internal ==
  /\ Takes("pause") /\ jobs' = Rest /\ pause_alsa /\ state' = "pause"
  /\ UNCHANGED <<queue, prev, initApi, cardFormat, starved, pool, buffers, clocks, others, reported>>

\* The pause_play() of a seek leaves the state as it is.
pause_play_internal ==
  /\ Takes("pause_play") /\ jobs' = Rest /\ pause_alsa
  /\ UNCHANGED <<state, queue, prev, initApi, cardFormat, starved, pool, buffers, clocks, others, reported>>

\* stop(): every sound is reported finished, and every buffer dropped; the card is
\* left as it is.
stop_internal ==
  /\ Takes("stop") /\ jobs' = Rest /\ state' = "stop"
  /\ reported' = reported \cup {queue[i].track : i \in DOMAIN queue}
  /\ queue' = <<>> /\ prev' = {} /\ initApi' = FALSE /\ pool' = reset(pool)
  /\ data' = [b \in Buffer |-> IF \E i \in DOMAIN queue : queue[i].buffer = b THEN <<>> ELSE data[b]]
  /\ UNCHANGED <<card, cardFormat, paused, starved, filling, clocks, others>>

\* resume_play_internal(), and resume_clear_play_internal() of a seek
ResumePlay ==
  /\ Takes("resume") /\ jobs' = Rest
  /\ play(Unpaused, FALSE, timers)
  /\ UNCHANGED <<filling, polls, others>>

update_total_samples_internal ==
  /\ Takes("update") /\ jobs' = Rest
  /\ queue' = [i \in DOMAIN queue |->
                 IF queue[i].track = Head(jobs).track THEN [queue[i] EXCEPT !.total = Head(jobs).value] ELSE queue[i]]
  /\ UNCHANGED <<state, device, pool, buffers, clocks, others, reported>>

clear_play_data_internal ==
  /\ Takes("clear") /\ jobs' = Rest
  /\ data' = [b \in Buffer |-> IF \E i \in InQueue(Head(jobs).track) : queue[i].buffer = b THEN <<>> ELSE data[b]]
  /\ UNCHANGED <<state, queue, device, pool, filling, clocks, others, reported>>

\* Mutant of set_seek_duration_internal: a copy of the sound is given the position.
set_seek_duration_copy ==
  /\ Takes("seek") /\ jobs' = Rest
  /\ UNCHANGED <<state, queue, device, pool, buffers, clocks, others, reported>>

set_seek_duration_internal ==
  /\ Takes("seek") /\ jobs' = Rest
  /\ queue' = [i \in DOMAIN queue |->
                 IF queue[i].track = Head(jobs).track THEN [queue[i] EXCEPT !.written = Head(jobs).value] ELSE queue[i]]
  /\ UNCHANGED <<state, device, pool, buffers, clocks, others, reported>>

\* A timer expires: handle_timeout() retires it and calls its function.
Timeout(timer) ==
  /\ timer \in timers.active
  /\ IF timer \in polls
       THEN /\ cont_internal(state, jobs, HandleTimeout(timers, timer)) /\ polls' = polls \ {timer}
            /\ UNCHANGED <<state, queue, pool, data, playTimer, reported>>
       ELSE play(card, paused, HandleTimeout(timers, timer)) /\ UNCHANGED <<polls, jobs>>
  /\ UNCHANGED <<filling, others>>

RunJob == \/ add_sound_details_internal \/ Cont \/ ArmPoll \/ pause_internal \/ pause_play_internal \/ stop_internal \/ ResumePlay
          \/ update_total_samples_internal \/ clear_play_data_internal \/ set_seek_duration_internal

Decoder == \E t \in Track : Decode(t) \/ DecodeEnd(t) \/ SyncCache(t) \/ SeekDuration(t)

Next == RunJob \/ Decoder \/ AddSound \/ ContAfterAdd \/ ControlOutput
        \/ \E timer \in timers.active : Timeout(timer)

Spec == Init /\ [][Next]_vars

\* The timers that the pool keeps; an instance has to have no others.
Timers == 1 .. MaxTimerCount

\* The thread runs its jobs and timers; a card that is asked again and again takes
\* data; the decoder decodes to the end; the playlist manager posts its cont().
Fairness ==
  /\ WF_vars(RunJob) /\ WF_vars(ContAfterAdd)
  /\ \A timer \in Timers : WF_vars(Timeout(timer))
  /\ SF_vars(\E timer \in Timers : Timeout(timer) /\ data' # data)
  /\ \A t \in Track : WF_vars(Decode(t)) /\ WF_vars(DecodeEnd(t)) /\ WF_vars(SyncCache(t))

FairSpec == Spec /\ Fairness

-----------------------------------------------------------------------------
(* What is correct.                                                         *)

JobType == [op : {"add", "clear"}, track : Track]
           \cup [op : {"update", "seek"}, track : Track, value : Nat]
           \cup [op : PluginStates \cup {"poll", "resume", "pause_play"}]

\* The values every variable may have: one timer at most calls play(), a buffer has no
\* more chunks than there are, and no two tracks have one buffer.
TypeOK ==
  /\ state \in PluginStates
  /\ queue \in Seq([track : Track, total : Nat, written : Nat, buffer : Buffer])
  /\ prev \subseteq Track /\ initApi \in BOOLEAN /\ paused \in BOOLEAN /\ starved \in BOOLEAN
  /\ card \in {"setup", "ready", "paused"} /\ cardFormat \subseteq UNION {Range(f) : f \in Formats}
  /\ pool \in PoolType(Cardinality(Track))
  /\ \A t, u \in Track : pool.used[t] = pool.used[u] => t = u \/ ~is_in_cache(pool, t)
  /\ \A b \in Buffer : /\ Len(data[b]) <= ChunkCount /\ \A i \in DOMAIN data[b] : data[b][i] \in 1 .. ChunkSize
                       /\ filling[b] \in 0 .. ChunkSize - 1
  /\ jobs \in Seq(JobType)
  /\ timers.made \in Nat /\ timers \in TimersType(timers.made)
  /\ playTimer \in 0 .. timers.made
  /\ polls \subseteq timers.active /\ timers.active \ polls \subseteq {playTimer}
  /\ added \subseteq Track /\ contDue \in BOOLEAN /\ reported \subseteq added /\ seeks \in Seq(Track)

\* The card takes nothing, and play() does not set it up.
Deaf == initApi /\ (card = "setup" \/ (card = "paused" /\ ~paused))

\* An output that plays and has something to play goes on: its timer runs, or a
\* job is posted that begins anew.  Not so when the card is left without setup: a
\* sound sought to its very end is then taken for one that is played; nor when the
\* sound was of unknown length, which counts as none behind one the card refused.
PlayChainAlive ==
  state = "play" /\ queue # <<>> /\ Announced[Head(queue).track] # 0 /\ ~Deaf =>
    \/ timers.active # {} \/ contDue
    \/ \E i \in DOMAIN jobs : jobs[i].op \in {"play", "resume", "poll"}

\* No sample is lost or played twice: of a sound in the queue, what was written and
\* what its buffer holds is what was decoded.  Once it was sought there may be
\* less: what was decoded before the output ran the jobs of the seek is cleared.
SamplesAccounted ==
  \A i \in DOMAIN queue :
    LET t == queue[i].track  b == queue[i].buffer
        known == queue[i].written + Total(data[b]) + filling[b]
    IN t \notin {jobs[j].track : j \in {k \in DOMAIN jobs : jobs[k].op \in {"clear", "seek"}}} =>
         known <= decoder[t].written /\ (t \notin Range(seeks) => known = decoder[t].written)

\* The card has the format of the sound that plays, or has none as it refused it:
\* not so when the sound before starved, as the card is then not set up again.
CardFormat ==
  initApi /\ queue # <<>> /\ ~starved => cardFormat \subseteq {decoder[Head(queue).track].format}

\* Nobody pauses or stops the output.
LeftAlone == state # "pause" /\ \A i \in DOMAIN jobs : jobs[i].op \notin {"pause", "stop"}

\* Left alone for good, the output reports every sound finished, be its number of
\* samples corrected before or after they are played; but for one that is sought or
\* that starves, and if the card is not left without setup.
EverySoundReported ==
  <>[]LeftAlone /\ [](~Deaf /\ ~starved /\ seeks = <<>>) =>
    \A t \in Track : t \in added ~> t \in reported
=============================================================================
