--------------------------- MODULE DecoderManager ---------------------------
(***************************************************************************)
(* decoder_plugins_manager and its decoder plugins: the list of the tracks *)
(* to decode, the map of those decoded to the end, the decoders, and the   *)
(* jobs and timers that call decode_cont() again and again.  Each action   *)
(* is one job or one expiry of a timer on the thread of the manager, or    *)
(* what another thread does to it: the playlist manager adds, pauses,      *)
(* stops and seeks; the output takes up a track reported open, gives it a  *)
(* buffer, plays it and reports it finished.                               *)
(*                                                                         *)
(* A track is decoded by a number of calls of decode() the codec alone     *)
(* knows; StreamSeek has the bytes it reads.                               *)
(***************************************************************************)
EXTENDS AsyncTasker, FiniteSets, SequencesExt

CONSTANTS Track,      \* the url ids of the tracks ever added
          FlacTrack,  \* those decoded by decoder_plugin_flac, the others by ffmpeg
          NoTrack,    \* the null of get_finished_decoder_details()
          Room,       \* chunks of the buffer between decoder and output
          MaxSeeks,   \* bound: seeks of the user
          MaxJobs     \* bound: jobs waiting for the thread when a control is posted

ASSUME DecoderAssumption == /\ IsFiniteSet(Track) /\ FlacTrack \subseteq Track
                            /\ NoTrack \notin Track
                            /\ {Room, MaxJobs} \subseteq Nat \ {0} /\ MaxSeeks \in Nat

VARIABLES
  state,        \* _current_state
  list,         \* _decoder_detail_list
  finished,     \* _finished_decoder_detail_list: the track filed under each url id
  decoders,     \* tracks with a decoder in use (cache_manage of the plugin)
  outBuf,       \* tracks with an output buffer in their _output_buf_list
  room,         \* chunks free in the output buffer of each track
  jobs,         \* the jobs posted and not yet run
  timers,       \* the timers of the async_tasker
  decodeTimer,  \* _decode_timer
  polls,        \* the active timers that call cont_internal()
  added,        \* tracks the playlist manager added
  contDue,      \* it has yet to post the cont() that follows add_input_url_job()
  opened,       \* tracks reported open, on their way to the output
  sounds,       \* tracks in the queue of the output
  closed,       \* tracks whose _decoder_finish_callback was called
  seeks         \* seeks posted

clocks  == <<timers, decodeTimer, polls>>
decoded == <<list, finished, decoders, opened>>
output  == <<outBuf, sounds>>
user    == <<added, contDue, seeks>>
vars    == <<state, decoded, output, room, jobs, clocks, user, closed>>

\* Only play is told from the others: pause and stop are "idle".
PluginStates == {"play", "idle"}

Job(op, track) == [op |-> op, track |-> track]
Control(op)    == [op |-> op]

add_job(job) == jobs' = Append(jobs, job)

\* _current_state is not initialized.
Init ==
  /\ state \in PluginStates
  /\ list = <<>> /\ finished = [t \in Track |-> NoTrack] /\ decoders = {} /\ opened = <<>>
  /\ outBuf = {} /\ sounds = <<>> /\ room = [t \in Track |-> Room]
  /\ jobs = <<>> /\ timers = NoTimers /\ decodeTimer = NoTimer /\ polls = {}
  /\ added = {} /\ contDue = FALSE /\ seeks = 0 /\ closed = {}

-----------------------------------------------------------------------------
(* What other threads do.                                                   *)

\* playlist manager, input_opened_cb(): add_input_url_job() of a new track
AddInputUrl ==
  \E t \in Track \ added :
    /\ ~contDue /\ contDue' = TRUE
    /\ add_job(Job("add", t)) /\ added' = added \cup {t}
    /\ UNCHANGED <<state, decoded, output, room, clocks, seeks, closed>>

\* and then cont(), which no other call of the program posts.
ContAfterAdd ==
  /\ contDue /\ contDue' = FALSE
  /\ add_job(Control("play"))
  /\ UNCHANGED <<state, decoded, output, room, clocks, added, seeks, closed>>

\* playlist manager: pause() and stop()
ControlDecoder ==
  /\ Len(jobs) < MaxJobs /\ add_job(Control("idle"))
  /\ UNCHANGED <<state, decoded, output, room, clocks, user, closed>>

\* playlist manager, seek_duration_internal(): of the track that plays, or of
\* one that has just ended.
SeekDuration ==
  \E t \in Track :
    /\ \/ sounds # <<>> /\ t = Head(sounds)
       \/ t \in outBuf \ Range(sounds)
    /\ seeks < MaxSeeks /\ seeks' = seeks + 1
    /\ add_job(Job("seek", t))
    /\ UNCHANGED <<state, decoded, output, room, clocks, added, contDue, closed>>

\* output: add_sound_details_internal() calls set_cache_buffer() of the manager,
\* which looks for the track in its list, on the thread of the output.
set_cache_buffer ==
  /\ opened # <<>>
  /\ opened' = Tail(opened) /\ sounds' = Append(sounds, Head(opened))
  /\ outBuf' = outBuf \cup ({Head(opened)} \cap Range(list))
  /\ UNCHANGED <<state, list, finished, decoders, room, jobs, clocks, user, closed>>

\* output: a chunk of the track it plays was written, or its data cleared.
OutputPlays ==
  /\ sounds # <<>>
  /\ room' = [room EXCEPT ![Head(sounds)] = Room] /\ room' # room
  /\ UNCHANGED <<state, decoded, output, jobs, clocks, user, closed>>

\* output: its first track was played, or cannot be played, and leaves.
OutputFinishes ==
  /\ sounds # <<>>
  /\ add_job(Job("finish", Head(sounds)))
  /\ sounds' = Tail(sounds)
  /\ room' = [room EXCEPT ![Head(sounds)] = Room]
  /\ UNCHANGED <<state, decoded, outBuf, clocks, user, closed>>

\* output: stop_internal() finishes every track it has.
OutputStops ==
  /\ sounds # <<>>
  /\ jobs' = jobs \o [i \in DOMAIN sounds |-> Job("finish", sounds[i])]
  /\ sounds' = <<>>
  /\ room' = [t \in Track |-> IF t \in Range(sounds) THEN Room ELSE room[t]]
  /\ UNCHANGED <<state, decoded, outBuf, clocks, user, closed>>

-----------------------------------------------------------------------------
(* The decoder plugins.  What initialising a track may do: report it open,  *)
(* and post a job.  dcs is the set of decoders the caller has so far.       *)

Effect(opens, posts) == [opens |-> opens, posts |-> posts]
Nothing == Effect(<<>>, <<>>)

\* init_flac(): metadata_callback() reports the track open; when no metadata can
\* be read, as of a track closed already, nobody is told.
init_flac(t) == {Nothing} \cup (IF t \in closed THEN {} ELSE {Effect(<<t>>, <<>>)})

\* Mutant of init_ffmpeg: the end of a track that cannot be opened is not posted.
init_ffmpeg_quiet(t) == IF t \in closed THEN {} ELSE {Effect(<<t>>, <<>>), Nothing}

\* Mutant of init_ffmpeg: a track that cannot be opened is reported open too.
init_ffmpeg_both(t) == IF t \in closed THEN {} ELSE {Effect(<<t>>, <<>>), Effect(<<t>>, <<Job("finish", t)>>)}

\* init_ffmpeg(): the track is reported open, or its end is posted; it waits
\* without limit for the first data, which never come for a track closed already.
init_ffmpeg(t) == IF t \in closed THEN {} ELSE {Effect(<<t>>, <<>>), Effect(<<>>, <<Job("finish", t)>>)}

\* The plugin that matches the extension of the url
get_decoder_plugin(t) == IF t \in FlacTrack THEN "flac" ELSE "ffmpeg"

\* init_decode_internal_single() of the first track, unless it has a decoder.
init_decode_internal_single(lst, dcs) ==
  IF lst = <<>> \/ Head(lst) \in dcs THEN {Nothing}
    ELSE IF get_decoder_plugin(Head(lst)) = "flac" THEN init_flac(Head(lst)) ELSE init_ffmpeg(Head(lst))

FirstOf(lst) == IF lst = <<>> THEN {} ELSE {Head(lst)}

\* What the reads of the codec come to.  FLAC: a frame; or the end, be it of the stream
\* or because a read gave up.
read_callback_flac == {"frame", "end"}

\* ffmpeg: a read that fails otherwise than at the end of the stream may not be the end.
read_callback_ffmpeg == {"frame", "end", "nothing"}

\* decode(): nothing without a decoder
decode_flac(t, dcs) == IF t \in dcs THEN read_callback_flac ELSE {"nothing"}

decode_ffmpeg(t, dcs) == IF t \in dcs THEN read_callback_ffmpeg ELSE {"nothing"}

decode(t, dcs) == IF get_decoder_plugin(t) = "flac" THEN decode_flac(t, dcs) ELSE decode_ffmpeg(t, dcs)

\* Chunks free after a frame: flac's write_callback() fills one of n at most.
write_callback(n) == {n, n - 1}

\* A packet of ffmpeg may fill several; to wait for a free one is to write later.
decode_new(n) == 0 .. n

RoomAfterFrame(t) == IF get_decoder_plugin(t) = "flac" THEN write_callback(room[t]) ELSE decode_new(room[t])

-----------------------------------------------------------------------------
(* Calls within calls: lst, dcs, op, js and tm are the list, the decoders,  *)
(* the reports, the jobs and the timers its caller has so far.              *)

Set(lst, dcs, op, js) == list' = lst /\ decoders' = dcs /\ opened' = op /\ jobs' = js

\* finish_decode_internal_single() files the first track, whichever it is.
Filed(url_id, lst) == [finished EXCEPT ![url_id] = Head(lst)]

\* Mutant of NextTrack: the decoder of the track that ends is put back at once.
NextTrackPutBack(lst, dcs, op, js, posts) ==
  \E e \in init_decode_internal_single(Tail(lst), dcs) :
    Set(Tail(lst), (dcs \ {Head(lst)}) \cup FirstOf(Tail(lst)), op \o e.opens, js \o e.posts \o posts)

\* The end of finish_decode_internal_single(): the first track leaves, the next
\* one gets its decoder; then its caller posts.
NextTrack(lst, dcs, op, js, posts) ==
  \E e \in init_decode_internal_single(Tail(lst), dcs) :
    Set(Tail(lst), dcs \cup FirstOf(Tail(lst)), op \o e.opens, js \o e.posts \o posts)

MayDecode(st, lst, tm) == st = "play" /\ lst # <<>> /\ ~is_active_timer(tm, decodeTimer)

\* Mutant of NoRoom: a full buffer is not looked for.
NoRoomUnchecked(t) == t \notin outBuf

\* decode_cont() has nothing to write into: no output buffer yet, or a full one.
NoRoom(t) == t \notin outBuf \/ room[t] = 0

ArmTimer(tm) == timers' = CreateGetTimer(tm) /\ decodeTimer' = TimerToGet(tm)

Decode == Control("decode")

\* What decode_cont() posts in the end: itself, while there is a track.
Again(lst) == IF lst = <<>> THEN <<>> ELSE <<Decode>>

\* decode_cont() calls decode() of the first track.
DecodeFirst(lst, dcs, op, js, tm) ==
  LET t == Head(lst)
  IN /\ timers' = tm /\ UNCHANGED decodeTimer
     /\ \E result \in decode(t, dcs) :
          IF result = "end"
            THEN finished' = Filed(t, lst) /\ UNCHANGED room
                 /\ NextTrack(lst, dcs, op, js, Again(Tail(lst)))
            ELSE /\ \E n \in IF result = "frame" THEN RoomAfterFrame(t) ELSE {room[t]} :
                      room' = [room EXCEPT ![t] = n]
                 /\ Set(lst, dcs, op, js \o Again(lst)) /\ UNCHANGED finished

decode_cont(st, lst, dcs, op, js, tm) ==
  \/ /\ ~MayDecode(st, lst, tm)
     /\ Set(lst, dcs, op, js) /\ timers' = tm /\ UNCHANGED <<finished, room, decodeTimer>>
  \/ /\ MayDecode(st, lst, tm) /\ NoRoom(Head(lst))
     /\ Set(lst, dcs, op, js) /\ ArmTimer(tm) /\ UNCHANGED <<finished, room>>
  \/ /\ MayDecode(st, lst, tm) /\ ~NoRoom(Head(lst))
     /\ DecodeFirst(lst, dcs, op, js, tm)

\* cont_internal(): with an empty list it posts itself, to run in 100 ms.
cont_internal(st, js, tm) ==
  IF list = <<>>
    THEN /\ Set(list, decoders, opened, Append(js, Control("poll")))
         /\ timers' = tm /\ UNCHANGED <<finished, room, decodeTimer>>
    ELSE \E e \in init_decode_internal_single(list, decoders) :
           decode_cont(st, list, decoders \cup FirstOf(list), opened \o e.opens, js \o e.posts, tm)

-----------------------------------------------------------------------------
(* The jobs and the timers, as the thread of the manager runs them.         *)

\* The first job is of this kind.
Takes(op) == jobs # <<>> /\ Head(jobs).op = op

Rest == Tail(jobs)

\* add_input_url_job_internal(): the first track of a manager that plays makes
\* it post a cont() of its own.
add_input_url_job_internal ==
  /\ Takes("add")
  /\ Set(Append(list, Head(jobs).track), decoders, opened,
         Rest \o IF state = "play" /\ list = <<>> THEN <<Control("play")>> ELSE <<>>)
  /\ UNCHANGED <<state, finished, output, room, clocks, user, closed>>

\* cont()
Cont ==
  /\ Takes("play") /\ state' = "play"
  /\ cont_internal("play", Rest, timers)
  /\ UNCHANGED <<output, polls, user, closed>>

\* pause_internal() and stop_internal() do nothing: the lists stay.
PauseOrStop ==
  /\ Takes("idle") /\ state' = "idle" /\ jobs' = Rest
  /\ UNCHANGED <<decoded, output, room, clocks, user, closed>>

\* add_job() with a delay makes its timer on the thread.
ArmPoll ==
  /\ Takes("poll") /\ jobs' = Rest
  /\ timers' = CreateGetTimer(timers) /\ polls' = polls \cup {TimerToGet(timers)}
  /\ UNCHANGED <<state, decoded, output, room, decodeTimer, user, closed>>

DecodeCont ==
  /\ Takes("decode")
  /\ decode_cont(state, list, decoders, opened, Rest, timers)
  /\ UNCHANGED <<state, output, polls, user, closed>>

\* A timer expires: handle_timeout() retires it and calls its function.
Timeout(timer) ==
  /\ timer \in timers.active
  /\ IF timer \in polls
       THEN cont_internal(state, jobs, HandleTimeout(timers, timer)) /\ polls' = polls \ {timer}
       ELSE decode_cont(state, list, decoders, opened, jobs, HandleTimeout(timers, timer))
            /\ UNCHANGED polls
  /\ UNCHANGED <<state, output, user, closed>>

\* The track filed under an id, or none
get_finished_decoder_details(t) == finished[t]

\* The list when a seek of t begins: a finished track comes back to the front,
\* one that is listed moves there; one that is neither changes nothing.
SeekList(t) ==
  IF get_finished_decoder_details(t) # NoTrack
    THEN IF list # <<>> /\ Head(list) = t THEN list ELSE <<get_finished_decoder_details(t)>> \o list
    ELSE IF t \in Range(list) THEN <<t>> \o RemoveFirst(list, t) ELSE list

\* Mutant of seek_duration: decoding does not go on.
seek_duration_only ==
  /\ Takes("seek")
  /\ Set(SeekList(Head(jobs).track), decoders, opened, Rest)
  /\ UNCHANGED <<state, finished, output, room, clocks, user, closed>>

\* seek_duration(): whatever is first then is sought, and decoded.
seek_duration ==
  /\ Takes("seek")
  /\ decode_cont(state, SeekList(Head(jobs).track), decoders, opened, Rest, timers)
  /\ UNCHANGED <<state, output, polls, user, closed>>

\* play_finished_callback(): a track not yet decoded to its end is made to end;
\* when it is filed under its id it is closed, and its decoder put back.
play_finished_callback ==
  /\ Takes("finish")
  /\ LET t    == Head(jobs).track
         fin  == IF get_finished_decoder_details(t) = NoTrack THEN Filed(t, list) ELSE finished
         ours == fin[t] = t
         done == IF ours THEN {t} ELSE {}
     IN /\ IF get_finished_decoder_details(t) = NoTrack
             THEN \E e \in init_decode_internal_single(Tail(list), decoders) :
                    Set(Tail(list), (decoders \cup FirstOf(Tail(list))) \ done,
                        opened \o e.opens, Rest \o e.posts)
             ELSE Set(list, decoders \ done, opened, Rest)
        /\ finished' = IF ours THEN [fin EXCEPT ![t] = NoTrack] ELSE fin
        /\ closed' = closed \cup done
  /\ UNCHANGED <<state, output, room, clocks, user>>

RunJob == \/ add_input_url_job_internal \/ Cont \/ PauseOrStop \/ ArmPoll \/ DecodeCont
          \/ seek_duration \/ play_finished_callback

Others == \/ AddInputUrl \/ ContAfterAdd \/ ControlDecoder \/ SeekDuration
          \/ set_cache_buffer \/ OutputPlays \/ OutputFinishes \/ OutputStops

Next == RunJob \/ Others \/ \E timer \in timers.active : Timeout(timer)

Spec == Init /\ [][Next]_vars

\* The timers that the pool keeps; an instance has to have no others.
Timers == 1 .. MaxTimerCount

\* The thread runs its jobs and its timers; the playlist manager posts its cont();
\* the output takes up what is reported open, plays its first track, and reports
\* it finished when it was decoded to the end; and a codec that is called again
\* and again comes to the end of its track.
Fairness ==
  /\ WF_vars(RunJob) /\ \A timer \in Timers : WF_vars(Timeout(timer))
  /\ WF_vars(ContAfterAdd) /\ WF_vars(set_cache_buffer) /\ WF_vars(OutputPlays)
  /\ WF_vars(sounds # <<>> /\ finished[Head(sounds)] # NoTrack /\ OutputFinishes)
  /\ SF_vars((RunJob \/ \E timer \in Timers : Timeout(timer)) /\ Len(list') < Len(list))

FairSpec == Spec /\ Fairness

-----------------------------------------------------------------------------
(* What is correct.                                                         *)

JobType == [op : {"add", "seek", "finish"}, track : Track]
           \cup [op : PluginStates \cup {"decode", "poll"}]

\* The values every variable may have.
TypeOK ==
  /\ state \in PluginStates
  /\ list \in Seq(Track) /\ finished \in [Track -> Track \cup {NoTrack}]
  /\ decoders \subseteq Track /\ opened \in Seq(Track)
  /\ outBuf \subseteq Track /\ sounds \in Seq(Track) /\ room \in [Track -> 0 .. Room]
  /\ jobs \in Seq(JobType)
  /\ timers.made \in Nat /\ timers \in TimersType(timers.made)
  /\ decodeTimer \in 0 .. timers.made /\ polls \subseteq timers.active
  /\ added \subseteq Track /\ contDue \in BOOLEAN /\ closed \subseteq Track
  /\ seeks \in 0 .. MaxSeeks

\* A track a seek took back from the finished ones: it is listed, and filed too.
TakenBack == {t \in Range(list) : finished[t] = t}

\* A track the output has finished although it is still listed: a seek took it
\* back while its end was on its way.
ClosedButListed == closed \cap Range(list)

\* A manager that plays and has a track goes on: decode_cont() is posted or its
\* timer runs, or a cont() is on its way.  The chains that several cont() began
\* end at a timer, and none but the last may.
ChainAlive ==
  state = "play" /\ list # <<>> =>
    \/ timers.active # {} \/ contDue
    \/ \E i \in DOMAIN jobs : jobs[i].op \in {"decode", "play", "poll"}

\* The output reports a track finished that is neither filed nor the first of the
\* list only when a seek put another one there: the wrong track would be ended,
\* and this one be kept for good.
FinishMeetsItsTrack ==
  Takes("finish") =>
    LET t == Head(jobs).track
    IN \/ finished[t] = t
       \/ finished[t] = NoTrack /\ list # <<>>
          /\ (Head(list) = t \/ TakenBack \cup ClosedButListed # {})

\* When a seek is the next job, of a track that is filed under its id, or listed,
\* and that the output has not finished, the track that is first then has a decoder
\* (the FLAC library is given a null pointer else).  Not so when an end that met a
\* track taken back filed that other track under the id: its decoder may be gone.
SeekHasDecoder ==
  Takes("seek") =>
    LET t == Head(jobs).track
    IN (finished[t] = t \/ (finished[t] = NoTrack /\ t \in Range(list))) /\ t \notin closed
         => Head(SeekList(t)) \in decoders

\* The player plays and nobody seeks.
LeftAlone == state = "play" /\ \A i \in DOMAIN jobs : jobs[i].op # "seek"

\* The first track was not reported open, and its end not posted either: what
\* init_flac() does when it can read no metadata.
Unreported(t) ==
  /\ list # <<>> /\ Head(list) = t
  /\ t \in decoders /\ t \notin outBuf \cup Range(opened)

\* When the player is left alone for good, every track is decoded to its end or
\* given up, but for one a FLAC track without metadata holds up: no chain of
\* calls is lost when tracks are added, sought back, or ended by the output.
\* Not so when the output finishes a track that a seek has just taken back.
EveryTrackDecoded ==
  <>[]LeftAlone /\ [](ClosedButListed = {} /\ \A t \in Track : finished[t] \in {t, NoTrack}) =>
    \A t \in Track : t \in Range(list) ~> (t \notin Range(list) \/ \E u \in FlacTrack : Unreported(u))
=============================================================================
