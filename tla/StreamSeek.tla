----------------------------- MODULE StreamSeek -----------------------------
(***************************************************************************)
(* One track on its way from the file to the decoder: input_plugin_file    *)
(* (try_read, seek_callback_internal) on the input thread fills the        *)
(* cache_buffer of the track, decoder_plugins_manager                      *)
(* (decoder_read_buffer, update_dec_detail_seek) on the decoder thread     *)
(* empties it and seeks in it, posting a job to the input thread when the  *)
(* buffer does not hold the byte it seeks.                                 *)
(*                                                                         *)
(* A byte is represented by its position in the file, so that a wrong byte *)
(* shows.  The rotation of a chunk is one step here: CacheBuffer has its   *)
(* parts, and shows that nothing is lost between them.  The track stays in *)
(* the lists of the input plugin, and the player plays, for the whole      *)
(* behaviour.                                                              *)
(***************************************************************************)
EXTENDS Sums, SequencesExt, FiniteSetsExt

CONSTANTS StreamLength,      \* _stream_length = _file_size
          BufferSizeCount,   \* chunks of the cache_buffer
          ElemSize,          \* bytes a chunk holds
          MaxFileChunkSize,  \* _max_file_chunk_size: bytes one try_read() reads
          MaxRead,           \* bound: bytes the decoder library asks for at once
          Seeks,             \* <<from, to>>: the seeks the decoder library makes
          SeekAgain,         \* may it seek again before it reads?
          SeekFarBack,       \* may it seek back beyond the bytes of its last read?
          MaxSeekJobs        \* bound: seek jobs waiting for the input thread

ASSUME StreamAssumption ==
  /\ {StreamLength, BufferSizeCount, ElemSize, MaxFileChunkSize, MaxRead, MaxSeekJobs}
       \subseteq Nat \ {0}
  /\ Seeks \subseteq Int \X Int
  /\ {SeekAgain, SeekFarBack} \subseteq BOOLEAN

VARIABLES
  dataQ,     \* _data_buffer: the filled chunks, front first
  front,     \* the front chunk of _cache_buffer, the one being filled
  free,      \* number of chunks in _cache_buffer, the front one included
  filePos,   \* tellg() of the file, and _current_read_so_far
  finished,  \* is the track in _finished_files (or in _files)?
  iPc,       \* the input thread: between jobs, or about to call cont_internal()
  seekJobs,  \* the seek_callback jobs posted to the input thread
  dPc,       \* where the decoder thread is
  streamPos, \* _current_stream_pos
  lastRead,  \* _last_read_buffer
  got,       \* the bytes copied to the decoder library by the current read
  want,      \* bytes still to copy, or still to discard
  seekTo,    \* seek_point
  fresh      \* has the decoder library read since its last seek?

input   == <<front, free, filePos, finished, iPc>>
decoder == <<dPc, streamPos, lastRead, got, want, seekTo, fresh>>
vars    == <<dataQ, input, seekJobs, decoder>>

Empty == [first |-> 0, bytes |-> <<>>]

Min2(a, b) == IF a <= b THEN a ELSE b

\* The bytes of the file from position p on, n of them.
FileBytes(p, n) == [i \in 1 .. n |-> p + i - 1]

\* _total_bytes_in_buffer, which counts the chunk being filled too
totalBytes == Total([i \in 1 .. Len(dataQ) |-> Len(dataQ[i].bytes)]) + Len(front.bytes)

Init ==
  /\ dataQ = <<>> /\ front = Empty /\ free = BufferSizeCount
  /\ filePos = 0 /\ finished = FALSE /\ iPc = "idle" /\ seekJobs = <<>>
  /\ dPc = "idle" /\ streamPos = 0 /\ lastRead = <<>> /\ got = <<>>
  /\ want = 0 /\ seekTo = 0 /\ fresh = TRUE

-----------------------------------------------------------------------------
(* The input thread.                                                       *)

ReadCount == Min2(Min2(MaxFileChunkSize, ElemSize - Len(front.bytes)), StreamLength - filePos)

IsFileFinished == filePos + ReadCount = StreamLength

\* Mutant of ByteStart: tellg() is called after the read.
ByteStartAfter == IF front.bytes = <<>> THEN filePos + ReadCount ELSE front.first

\* The byte_start_position of the front chunk, set when its first bytes come.
ByteStart == IF front.bytes = <<>> THEN filePos ELSE front.first

\* Mutant of IsChunkReady: the last chunk of the file is not passed on.
IsChunkReadyFull(chunk) == Len(chunk.bytes) = ElemSize

IsChunkReady(chunk) == IsFileFinished \/ Len(chunk.bytes) = ElemSize

\* Mutant of PassOn: the chunk is not taken from _cache_buffer.
PassOnKeep(chunk) ==
  /\ dataQ' = IF chunk.bytes = <<>> THEN dataQ ELSE Append(dataQ, chunk)
  /\ front' = Empty /\ UNCHANGED free

\* rotate_cache(), which drops an empty chunk
PassOn(chunk) ==
  /\ dataQ' = IF chunk.bytes = <<>> THEN dataQ ELSE Append(dataQ, chunk)
  /\ front' = Empty /\ free' = free - 1

\* The file is read into the front chunk.  At its end the track moves to
\* _finished_files.
ReadFile ==
  LET chunk == [first |-> ByteStart, bytes |-> front.bytes \o FileBytes(filePos, ReadCount)]
  IN /\ filePos' = filePos + ReadCount
     /\ finished' = IsFileFinished
     /\ IF IsChunkReady(chunk)
          THEN PassOn(chunk)
          ELSE front' = chunk /\ UNCHANGED <<dataQ, free>>

\* try_read(), run again and again by its timer while the track is in _files,
\* and at once by the cont_internal() of a seek of a finished track.
TryRead ==
  /\ ~finished
  /\ IF free > 0 THEN ReadFile ELSE UNCHANGED <<dataQ, front, free, filePos, finished>>
  /\ iPc' = "idle"
  /\ UNCHANGED <<seekJobs, decoder>>

\* Mutant of SeekCallback: the bytes of the chunk being filled are kept.
SeekCallbackKeep ==
  /\ iPc = "idle" /\ seekJobs # <<>>
  /\ seekJobs' = Tail(seekJobs)
  /\ filePos' = Head(seekJobs)
  /\ finished' = FALSE
  /\ iPc' = IF finished THEN "cont" ELSE "idle"
  /\ UNCHANGED <<dataQ, front, free, decoder>>

\* seek_callback_internal(), seek_helper(): clear_cache(), seekg(), and a
\* finished track goes back to the front of _files.
SeekCallback ==
  /\ iPc = "idle" /\ seekJobs # <<>>
  /\ seekJobs' = Tail(seekJobs)
  /\ front' = Empty
  /\ filePos' = Head(seekJobs)
  /\ finished' = FALSE
  /\ iPc' = IF finished THEN "cont" ELSE "idle"
  /\ UNCHANGED <<dataQ, free, decoder>>

-----------------------------------------------------------------------------
(* The decoder thread: decoder_read_buffer().                              *)

\* The codec is told the end of its stream by this.
decoder_is_exhausted == streamPos = StreamLength

ReadCall ==
  /\ dPc = "idle"
  /\ \E size \in 1 .. MaxRead : want' = Min2(size, StreamLength - streamPos)
  /\ dPc' = IF streamPos < StreamLength THEN "readWait" ELSE "copy"
  /\ lastRead' = <<>>
  /\ UNCHANGED <<dataQ, input, seekJobs, streamPos, got, seekTo, fresh>>

Enough == totalBytes >= want /\ dataQ # <<>>

ReadReady ==
  /\ dPc = "readWait" /\ Enough
  /\ dPc' = "copy"
  /\ UNCHANGED <<dataQ, input, seekJobs, streamPos, lastRead, got, want, seekTo, fresh>>

\* After twenty waits of 100 ms without a change the read fails.
ReadGiveUp ==
  /\ dPc = "readWait" /\ ~Enough
  /\ dPc' = "idle" /\ want' = 0
  /\ UNCHANGED <<dataQ, input, seekJobs, streamPos, lastRead, got, seekTo, fresh>>

\* erase_begin(n) of the front chunk, first -= n, and the rotation of a chunk
\* that got empty back to _cache_buffer.
Drop(n) ==
  LET c == Head(dataQ)
  IN IF n = Len(c.bytes)
       THEN /\ dataQ' = Tail(dataQ)
            /\ free' = free + 1
       ELSE /\ dataQ' = [dataQ EXCEPT ![1] =
                           [first |-> c.first - n,
                            bytes |-> SubSeq(c.bytes, n + 1, Len(c.bytes))]]
            /\ UNCHANGED free

CanTake == Min2(want, Len(Head(dataQ).bytes))

\* one level of write_into_raw_buffer()
CopyChunk ==
  /\ dPc = "copy" /\ want > 0 /\ dataQ # <<>>
  /\ got' = got \o SubSeq(Head(dataQ).bytes, 1, CanTake)
  /\ Drop(CanTake)
  /\ want' = want - CanTake
  /\ UNCHANGED <<front, filePos, finished, iPc, seekJobs, dPc, streamPos, lastRead, seekTo, fresh>>

\* The library may be handed fewer bytes than it asked for: those in the chunk
\* being filled count for the wait but cannot be copied.
ReadDone ==
  /\ dPc = "copy" /\ (want = 0 \/ dataQ = <<>>)
  /\ dPc' = "idle" /\ want' = 0
  /\ streamPos' = streamPos + Len(got)
  /\ lastRead' = got /\ got' = <<>> /\ fresh' = TRUE
  /\ UNCHANGED <<dataQ, input, seekJobs, seekTo>>

-----------------------------------------------------------------------------
(* The decoder thread: update_dec_detail_seek().                           *)

\* Go on from stream position pos: discard what the buffer has of the way, or
\* leave it to the input thread.
DiscardOrAsk(pos, to) ==
  LET needPos == to - pos
  IN IF needPos >= 0 /\ needPos - totalBytes <= 0
       THEN dPc' = "discard" /\ want' = needPos /\ UNCHANGED seekJobs
       ELSE dPc' = "seekWait" /\ seekJobs' = Append(seekJobs, to) /\ UNCHANGED want

\* A short way back is covered by the bytes of the last read.
Covered(to) == to < streamPos /\ streamPos - to < Len(lastRead)

\* seek_callback() of the codec: it seeks within the file, its end included.
seek_callback(to) == to \in 0 .. StreamLength

SeekCall ==
  /\ dPc = "idle" /\ (fresh \/ SeekAgain) /\ Len(seekJobs) < MaxSeekJobs
  /\ \E s \in Seeks :
       /\ s[1] = streamPos /\ seek_callback(s[2])
       /\ SeekFarBack \/ s[2] >= streamPos \/ Covered(s[2])
       /\ seekTo' = s[2]
       /\ IF Covered(s[2])
            THEN dPc' = "rewind" /\ UNCHANGED <<seekJobs, want>>
            ELSE DiscardOrAsk(streamPos, s[2])
  /\ fresh' = FALSE
  /\ UNCHANGED <<dataQ, input, streamPos, lastRead, got>>

\* Mutant of Rewind: the first bytes of the last read are put back.
RewindHead ==
  /\ dPc = "rewind" /\ dataQ # <<>>
  /\ LET needPos == streamPos - seekTo
     IN dataQ' = [dataQ EXCEPT ![1] =
                    [first |-> seekTo, bytes |-> SubSeq(lastRead, 1, needPos) \o @.bytes]]
  /\ streamPos' = seekTo
  /\ dPc' = "discard" /\ want' = 0
  /\ UNCHANGED <<input, seekJobs, lastRead, got, seekTo, fresh>>

\* The end of the last read is put back before the front chunk, and nothing is
\* left to discard.
Rewind ==
  /\ dPc = "rewind" /\ dataQ # <<>>
  /\ LET needPos == streamPos - seekTo
     IN dataQ' = [dataQ EXCEPT ![1] =
                    [first |-> seekTo,
                     bytes |-> SubSeq(lastRead, Len(lastRead) - needPos + 1, Len(lastRead))
                                 \o @.bytes]]
  /\ streamPos' = seekTo
  /\ dPc' = "discard" /\ want' = 0
  /\ UNCHANGED <<input, seekJobs, lastRead, got, seekTo, fresh>>

\* After twenty waits of 100 ms without data the seek fails.
RewindGiveUp ==
  /\ dPc = "rewind" /\ dataQ = <<>>
  /\ dPc' = "idle"
  /\ UNCHANGED <<dataQ, input, seekJobs, streamPos, lastRead, got, want, seekTo, fresh>>

\* one level of discard_data_upto(), which waits for data without limit
Discard ==
  /\ dPc = "discard" /\ want > 0 /\ dataQ # <<>>
  /\ Drop(CanTake)
  /\ want' = want - CanTake
  /\ UNCHANGED <<front, filePos, finished, iPc, seekJobs, dPc, streamPos, lastRead, got, seekTo, fresh>>

DiscardDone ==
  /\ dPc = "discard" /\ want = 0
  /\ dPc' = "idle" /\ streamPos' = seekTo
  /\ UNCHANGED <<dataQ, input, seekJobs, lastRead, got, want, seekTo, fresh>>

\* A chunk that does not start at seek_point is cleared and given back.
SeekSkip ==
  /\ dPc = "seekWait" /\ dataQ # <<>> /\ Head(dataQ).first # seekTo
  /\ dataQ' = Tail(dataQ) /\ free' = free + 1
  /\ UNCHANGED <<front, filePos, finished, iPc, seekJobs, decoder>>

\* Mutant of SeekFound: the first chunk that arrives is taken.
SeekFoundAny ==
  /\ dPc = "seekWait" /\ dataQ # <<>>
  /\ dPc' = "idle" /\ streamPos' = seekTo
  /\ UNCHANGED <<dataQ, input, seekJobs, lastRead, got, want, seekTo, fresh>>

SeekFound ==
  /\ dPc = "seekWait" /\ dataQ # <<>> /\ Head(dataQ).first = seekTo
  /\ dPc' = "idle" /\ streamPos' = seekTo
  /\ UNCHANGED <<dataQ, input, seekJobs, lastRead, got, want, seekTo, fresh>>

Input == TryRead \/ SeekCallback

DecoderCall == ReadCall \/ SeekCall

DecoderStep == \/ ReadReady \/ ReadGiveUp \/ CopyChunk \/ ReadDone
               \/ Rewind \/ RewindGiveUp \/ Discard \/ DiscardDone
               \/ SeekSkip \/ SeekFound

Next == Input \/ DecoderCall \/ DecoderStep

Spec == Init /\ [][Next]_vars

\* The timer of try_read() and the job queue of the input thread run as long as
\* there is work, and the decoder thread runs its calls to their end; nothing
\* obliges the decoder library to call.
Fairness == WF_vars(TryRead) /\ WF_vars(SeekCallback) /\ WF_vars(DecoderStep)

FairSpec == Spec /\ Fairness

\* As FairSpec, with a decoder library that goes on reading.
ReadingSpec == FairSpec /\ WF_vars(ReadCall)

-----------------------------------------------------------------------------
(* Properties.                                                             *)

Positions == 0 .. StreamLength

\* Every variable has its type, and the chunks of the pool are accounted for.
TypeOK ==
  /\ \A i \in 1 .. Len(dataQ) : /\ dataQ[i].first \in Int
                                /\ dataQ[i].bytes \in Seq(Positions) \ {<<>>}
  /\ front.first \in Int /\ front.bytes \in Seq(Positions)
  /\ free \in 0 .. BufferSizeCount /\ free + Len(dataQ) <= BufferSizeCount
  /\ filePos \in Positions /\ finished \in BOOLEAN /\ iPc \in {"idle", "cont"}
  /\ seekJobs \in Seq(Positions)
  /\ dPc \in {"idle", "readWait", "copy", "rewind", "discard", "seekWait"}
  /\ streamPos \in Positions /\ lastRead \in Seq(Positions) /\ got \in Seq(Positions)
  /\ want \in 0 .. StreamLength /\ seekTo \in Positions /\ fresh \in BOOLEAN

\* The bytes within the file that the codec seeks forward to
SoughtAhead == {s[2] : s \in {r \in Seeks : r[1] < r[2] /\ seek_callback(r[2])}}

\* A codec that reads between two seeks, seeks back by less than its last read, and
\* forward to no byte at which a chunk starts when the file is read from its beginning
\* or from a byte sought before.
GentleCodec ==
  /\ ~SeekAgain /\ ~SeekFarBack
  /\ \A begin \in {0} \cup SoughtAhead, to \in SoughtAhead, k \in 0 .. StreamLength :
       begin < to => to # begin + k * ElemSize

\* decoder_read_buffer() hands the decoder library the bytes of the file that
\* follow _current_stream_pos, whatever was read ahead, put back, discarded or
\* fetched again before.
DeliveredInOrder == got = FileBytes(streamPos, Len(got))

\* "byte_start_position" (cache_buffer.h) is what a seek compares: the chunk it
\* accepts starts with the byte it seeks.
FirstIsByteStart ==
  dPc = "seekWait" /\ dataQ # <<>> /\ Head(dataQ).first = seekTo
    => Head(dataQ).bytes[1] = seekTo

\* "we already have the seek data very nice ..." (decoder_plugins_manager.cpp):
\* a seek answered from the buffer ends at the byte it seeks.
BufferHasSeekData ==
  dPc = "discard" /\ want = 0 /\ dataQ # <<>> => Head(dataQ).bytes[1] = seekTo

\* "wait till data arrives ..." (decoder_plugins_manager.cpp): the data of a
\* seek that is left to the input thread arrives, and the seek ends.
SeekEnds == dPc = "seekWait" ~> dPc = "idle"

\* A decoder that goes on reading, and at some time seeks for the last time,
\* gets to the end of the file.
WholeFileRead == <>[][~SeekCall]_vars => <>decoder_is_exhausted
=============================================================================
