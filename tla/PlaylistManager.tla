--------------------------- MODULE PlaylistManager ---------------------------
(***************************************************************************)
(* playlist_management_plugin_imp and the user interface above it.  The     *)
(* manager runs the jobs posted to it in order, on its thread; it calls the *)
(* user interface back, whose thread runs the callbacks in order; and the   *)
(* user acts on the rows, the tabs and the slider as they are shown.        *)
(*                                                                          *)
(* What the manager starts goes through input, decoder and output; here it  *)
(* is a pipeline of tracks, each opened by the input, then by the decoder,  *)
(* then played in turn, with its progress told.  A stop empties it.  Tags,  *)
(* names, saving to a file and the drawing of the interface are left out.   *)
(***************************************************************************)
EXTENDS Playlist

CONSTANTS
  MaxUser,   \* bound: actions of the user
  MaxLoad,   \* bound: items of a playlist that is loaded
  MaxAdd,    \* bound: items added at once
  MaxUrls    \* bound: url ids given before the last track that fails to open

ASSUME PlaylistAssumption == {MaxUser, MaxLoad, MaxAdd, MaxUrls} \subseteq Nat

VARIABLES
  lists,        \* _playlist_list: the playlists by their ids
  listCount,    \* _playlist_id_counter + 1
  currentList,  \* _current_playing_list_id
  currentItem,  \* _current_playing_item_id
  addedNext,    \* _added_next_song
  jobs,         \* the jobs posted to the manager and not yet run
  urlCount,     \* url ids the input has given
  pipeline,     \* what was given to the input and has not been played
  decoding,     \* the decoder plays
  outputState,  \* the state of the outputs
  seeking,      \* seeks the decoder has to do
  callbacks,    \* the callbacks on their way to the user interface
  views,        \* _playlist_views: the rows of each tab
  tab,          \* the playlist of the tab that is shown
  shownItem,    \* _current_playlist_item_id of the slider
  seekBlock,    \* _is_seek_block
  uiState,      \* _plugin_play_state
  user,         \* actions of the user so far
  movedDown     \* an item was moved to behind where it was

content == <<lists, listCount, movedDown>>
player  == <<currentList, currentItem, addedNext>>
sound   == <<urlCount, pipeline, decoding, outputState, seeking>>
ui      == <<views, tab, shownItem, seekBlock, uiState>>
vars    == <<content, player, jobs, sound, callbacks, ui, user>>

PluginStates == {"play", "pause", "stop"}

\* The ids of what plays are not initialized; the playlist's is not read before a start.
Init ==
  /\ lists = <<>> /\ listCount = 0 /\ movedDown = FALSE
  /\ currentList = INVALID /\ currentItem \in {INVALID, 0} /\ addedNext = FALSE
  /\ jobs = <<>> /\ callbacks = <<>>
  /\ urlCount = 0 /\ pipeline = <<>> /\ decoding = FALSE /\ outputState = "stop" /\ seeking = 0
  /\ views = <<>> /\ tab = INVALID /\ shownItem = INVALID /\ seekBlock = FALSE /\ uiState = "stop"
  /\ user = 0

Put(f, key, value) == [k \in DOMAIN f \cup {key} |-> IF k = key THEN value ELSE f[k]]
Drop(f, key)       == [k \in DOMAIN f \ {key} |-> f[k]]

Control(op)          == [op |-> op]
ListJob(op, l)       == [op |-> op, list |-> l]
ItemJob(op, l, id)   == [op |-> op, list |-> l, item |-> id]
MoveJob(l, from, to) == [op |-> "move", list |-> l, item |-> from, to |-> to]

-----------------------------------------------------------------------------
(* The user.                                                                *)

UserPosts(js) == user < MaxUser /\ user' = user + 1 /\ jobs' = jobs \o js

\* A playlist file with n items that can be read is opened.
AddPlaylist ==
  /\ \E n \in 0 .. MaxLoad : UserPosts(<<[op |-> "addlist", loaded |-> n, urls |-> 0]>>)
  /\ UNCHANGED <<content, player, sound, callbacks, ui>>

\* The item in a row, if there is one
get_item_playlist_id(row) == IF row \in DOMAIN views[tab] THEN views[tab][row] ELSE INVALID

\* The item in the row after the selected one: none when no row is selected.
NextSelected == {get_item_playlist_id(row) : row \in 2 .. Len(views[tab]) + 1}

\* The files found in what is added: a file is one, a directory has any number.
add_playlist_directory_builder == 0 .. MaxAdd

\* add_files(): to the tab shown, before the row after the selected one, or to a
\* new playlist.
AddFiles ==
  /\ \E n \in add_playlist_directory_builder :
       IF tab = INVALID
         THEN UserPosts(<<[op |-> "addlist", loaded |-> 0, urls |-> n]>>)
         ELSE \E from \in NextSelected : UserPosts(<<[op |-> "add", list |-> tab, item |-> from, urls |-> n]>>)
  /\ UNCHANGED <<content, player, sound, callbacks, ui>>

\* The rows the user may have selected
SelectedRows == SUBSET DOMAIN views[tab] \ {{}}

\* Some rows, the last one first
FromLast(rows) == SetToSortSeq(rows, >)

remove_row(row) == ItemJob("remove", tab, get_item_playlist_id(row))

\* delete_selected_items()
DeleteSelected ==
  /\ tab # INVALID
  /\ \E rows \in SelectedRows :
       UserPosts([i \in 1 .. Cardinality(rows) |-> remove_row(FromLast(rows)[i])])
  /\ UNCHANGED <<content, player, sound, callbacks, ui>>

\* dropEvent(): the selected rows are moved to a row.
DropRows ==
  /\ tab # INVALID
  /\ \E rows \in SelectedRows, to \in DOMAIN views[tab] :
       UserPosts([i \in 1 .. Cardinality(rows) |-> MoveJob(tab, get_item_playlist_id(FromLast(rows)[i]), get_item_playlist_id(to))])
  /\ UNCHANGED <<content, player, sound, callbacks, ui>>

RemoveTab ==
  /\ \E l \in DOMAIN views : UserPosts(<<ListJob("removelist", l)>>)
  /\ UNCHANGED <<content, player, sound, callbacks, ui>>

ChangeTab ==
  /\ \E l \in DOMAIN views \ {tab} : tab' = l
  /\ UserPosts(<<>>)
  /\ UNCHANGED <<content, player, sound, callbacks, views, shownItem, seekBlock, uiState>>

\* The row selected, or none
selected_row == {0} \cup DOMAIN views[tab]

\* play_item_offset(), when a row, or none, is selected: a tab without rows starts
\* no item.
ItemAtOffset(offset) ==
  {get_item_playlist_id(Max({1, Min({row + offset, Len(views[tab])})})) : row \in selected_row}

\* play(), previous_item() and next_item()
PlayItem ==
  /\ \E offset \in {-1, 0, 1} :
       /\ IF tab = INVALID THEN UserPosts(<<>>)
            ELSE \E id \in ItemAtOffset(offset) : UserPosts(<<Control("stop"), ItemJob("start", tab, id)>>)
       /\ uiState' = IF offset = 0 THEN "play" ELSE uiState
  /\ UNCHANGED <<content, player, sound, callbacks, views, tab, shownItem, seekBlock>>

StopPlay ==
  /\ UserPosts(<<Control("stop")>>) /\ uiState' = "stop"
  /\ UNCHANGED <<content, player, sound, callbacks, views, tab, shownItem, seekBlock>>

\* pause(), and unpause() of what is paused
TogglePause ==
  /\ \/ uiState = "play" /\ UserPosts(<<Control("pause")>>) /\ uiState' = "pause"
     \/ uiState = "pause" /\ UserPosts(<<Control("cont")>>) /\ uiState' = "play"
  /\ UNCHANGED <<content, player, sound, callbacks, views, tab, shownItem, seekBlock>>

\* The playlist that is shown, and the item that plays
get_current_play_ids == IF tab = INVALID THEN <<INVALID, INVALID>> ELSE <<tab, shownItem>>

\* seek_duration() of the manager posts nothing without a playlist and an item.
seek_duration(l, id) == IF INVALID \in {l, id} THEN <<>> ELSE <<ItemJob("seek", l, id)>>

\* seek_to(): the item that plays, in the playlist that is shown; the slider is
\* blocked, be there something to seek or not.
SeekTo ==
  /\ UserPosts(seek_duration(get_current_play_ids[1], get_current_play_ids[2]))
  /\ seekBlock' = TRUE
  /\ UNCHANGED <<content, player, sound, callbacks, views, tab, shownItem, uiState>>

User == \/ AddPlaylist \/ AddFiles \/ DeleteSelected \/ DropRows \/ RemoveTab \/ ChangeTab
        \/ PlayItem \/ StopPlay \/ TogglePause \/ SeekTo

-----------------------------------------------------------------------------
(* Input, decoder and outputs.                                              *)

\* The input opens a file, and the decoder a track, of which it has the data.
Opens(stage, op) ==
  \E i \in DOMAIN pipeline :
    /\ pipeline[i].stage = stage /\ \A j \in 1 .. i - 1 : pipeline[j].stage # stage
    /\ jobs' = Append(jobs, [op |-> op, url |-> pipeline[i].url, ok |-> TRUE])
    /\ pipeline' = [pipeline EXCEPT ![i].stage = op]
    /\ UNCHANGED <<content, player, urlCount, decoding, outputState, seeking, callbacks, ui, user>>

InputOpens   == Opens("added", "input_opened")
DecoderOpens == decoding /\ Opens("input", "decoder_opened")

\* A file that cannot be opened is told, and leaves.
InputFails ==
  /\ urlCount < MaxUrls
  /\ \E i \in DOMAIN pipeline :
       /\ pipeline[i].stage = "added" /\ \A j \in 1 .. i - 1 : pipeline[j].stage # "added"
       /\ jobs' = Append(jobs, [op |-> "input_opened", url |-> pipeline[i].url, ok |-> FALSE])
       /\ pipeline' = RemoveAt(pipeline, i)
  /\ UNCHANGED <<content, player, urlCount, decoding, outputState, seeking, callbacks, ui, user>>

\* A track that cannot be decoded is ended as if it were played; the manager is not
\* told, neither by ffmpeg nor by FLAC.
DecoderFails ==
  /\ decoding /\ urlCount < MaxUrls
  /\ \E i \in DOMAIN pipeline :
       /\ pipeline[i].stage = "input" /\ \A j \in 1 .. i - 1 : pipeline[j].stage # "input"
       /\ pipeline' = [pipeline EXCEPT ![i].stage = "failed"]
  /\ UNCHANGED <<content, player, urlCount, decoding, outputState, seeking, jobs, callbacks, ui, user>>

DecoderCloses ==
  /\ \E i \in DOMAIN pipeline : pipeline[i].stage = "failed" /\ pipeline' = RemoveAt(pipeline, i)
  /\ UNCHANGED <<content, player, urlCount, decoding, outputState, seeking, jobs, callbacks, ui, user>>

\* progress_callback() of the track that plays, near its end or not; bound: one
\* such job, and its callback, is on its way at a time.
Progress(near) ==
  /\ outputState = "play" /\ pipeline # <<>> /\ Head(pipeline).stage = "output"
  /\ "progress" \notin {jobs[i].op : i \in DOMAIN jobs} \cup {callbacks[i].op : i \in DOMAIN callbacks}
  /\ jobs' = Append(jobs, [op |-> "progress", url |-> Head(pipeline).url, near |-> near])
  /\ pipeline' = [pipeline EXCEPT ![1].near = @ \/ near]
  /\ UNCHANGED <<content, player, urlCount, decoding, outputState, seeking, callbacks, ui, user>>

\* The track that plays was played to its end, which was told.
PlayFinishes ==
  /\ outputState = "play" /\ pipeline # <<>> /\ Head(pipeline).stage = "output" /\ Head(pipeline).near
  /\ pipeline' = Tail(pipeline)
  /\ UNCHANGED <<content, player, urlCount, decoding, outputState, seeking, jobs, callbacks, ui, user>>

\* The decoder did a seek, and tells.
SeekFinishes ==
  /\ seeking > 0 /\ seeking' = seeking - 1
  /\ jobs' = Append(jobs, Control("seekfinished"))
  /\ UNCHANGED <<content, player, urlCount, pipeline, decoding, outputState, callbacks, ui, user>>

Pipeline == \/ InputOpens \/ InputFails \/ DecoderOpens \/ DecoderFails \/ DecoderCloses
            \/ (\E near \in BOOLEAN : Progress(near)) \/ PlayFinishes \/ SeekFinishes

-----------------------------------------------------------------------------
(* The jobs of the manager.                                                 *)

Takes(op) == jobs # <<>> /\ Head(jobs).op = op

Job  == Head(jobs)
Rest == Tail(jobs)

Calls(cbs) == callbacks' = callbacks \o cbs

\* add_playlist(): the urls are added by a job of its own, at the end of the new
\* playlist.
add_playlist ==
  /\ Takes("addlist")
  /\ LET new == load_playlist(Job.loaded)
     IN /\ lists' = Put(lists, listCount, new)
        /\ Calls(<<[op |-> "addlist", list |-> listCount, ids |-> new.items]>>)
  /\ jobs' = Append(Rest, [op |-> "add", list |-> listCount, item |-> INVALID, urls |-> Job.urls])
  /\ listCount' = listCount + 1
  /\ UNCHANGED <<movedDown, player, sound, ui, user>>

\* add_playlist_items_internal(): what is added at the end is told to come before
\* the last item, which it contains.
add_playlist_items_internal ==
  /\ Takes("add") /\ jobs' = Rest
  /\ LET l == Job.list  old == lists[l]  new == add_items(old, Job.item, Job.urls)
     IN IF l \notin DOMAIN lists \/ Job.urls = 0 THEN UNCHANGED <<lists, callbacks>>
          ELSE /\ lists' = [lists EXCEPT ![l] = new]
               /\ Calls(<<[op |-> "add", list |-> l, ids |-> NewIds(old, Job.urls),
                           item |-> IF Job.item = INVALID THEN get_last_item_id(new) ELSE Job.item]>>)
  /\ UNCHANGED <<listCount, movedDown, player, sound, ui, user>>

\* The playlist and the item of the job are there.
KnowsItem == Job.list \in DOMAIN lists /\ get_playlist_item_with_item_id(lists[Job.list], Job.item) # {}

remove_playlist_item ==
  /\ Takes("remove") /\ jobs' = Rest
  /\ lists' = IF KnowsItem THEN [lists EXCEPT ![Job.list] = remove_item(@, Job.item)] ELSE lists
  /\ Calls(IF KnowsItem THEN <<ItemJob("remove", Job.list, Job.item)>> ELSE <<>>)
  /\ UNCHANGED <<listCount, movedDown, player, sound, ui, user>>

move_playlist_item ==
  /\ Takes("move") /\ jobs' = Rest
  /\ IF ~KnowsItem THEN UNCHANGED <<lists, movedDown, callbacks>>
       ELSE LET items == lists[Job.list].items
            IN /\ lists' = [lists EXCEPT ![Job.list] = move_item(@, Job.item, Job.to)]
               /\ movedDown' = (movedDown \/ IterOf(items, Job.item) < IterOf(items, Job.to))
               /\ Calls(<<MoveJob(Job.list, Job.item, Job.to)>>)
  /\ UNCHANGED <<listCount, player, sound, ui, user>>

remove_playlist ==
  /\ Takes("removelist") /\ jobs' = Rest
  /\ lists' = Drop(lists, Job.list) /\ Calls(<<ListJob("removelist", Job.list)>>)
  /\ UNCHANGED <<listCount, movedDown, player, sound, ui, user>>

\* cont_play_internal(): an item of playlist l is given to the input, and has the
\* url id it got.
cont_play_internal(l, id) ==
  IF l \in DOMAIN lists /\ get_playlist_item_with_item_id(lists[l], id) # {}
    THEN /\ lists' = [lists EXCEPT ![l] = update_url_id(@, id, urlCount)]
         /\ pipeline' = Append(pipeline, [url |-> urlCount, list |-> l, item |-> id, stage |-> "added", near |-> FALSE])
         /\ urlCount' = urlCount + 1
    ELSE UNCHANGED <<lists, pipeline, urlCount>>

\* start_play_internal(); the cont_internal() it calls continues the input alone.
start_play_internal(l, id) ==
  /\ currentList' = IF l \in DOMAIN lists THEN l ELSE currentList
  /\ cont_play_internal(l, id)
  /\ UNCHANGED <<currentItem, addedNext>>

start_play ==
  /\ Takes("start") /\ jobs' = Rest
  /\ start_play_internal(Job.list, Job.item)
  /\ UNCHANGED <<listCount, movedDown, decoding, outputState, seeking, callbacks, ui, user>>

get_next_playlist_item_id ==
  IF currentList \in DOMAIN lists THEN get_next_item_id(lists[currentList], currentItem) ELSE INVALID

\* The track of the job is now at this stage, if it was not stopped.
Reaches(stage) == [i \in DOMAIN pipeline |-> IF pipeline[i].url = Job.url THEN [pipeline[i] EXCEPT !.stage = stage] ELSE pipeline[i]]

\* input_opened_cb(): the decoder gets the track and plays.  After a failure the
\* arguments of start_play_internal() are swapped.
input_opened_cb ==
  /\ Takes("input_opened") /\ jobs' = Rest
  /\ IF Job.ok THEN decoding' = TRUE /\ pipeline' = Reaches("input") /\ UNCHANGED <<lists, player, urlCount>>
       ELSE start_play_internal(get_next_playlist_item_id, currentList) /\ UNCHANGED decoding
  /\ UNCHANGED <<listCount, movedDown, outputState, seeking, callbacks, ui, user>>

\* decoder_opened_cb(): the outputs get it and play.  No decoder reports a failure.
decoder_opened_cb ==
  /\ Takes("decoder_opened") /\ jobs' = Rest
  /\ IF Job.ok THEN outputState' = "play" /\ pipeline' = Reaches("output") /\ UNCHANGED <<lists, player, urlCount>>
       ELSE start_play_internal(get_next_playlist_item_id, currentList) /\ UNCHANGED outputState
  /\ UNCHANGED <<listCount, movedDown, decoding, seeking, callbacks, ui, user>>

\* Mutant of progress_callback: that the next item was added is not noted.
progress_callback_again ==
  /\ Takes("progress") /\ jobs' = Rest
  /\ LET playing == IF currentList \in DOMAIN lists THEN get_playlist_item_with_url_id(lists[currentList], Job.url) ELSE {}
     IN IF playing = {} THEN UNCHANGED <<lists, player, pipeline, urlCount, callbacks>>
          ELSE \E id \in playing :
                 /\ Calls(<<ItemJob("progress", currentList, id)>>)
                 /\ currentItem' = id /\ addedNext' = FALSE
                 /\ IF Job.near THEN cont_play_internal(currentList, get_next_item_id(lists[currentList], id))
                      ELSE UNCHANGED <<lists, pipeline, urlCount>>
  /\ UNCHANGED <<listCount, movedDown, currentList, decoding, outputState, seeking, ui, user>>

\* Mutant of progress_callback: a new item does not reset that the next was added.
progress_callback_once ==
  /\ Takes("progress") /\ jobs' = Rest
  /\ LET playing == IF currentList \in DOMAIN lists THEN get_playlist_item_with_url_id(lists[currentList], Job.url) ELSE {}
     IN IF playing = {} THEN UNCHANGED <<lists, player, pipeline, urlCount, callbacks>>
          ELSE \E id \in playing :
                 /\ Calls(<<ItemJob("progress", currentList, id)>>)
                 /\ currentItem' = id /\ addedNext' = (addedNext \/ Job.near)
                 /\ IF Job.near /\ ~addedNext THEN cont_play_internal(currentList, get_next_item_id(lists[currentList], id))
                      ELSE UNCHANGED <<lists, pipeline, urlCount>>
  /\ UNCHANGED <<listCount, movedDown, currentList, decoding, outputState, seeking, ui, user>>

\* progress_callback(): near the end of an item the next one is given to the input,
\* once for each item that begins to play.
progress_callback ==
  /\ Takes("progress") /\ jobs' = Rest
  /\ LET playing == IF currentList \in DOMAIN lists THEN get_playlist_item_with_url_id(lists[currentList], Job.url) ELSE {}
     IN IF playing = {} THEN UNCHANGED <<lists, player, pipeline, urlCount, callbacks>>
          ELSE \E id \in playing :
                 LET isAdded == addedNext /\ id = currentItem
                 IN /\ Calls(<<ItemJob("progress", currentList, id)>>)
                    /\ currentItem' = id /\ addedNext' = (isAdded \/ Job.near)
                    /\ IF Job.near /\ ~isAdded
                         THEN cont_play_internal(currentList, get_next_item_id(lists[currentList], id))
                         ELSE UNCHANGED <<lists, pipeline, urlCount>>
  /\ UNCHANGED <<listCount, movedDown, currentList, decoding, outputState, seeking, ui, user>>

\* stop(), pause(), and cont(), which continues the input alone
Controls ==
  /\ Takes("stop") \/ Takes("pause") \/ Takes("cont")
  /\ jobs' = Rest
  /\ pipeline' = IF Job.op = "stop" THEN <<>> ELSE pipeline
  /\ decoding' = (decoding /\ Job.op = "cont")
  /\ outputState' = IF Job.op = "cont" THEN outputState ELSE Job.op
  /\ UNCHANGED <<content, player, urlCount, seeking, callbacks, ui, user>>

\* seek_duration_internal(): without the playlist nothing happens; without the item
\* a null pointer is used, and this is the end of the program.
seek_duration_internal ==
  /\ Takes("seek") /\ jobs' = Rest
  /\ Job.list \in DOMAIN lists => KnowsItem
  /\ seeking' = IF KnowsItem THEN seeking + 1 ELSE seeking
  /\ UNCHANGED <<content, player, urlCount, pipeline, decoding, outputState, callbacks, ui, user>>

\* Mutant of decoder_seek_finished_cb: the user interface is told only while a
\* track is there.
decoder_seek_finished_cb_playing ==
  /\ Takes("seekfinished") /\ jobs' = Rest
  /\ Calls(IF pipeline # <<>> THEN <<Control("seekfinished")>> ELSE <<>>)
  /\ UNCHANGED <<content, player, sound, ui, user>>

decoder_seek_finished_cb ==
  /\ Takes("seekfinished") /\ jobs' = Rest
  /\ Calls(<<Control("seekfinished")>>)
  /\ UNCHANGED <<content, player, sound, ui, user>>

RunJob == \/ add_playlist \/ add_playlist_items_internal \/ remove_playlist_item \/ move_playlist_item
          \/ remove_playlist \/ start_play \/ input_opened_cb \/ decoder_opened_cb \/ progress_callback
          \/ Controls \/ seek_duration_internal \/ decoder_seek_finished_cb

-----------------------------------------------------------------------------
(* The callbacks of the user interface.                                     *)

\* The tabs after a callback
ViewsAfter(vs, cb) ==
  IF cb.op = "addlist" THEN Put(vs, cb.list, cb.ids)
  ELSE IF cb.op \in {"progress", "seekfinished"} \/ cb.list \notin DOMAIN vs THEN vs
  ELSE IF cb.op = "removelist" THEN Drop(vs, cb.list)
  ELSE [vs EXCEPT ![cb.list] = CASE cb.op = "add"    -> view_add_items(@, cb.item, cb.ids)
                                 [] cb.op = "move"   -> view_move_item(@, cb.item, cb.to)
                                 [] cb.op = "remove" -> view_remove_item(@, cb.item)]

\* The tab shown when the tabs are vs: a new one; when it was removed another, if
\* there is one.
TabsAfter(vs, cb) ==
  IF cb.op = "addlist" THEN {cb.list}
  ELSE IF tab \in DOMAIN vs THEN {tab}
  ELSE IF DOMAIN vs = {} THEN {INVALID} ELSE DOMAIN vs

\* progress() and seek_finished() of the slider
ItemAfter(cb)    == IF cb.op = "progress" THEN cb.item ELSE shownItem
BlockedAfter(cb) == seekBlock /\ cb.op # "seekfinished"

RunCallback ==
  /\ callbacks # <<>> /\ callbacks' = Tail(callbacks)
  /\ LET cb == Head(callbacks)
     IN /\ views' = ViewsAfter(views, cb)
        /\ tab' \in TabsAfter(views', cb)
        /\ shownItem' = ItemAfter(cb) /\ seekBlock' = BlockedAfter(cb)
  /\ UNCHANGED <<content, player, jobs, sound, uiState, user>>

Next == User \/ Pipeline \/ RunJob \/ RunCallback

Spec == Init /\ [][Next]_vars

\* Both threads run what is posted to them; files are opened, sought and played to
\* their end, which is told.
Fairness ==
  /\ WF_vars(RunJob) /\ WF_vars(RunCallback)
  /\ WF_vars(InputOpens) /\ WF_vars(DecoderOpens) /\ WF_vars(DecoderCloses)
  /\ SF_vars(Progress(TRUE)) /\ WF_vars(PlayFinishes) /\ WF_vars(SeekFinishes)

FairSpec == Spec /\ Fairness

-----------------------------------------------------------------------------
(* What is correct.                                                         *)

ItemIds == Nat \cup {INVALID}

\* The values every variable may have; the ids of a playlist are those it made, each
\* in it once at most, and each url id was given by the input; a tab shows an item
\* once, and one tab is shown if there are any.
TypeOK ==
  /\ listCount \in Nat /\ DOMAIN lists \subseteq 0 .. listCount - 1
  /\ \A l \in DOMAIN lists : LET p == lists[l]
       IN /\ IsInjective(p.items) /\ p.made \in Nat /\ Range(p.items) \subseteq 0 .. p.made - 1
          /\ p.url \in [0 .. p.made - 1 -> INVALID .. urlCount - 1]
  /\ currentList \in INVALID .. listCount - 1 /\ currentItem \in ItemIds
  /\ {addedNext, decoding, seekBlock, movedDown} \subseteq BOOLEAN
  /\ {outputState, uiState} \subseteq PluginStates
  /\ urlCount \in Nat /\ \A i \in DOMAIN pipeline : pipeline[i].url \in 0 .. urlCount - 1
  /\ DOMAIN views \subseteq 0 .. listCount - 1 /\ \A l \in DOMAIN views : IsInjective(views[l])
  /\ tab \in DOMAIN views \cup {INVALID} /\ (tab = INVALID <=> DOMAIN views = {})
  /\ shownItem \in ItemIds /\ seeking \in Nat /\ user \in 0 .. MaxUser

\* The tabs when the first n callbacks on their way have run
ViewsAfterFirst[n \in 0 .. Len(callbacks)] ==
  IF n = 0 THEN views ELSE ViewsAfter(ViewsAfterFirst[n - 1], callbacks[n])

ViewsToBe == ViewsAfterFirst[Len(callbacks)]

\* The user interface shows what the manager has: when all callbacks have run, its
\* tabs are the playlists, and their rows the items; in the same order unless an item
\* was moved down, which the two copies do differently.
ViewFollows ==
  /\ DOMAIN ViewsToBe = DOMAIN lists
  /\ \A l \in DOMAIN lists :
       IF movedDown THEN Range(ViewsToBe[l]) = Range(lists[l].items) /\ Len(ViewsToBe[l]) = Len(lists[l].items)
                    ELSE ViewsToBe[l] = lists[l].items

\* The next job tells the progress of a track that does not play any more.
StaleProgress == Takes("progress") /\ (pipeline = <<>> \/ Job.url # Head(pipeline).url)

\* The next job tells that a track could not be opened, and the input has one by now
\* that was given to it later: the first was stopped.
StaleFailure == Takes("input_opened") /\ ~Job.ok /\ \E i \in DOMAIN pipeline : pipeline[i].url >= Job.url

\* There is never more than one track behind the one that plays, as long as neither
\* progress nor a failure is told too late: the input reads few files ahead, and what
\* plays next is not what was next long ago.
OneAhead == []~(StaleProgress \/ StaleFailure) => [](Len(pipeline) <= 2)

\* The user has the player play, and does nothing.
LeftAlone ==
  outputState = "play" /\ \A i \in DOMAIN jobs :
    jobs[i].op \in {"input_opened", "decoder_opened", "progress", "seekfinished"}

\* A track could not be opened.
OpenFailed == (Takes("input_opened") /\ ~Job.ok) \/ \E i \in DOMAIN pipeline : pipeline[i].stage = "failed"

\* A track is reported open after it was stopped: the player is set to play, and
\* there is nothing to play.
OpenedLate == (Takes("input_opened") \/ Takes("decoder_opened")) /\ Job.url \notin {pipeline[i].url : i \in DOMAIN pipeline}

\* The item that plays is started again after the next one was added.
Replayed == Takes("start") /\ addedNext /\ Job.item = currentItem

\* The playlist grows, or changes its order, after the next item was looked up.
EditAfterNext == addedNext /\ (Takes("add") \/ Takes("move"))

\* An item is removed while its progress waits to be handled.
RemovedEarly ==
  /\ Takes("remove") /\ KnowsItem
  /\ \E i \in DOMAIN jobs : jobs[i].op = "progress" /\ jobs[i].url = lists[Job.list].url[Job.item]

\* Every track is of an item that is still in the playlist that plays.
PipelineListed ==
  \A i \in DOMAIN pipeline : LET t == pipeline[i]
    IN t.list = currentList /\ t.list \in DOMAIN lists /\ t.item \in Range(lists[t.list].items)

\* A player that is left alone plays on to the last item of its playlist: near the
\* end of each item the next is added.  Not so when a track cannot be opened, or is
\* reported open after a stop; when an item is played again after its next was added,
\* or is removed while it plays; or when items are added or moved after the next was
\* looked up.
PlaysToTheEnd ==
  /\ <>[]LeftAlone /\ []PipelineListed
  /\ []~(OpenFailed \/ OpenedLate \/ Replayed \/ EditAfterNext \/ RemovedEarly)
  =>
    <>[](pipeline = <<>> /\ get_next_playlist_item_id = INVALID)

\* A seek is on its way, or its end.
SeekOnItsWay ==
  \/ seeking > 0
  \/ \E i \in DOMAIN jobs : jobs[i].op \in {"seek", "seekfinished"}
  \/ \E i \in DOMAIN callbacks : callbacks[i].op = "seekfinished"

\* The slider is released after every seek that was posted, unless the item, or its
\* playlist, was removed before.
SliderReleased == [](Takes("seek") => KnowsItem) => (SeekOnItsWay ~> ~seekBlock)
=============================================================================
