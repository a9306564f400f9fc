------------------------------ MODULE Playlist ------------------------------
(***************************************************************************)
(* The two copies of a playlist, as operators.  The playlist of the manager *)
(* is a record: the ids of its items in order, the url id of each item when *)
(* it was last played, and the id of the next item made.  The view of the   *)
(* user interface is the ids of its rows in order.                          *)
(***************************************************************************)
EXTENDS Integers, FiniteSets, SequencesExt

INVALID == -1   \* _INVALID_PLAYLIST_ID_, _INVALID_PLAYLIST_ITEM_ID_, _INVALID_ROW_

-----------------------------------------------------------------------------
(* The playlist.                                                            *)

NoItems == [items |-> <<>>, url |-> <<>>, made |-> 0]

\* get_list_iter_temp(): where an item is, or the end.
IterOf(items, id) == CHOOSE i \in 1 .. Len(items) + 1 :
                       IF id \in Range(items) THEN i <= Len(items) /\ items[i] = id ELSE i = Len(items) + 1

\* Mutant of NewIds: the number of items is the next id.
NewIdsBySize(p, n) == [i \in 1 .. n |-> Len(p.items) + i - 1]

\* construct_playlist_item(), n times: items have new ids, and were never played.
NewIds(p, n) == [i \in 1 .. n |-> p.made + i - 1]

\* add_item() of n items before an item, or at the end
add_items(p, id, n) ==
  [items |-> LET at == IterOf(p.items, id)
             IN SubSeq(p.items, 1, at - 1) \o NewIds(p, n) \o SubSeq(p.items, at, Len(p.items)),
   url   |-> [i \in 0 .. p.made + n - 1 |-> IF i < p.made THEN p.url[i] ELSE INVALID],
   made  |-> p.made + n]

\* load_playlist(): one item for each line of the file that names one
load_playlist(n) == add_items(NoItems, INVALID, n)

\* Mutant of move_item: it is moved behind the other.
move_item_behind(p, from, to) ==
  IF from \notin Range(p.items) \/ from = to THEN p
    ELSE [p EXCEPT !.items = LET rest == RemoveFirst(@, from)  at == IterOf(rest, to)
                             IN IF at > Len(rest) THEN Append(rest, from) ELSE InsertAt(rest, at + 1, from)]

\* move_item(): an item is moved before another, or to the end.
move_item(p, from, to) ==
  IF from \notin Range(p.items) \/ from = to THEN p
    ELSE [p EXCEPT !.items = LET rest == RemoveFirst(@, from) IN InsertAt(rest, IterOf(rest, to), from)]

remove_item(p, id) == [p EXCEPT !.items = RemoveFirst(@, id)]

get_last_item_id(p) == IF p.items = <<>> THEN INVALID ELSE Last(p.items)

get_next_item_id(p, id) ==
  IF id \in Range(p.items) /\ IterOf(p.items, id) < Len(p.items) THEN p.items[IterOf(p.items, id) + 1] ELSE INVALID

get_playlist_item_with_item_id(p, id) == {id} \cap Range(p.items)

get_playlist_item_with_url_id(p, url) == {id \in Range(p.items) : p.url[id] = url}

update_url_id(p, id, url) == [p EXCEPT !.url[id] = url]

-----------------------------------------------------------------------------
(* The view.                                                                *)

\* The row of an item, from 1 on, or the one behind the last
get_item_row(view, id) == IterOf(view, id)

\* add_items(): rows are inserted at the row of an item, or at the end.
view_add_items(view, id, ids) ==
  LET at == get_item_row(view, id) IN SubSeq(view, 1, at - 1) \o ids \o SubSeq(view, at, Len(view))

\* move_playlist_item(): the row is taken, and inserted with the number the other
\* had before.
view_move_item(view, from, to) ==
  IF from \in Range(view) /\ to \in Range(view)
    THEN InsertAt(RemoveFirst(view, from), get_item_row(view, to), from)
    ELSE view

view_remove_item(view, id) == RemoveFirst(view, id)
=============================================================================
