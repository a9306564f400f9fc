----------------------- MODULE PlaylistManagerProofs -----------------------
(***************************************************************************)
(* Proofs, for any number of actions of the user, and of items loaded or    *)
(* added at once, of what the user interface shows and of how far the       *)
(* player reads ahead.                                                      *)
(*                                                                          *)
(* That the tabs come to show what the manager has cannot be said of the    *)
(* tabs there are: callbacks are on their way.  The invariant says that     *)
(* some history of tabs, one for each of these callbacks, leads from the    *)
(* tabs as they are to tabs that show the playlists; an action that calls   *)
(* the user interface makes the history longer at its end, and a callback   *)
(* that runs shorter at its beginning.                                      *)
(*                                                                          *)
(* That one track at most is behind the one that plays rests on what each   *)
(* track and each job says of the others: see Behind.                       *)
(***************************************************************************)
EXTENDS PlaylistManager, OperatorProofs, FiniteSetTheorems

-----------------------------------------------------------------------------
(* The operations of a playlist and of its view, on the ids alone.          *)

\* Where an item is; or the end, if it is not there.
LEMMA WhereItemIs ==
  ASSUME NEW s \in Seq(Nat), NEW e
  PROVE  /\ IterOf(s, e) \in 1 .. Len(s) + 1
         /\ e \in Range(s) => IterOf(s, e) \in 1 .. Len(s) /\ s[IterOf(s, e)] = e
         /\ e \notin Range(s) => IterOf(s, e) = Len(s) + 1
<1> DEFINE P(i) == IF e \in Range(s) THEN i <= Len(s) /\ s[i] = e ELSE i = Len(s) + 1
<1>1. Len(s) \in Nat /\ (e \in Range(s) <=> \E i \in 1 .. Len(s) : s[i] = e)
  BY InRange
<1>2. \E i \in 1 .. Len(s) + 1 : P(i)
  BY <1>1
<1>3. IterOf(s, e) = CHOOSE i \in 1 .. Len(s) + 1 : P(i)
  BY DEF IterOf
<1>4. IterOf(s, e) \in 1 .. Len(s) + 1 /\ P(IterOf(s, e))
  BY <1>2, <1>3
<1> QED
  BY <1>1, <1>4

Inserted(s, at, t) == SubSeq(s, 1, at - 1) \o t \o SubSeq(s, at, Len(s))

\* Items put together into a sequence: none is lost or repeated.
LEMMA InsertSeq ==
  ASSUME NEW s \in Seq(Nat), NEW t \in Seq(Nat), NEW at \in 1 .. Len(s) + 1
  PROVE  /\ Inserted(s, at, t) \in Seq(Nat) /\ Len(Inserted(s, at, t)) = Len(s) + Len(t)
         /\ Range(Inserted(s, at, t)) = Range(s) \cup Range(t)
         /\ IsInjective(s) /\ IsInjective(t) /\ Range(s) \cap Range(t) = {} => IsInjective(Inserted(s, at, t))
         /\ \A i \in 1 .. Len(s) + Len(t) :
              Inserted(s, at, t)[i] = IF i < at THEN s[i]
                                      ELSE IF i < at + Len(t) THEN t[i - at + 1] ELSE s[i - Len(t)]
<1> DEFINE r == Inserted(s, at, t)
           a == SubSeq(s, 1, at - 1)
           b == SubSeq(s, at, Len(s))
<1>1. Len(s) \in Nat /\ Len(t) \in Nat /\ at \in Nat /\ \A i \in 1 .. Len(s) : s[i] \in Nat
  BY InRange
<1>2. /\ a \in Seq(Nat) /\ Len(a) = at - 1 /\ \A i \in 1 .. at - 1 : a[i] = s[i]
      /\ b \in Seq(Nat) /\ Len(b) = Len(s) - at + 1 /\ \A i \in 1 .. Len(s) - at + 1 : b[i] = s[at + i - 1]
  <2>1. \A i \in 1 .. at - 1 : s[i] \in Nat
    BY <1>1
  <2>2. /\ a \in Seq(Nat) /\ Len(a) = (IF 1 <= at - 1 THEN at - 1 - 1 + 1 ELSE 0)
        /\ \A i \in 1 .. at - 1 - 1 + 1 : a[i] = s[1 + i - 1]
    BY <1>1, <2>1, SubSeqProperties
  <2>3. \A i \in at .. Len(s) : s[i] \in Nat
    BY <1>1
  <2>4. /\ b \in Seq(Nat) /\ Len(b) = (IF at <= Len(s) THEN Len(s) - at + 1 ELSE 0)
        /\ \A i \in 1 .. Len(s) - at + 1 : b[i] = s[at + i - 1]
    BY <1>1, <2>3, SubSeqProperties
  <2> HIDE DEF a, b
  <2>5. Len(a) = at - 1 /\ Len(b) = Len(s) - at + 1
    BY <1>1, <2>2, <2>4
  <2>6. \A i \in 1 .. at - 1 : i \in 1 .. at - 1 - 1 + 1 /\ 1 + i - 1 = i
    BY <1>1
  <2> QED
    BY <2>2, <2>4, <2>5, <2>6
<1> HIDE DEF a, b, r
<1>3. /\ a \o b \in Seq(Nat) /\ Len(a \o b) = Len(a) + Len(b)
      /\ \A i \in 1 .. Len(a) + Len(b) : (a \o b)[i] = IF i <= Len(a) THEN a[i] ELSE b[i - Len(a)]
      /\ Range(a \o b) = Range(a) \cup Range(b)
      /\ IsInjective(a \o b) <=> IsInjective(a) /\ IsInjective(b) /\ Range(a) \cap Range(b) = {}
  BY <1>2, ConcatRange
<1>4. a \o b = s
  <2>1. Len(a \o b) = Len(s)
    BY <1>1, <1>2, <1>3
  <2>2. ASSUME NEW i \in 1 .. Len(a \o b) PROVE (a \o b)[i] = s[i]
    <3>1. i \in Nat /\ i \in 1 .. Len(s) /\ Len(a) = at - 1
      BY <1>1, <1>2, <2>1
    <3>2. CASE i <= at - 1
      BY <1>2, <1>3, <3>1, <3>2, <2>1
    <3>3. CASE ~(i <= at - 1)
      <4>1. i - (at - 1) \in 1 .. Len(s) - at + 1 /\ at + (i - (at - 1)) - 1 = i
        BY <1>1, <3>1, <3>3
      <4>2. (a \o b)[i] = b[i - (at - 1)]
        BY <1>3, <2>1, <3>1, <3>3
      <4> QED
        BY <1>2, <4>1, <4>2
    <3> QED
      BY <3>2, <3>3
  <2> QED
    BY <1>3, <2>1, <2>2, SeqEqual
<1>5. /\ a \o t \in Seq(Nat) /\ Len(a \o t) = Len(a) + Len(t)
      /\ \A i \in 1 .. Len(a) + Len(t) : (a \o t)[i] = IF i <= Len(a) THEN a[i] ELSE t[i - Len(a)]
      /\ Range(a \o t) = Range(a) \cup Range(t)
      /\ IsInjective(a \o t) <=> IsInjective(a) /\ IsInjective(t) /\ Range(a) \cap Range(t) = {}
  BY <1>2, ConcatRange
<1> DEFINE q == a \o t
<1>6. r = q \o b /\ q \in Seq(Nat)
  BY <1>5 DEF a, b, r, Inserted
<1>7. Len(q) = at - 1 + Len(t) /\ Len(q) \in Nat
  BY <1>1, <1>2, <1>5
<1>8. /\ r \in Seq(Nat) /\ Len(r) = Len(q) + Len(b)
      /\ \A i \in 1 .. Len(q) + Len(b) : r[i] = IF i <= Len(q) THEN q[i] ELSE b[i - Len(q)]
      /\ Range(r) = Range(q) \cup Range(b)
      /\ IsInjective(r) <=> IsInjective(q) /\ IsInjective(b) /\ Range(q) \cap Range(b) = {}
  <2> HIDE DEF q
  <2>1. /\ q \o b \in Seq(Nat) /\ Len(q \o b) = Len(q) + Len(b)
        /\ \A i \in 1 .. Len(q) + Len(b) : (q \o b)[i] = IF i <= Len(q) THEN q[i] ELSE b[i - Len(q)]
        /\ Range(q \o b) = Range(q) \cup Range(b)
        /\ IsInjective(q \o b) <=> IsInjective(q) /\ IsInjective(b) /\ Range(q) \cap Range(b) = {}
    <3>1. q \in Seq(Nat) /\ b \in Seq(Nat)
      BY <1>2, <1>6
    <3> QED
      BY <3>1, ConcatRange
  <2> QED
    BY <1>6, <2>1
<1>9. Len(r) = Len(s) + Len(t)
  <2> HIDE DEF q
  <2>1. Len(s) \in Nat /\ Len(t) \in Nat /\ at \in Nat
    BY <1>1
  <2>2. Len(b) = Len(s) - at + 1 /\ Len(q) = at - 1 + Len(t) /\ Len(r) = Len(q) + Len(b)
    BY <1>2, <1>7, <1>8
  <2>3. \A n, m, k \in Nat : (k - 1 + m) + (n - k + 1) = n + m
    OBVIOUS
  <2>4. Len(q) + Len(b) = (at - 1 + Len(t)) + (Len(s) - at + 1)
    BY <2>2
  <2>5. (at - 1 + Len(t)) + (Len(s) - at + 1) = Len(s) + Len(t)
    BY <2>1, <2>3
  <2> QED
    BY <2>2, <2>4, <2>5
<1>10. Range(r) = Range(s) \cup Range(t)
  BY <1>3, <1>4, <1>5, <1>8
<1>11. IsInjective(s) /\ IsInjective(t) /\ Range(s) \cap Range(t) = {} => IsInjective(r)
  BY <1>3, <1>4, <1>5, <1>8
<1>12. ASSUME NEW i \in 1 .. Len(r)
       PROVE  r[i] = IF i < at THEN s[i] ELSE IF i < at + Len(t) THEN t[i - at + 1] ELSE s[i - Len(t)]
  <2>1. /\ i \in Nat /\ 1 <= i /\ i <= Len(s) + Len(t) /\ Len(q) = at - 1 + Len(t) /\ i \in 1 .. Len(q) + Len(b)
    <3> HIDE DEF q
    <3>1. Len(s) \in Nat /\ Len(t) \in Nat /\ at \in Nat /\ Len(r) = Len(s) + Len(t)
      BY <1>1, <1>9
    <3>2. Len(b) = Len(s) - at + 1 /\ Len(q) = at - 1 + Len(t)
      BY <1>2, <1>7
    <3>3. i \in 1 .. Len(s) + Len(t)
      BY <3>1
    <3> QED
      BY <3>1, <3>2, <3>3
  <2>2. CASE i < at
    <3>1. i \in 1 .. at - 1 /\ i <= Len(q) /\ i \in 1 .. Len(a) + Len(t) /\ i <= Len(a)
      BY <1>1, <1>2, <2>1, <2>2
    <3> QED
      BY <1>2, <1>5, <1>8, <2>1, <2>2, <3>1
  <2>3. CASE ~(i < at) /\ i < at + Len(t)
    <3>1. i <= Len(q) /\ i \in 1 .. Len(a) + Len(t) /\ ~(i <= Len(a)) /\ i - Len(a) = i - at + 1
      BY <1>1, <1>2, <2>1, <2>3
    <3> QED
      BY <1>5, <1>8, <2>1, <2>3, <3>1
  <2>4. CASE ~(i < at) /\ ~(i < at + Len(t))
    <3>1. /\ ~(i <= Len(q)) /\ i - Len(q) \in 1 .. Len(s) - at + 1 /\ at + (i - Len(q)) - 1 = i - Len(t)
      BY <1>1, <1>2, <2>1, <2>4
    <3> HIDE DEF q
    <3>2. r[i] = b[i - Len(q)]
      BY <1>8, <2>1, <3>1
    <3>3. b[i - Len(q)] = s[at + (i - Len(q)) - 1]
      BY <1>2, <3>1
    <3> QED
      BY <2>4, <3>1, <3>2, <3>3
  <2> QED
    BY <2>2, <2>3, <2>4
<1> QED
  BY <1>8, <1>9, <1>10, <1>11, <1>12 DEF r

\* An item taken out: those behind it move up.
LEMMA TakeOut ==
  ASSUME NEW s \in Seq(Nat), IsInjective(s), NEW e \in Range(s)
  PROVE  /\ RemoveFirst(s, e) \in Seq(Nat) /\ Len(RemoveFirst(s, e)) = Len(s) - 1
         /\ Range(RemoveFirst(s, e)) = Range(s) \ {e} /\ IsInjective(RemoveFirst(s, e))
         /\ \A j \in 1 .. Len(s) - 1 : RemoveFirst(s, e)[j] = IF j < IterOf(s, e) THEN s[j] ELSE s[j + 1]
<1>1. /\ RemoveFirst(s, e) \in Seq(Nat)
      /\ Range(RemoveFirst(s, e)) = Range(s) \ {e} /\ IsInjective(RemoveFirst(s, e))
  BY RemoveOnce
<1>2. /\ Len(RemoveFirst(s, e)) = Len(s) - 1
      /\ \E i \in 1 .. Len(s) :
              /\ s[i] = e
              /\ \A j \in 1 .. Len(s) - 1 : RemoveFirst(s, e)[j] = IF j < i THEN s[j] ELSE s[j + 1]
  BY RemoveSome
<1>3. IterOf(s, e) \in 1 .. Len(s) /\ s[IterOf(s, e)] = e
  BY WhereItemIs
<1>4. \A i \in 1 .. Len(s) : s[i] = e => i = IterOf(s, e)
  <2>1. DOMAIN s = 1 .. Len(s)
    BY InRange
  <2> QED
    BY <1>3, <2>1 DEF IsInjective
<1> QED
  BY <1>1, <1>2, <1>4

\* An item put into a place.
LEMMA PutIn ==
  ASSUME NEW s \in Seq(Nat), IsInjective(s), NEW e \in Nat \ Range(s), NEW at \in 1 .. Len(s) + 1
  PROVE  /\ InsertAt(s, at, e) \in Seq(Nat) /\ Len(InsertAt(s, at, e)) = Len(s) + 1
         /\ Range(InsertAt(s, at, e)) = Range(s) \cup {e} /\ IsInjective(InsertAt(s, at, e))
         /\ \A i \in 1 .. Len(s) + 1 :
              InsertAt(s, at, e)[i] = IF i < at THEN s[i] ELSE IF i = at THEN e ELSE s[i - 1]
<1> DEFINE r == InsertAt(s, at, e)
<1>1. r = Inserted(s, at, <<e>>)
  BY DEF InsertAt, Inserted
<1>2. /\ <<e>> \in Seq(Nat) /\ Len(<<e>>) = 1 /\ <<e>>[1] = e
      /\ Range(<<e>>) = {e} /\ IsInjective(<<e>>)
  BY SingleSeq
<1>3. /\ r \in Seq(Nat) /\ Len(r) = Len(s) + 1 /\ Range(r) = Range(s) \cup {e} /\ IsInjective(r)
      /\ \A i \in 1 .. Len(r) : r[i] = IF i < at THEN s[i]
                                       ELSE IF i < at + 1 THEN <<e>>[i - at + 1] ELSE s[i - 1]
  <2> DEFINE t == <<e>>
  <2>1. t \in Seq(Nat) /\ Len(t) = 1 /\ Range(t) = {e} /\ IsInjective(t)
    BY <1>2
  <2>2. r = Inserted(s, at, t)
    BY <1>1
  <2> HIDE DEF t, r
  <2>3. /\ r \in Seq(Nat) /\ Len(r) = Len(s) + Len(t) /\ Range(r) = Range(s) \cup Range(t)
        /\ IsInjective(s) /\ IsInjective(t) /\ Range(s) \cap Range(t) = {} => IsInjective(r)
        /\ \A i \in 1 .. Len(s) + Len(t) : r[i] = IF i < at THEN s[i]
                                          ELSE IF i < at + Len(t) THEN t[i - at + 1] ELSE s[i - Len(t)]
    BY <2>1, <2>2, InsertSeq
  <2>4. /\ r \in Seq(Nat) /\ Len(r) = Len(s) + 1 /\ Range(r) = Range(s) \cup {e} /\ IsInjective(r)
    BY <2>1, <2>3
  <2>5. \A i \in 1 .. Len(r) : r[i] = IF i < at THEN s[i]
                                       ELSE IF i < at + 1 THEN t[i - at + 1] ELSE s[i - 1]
    BY <2>1, <2>3
  <2> QED
    BY <2>4, <2>5 DEF t
<1>4. \A i \in 1 .. Len(s) + 1 : r[i] = IF i < at THEN s[i] ELSE IF i = at THEN e ELSE s[i - 1]
  <2> SUFFICES ASSUME NEW i \in 1 .. Len(s) + 1
               PROVE  r[i] = IF i < at THEN s[i] ELSE IF i = at THEN e ELSE s[i - 1]
    OBVIOUS
  <2> HIDE DEF r
  <2>1. r[i] = IF i < at THEN s[i] ELSE IF i < at + 1 THEN <<e>>[i - at + 1] ELSE s[i - 1]
    BY <1>3
  <2>2. Len(s) \in Nat /\ at \in Nat /\ i \in Nat
    BY InRange
  <2>3. i = at => i - at + 1 = 1
    BY <2>2
  <2> QED
    BY <1>2, <2>1, <2>2, <2>3
<1> QED
  BY <1>3, <1>4

\* What a tab shows of the items of its playlist: them, in their order unless one was
\* moved down.
Shows(down, view, items) ==
  IF down THEN Range(view) = Range(items) /\ Len(view) = Len(items) ELSE view = items

\* A list of items, each once.
Once(s) == s \in Seq(Nat) /\ IsInjective(s)

\* New items are shown, at the place they were added at: that before the last of
\* them is the end.
LEMMA AddShown ==
  ASSUME NEW down \in BOOLEAN, NEW view, NEW items, Once(view), Once(items), Shows(down, view, items),
         NEW ids, Once(ids), ids # <<>>, Range(ids) \cap Range(items) = {}, NEW id \in ItemIds,
         NEW vid, vid = IF id = INVALID THEN Last(Inserted(items, IterOf(items, id), ids)) ELSE id
  PROVE  Once(view_add_items(view, vid, ids)) /\ Shows(down, view_add_items(view, vid, ids), Inserted(items, IterOf(items, id), ids))
<1> USE DEF Once
<1> DEFINE new == Inserted(items, IterOf(items, id), ids)
<1> SUFFICES Once(view_add_items(view, vid, ids)) /\ Shows(down, view_add_items(view, vid, ids), new)
  OBVIOUS
<1>0. new = Inserted(items, IterOf(items, id), ids) /\ vid = IF id = INVALID THEN new[Len(new)] ELSE id
  BY DEF Last
<1> HIDE DEF new
<1>1. IterOf(items, id) \in 1 .. Len(items) + 1 /\ get_item_row(view, vid) \in 1 .. Len(view) + 1
  BY WhereItemIs DEF get_item_row
<1>2. /\ new \in Seq(Nat) /\ Len(new) = Len(items) + Len(ids) /\ Range(new) = Range(items) \cup Range(ids)
      /\ IsInjective(new)
      /\ \A i \in 1 .. Len(items) + Len(ids) : new[i] = IF i < IterOf(items, id) THEN items[i]
            ELSE IF i < IterOf(items, id) + Len(ids) THEN ids[i - IterOf(items, id) + 1] ELSE items[i - Len(ids)]
  <2> DEFINE at == IterOf(items, id)
  <2>1. at \in 1 .. Len(items) + 1 /\ new = Inserted(items, at, ids)
    BY <1>0, <1>1
  <2> HIDE DEF at
  <2>2. /\ Inserted(items, at, ids) \in Seq(Nat) /\ Len(Inserted(items, at, ids)) = Len(items) + Len(ids)
        /\ Range(Inserted(items, at, ids)) = Range(items) \cup Range(ids)
        /\ IsInjective(items) /\ IsInjective(ids) /\ Range(items) \cap Range(ids) = {} => IsInjective(Inserted(items, at, ids))
        /\ \A i \in 1 .. Len(items) + Len(ids) :
              Inserted(items, at, ids)[i] = IF i < at THEN items[i]
                                      ELSE IF i < at + Len(ids) THEN ids[i - at + 1] ELSE items[i - Len(ids)]
    BY <2>1, InsertSeq
  <2>3. IsInjective(new)
    BY <2>1, <2>2
  <2> QED
    BY <2>1, <2>2, <2>3 DEF at
<1> DEFINE r == view_add_items(view, vid, ids)
<1>3. r = Inserted(view, get_item_row(view, vid), ids)
  BY DEF view_add_items, Inserted
<1>4. Range(view) = Range(items) /\ Len(view) = Len(items)
  BY DEF Shows
<1>5. /\ r \in Seq(Nat) /\ Len(r) = Len(view) + Len(ids) /\ Range(r) = Range(view) \cup Range(ids)
      /\ IsInjective(r)
  <2> HIDE DEF r
  <2> QED
    BY <1>1, <1>3, <1>4, InsertSeq
<1>6. CASE down
  BY <1>2, <1>4, <1>5, <1>6 DEF Shows
<1>7. CASE ~down
  <2>1. view = items
    BY <1>7 DEF Shows
  <2>2. CASE id # INVALID
    BY <1>0, <1>2, <1>3, <1>5, <2>1, <2>2 DEF Shows, get_item_row
  <2>3. CASE id = INVALID
    <3>1. IterOf(items, id) = Len(items) + 1
      <4>1. id \notin Range(items)
        BY <2>3, InRange DEF INVALID
      <4> QED
        BY <4>1, WhereItemIs
    <3>2. Len(items) \in Nat /\ Len(ids) \in Nat \ {0} /\ Len(ids) \in 1 .. Len(ids)
      BY InRange
    <3>3. Len(new) \in 1 .. Len(items) + Len(ids) /\ ~(Len(new) < Len(items) + 1) /\ Len(new) < Len(items) + 1 + Len(ids)
      BY <1>2, <3>2
    <3>4. Len(new) - (Len(items) + 1) + 1 = Len(ids)
      BY <1>2, <3>2
    <3>5. vid = ids[Len(ids)]
      BY <1>0, <1>2, <2>3, <3>1, <3>3, <3>4
    <3>6. vid \in Range(ids)
      BY <3>2, <3>5, InRange
    <3>7. get_item_row(view, vid) = Len(items) + 1
      BY <2>1, <3>6, WhereItemIs DEF get_item_row
    <3> QED
      BY <1>0, <1>2, <1>3, <1>5, <2>1, <3>1, <3>7 DEF Shows
  <2> QED
    BY <2>2, <2>3
<1> QED
  BY <1>2, <1>5, <1>6, <1>7

\* What is removed is not shown any more.
LEMMA RemoveShown ==
  ASSUME NEW down \in BOOLEAN, NEW view, NEW items, Once(view), Once(items), Shows(down, view, items),
         NEW e \in Range(items)
  PROVE  /\ Once(RemoveFirst(items, e)) /\ Range(RemoveFirst(items, e)) = Range(items) \ {e}
         /\ Once(view_remove_item(view, e)) /\ Shows(down, view_remove_item(view, e), RemoveFirst(items, e))
<1>1. Range(view) = Range(items) /\ Len(view) = Len(items)
  BY DEF Shows
<1>2. /\ RemoveFirst(items, e) \in Seq(Nat) /\ Len(RemoveFirst(items, e)) = Len(items) - 1
      /\ Range(RemoveFirst(items, e)) = Range(items) \ {e} /\ IsInjective(RemoveFirst(items, e))
  BY TakeOut DEF Once
<1>3. /\ RemoveFirst(view, e) \in Seq(Nat) /\ Len(RemoveFirst(view, e)) = Len(view) - 1
      /\ Range(RemoveFirst(view, e)) = Range(view) \ {e} /\ IsInjective(RemoveFirst(view, e))
  BY <1>1, TakeOut DEF Once
<1> QED
  BY <1>1, <1>2, <1>3 DEF Once, Shows, view_remove_item

\* The items when one of them was moved before another, or to the end
Moved(items, from, to) ==
  IF from = to THEN items ELSE InsertAt(RemoveFirst(items, from), IterOf(RemoveFirst(items, from), to), from)

\* What is moved is shown where it was moved to, unless it was moved down.
LEMMA MoveShown ==
  ASSUME NEW down \in BOOLEAN, NEW view, NEW items, Once(view), Once(items), Shows(down, view, items),
         NEW from \in Range(items), NEW to
  PROVE  /\ Once(Moved(items, from, to)) /\ Range(Moved(items, from, to)) = Range(items)
         /\ Once(view_move_item(view, from, to))
         /\ Shows(down \/ IterOf(items, from) < IterOf(items, to), view_move_item(view, from, to), Moved(items, from, to))
<1> USE DEF Once
<1> DEFINE new == Moved(items, from, to)
<1>0. new = IF from = to THEN items ELSE InsertAt(RemoveFirst(items, from), IterOf(RemoveFirst(items, from), to), from)
  BY DEF Moved
<1> SUFFICES /\ Once(new) /\ Range(new) = Range(items)
             /\ Once(view_move_item(view, from, to))
             /\ Shows(down \/ IterOf(items, from) < IterOf(items, to), view_move_item(view, from, to), new)
  OBVIOUS
<1> HIDE DEF new
<1> DEFINE rest == RemoveFirst(items, from)
           left == RemoveFirst(view, from)
           f == IterOf(items, from)
           t == IterOf(items, to)
           shown == view_move_item(view, from, to)
<1>1. Range(view) = Range(items) /\ Len(view) = Len(items) /\ Len(items) \in Nat
  BY InRange DEF Shows
<1>2. /\ rest \in Seq(Nat) /\ Len(rest) = Len(items) - 1 /\ Range(rest) = Range(items) \ {from} /\ IsInjective(rest)
      /\ \A j \in 1 .. Len(items) - 1 : rest[j] = IF j < f THEN items[j] ELSE items[j + 1]
  BY TakeOut
<1>3. /\ left \in Seq(Nat) /\ Len(left) = Len(view) - 1 /\ Range(left) = Range(view) \ {from} /\ IsInjective(left)
  BY <1>1, TakeOut
<1>4. from \in Nat /\ from \notin Range(rest) /\ from \notin Range(left)
  BY <1>2, <1>3, InRange
<1>5. /\ f \in 1 .. Len(items) /\ items[f] = from /\ t \in 1 .. Len(items) + 1
      /\ to \in Range(items) => t \in 1 .. Len(items) /\ items[t] = to
      /\ to \notin Range(items) => t = Len(items) + 1
  BY WhereItemIs
<1>6. /\ Once(new) /\ Range(new) = Range(items) /\ Len(new) = Len(items)
  <2>1. CASE from = to
    BY <1>0, <2>1
  <2>2. CASE from # to
    <3> DEFINE at == IterOf(rest, to)
    <3>1. at \in 1 .. Len(rest) + 1
      BY <1>2, WhereItemIs
    <3>2. new = InsertAt(rest, at, from)
      BY <1>0, <2>2
    <3> HIDE DEF at, rest
    <3>3. /\ InsertAt(rest, at, from) \in Seq(Nat) /\ Len(InsertAt(rest, at, from)) = Len(rest) + 1
          /\ Range(InsertAt(rest, at, from)) = Range(rest) \cup {from} /\ IsInjective(InsertAt(rest, at, from))
      BY <1>2, <1>4, <3>1, PutIn
    <3>4. Len(rest) + 1 = Len(items) /\ Range(rest) \cup {from} = Range(items)
      BY <1>1, <1>2
    <3> QED
      BY <3>2, <3>3, <3>4
  <2> QED
    BY <2>1, <2>2
<1>7. CASE to \notin Range(items)
  <2>1. shown = view
    BY <1>1, <1>7 DEF view_move_item
  <2>2. f < t
    BY <1>1, <1>5, <1>7
  <2> QED
    BY <1>1, <1>6, <2>1, <2>2 DEF Shows
<1>8. CASE to \in Range(items)
  <2> DEFINE v == get_item_row(view, to)
  <2>1. v \in 1 .. Len(left) + 1
    <3>1. v \in 1 .. Len(view)
      BY <1>1, <1>8, WhereItemIs DEF get_item_row
    <3> HIDE DEF v, left
    <3>2. Len(left) + 1 = Len(view)
      BY <1>1, <1>3
    <3> QED
      BY <3>1, <3>2
  <2>2. shown = InsertAt(left, v, from)
    BY <1>1, <1>8 DEF view_move_item
  <2>3. /\ Once(shown) /\ Len(shown) = Len(left) + 1 /\ Range(shown) = Range(left) \cup {from}
        /\ \A i \in 1 .. Len(left) + 1 : shown[i] = IF i < v THEN left[i] ELSE IF i = v THEN from ELSE left[i - 1]
    <3> HIDE DEF v, left, shown
    <3>1. /\ InsertAt(left, v, from) \in Seq(Nat) /\ Len(InsertAt(left, v, from)) = Len(left) + 1
          /\ Range(InsertAt(left, v, from)) = Range(left) \cup {from} /\ IsInjective(InsertAt(left, v, from))
          /\ \A i \in 1 .. Len(left) + 1 :
               InsertAt(left, v, from)[i] = IF i < v THEN left[i] ELSE IF i = v THEN from ELSE left[i - 1]
      <4>1. left \in Seq(Nat) /\ IsInjective(left) /\ from \in Nat \ Range(left)
        BY <1>3, <1>4
      <4> QED
        BY <2>1, <4>1, PutIn
    <3> QED
      BY <2>2, <3>1
  <2>4. Range(shown) = Range(items) /\ Len(shown) = Len(items)
    <3> HIDE DEF v, left, shown
    <3> QED
      BY <1>1, <1>3, <2>3
  <2>5. CASE down \/ f < t
    BY <1>6, <2>3, <2>4, <2>5 DEF Shows
  <2>6. CASE ~(down \/ f < t)
    <3>1. view = items /\ left = rest /\ v = t /\ t <= f
      <4>1. view = items
        BY <2>6 DEF Shows
      <4>2. t <= f
        BY <1>5, <1>8, <2>6
      <4> QED
        BY <4>1, <4>2 DEF get_item_row
    <3>2. CASE from = to
      <4>1. ASSUME NEW i \in 1 .. Len(items) PROVE shown[i] = items[i]
        <5> HIDE DEF v, left, rest, f, t, shown
        <5>0. f = t
          BY <3>2 DEF f, t
        <5>1. i \in 1 .. Len(left) + 1 /\ i \in Nat /\ f \in Nat
          BY <1>1, <1>3, <1>5
        <5>2. CASE i < f
          <6>1. i \in 1 .. Len(items) - 1
            BY <1>1, <1>5, <5>1, <5>2
          <6> QED
            BY <1>2, <2>3, <3>1, <5>0, <5>1, <5>2, <6>1
        <5>3. CASE i = f
          BY <1>5, <2>3, <3>1, <5>0, <5>1, <5>3
        <5>4. CASE i > f
          <6>1. i - 1 \in 1 .. Len(items) - 1 /\ ~(i - 1 < f) /\ (i - 1) + 1 = i /\ ~(i < v) /\ i # v
            BY <1>1, <1>5, <3>1, <5>0, <5>1, <5>4
          <6>2. shown[i] = left[i - 1] /\ rest[i - 1] = items[i]
            BY <1>2, <2>3, <5>1, <6>1
          <6> QED
            BY <3>1, <6>2
        <5> QED
          BY <5>1, <5>2, <5>3, <5>4
      <4>2. shown = items
        <5> HIDE DEF shown
        <5> QED
          BY <2>3, <2>4, <4>1, SeqEqual
      <4> QED
        BY <1>0, <2>3, <2>6, <3>2, <4>2 DEF Shows
    <3>3. CASE from # to
      <4>1. to \in Range(rest) /\ t < f
        <5>1. t # f
          BY <1>5, <1>8, <3>3
        <5> QED
          BY <1>2, <1>5, <1>8, <3>1, <3>3, <5>1
      <4> DEFINE at == IterOf(rest, to)
      <4>2. at \in 1 .. Len(rest) /\ rest[at] = to
        BY <1>2, <4>1, WhereItemIs
      <4>3. t \in 1 .. Len(items) - 1 /\ rest[t] = items[t] /\ items[t] = to
        <5> HIDE DEF t, f, rest
        <5>1. t \in 1 .. Len(items) /\ items[t] = to /\ f \in 1 .. Len(items) /\ t < f
          BY <1>5, <1>8, <4>1
        <5>2. t \in 1 .. Len(items) - 1
          BY <1>1, <5>1
        <5> QED
          BY <1>2, <5>1, <5>2
      <4>4. at = t
        <5>1. DOMAIN rest = 1 .. Len(rest)
          BY <1>2, InRange
        <5> HIDE DEF at, t, rest
        <5> QED
          BY <1>2, <4>2, <4>3, <5>1 DEF IsInjective
      <4>5. new = shown
        BY <1>0, <2>2, <3>1, <3>3, <4>4
      <4> QED
        BY <1>6, <2>6, <4>5 DEF Shows
    <3> QED
      BY <3>2, <3>3
  <2> QED
    BY <1>6, <2>3, <2>5, <2>6
<1> QED
  BY <1>6, <1>7, <1>8

-----------------------------------------------------------------------------
(* The invariant.                                                           *)

\* What is given to a thread, when the input has given n url ids
JobType(n) ==
  [op : {"addlist"}, loaded : Nat, urls : Nat]
    \cup [op : {"add"}, list : Nat, item : ItemIds, urls : Nat]
    \cup [op : {"remove", "start", "seek"}, list : Nat, item : ItemIds]
    \cup [op : {"move"}, list : Nat, item : ItemIds, to : ItemIds]
    \cup [op : {"removelist"}, list : Nat]
    \cup [op : {"stop", "pause", "cont", "seekfinished"}]
    \cup [op : {"input_opened"}, url : 0 .. n - 1, ok : BOOLEAN]
    \cup [op : {"decoder_opened"}, url : 0 .. n - 1, ok : {TRUE}]
    \cup [op : {"progress"}, url : 0 .. n - 1, near : BOOLEAN]

Stages == {"added", "input_opened", "input", "decoder_opened", "output", "failed"}

TrackType(n) == [url : 0 .. n - 1, list : Nat, item : ItemIds, stage : Stages, near : BOOLEAN]

CallbackType ==
  [op : {"addlist"}, list : Nat, ids : Seq(Nat)]
    \cup [op : {"add"}, list : Nat, ids : Seq(Nat), item : ItemIds]
    \cup [op : {"remove", "progress"}, list : Nat, item : ItemIds]
    \cup [op : {"move"}, list : Nat, item : ItemIds, to : ItemIds]
    \cup [op : {"removelist"}, list : Nat]
    \cup [op : {"seekfinished"}]

\* A playlist, when the input has given n url ids
ListOK(p, n) ==
  /\ p = [items |-> p.items, url |-> p.url, made |-> p.made]
  /\ Once(p.items) /\ p.made \in Nat /\ Range(p.items) \subseteq 0 .. p.made - 1
  /\ p.url \in [0 .. p.made - 1 -> INVALID .. n - 1]

ListsOK ==
  /\ listCount \in Nat /\ urlCount \in Nat /\ DOMAIN lists \subseteq 0 .. listCount - 1
  /\ \A l \in DOMAIN lists : ListOK(lists[l], urlCount)

PlayerOK ==
  /\ currentList \in INVALID .. listCount - 1 /\ currentItem \in ItemIds
  /\ addedNext \in BOOLEAN /\ movedDown \in BOOLEAN
  /\ jobs \in Seq(JobType(urlCount)) /\ pipeline \in Seq(TrackType(urlCount))
  /\ decoding \in BOOLEAN /\ outputState \in PluginStates /\ seeking \in Nat

UserOK ==
  /\ tab \in DOMAIN views \cup {INVALID} /\ (tab = INVALID <=> DOMAIN views = {})
  /\ shownItem \in ItemIds /\ seekBlock \in BOOLEAN /\ uiState \in PluginStates
  /\ user \in 0 .. MaxUser

\* Tabs, each of a playlist there is or was, of the first n, and showing an item once
TabsOK(vs, n) == DOMAIN vs \subseteq 0 .. n - 1 /\ \A l \in DOMAIN vs : Once(vs[l])

\* Tabs that show the playlists ls as they are
Follows(vs, ls, down) ==
  DOMAIN vs = DOMAIN ls /\ \A l \in DOMAIN ls : Shows(down, vs[l], ls[l].items)

\* What the tabs vs become, callback by callback, when there were n playlists
Leads(h, vs, cbs, n) ==
  /\ h[0] = vs /\ \A i \in 1 .. Len(cbs) : h[i] = ViewsAfter(h[i - 1], cbs[i])
  /\ \A i \in 0 .. Len(cbs) : TabsOK(h[i], n)

Following ==
  /\ callbacks \in Seq(CallbackType)
  /\ \E h : Leads(h, views, callbacks, listCount) /\ Follows(h[Len(callbacks)], lists, movedDown)

IInv == ListsOK /\ PlayerOK /\ UserOK /\ Following

\* What a job has, by its operation; and it stays one when there are more url ids.
LEMMA JobFields ==
  ASSUME NEW n \in Nat, NEW j \in JobType(n)
  PROVE  /\ j.op = "addlist" => j.loaded \in Nat /\ j.urls \in Nat
         /\ j.op = "add" => j.list \in Nat /\ j.item \in ItemIds /\ j.urls \in Nat
         /\ j.op \in {"remove", "start", "seek"} => j.list \in Nat /\ j.item \in ItemIds
         /\ j.op = "move" => j.list \in Nat /\ j.item \in ItemIds /\ j.to \in ItemIds
         /\ j.op = "removelist" => j.list \in Nat
         /\ j.op \in {"input_opened", "decoder_opened"} => j.url \in 0 .. n - 1 /\ j.ok \in BOOLEAN
         /\ j.op = "decoder_opened" => j.ok = TRUE
         /\ j.op = "progress" => j.url \in 0 .. n - 1 /\ j.near \in BOOLEAN
         /\ j \in JobType(n + 1)
<1>1. 0 .. n - 1 \subseteq 0 .. (n + 1) - 1
  OBVIOUS
<1> QED
  BY <1>1 DEF JobType

\* Jobs and tracks stay what they are when the input gives another url id.
LEMMA MoreUrls ==
  ASSUME NEW n \in Nat
  PROVE  /\ \A s \in Seq(JobType(n)) : s \in Seq(JobType(n + 1))
         /\ \A s \in Seq(TrackType(n)) : s \in Seq(TrackType(n + 1))
<1>1. JobType(n) \subseteq JobType(n + 1)
  BY JobFields
<1>2. TrackType(n) \subseteq TrackType(n + 1)
  <2>1. 0 .. n - 1 \subseteq 0 .. (n + 1) - 1
    OBVIOUS
  <2> QED
    BY <2>1 DEF TrackType
<1> QED
  BY <1>1, <1>2, SeqMonotonic

\* The ids of new items are not those of the items there are.
LEMMA IdsAreNew ==
  ASSUME NEW p, NEW m \in Nat, ListOK(p, m), NEW n \in Nat
  PROVE  /\ Once(NewIds(p, n)) /\ Len(NewIds(p, n)) = n /\ Range(NewIds(p, n)) = p.made .. p.made + n - 1
         /\ Range(NewIds(p, n)) \cap Range(p.items) = {}
<1>1. p.made \in Nat /\ Range(p.items) \subseteq 0 .. p.made - 1
  BY DEF ListOK
<1> DEFINE s == NewIds(p, n)
<1>2. s = [i \in 1 .. n |-> p.made + i - 1]
  BY DEF NewIds
<1>3. s \in Seq(Nat) /\ Len(s) = n /\ DOMAIN s = 1 .. n
  <2>1. s \in [1 .. n -> Nat]
    BY <1>1, <1>2
  <2>2. s \in Seq(Nat)
    BY <2>1
  <2> QED
    BY <1>2, <2>2, LenProperties
<1>4. Range(s) = p.made .. p.made + n - 1
  <2>1. ASSUME NEW k \in p.made .. p.made + n - 1 PROVE k \in Range(s)
    <3>1. k - p.made + 1 \in 1 .. n /\ p.made + (k - p.made + 1) - 1 = k
      BY <1>1
    <3> QED
      BY <1>2, <1>3, <3>1 DEF Range
  <2>2. ASSUME NEW i \in 1 .. n PROVE s[i] \in p.made .. p.made + n - 1
    BY <1>1, <1>2
  <2> QED
    BY <1>3, <2>1, <2>2 DEF Range
<1>5. IsInjective(s)
  BY <1>1, <1>2, <1>3 DEF IsInjective
<1> HIDE DEF s
<1>6. Range(s) \cap Range(p.items) = {}
  BY <1>1, <1>4
<1> QED
  BY <1>3, <1>4, <1>5, <1>6 DEF s, Once

\* Items added to a playlist.
LEMMA AddOK ==
  ASSUME NEW p, NEW m \in Nat, ListOK(p, m), NEW n \in Nat, NEW id
  PROVE  /\ add_items(p, id, n).items = Inserted(p.items, IterOf(p.items, id), NewIds(p, n))
         /\ ListOK(add_items(p, id, n), m)
<1> DEFINE q == add_items(p, id, n)
           at == IterOf(p.items, id)
           ids == NewIds(p, n)
<1>1. /\ Once(p.items) /\ p.made \in Nat /\ Range(p.items) \subseteq 0 .. p.made - 1
      /\ p.url \in [0 .. p.made - 1 -> INVALID .. m - 1]
  BY DEF ListOK
<1>2. /\ q = [items |-> q.items, url |-> q.url, made |-> q.made]
      /\ q.items = Inserted(p.items, at, ids) /\ q.made = p.made + n
      /\ q.url = [i \in 0 .. p.made + n - 1 |-> IF i < p.made THEN p.url[i] ELSE INVALID]
  BY DEF add_items, Inserted
<1>3. Once(ids) /\ Range(ids) = p.made .. p.made + n - 1 /\ Range(ids) \cap Range(p.items) = {}
  BY IdsAreNew
<1>4. at \in 1 .. Len(p.items) + 1
  BY <1>1, WhereItemIs DEF Once
<1>5. /\ Inserted(p.items, at, ids) \in Seq(Nat) /\ IsInjective(Inserted(p.items, at, ids))
      /\ Range(Inserted(p.items, at, ids)) = Range(p.items) \cup Range(ids)
  <2> HIDE DEF at, ids
  <2> QED
    BY <1>1, <1>3, <1>4, InsertSeq DEF Once
<1> HIDE DEF q, at, ids
<1>6. Range(q.items) \subseteq 0 .. q.made - 1
  BY <1>1, <1>2, <1>3, <1>5
<1>7. q.url \in [0 .. q.made - 1 -> INVALID .. m - 1]
  <2>1. \A i \in 0 .. p.made + n - 1 : i < p.made => p.url[i] \in INVALID .. m - 1
    BY <1>1
  <2>2. INVALID \in INVALID .. m - 1
    BY DEF INVALID
  <2>3. \A i \in 0 .. p.made + n - 1 : (IF i < p.made THEN p.url[i] ELSE INVALID) \in INVALID .. m - 1
    BY <2>1, <2>2
  <2>4. [i \in 0 .. p.made + n - 1 |-> IF i < p.made THEN p.url[i] ELSE INVALID]
           \in [0 .. p.made + n - 1 -> INVALID .. m - 1]
    BY <2>3
  <2> HIDE DEF q
  <2>5. q.url \in [0 .. p.made + n - 1 -> INVALID .. m - 1]
    BY <1>2, <2>4
  <2>6. 0 .. q.made - 1 = 0 .. p.made + n - 1
    <3>1. q.made = p.made + n /\ p.made \in Nat
      BY <1>1, <1>2
    <3> QED
      BY <3>1
  <2> QED
    BY <2>5, <2>6
<1> QED
  BY <1>1, <1>2, <1>5, <1>6, <1>7 DEF ListOK, Once, q, at, ids

\* A playlist that is loaded.
LEMMA LoadOK ==
  ASSUME NEW n \in Nat, NEW m \in Nat
  PROVE  ListOK(load_playlist(n), m)
<1>1. ListOK(NoItems, m)
  <2>1. Once(<<>>) /\ Range(<<>>) = {}
    BY NothingIn DEF Once
  <2>2. <<>> \in [0 .. 0 - 1 -> INVALID .. m - 1]
    <3>1. <<>> = [i \in {} |-> i] /\ 0 .. 0 - 1 = {}
      OBVIOUS
    <3> QED
      BY <3>1
  <2> QED
    BY <2>1, <2>2 DEF ListOK, NoItems
<1> QED
  BY <1>1, AddOK DEF load_playlist

\* An item taken out of a playlist.
LEMMA RemoveOK ==
  ASSUME NEW p, NEW m \in Nat, ListOK(p, m), NEW id \in Range(p.items)
  PROVE  remove_item(p, id).items = RemoveFirst(p.items, id) /\ ListOK(remove_item(p, id), m)
<1>1. /\ p = [items |-> p.items, url |-> p.url, made |-> p.made]
      /\ Once(p.items) /\ p.made \in Nat /\ Range(p.items) \subseteq 0 .. p.made - 1
      /\ p.url \in [0 .. p.made - 1 -> INVALID .. m - 1]
  BY DEF ListOK
<1>2. remove_item(p, id) = [items |-> RemoveFirst(p.items, id), url |-> p.url, made |-> p.made]
  BY <1>1 DEF remove_item
<1>3. Once(RemoveFirst(p.items, id)) /\ Range(RemoveFirst(p.items, id)) = Range(p.items) \ {id}
  BY <1>1, TakeOut DEF Once
<1> QED
  BY <1>1, <1>2, <1>3 DEF ListOK

\* An item moved in a playlist.
LEMMA MoveOK ==
  ASSUME NEW p, NEW m \in Nat, ListOK(p, m), NEW from \in Range(p.items), NEW to
  PROVE  /\ move_item(p, from, to).items = Moved(p.items, from, to)
         /\ ListOK(move_item(p, from, to), m)
<1>1. /\ p = [items |-> p.items, url |-> p.url, made |-> p.made]
      /\ Once(p.items) /\ p.made \in Nat /\ Range(p.items) \subseteq 0 .. p.made - 1
      /\ p.url \in [0 .. p.made - 1 -> INVALID .. m - 1]
  BY DEF ListOK
<1>2. move_item(p, from, to) = [items |-> Moved(p.items, from, to), url |-> p.url, made |-> p.made]
  BY <1>1 DEF move_item, Moved
<1>3. Once(Moved(p.items, from, to)) /\ Range(Moved(p.items, from, to)) = Range(p.items)
  <2> DEFINE v == p.items
             down == TRUE
  <2>1. Once(v) /\ Shows(down, v, v) /\ from \in Range(v) /\ down \in BOOLEAN
    BY <1>1 DEF Shows
  <2> HIDE DEF v, down
  <2>2. Once(Moved(v, from, to)) /\ Range(Moved(v, from, to)) = Range(v)
    BY <2>1, MoveShown
  <2> QED
    BY <2>2 DEF v
<1> QED
  BY <1>1, <1>2, <1>3 DEF ListOK

\* An item given its url id.
LEMMA UpdateOK ==
  ASSUME NEW p, NEW m \in Nat, ListOK(p, m), NEW id \in Range(p.items)
  PROVE  /\ update_url_id(p, id, m).items = p.items
         /\ update_url_id(p, id, m).url = [p.url EXCEPT ![id] = m] /\ DOMAIN p.url = 0 .. p.made - 1
         /\ update_url_id(p, id, m).made = p.made
         /\ id \in 0 .. p.made - 1 /\ ListOK(update_url_id(p, id, m), m + 1) /\ ListOK(p, m + 1)
<1>1. /\ p = [items |-> p.items, url |-> p.url, made |-> p.made]
      /\ Once(p.items) /\ p.made \in Nat /\ Range(p.items) \subseteq 0 .. p.made - 1
      /\ p.url \in [0 .. p.made - 1 -> INVALID .. m - 1] /\ id \in 0 .. p.made - 1
  BY DEF ListOK
<1>2. update_url_id(p, id, m) = [items |-> p.items, url |-> [p.url EXCEPT ![id] = m], made |-> p.made]
  <2>1. update_url_id(p, id, m) = [p EXCEPT !.url = [p.url EXCEPT ![id] = m]]
    BY DEF update_url_id
  <2>2. \A u : [p EXCEPT !.url = u] = [items |-> p.items, url |-> u, made |-> p.made]
    BY <1>1
  <2> QED
    BY <2>1, <2>2
<1>3. INVALID .. m - 1 \subseteq INVALID .. (m + 1) - 1 /\ m \in INVALID .. (m + 1) - 1
  BY DEF INVALID
<1>4. p.url \in [0 .. p.made - 1 -> INVALID .. (m + 1) - 1]
  BY <1>1, <1>3
<1>5. [p.url EXCEPT ![id] = m] \in [0 .. p.made - 1 -> INVALID .. (m + 1) - 1]
  BY <1>1, <1>3, <1>4
<1> QED
  BY <1>1, <1>2, <1>4, <1>5 DEF ListOK

-----------------------------------------------------------------------------
(* Callbacks.                                                               *)

\* The tabs are well formed.
LEMMA TabsAreOK ==
  ASSUME Following
  PROVE  TabsOK(views, listCount)
<1>1. Len(callbacks) \in Nat
  BY InRange DEF Following
<1>2. 0 \in 0 .. Len(callbacks)
  BY <1>1
<1> QED
  BY <1>2 DEF Following, Leads

\* More playlists
LEMMA MoreTabs ==
  ASSUME NEW n \in Nat, NEW m \in Nat, n <= m, NEW vs, TabsOK(vs, n)
  PROVE  TabsOK(vs, m)
<1>1. 0 .. n - 1 \subseteq 0 .. m - 1
  OBVIOUS
<1> QED
  BY <1>1 DEF TabsOK

\* Nothing is told of what does not show.
LEMMA TellsNothing ==
  ASSUME Following, UNCHANGED <<callbacks, views>>, listCount \in Nat, listCount' \in Nat, listCount <= listCount',
         \A vs : Follows(vs, lists, movedDown) => Follows(vs, lists', movedDown')
  PROVE  Following'
<1>1. PICK h : Leads(h, views, callbacks, listCount) /\ Follows(h[Len(callbacks)], lists, movedDown)
  BY DEF Following
<1>2. Leads(h, views, callbacks, listCount')
  <2>1. \A i \in 0 .. Len(callbacks) : TabsOK(h[i], listCount')
    BY <1>1, MoreTabs DEF Leads
  <2> QED
    BY <1>1, <2>1 DEF Leads
<1>3. Follows(h[Len(callbacks)], lists', movedDown')
  BY <1>1
<1> QED
  BY <1>2, <1>3 DEF Following

\* A change is told, and the tabs follow if they did before.
LEMMA TellsOne ==
  ASSUME Following, NEW cb \in CallbackType, callbacks' = callbacks \o <<cb>>, UNCHANGED views,
         listCount \in Nat, listCount' \in Nat, listCount <= listCount',
         \A vs : TabsOK(vs, listCount) /\ Follows(vs, lists, movedDown) =>
                   TabsOK(ViewsAfter(vs, cb), listCount') /\ Follows(ViewsAfter(vs, cb), lists', movedDown')
  PROVE  Following'
<1>1. PICK h : Leads(h, views, callbacks, listCount) /\ Follows(h[Len(callbacks)], lists, movedDown)
  BY DEF Following
<1> DEFINE n == Len(callbacks)
           g == [i \in 0 .. n + 1 |-> IF i <= n THEN h[i] ELSE ViewsAfter(h[n], cb)]
           cbs == callbacks \o <<cb>>
<1>2. callbacks \in Seq(CallbackType) /\ n \in Nat
  BY InRange DEF Following
<1>3. cbs \in Seq(CallbackType) /\ Len(cbs) = n + 1 /\ \A i \in 1 .. n + 1 : cbs[i] = IF i <= n THEN callbacks[i] ELSE cb
  <2> DEFINE t == <<cb>>
  <2>1. t \in Seq(CallbackType) /\ Len(t) = 1 /\ t[1] = cb
    BY SingleSeq
  <2>2. cbs = callbacks \o t
    OBVIOUS
  <2> HIDE DEF t, cbs
  <2>3. /\ callbacks \o t \in Seq(CallbackType) /\ Len(callbacks \o t) = Len(callbacks) + Len(t)
        /\ \A i \in 1 .. Len(callbacks) + Len(t) : (callbacks \o t)[i] = IF i <= Len(callbacks) THEN callbacks[i] ELSE t[i - Len(callbacks)]
    <3>1. callbacks \in Seq(CallbackType) /\ t \in Seq(CallbackType)
      BY <1>2, <2>1
    <3> QED
      BY ONLY <3>1, ConcatRange
  <2>4. \A i \in 1 .. n + 1 : i <= n \/ i - n = 1
    BY <1>2
  <2> QED
    BY <2>1, <2>2, <2>3, <2>4
<1>4. TabsOK(h[n], listCount) /\ h[0] = views
  BY <1>1, <1>2 DEF Leads
<1>5. TabsOK(ViewsAfter(h[n], cb), listCount') /\ Follows(ViewsAfter(h[n], cb), lists', movedDown')
  BY <1>1, <1>4
<1>6. g[0] = views /\ g[n + 1] = ViewsAfter(h[n], cb) /\ \A i \in 0 .. n : g[i] = h[i]
  BY <1>2, <1>4
<1>7. \A i \in 1 .. n + 1 : g[i] = ViewsAfter(g[i - 1], cbs[i])
  <2> HIDE DEF g, cbs
  <2>1. ASSUME NEW i \in 1 .. n PROVE g[i] = ViewsAfter(g[i - 1], cbs[i])
    <3>1. i \in 0 .. n /\ i - 1 \in 0 .. n /\ i \in 1 .. n + 1 /\ i <= n /\ i \in 1 .. Len(callbacks)
      BY <1>2
    <3>2. h[i] = ViewsAfter(h[i - 1], callbacks[i])
      BY <1>1, <3>1 DEF Leads
    <3> QED
      BY <1>3, <1>6, <3>1, <3>2
  <2>2. g[n + 1] = ViewsAfter(g[n], cbs[n + 1])
    <3>1. n \in 0 .. n /\ n + 1 \in 1 .. n + 1 /\ ~(n + 1 <= n)
      BY <1>2
    <3> QED
      BY <1>3, <1>6, <3>1
  <2>3. \A i \in 1 .. n + 1 : i \in 1 .. n \/ (i = n + 1 /\ i - 1 = n)
    BY <1>2
  <2> QED
    BY <2>1, <2>2, <2>3
<1>8. \A i \in 0 .. n + 1 : TabsOK(g[i], listCount')
  <2> HIDE DEF g
  <2>1. \A i \in 0 .. n : TabsOK(h[i], listCount')
    BY <1>1, MoreTabs DEF Leads
  <2>2. \A i \in 0 .. n + 1 : i \in 0 .. n \/ i = n + 1
    BY <1>2
  <2> QED
    BY <1>5, <1>6, <2>1, <2>2
<1> HIDE DEF g, cbs
<1>9. Leads(g, views, cbs, listCount') /\ Follows(g[Len(cbs)], lists', movedDown')
  BY <1>3, <1>5, <1>6, <1>7, <1>8 DEF Leads
<1>10. callbacks' = cbs
  BY DEF cbs
<1> QED
  BY <1>3, <1>9, <1>10 DEF Following

\* The first callback runs: the others lead on.
LEMMA RunsFirst ==
  ASSUME Following, callbacks # <<>>, callbacks' = Tail(callbacks), views' = ViewsAfter(views, Head(callbacks)),
         UNCHANGED <<listCount, lists, movedDown>>
  PROVE  Following' /\ Head(callbacks) \in CallbackType
<1>1. PICK h : Leads(h, views, callbacks, listCount) /\ Follows(h[Len(callbacks)], lists, movedDown)
  BY DEF Following
<1> DEFINE n == Len(callbacks)
           g == [i \in 0 .. n - 1 |-> h[i + 1]]
           cbs == Tail(callbacks)
<1>2. callbacks \in Seq(CallbackType) /\ n \in Nat \ {0}
  BY InRange DEF Following
<1>3. /\ cbs \in Seq(CallbackType) /\ Len(cbs) = n - 1 /\ \A i \in 1 .. n - 1 : cbs[i] = callbacks[i + 1]
      /\ Head(callbacks) = callbacks[1] /\ Head(callbacks) \in CallbackType
  BY <1>2, TailRange
<1>4. views' = h[1]
  <2>1. 1 \in 1 .. n /\ 1 - 1 = 0
    BY <1>2
  <2> QED
    BY <1>1, <1>3, <2>1 DEF Leads
<1>5. \A i \in 0 .. n - 1 : g[i] = h[i + 1]
  OBVIOUS
<1> HIDE DEF g, cbs
<1>6. g[0] = views'
  BY <1>2, <1>4, <1>5
<1>7. \A i \in 1 .. n - 1 : g[i] = ViewsAfter(g[i - 1], cbs[i])
  <2> SUFFICES ASSUME NEW i \in 1 .. n - 1 PROVE g[i] = ViewsAfter(g[i - 1], cbs[i])
    OBVIOUS
  <2>1. i \in 0 .. n - 1 /\ i - 1 \in 0 .. n - 1 /\ (i - 1) + 1 = i /\ i + 1 \in 1 .. n /\ (i + 1) - 1 = i
    BY <1>2
  <2>2. h[i + 1] = ViewsAfter(h[i], callbacks[i + 1])
    BY <1>1, <2>1 DEF Leads
  <2> QED
    BY <1>3, <1>5, <2>1, <2>2
<1>8. \A i \in 0 .. n - 1 : TabsOK(g[i], listCount)
  <2> SUFFICES ASSUME NEW i \in 0 .. n - 1 PROVE TabsOK(g[i], listCount)
    OBVIOUS
  <2>1. i + 1 \in 0 .. n
    BY <1>2
  <2> QED
    BY <1>1, <1>5, <2>1 DEF Leads
<1>9. g[n - 1] = h[n]
  <2>1. n - 1 \in 0 .. n - 1 /\ (n - 1) + 1 = n
    BY <1>2
  <2> QED
    BY <1>5, <2>1
<1>10. Leads(g, views', cbs, listCount') /\ Follows(g[Len(cbs)], lists', movedDown')
  BY <1>1, <1>3, <1>6, <1>7, <1>8, <1>9 DEF Leads
<1>11. callbacks' = cbs
  BY DEF cbs
<1> QED
  BY <1>3, <1>10, <1>11 DEF Following

-----------------------------------------------------------------------------
(* Sequences and playlists that change.                                     *)

\* One element is taken out.
LEMMA TakeAt ==
  ASSUME NEW S, NEW s \in Seq(S), NEW i \in 1 .. Len(s)
  PROVE  /\ RemoveAt(s, i) \in Seq(S) /\ Len(RemoveAt(s, i)) = Len(s) - 1
         /\ \A j \in 1 .. Len(s) - 1 : RemoveAt(s, i)[j] = IF j < i THEN s[j] ELSE s[j + 1]
<1> DEFINE a == SubSeq(s, 1, i - 1)
           b == SubSeq(s, i + 1, Len(s))
           r == RemoveAt(s, i)
<1>1. /\ a \in Seq(S) /\ Len(a) = i - 1 /\ \A j \in 1 .. i - 1 : a[j] = s[j]
      /\ b \in Seq(S) /\ Len(b) = Len(s) - i /\ \A j \in 1 .. Len(s) - i : b[j] = s[i + j]
  BY SplitSeq
<1>2. r = a \o b
  BY DEF RemoveAt
<1>3. Len(s) \in Nat /\ i \in Nat
  BY InRange
<1> HIDE DEF a, b, r
<1>4. /\ a \o b \in Seq(S) /\ Len(a \o b) = Len(a) + Len(b)
      /\ \A j \in 1 .. Len(a) + Len(b) : (a \o b)[j] = IF j <= Len(a) THEN a[j] ELSE b[j - Len(a)]
  <2>1. a \in Seq(S) /\ b \in Seq(S)
    BY <1>1
  <2> QED
    BY <2>1, ConcatRange
<1>5. Len(a) + Len(b) = Len(s) - 1
  BY <1>1, <1>3
<1>6. ASSUME NEW j \in 1 .. Len(s) - 1 PROVE r[j] = IF j < i THEN s[j] ELSE s[j + 1]
  <2>1. CASE j < i
    <3>1. j \in 1 .. i - 1 /\ j <= Len(a)
      BY <1>1, <1>3, <2>1
    <3> QED
      BY <1>1, <1>2, <1>4, <1>5, <2>1, <3>1
  <2>2. CASE ~(j < i)
    <3>1. j - Len(a) \in 1 .. Len(s) - i /\ i + (j - Len(a)) = j + 1 /\ ~(j <= Len(a))
      BY <1>1, <1>3, <2>2
    <3> QED
      BY <1>1, <1>2, <1>4, <1>5, <2>2, <3>1
  <2> QED
    BY <2>1, <2>2
<1> QED
  BY <1>2, <1>4, <1>5, <1>6 DEF r

\* A playlist has the same items when one of them has a new url id, and only then is
\* it given to the input.
LEMMA Continues ==
  ASSUME ListsOK, PlayerOK, NEW l, NEW id, cont_play_internal(l, id), UNCHANGED <<listCount, movedDown>>
  PROVE  /\ ListsOK' /\ pipeline' \in Seq(TrackType(urlCount'))
         /\ urlCount' \in Nat /\ urlCount <= urlCount' /\ jobs \in Seq(JobType(urlCount'))
         /\ DOMAIN lists' = DOMAIN lists /\ \A m \in DOMAIN lists : lists'[m].items = lists[m].items
<1>1. CASE l \in DOMAIN lists /\ id \in Range(lists[l].items)
  <2> DEFINE new == [url |-> urlCount, list |-> l, item |-> id, stage |-> "added", near |-> FALSE]
  <2>1. get_playlist_item_with_item_id(lists[l], id) # {}
    BY <1>1 DEF get_playlist_item_with_item_id
  <2>2. /\ lists' = [lists EXCEPT ![l] = update_url_id(lists[l], id, urlCount)]
        /\ pipeline' = Append(pipeline, new) /\ urlCount' = urlCount + 1
    BY <1>1, <2>1 DEF cont_play_internal
  <2>3. ListOK(lists[l], urlCount) /\ urlCount \in Nat /\ l \in Nat
    BY <1>1 DEF ListsOK
  <2>4. /\ update_url_id(lists[l], id, urlCount).items = lists[l].items
        /\ ListOK(update_url_id(lists[l], id, urlCount), urlCount + 1)
    BY <1>1, <2>3, UpdateOK
  <2>5. \A m \in DOMAIN lists : ListOK(lists[m], urlCount + 1)
    <3> SUFFICES ASSUME NEW m \in DOMAIN lists PROVE ListOK(lists[m], urlCount + 1)
      OBVIOUS
    <3>1. ListOK(lists[m], urlCount)
      BY DEF ListsOK
    <3>2. INVALID .. urlCount - 1 \subseteq INVALID .. (urlCount + 1) - 1
      BY <2>3 DEF INVALID
    <3> QED
      BY <3>1, <3>2 DEF ListOK
  <2>6. ListsOK'
    BY <2>2, <2>3, <2>4, <2>5 DEF ListsOK
  <2>7. pipeline \in Seq(TrackType(urlCount + 1)) /\ jobs \in Seq(JobType(urlCount + 1))
    BY <2>3, MoreUrls DEF PlayerOK
  <2>8. new \in TrackType(urlCount + 1)
    <3>1. urlCount \in 0 .. (urlCount + 1) - 1 /\ id \in ItemIds
      <4>1. id \in Nat
        BY <1>1, <2>3, InRange DEF ListOK, Once
      <4> QED
        BY <2>3, <4>1 DEF ItemIds
    <3> QED
      BY <2>3, <3>1 DEF TrackType, Stages
  <2>9. Append(pipeline, new) \in Seq(TrackType(urlCount + 1))
    BY <2>7, <2>8, AppendRange
  <2> QED
    BY <1>1, <2>2, <2>3, <2>4, <2>6, <2>7, <2>9
<1>2. CASE ~(l \in DOMAIN lists /\ id \in Range(lists[l].items))
  <2>1. UNCHANGED <<lists, pipeline, urlCount>>
    BY <1>2 DEF cont_play_internal, get_playlist_item_with_item_id
  <2> QED
    BY <2>1 DEF ListsOK, PlayerOK
<1> QED
  BY <1>1, <1>2

\* The tabs show playlists that have the same items.
LEMMA SameItems ==
  ASSUME Following, UNCHANGED <<callbacks, views, listCount, movedDown>>, listCount \in Nat,
         DOMAIN lists' = DOMAIN lists, \A m \in DOMAIN lists : lists'[m].items = lists[m].items
  PROVE  Following'
<1>1. \A vs : Follows(vs, lists, movedDown) => Follows(vs, lists', movedDown')
  BY DEF Follows
<1>2. listCount' \in Nat /\ listCount <= listCount'
  OBVIOUS
<1> QED
  BY <1>1, <1>2, TellsNothing

-----------------------------------------------------------------------------
(* The user keeps the invariant.                                            *)

\* Jobs that are posted.
LEMMA Posts ==
  ASSUME IInv, NEW js \in Seq(JobType(urlCount)), UserPosts(js), UNCHANGED <<content, player, sound, callbacks, views>>
  PROVE  ListsOK' /\ PlayerOK' /\ Following' /\ user' \in 0 .. MaxUser
<1>1. UNCHANGED <<lists, listCount, movedDown, currentList, currentItem, addedNext, urlCount, pipeline, decoding,
                  outputState, seeking, callbacks, views>>
  BY DEF content, player, sound
<1>2. ListsOK' /\ Following'
  BY <1>1 DEF IInv, ListsOK, Following
<1>3. jobs' = jobs \o js /\ user' = user + 1 /\ user < MaxUser /\ jobs \in Seq(JobType(urlCount))
  BY DEF UserPosts, IInv, PlayerOK
<1>4. jobs' \in Seq(JobType(urlCount))
  BY <1>3, ConcatProperties
<1>5. PlayerOK'
  BY <1>1, <1>4 DEF IInv, PlayerOK
<1>6. user' \in 0 .. MaxUser
  BY <1>3, PlaylistAssumption DEF IInv, UserOK
<1> QED
  BY <1>2, <1>5, <1>6

\* The tab shown is one of them; an item in a row of it, if there is one, is an id.
LEMMA ShownItems ==
  ASSUME IInv, tab # INVALID
  PROVE  /\ tab \in DOMAIN views /\ tab \in Nat /\ Once(views[tab]) /\ DOMAIN views[tab] = 1 .. Len(views[tab])
         /\ \A row : get_item_playlist_id(row) \in ItemIds
<1>1. TabsOK(views, listCount)
  BY TabsAreOK DEF IInv
<1>2. tab \in DOMAIN views /\ listCount \in Nat
  BY DEF IInv, UserOK, ListsOK
<1>3. tab \in Nat /\ Once(views[tab])
  BY <1>1, <1>2 DEF TabsOK
<1>4. DOMAIN views[tab] = 1 .. Len(views[tab]) /\ \A i \in DOMAIN views[tab] : views[tab][i] \in Nat
  BY <1>3, InRange DEF Once
<1> QED
  BY <1>2, <1>3, <1>4 DEF get_item_playlist_id, ItemIds

\* One job, or two.
LEMMA FewJobs ==
  ASSUME NEW S
  PROVE  /\ <<>> \in Seq(S) /\ \A a \in S : <<a>> \in Seq(S)
         /\ \A a, b \in S : <<a, b>> \in Seq(S)
<1>1. \A a, b \in S : <<a, b>> \in Seq(S)
  OBVIOUS
<1> QED
  BY <1>1, SingleSeq, EmptySeq

\* A job for each of the selected rows.
LEMMA RowJobs ==
  ASSUME IInv, tab # INVALID, NEW rows \in SelectedRows, NEW S, NEW js, js = [i \in 1 .. Cardinality(rows) |-> js[i]],
         \A i \in 1 .. Cardinality(rows) : js[i] \in S
  PROVE  js \in Seq(S)
<1>1. rows \subseteq 1 .. Len(views[tab]) /\ Len(views[tab]) \in Nat
  BY ShownItems, InRange DEF SelectedRows, Once
<1>2. IsFiniteSet(1 .. Len(views[tab]))
  BY <1>1, FS_Interval
<1>3. IsFiniteSet(rows)
  BY <1>1, <1>2, FS_Subset
<1>4. Cardinality(rows) \in Nat
  BY <1>3, FS_CardinalityType
<1> DEFINE n == Cardinality(rows)
<1>5. n \in Nat /\ js = [i \in 1 .. n |-> js[i]] /\ \A i \in 1 .. n : js[i] \in S
  BY <1>4
<1> HIDE DEF n
<1>6. [i \in 1 .. n |-> js[i]] \in Seq(S)
  BY <1>5
<1> QED
  BY <1>5, <1>6

\* Each action of the user keeps the invariant.
LEMMA UserKeeps ==
  ASSUME IInv, User
  PROVE  IInv'
<1> USE DEF ItemIds
<1>1. listCount \in Nat /\ urlCount \in Nat
  BY DEF IInv, ListsOK
<1>2. \A s \in {<<>>, <<Control("stop")>>, <<Control("pause")>>, <<Control("cont")>>} : s \in Seq(JobType(urlCount))
  <2>1. \A op \in {"stop", "pause", "cont"} : Control(op) \in JobType(urlCount)
    BY DEF Control, JobType
  <2> QED
    BY <2>1, FewJobs
<1>3. UserOK
  BY DEF IInv
<1>4. CASE AddPlaylist
  <2>1. PICK n \in 0 .. MaxLoad : UserPosts(<<[op |-> "addlist", loaded |-> n, urls |-> 0]>>)
    BY <1>4 DEF AddPlaylist
  <2>2. [op |-> "addlist", loaded |-> n, urls |-> 0] \in JobType(urlCount)
    BY PlaylistAssumption DEF JobType
  <2>3. <<[op |-> "addlist", loaded |-> n, urls |-> 0]>> \in Seq(JobType(urlCount))
    BY <2>2, FewJobs
  <2>4. UNCHANGED <<content, player, sound, callbacks, views, tab, shownItem, seekBlock, uiState>>
    BY <1>4 DEF AddPlaylist, ui
  <2> QED
    BY <1>3, <2>1, <2>3, <2>4, Posts DEF IInv, UserOK
<1>5. CASE AddFiles
  <2>1. UNCHANGED <<content, player, sound, callbacks, views, tab, shownItem, seekBlock, uiState>>
    BY <1>5 DEF AddFiles, ui
  <2>2. \E js \in Seq(JobType(urlCount)) : UserPosts(js)
    <3>1. PICK n \in 0 .. MaxAdd :
            IF tab = INVALID
              THEN UserPosts(<<[op |-> "addlist", loaded |-> 0, urls |-> n]>>)
              ELSE \E from \in NextSelected : UserPosts(<<[op |-> "add", list |-> tab, item |-> from, urls |-> n]>>)
      BY <1>5 DEF AddFiles, add_playlist_directory_builder
    <3>2. n \in Nat
      BY PlaylistAssumption
    <3>3. CASE tab = INVALID
      <4>1. [op |-> "addlist", loaded |-> 0, urls |-> n] \in JobType(urlCount)
        BY <3>2 DEF JobType
      <4> QED
        BY <3>1, <3>3, <4>1, FewJobs
    <3>4. CASE tab # INVALID
      <4>1. PICK from \in NextSelected : UserPosts(<<[op |-> "add", list |-> tab, item |-> from, urls |-> n]>>)
        BY <3>1, <3>4
      <4>2. tab \in Nat /\ from \in ItemIds
        BY <3>4, ShownItems DEF NextSelected
      <4>3. [op |-> "add", list |-> tab, item |-> from, urls |-> n] \in JobType(urlCount)
        BY <3>2, <4>2 DEF JobType
      <4> QED
        BY <4>1, <4>3, FewJobs
    <3> QED
      BY <3>3, <3>4
  <2> QED
    BY <1>3, <2>1, <2>2, Posts DEF IInv, UserOK
<1>6. CASE DeleteSelected
  <2>1. PICK rows \in SelectedRows : UserPosts([i \in 1 .. Cardinality(rows) |-> remove_row(FromLast(rows)[i])])
    BY <1>6 DEF DeleteSelected
  <2> DEFINE js == [i \in 1 .. Cardinality(rows) |-> remove_row(FromLast(rows)[i])]
  <2>2. \A row : remove_row(row) \in JobType(urlCount)
    <3>1. tab \in Nat /\ \A row : get_item_playlist_id(row) \in ItemIds
      BY <1>6, ShownItems DEF DeleteSelected
    <3> QED
      BY <3>1 DEF remove_row, ItemJob, JobType
  <2>3. js \in Seq(JobType(urlCount))
    <3>1. js = [i \in 1 .. Cardinality(rows) |-> js[i]] /\ \A i \in 1 .. Cardinality(rows) : js[i] \in JobType(urlCount)
      BY <2>2
    <3>2. tab # INVALID
      BY <1>6 DEF DeleteSelected
    <3> HIDE DEF js
    <3> QED
      BY <3>1, <3>2, RowJobs
  <2>4. UNCHANGED <<content, player, sound, callbacks, views, tab, shownItem, seekBlock, uiState>>
    BY <1>6 DEF DeleteSelected, ui
  <2>5. UserPosts(js)
    BY <2>1
  <2> HIDE DEF js
  <2> QED
    BY <1>3, <2>3, <2>4, <2>5, Posts DEF IInv, UserOK
<1>7. CASE DropRows
  <2>1. PICK rows \in SelectedRows, to \in DOMAIN views[tab] :
          UserPosts([i \in 1 .. Cardinality(rows) |-> MoveJob(tab, get_item_playlist_id(FromLast(rows)[i]), get_item_playlist_id(to))])
    BY <1>7 DEF DropRows
  <2> DEFINE js == [i \in 1 .. Cardinality(rows) |-> MoveJob(tab, get_item_playlist_id(FromLast(rows)[i]), get_item_playlist_id(to))]
  <2>2. \A row : MoveJob(tab, get_item_playlist_id(row), get_item_playlist_id(to)) \in JobType(urlCount)
    <3>1. tab \in Nat /\ \A row : get_item_playlist_id(row) \in ItemIds
      BY <1>7, ShownItems DEF DropRows
    <3> QED
      BY <3>1 DEF MoveJob, JobType
  <2>3. js \in Seq(JobType(urlCount))
    <3>1. js = [i \in 1 .. Cardinality(rows) |-> js[i]] /\ \A i \in 1 .. Cardinality(rows) : js[i] \in JobType(urlCount)
      BY <2>2
    <3>2. tab # INVALID
      BY <1>7 DEF DropRows
    <3> HIDE DEF js
    <3> QED
      BY <3>1, <3>2, RowJobs
  <2>4. UNCHANGED <<content, player, sound, callbacks, views, tab, shownItem, seekBlock, uiState>>
    BY <1>7 DEF DropRows, ui
  <2>5. UserPosts(js)
    BY <2>1
  <2> HIDE DEF js
  <2> QED
    BY <1>3, <2>3, <2>4, <2>5, Posts DEF IInv, UserOK
<1>8. CASE RemoveTab
  <2>1. PICK l \in DOMAIN views : UserPosts(<<ListJob("removelist", l)>>)
    BY <1>8 DEF RemoveTab
  <2>2. l \in Nat
    BY <1>1, TabsAreOK DEF IInv, TabsOK
  <2>3. ListJob("removelist", l) \in JobType(urlCount)
    BY <2>2 DEF ListJob, JobType
  <2>4. <<ListJob("removelist", l)>> \in Seq(JobType(urlCount))
    BY <2>3, FewJobs
  <2>5. UNCHANGED <<content, player, sound, callbacks, views, tab, shownItem, seekBlock, uiState>>
    BY <1>8 DEF RemoveTab, ui
  <2> QED
    BY <1>3, <2>1, <2>4, <2>5, Posts DEF IInv, UserOK
<1>9. CASE ChangeTab
  <2>1. tab' \in DOMAIN views /\ UserPosts(<<>>)
    BY <1>9 DEF ChangeTab
  <2>2. UNCHANGED <<content, player, sound, callbacks, views, shownItem, seekBlock, uiState>>
    BY <1>9 DEF ChangeTab
  <2>3. tab' # INVALID
    BY <1>1, <2>1, TabsAreOK DEF IInv, TabsOK, INVALID
  <2>4. ListsOK' /\ PlayerOK' /\ Following' /\ user' \in 0 .. MaxUser
    BY <1>2, <2>1, <2>2, Posts
  <2>5. UserOK'
    BY <1>3, <2>1, <2>2, <2>3, <2>4 DEF UserOK
  <2> QED
    BY <2>4, <2>5 DEF IInv
<1>10. CASE PlayItem
  <2>1. PICK offset \in {-1, 0, 1} :
          /\ IF tab = INVALID THEN UserPosts(<<>>)
               ELSE \E id \in ItemAtOffset(offset) : UserPosts(<<Control("stop"), ItemJob("start", tab, id)>>)
          /\ uiState' = IF offset = 0 THEN "play" ELSE uiState
    BY <1>10 DEF PlayItem
  <2>2. UNCHANGED <<content, player, sound, callbacks, views, tab, shownItem, seekBlock>>
    BY <1>10 DEF PlayItem
  <2>3. \E js \in Seq(JobType(urlCount)) : UserPosts(js)
    <3>1. CASE tab = INVALID
      BY <1>2, <2>1, <3>1
    <3>2. CASE tab # INVALID
      <4>1. PICK id \in ItemAtOffset(offset) : UserPosts(<<Control("stop"), ItemJob("start", tab, id)>>)
        BY <2>1, <3>2
      <4>2. tab \in Nat /\ id \in ItemIds
        BY <3>2, ShownItems DEF ItemAtOffset
      <4>3. Control("stop") \in JobType(urlCount) /\ ItemJob("start", tab, id) \in JobType(urlCount)
        BY <4>2 DEF Control, ItemJob, JobType
      <4> QED
        BY <4>1, <4>3, FewJobs
    <3> QED
      BY <3>1, <3>2
  <2>4. uiState' \in PluginStates
    BY <1>3, <2>1 DEF UserOK, PluginStates
  <2> QED
    BY <1>3, <2>2, <2>3, <2>4, Posts DEF IInv, UserOK
<1>11. CASE StopPlay
  <2>1. UserPosts(<<Control("stop")>>) /\ uiState' \in PluginStates
    BY <1>11 DEF StopPlay, PluginStates
  <2>2. UNCHANGED <<content, player, sound, callbacks, views, tab, shownItem, seekBlock>>
    BY <1>11 DEF StopPlay
  <2> QED
    BY <1>2, <1>3, <2>1, <2>2, Posts DEF IInv, UserOK
<1>12. CASE TogglePause
  <2>1. (\E op \in {"pause", "cont"} : UserPosts(<<Control(op)>>)) /\ uiState' \in PluginStates
    BY <1>12 DEF TogglePause, PluginStates
  <2>2. UNCHANGED <<content, player, sound, callbacks, views, tab, shownItem, seekBlock>>
    BY <1>12 DEF TogglePause
  <2> QED
    BY <1>2, <1>3, <2>1, <2>2, Posts DEF IInv, UserOK
<1>13. CASE SeekTo
  <2> DEFINE js == seek_duration(get_current_play_ids[1], get_current_play_ids[2])
  <2>1. UserPosts(js) /\ seekBlock' = TRUE
    BY <1>13 DEF SeekTo
  <2>2. UNCHANGED <<content, player, sound, callbacks, views, tab, shownItem, uiState>>
    BY <1>13 DEF SeekTo
  <2>3. js \in Seq(JobType(urlCount))
    <3>1. CASE tab = INVALID
      BY <1>2, <3>1 DEF seek_duration, get_current_play_ids
    <3>2. CASE tab # INVALID
      <4>1. tab \in Nat /\ shownItem \in ItemIds
        BY <1>3, <3>2, ShownItems DEF UserOK
      <4>2. ItemJob("seek", tab, shownItem) \in JobType(urlCount)
        BY <4>1 DEF ItemJob, JobType
      <4>3. js = <<>> \/ js = <<ItemJob("seek", tab, shownItem)>>
        BY <3>2 DEF seek_duration, get_current_play_ids
      <4> QED
        BY <4>2, <4>3, FewJobs
    <3> QED
      BY <3>1, <3>2
  <2> HIDE DEF js
  <2>4. ListsOK' /\ PlayerOK' /\ Following' /\ user' \in 0 .. MaxUser
    BY <2>1, <2>2, <2>3, Posts
  <2>5. UserOK'
    BY <1>3, <2>1, <2>2, <2>4 DEF UserOK
  <2> QED
    BY <2>4, <2>5 DEF IInv
<1> QED
  BY <1>4, <1>5, <1>6, <1>7, <1>8, <1>9, <1>10, <1>11, <1>12, <1>13 DEF User

-----------------------------------------------------------------------------
(* Input, decoder and outputs keep the invariant.                           *)

\* A track that is at another stage, or told to be near its end.
LEMMA TrackChanges ==
  ASSUME NEW n \in Nat, NEW s \in Seq(TrackType(n)), NEW i \in DOMAIN s
  PROVE  /\ Len(s) \in Nat /\ i \in 1 .. Len(s) /\ s[i].url \in 0 .. n - 1
         /\ \A st \in Stages :
              /\ [s EXCEPT ![i].stage = st] \in Seq(TrackType(n)) /\ Len([s EXCEPT ![i].stage = st]) = Len(s)
              /\ \A j \in 1 .. Len(s) : [s EXCEPT ![i].stage = st][j].url = s[j].url
         /\ \A near \in BOOLEAN :
              /\ [s EXCEPT ![i].near = @ \/ near] \in Seq(TrackType(n)) /\ Len([s EXCEPT ![i].near = @ \/ near]) = Len(s)
              /\ \A j \in 1 .. Len(s) : [s EXCEPT ![i].near = @ \/ near][j].url = s[j].url
<1>1. Len(s) \in Nat /\ i \in 1 .. Len(s) /\ s[i] \in TrackType(n)
  BY InRange
<1>2. /\ s[i].url \in 0 .. n - 1 /\ \A st \in Stages : [s[i] EXCEPT !.stage = st] \in TrackType(n)
      /\ \A st \in Stages : [s[i] EXCEPT !.stage = st].url = s[i].url
      /\ \A near \in BOOLEAN : [s[i] EXCEPT !.near = @ \/ near] \in TrackType(n)
      /\ \A near \in BOOLEAN : [s[i] EXCEPT !.near = @ \/ near].url = s[i].url
  BY <1>1 DEF TrackType
<1>3. ASSUME NEW e \in TrackType(n), e.url = s[i].url
      PROVE  /\ [s EXCEPT ![i] = e] \in Seq(TrackType(n)) /\ Len([s EXCEPT ![i] = e]) = Len(s)
             /\ \A j \in 1 .. Len(s) : [s EXCEPT ![i] = e][j].url = s[j].url
  <2>1. /\ [s EXCEPT ![i] = e] \in Seq(TrackType(n)) /\ Len([s EXCEPT ![i] = e]) = Len(s)
        /\ \A j \in 1 .. Len(s) : [s EXCEPT ![i] = e][j] = IF j = i THEN e ELSE s[j]
    BY <1>1, ExceptSeq
  <2> QED
    BY <1>3, <2>1
<1>4. ASSUME NEW st \in Stages
      PROVE  /\ [s EXCEPT ![i].stage = st] \in Seq(TrackType(n)) /\ Len([s EXCEPT ![i].stage = st]) = Len(s)
             /\ \A j \in 1 .. Len(s) : [s EXCEPT ![i].stage = st][j].url = s[j].url
  <2>1. [s EXCEPT ![i].stage = st] = [s EXCEPT ![i] = [s[i] EXCEPT !.stage = st]]
    OBVIOUS
  <2>2. [s[i] EXCEPT !.stage = st] \in TrackType(n) /\ [s[i] EXCEPT !.stage = st].url = s[i].url
    BY <1>2
  <2> QED
    BY <1>3, <2>1, <2>2
<1>5. ASSUME NEW near \in BOOLEAN
      PROVE  /\ [s EXCEPT ![i].near = @ \/ near] \in Seq(TrackType(n)) /\ Len([s EXCEPT ![i].near = @ \/ near]) = Len(s)
             /\ \A j \in 1 .. Len(s) : [s EXCEPT ![i].near = @ \/ near][j].url = s[j].url
  <2>1. [s EXCEPT ![i].near = @ \/ near] = [s EXCEPT ![i] = [s[i] EXCEPT !.near = @ \/ near]]
    OBVIOUS
  <2>2. [s[i] EXCEPT !.near = @ \/ near] \in TrackType(n) /\ [s[i] EXCEPT !.near = @ \/ near].url = s[i].url
    BY <1>2
  <2> QED
    BY <1>3, <2>1, <2>2
<1> QED
  BY <1>1, <1>2, <1>4, <1>5

\* Only the tracks and the jobs, with one more at most, change.
LEMMA PipelineMoves ==
  ASSUME IInv, UNCHANGED <<content, player, urlCount, decoding, outputState, callbacks, ui, user>>,
         pipeline' \in Seq(TrackType(urlCount)), seeking' \in Nat,
         NEW js \in Seq(JobType(urlCount)), jobs' = js
  PROVE  IInv'
<1>1. UNCHANGED <<lists, listCount, movedDown, currentList, currentItem, addedNext, urlCount, decoding,
                  outputState, callbacks, views, tab, shownItem, seekBlock, uiState, user>>
  BY DEF content, player, ui
<1>2. ListsOK' /\ Following' /\ UserOK'
  BY <1>1 DEF IInv, ListsOK, Following, UserOK
<1>3. PlayerOK'
  BY <1>1 DEF IInv, PlayerOK
<1> QED
  BY <1>2, <1>3 DEF IInv

\* Each step of the input, the decoder and the outputs keeps the invariant.
LEMMA PipelineKeeps ==
  ASSUME IInv, Pipeline
  PROVE  IInv'
<1>1. /\ urlCount \in Nat /\ pipeline \in Seq(TrackType(urlCount)) /\ jobs \in Seq(JobType(urlCount)) /\ seeking \in Nat
      /\ decoding \in BOOLEAN
  BY DEF IInv, ListsOK, PlayerOK
<1>2. ASSUME NEW j \in JobType(urlCount) PROVE Append(jobs, j) \in Seq(JobType(urlCount))
  BY <1>1, AppendRange
<1>3. ASSUME NEW stage, NEW op \in {"input_opened", "decoder_opened"}, Opens(stage, op)
      PROVE  IInv'
  <2>1. PICK i \in DOMAIN pipeline :
          /\ jobs' = Append(jobs, [op |-> op, url |-> pipeline[i].url, ok |-> TRUE])
          /\ pipeline' = [pipeline EXCEPT ![i].stage = op]
    BY <1>3 DEF Opens
  <2>2. UNCHANGED <<content, player, urlCount, decoding, outputState, seeking, callbacks, ui, user>>
    BY <1>3 DEF Opens
  <2>3. pipeline[i].url \in 0 .. urlCount - 1 /\ op \in Stages
    BY <1>1, TrackChanges DEF Stages
  <2>4. [op |-> op, url |-> pipeline[i].url, ok |-> TRUE] \in JobType(urlCount)
    BY <2>3 DEF JobType
  <2>5. jobs' \in Seq(JobType(urlCount))
    BY <1>2, <2>1, <2>4
  <2>6. pipeline' \in Seq(TrackType(urlCount))
    BY <1>1, <2>1, <2>3, TrackChanges
  <2> QED
    BY <1>1, <2>2, <2>5, <2>6, PipelineMoves
<1>4. CASE InputOpens
  BY <1>3, <1>4 DEF InputOpens
<1>5. CASE DecoderOpens
  BY <1>3, <1>5 DEF DecoderOpens
<1>6. CASE InputFails
  <2>1. PICK i \in DOMAIN pipeline :
          /\ jobs' = Append(jobs, [op |-> "input_opened", url |-> pipeline[i].url, ok |-> FALSE])
          /\ pipeline' = RemoveAt(pipeline, i)
    BY <1>6 DEF InputFails
  <2>2. UNCHANGED <<content, player, urlCount, decoding, outputState, seeking, callbacks, ui, user>>
    BY <1>6 DEF InputFails
  <2>3. pipeline[i].url \in 0 .. urlCount - 1 /\ i \in 1 .. Len(pipeline)
    BY <1>1, TrackChanges
  <2>4. [op |-> "input_opened", url |-> pipeline[i].url, ok |-> FALSE] \in JobType(urlCount)
    BY <2>3 DEF JobType
  <2>5. jobs' \in Seq(JobType(urlCount))
    BY <1>2, <2>1, <2>4
  <2>6. pipeline' \in Seq(TrackType(urlCount))
    BY <1>1, <2>1, <2>3, TakeAt
  <2> QED
    BY <1>1, <2>2, <2>5, <2>6, PipelineMoves
<1>7. CASE DecoderFails
  <2>1. PICK i \in DOMAIN pipeline : pipeline' = [pipeline EXCEPT ![i].stage = "failed"]
    BY <1>7 DEF DecoderFails
  <2>2. UNCHANGED <<content, player, urlCount, decoding, outputState, seeking, jobs, callbacks, ui, user>>
    BY <1>7 DEF DecoderFails
  <2>3. "failed" \in Stages
    BY DEF Stages
  <2>4. pipeline' \in Seq(TrackType(urlCount))
    BY <1>1, <2>1, <2>3, TrackChanges
  <2> QED
    BY <1>1, <2>2, <2>4, PipelineMoves
<1>8. CASE DecoderCloses
  <2>1. PICK i \in DOMAIN pipeline : pipeline' = RemoveAt(pipeline, i)
    BY <1>8 DEF DecoderCloses
  <2>2. UNCHANGED <<content, player, urlCount, decoding, outputState, seeking, jobs, callbacks, ui, user>>
    BY <1>8 DEF DecoderCloses
  <2>3. pipeline' \in Seq(TrackType(urlCount))
    BY <1>1, <2>1, TrackChanges, TakeAt
  <2> QED
    BY <1>1, <2>2, <2>3, PipelineMoves
<1>9. ASSUME NEW near \in BOOLEAN, Progress(near)
      PROVE  IInv'
  <2>1. /\ jobs' = Append(jobs, [op |-> "progress", url |-> Head(pipeline).url, near |-> near])
        /\ pipeline' = [pipeline EXCEPT ![1].near = @ \/ near] /\ pipeline # <<>>
    BY <1>9 DEF Progress
  <2>2. UNCHANGED <<content, player, urlCount, decoding, outputState, seeking, callbacks, ui, user>>
    BY <1>9 DEF Progress
  <2>3. 1 \in DOMAIN pipeline /\ Head(pipeline).url \in 0 .. urlCount - 1
    <3>1. Head(pipeline) = pipeline[1] /\ Len(pipeline) \in Nat \ {0}
      BY <1>1, <2>1, TailRange
    <3>2. 1 \in DOMAIN pipeline
      BY <1>1, <3>1, InRange
    <3> QED
      BY <1>1, <3>1, <3>2, TrackChanges
  <2>4. [op |-> "progress", url |-> Head(pipeline).url, near |-> near] \in JobType(urlCount)
    BY <2>3 DEF JobType
  <2>5. jobs' \in Seq(JobType(urlCount))
    BY <1>2, <2>1, <2>4
  <2>6. pipeline' \in Seq(TrackType(urlCount))
    BY <1>1, <2>1, <2>3, TrackChanges
  <2> QED
    BY <1>1, <2>2, <2>5, <2>6, PipelineMoves
<1>10. CASE PlayFinishes
  <2>1. pipeline' = Tail(pipeline) /\ pipeline # <<>>
    BY <1>10 DEF PlayFinishes
  <2>2. UNCHANGED <<content, player, urlCount, decoding, outputState, seeking, jobs, callbacks, ui, user>>
    BY <1>10 DEF PlayFinishes
  <2>3. pipeline' \in Seq(TrackType(urlCount))
    BY <1>1, <2>1, TailRange
  <2> QED
    BY <1>1, <2>2, <2>3, PipelineMoves
<1>11. CASE SeekFinishes
  <2>1. seeking' \in Nat /\ jobs' = Append(jobs, Control("seekfinished"))
    BY <1>1, <1>11 DEF SeekFinishes
  <2>2. UNCHANGED <<content, player, urlCount, pipeline, decoding, outputState, callbacks, ui, user>>
    BY <1>11 DEF SeekFinishes
  <2>3. Control("seekfinished") \in JobType(urlCount)
    BY DEF Control, JobType
  <2>4. jobs' \in Seq(JobType(urlCount))
    BY <1>2, <2>1, <2>3
  <2> QED
    BY <1>1, <2>1, <2>2, <2>4, PipelineMoves
<1> QED
  BY <1>4, <1>5, <1>6, <1>7, <1>8, <1>9, <1>10, <1>11 DEF Pipeline

-----------------------------------------------------------------------------
(* The jobs of the manager keep the invariant.                              *)

\* The next job.
LEMMA JobTaken ==
  ASSUME IInv, NEW op, Takes(op)
  PROVE  /\ Job \in JobType(urlCount) /\ Job.op = op /\ Rest \in Seq(JobType(urlCount))
         /\ listCount \in Nat /\ urlCount \in Nat
<1>1. jobs \in Seq(JobType(urlCount)) /\ jobs # <<>> /\ Job.op = op /\ listCount \in Nat /\ urlCount \in Nat
  BY DEF IInv, PlayerOK, ListsOK, Takes, Job
<1> QED
  BY <1>1, TailRange DEF Job, Rest

\* A new playlist is shown by a new tab.
LEMMA AddListKeeps ==
  ASSUME IInv, add_playlist
  PROVE  IInv'
<1> USE DEF ItemIds
<1> DEFINE new == load_playlist(Job.loaded)
           cb == [op |-> "addlist", list |-> listCount, ids |-> new.items]
           job == [op |-> "add", list |-> listCount, item |-> INVALID, urls |-> Job.urls]
<1>1. /\ lists' = Put(lists, listCount, new) /\ callbacks' = callbacks \o <<cb>>
      /\ jobs' = Append(Rest, job) /\ listCount' = listCount + 1
      /\ UNCHANGED <<movedDown, currentList, currentItem, addedNext, urlCount, pipeline, decoding, outputState, seeking,
                     views, tab, shownItem, seekBlock, uiState, user>>
  BY DEF add_playlist, Calls, player, sound, ui
<1>2. /\ Job.loaded \in Nat /\ Job.urls \in Nat /\ Rest \in Seq(JobType(urlCount)) /\ listCount \in Nat /\ urlCount \in Nat
  <2>1. Takes("addlist")
    BY DEF add_playlist
  <2> QED
    BY <2>1, JobTaken, JobFields
<1>3. ListOK(new, urlCount)
  BY <1>2, LoadOK
<1> HIDE DEF new
<1>4. ListsOK'
  BY <1>1, <1>2, <1>3 DEF IInv, ListsOK, Put
<1>5. PlayerOK'
  <2>1. job \in JobType(urlCount)
    BY <1>2 DEF JobType
  <2>2. Append(Rest, job) \in Seq(JobType(urlCount))
    BY <1>2, <2>1, AppendRange
  <2>3. currentList \in INVALID .. listCount' - 1
    BY <1>1, <1>2 DEF IInv, PlayerOK, INVALID
  <2> QED
    BY <1>1, <2>2, <2>3 DEF IInv, PlayerOK
<1>6. Following'
  <2>1. cb \in CallbackType
    BY <1>2, <1>3 DEF CallbackType, ListOK, Once
  <2>2. ASSUME NEW vs, TabsOK(vs, listCount) /\ Follows(vs, lists, movedDown)
        PROVE  TabsOK(ViewsAfter(vs, cb), listCount') /\ Follows(ViewsAfter(vs, cb), lists', movedDown')
    <3>1. ViewsAfter(vs, cb) = Put(vs, listCount, new.items)
      BY DEF ViewsAfter
    <3>2. Once(new.items) /\ Shows(movedDown, new.items, new.items)
      BY <1>3 DEF ListOK, Shows
    <3>3. TabsOK(Put(vs, listCount, new.items), listCount + 1)
      BY <1>2, <2>2, <3>2 DEF TabsOK, Put
    <3>4. Follows(Put(vs, listCount, new.items), Put(lists, listCount, new), movedDown)
      BY <2>2, <3>2 DEF Follows, Put
    <3> QED
      BY <1>1, <3>1, <3>3, <3>4
  <2>3. listCount \in Nat /\ listCount' \in Nat /\ listCount <= listCount' /\ UNCHANGED views
    BY <1>1, <1>2
  <2> HIDE DEF cb
  <2> QED
    BY <1>1, <2>1, <2>2, <2>3, TellsOne DEF IInv
<1>7. UserOK'
  BY <1>1 DEF IInv, UserOK
<1> QED
  BY <1>4, <1>5, <1>6, <1>7 DEF IInv

\* Items that are added are shown.
LEMMA AddItemsKeeps ==
  ASSUME IInv, add_playlist_items_internal
  PROVE  IInv'
<1> DEFINE l == Job.list
           old == lists[l]
           new == add_items(old, Job.item, Job.urls)
           ids == NewIds(old, Job.urls)
           vid == IF Job.item = INVALID THEN get_last_item_id(new) ELSE Job.item
           cb == [op |-> "add", list |-> l, ids |-> ids, item |-> vid]
<1>1. /\ jobs' = Rest
      /\ UNCHANGED <<listCount, movedDown, currentList, currentItem, addedNext, urlCount, pipeline, decoding, outputState,
                     seeking, views, tab, shownItem, seekBlock, uiState, user>>
  BY DEF add_playlist_items_internal, player, sound, ui
<1>2. /\ Job.list \in Nat /\ Job.item \in ItemIds /\ Job.urls \in Nat
      /\ Rest \in Seq(JobType(urlCount)) /\ listCount \in Nat /\ urlCount \in Nat
  <2>1. Takes("add")
    BY DEF add_playlist_items_internal
  <2> QED
    BY <2>1, JobTaken, JobFields
<1>3. PlayerOK' /\ UserOK'
  BY <1>1, <1>2 DEF IInv, PlayerOK, UserOK
<1>4. CASE l \notin DOMAIN lists \/ Job.urls = 0
  <2>1. UNCHANGED <<lists, callbacks>>
    BY <1>4 DEF add_playlist_items_internal
  <2> QED
    BY <1>1, <1>3, <2>1 DEF IInv, ListsOK, Following
<1>5. CASE l \in DOMAIN lists /\ Job.urls # 0
  <2>1. lists' = [lists EXCEPT ![l] = new] /\ callbacks' = callbacks \o <<cb>>
    BY <1>5 DEF add_playlist_items_internal, Calls
  <2>2. ListOK(old, urlCount)
    BY <1>5 DEF IInv, ListsOK
  <2>3. new.items = Inserted(old.items, IterOf(old.items, Job.item), ids) /\ ListOK(new, urlCount)
    BY <1>2, <2>2, AddOK
  <2>4. Once(ids) /\ ids # <<>> /\ Range(ids) \cap Range(old.items) = {} /\ Len(ids) \in Nat \ {0}
    <3>1. /\ Once(ids) /\ Len(ids) = Job.urls /\ Range(ids) \cap Range(old.items) = {}
      BY <1>2, <2>2, IdsAreNew
    <3>2. Len(ids) # 0
      BY <1>5, <3>1
    <3>3. ids # <<>>
      BY <3>2, NothingIn
    <3> HIDE DEF ids
    <3> QED
      BY <1>2, <3>1, <3>2, <3>3
  <2> HIDE DEF new, ids
  <2>5. vid = IF Job.item = INVALID THEN Last(Inserted(old.items, IterOf(old.items, Job.item), ids)) ELSE Job.item
    <3>1. Len(new.items) # 0
      <4>1. Once(old.items)
        BY <2>2 DEF ListOK
      <4>2. IterOf(old.items, Job.item) \in 1 .. Len(old.items) + 1 /\ Len(old.items) \in Nat
        BY <4>1, WhereItemIs, InRange DEF Once
      <4>3. Len(new.items) = Len(old.items) + Len(ids)
        <5> DEFINE o == old.items
                   at == IterOf(old.items, Job.item)
        <5>1. o \in Seq(Nat) /\ ids \in Seq(Nat) /\ at \in 1 .. Len(o) + 1 /\ new.items = Inserted(o, at, ids)
          BY <2>3, <2>4, <4>1, <4>2 DEF Once
        <5> HIDE DEF o, at
        <5>2. Len(Inserted(o, at, ids)) = Len(o) + Len(ids)
          BY <5>1, InsertSeq
        <5> QED
          BY <5>1, <5>2 DEF o
      <4> QED
        BY <2>4, <4>2, <4>3
    <3>2. new.items # <<>>
      BY <3>1, NothingIn
    <3> QED
      BY <2>3, <3>2 DEF get_last_item_id
  <2> HIDE DEF vid
  <2>6. ListsOK'
    BY <1>1, <1>2, <2>1, <2>3 DEF IInv, ListsOK
  <2>7. cb \in CallbackType
    <3>1. vid \in ItemIds
      <4>1. CASE Job.item = INVALID
        <5>1. new.items \in Seq(Nat) /\ vid = get_last_item_id(new)
          BY <2>3, <4>1 DEF ListOK, Once, vid
        <5> QED
          BY <5>1, InRange, EmptySeq DEF get_last_item_id, Last, ItemIds
      <4>2. CASE Job.item # INVALID
        BY <1>2, <4>2 DEF vid
      <4> QED
        BY <4>1, <4>2
    <3> QED
      BY <1>2, <2>4, <3>1 DEF CallbackType, Once
  <2>8. ASSUME NEW vs, TabsOK(vs, listCount) /\ Follows(vs, lists, movedDown)
        PROVE  TabsOK(ViewsAfter(vs, cb), listCount') /\ Follows(ViewsAfter(vs, cb), lists', movedDown')
    <3>1. ViewsAfter(vs, cb) = [vs EXCEPT ![l] = view_add_items(vs[l], vid, ids)]
      BY <1>5, <2>8 DEF ViewsAfter, Follows
    <3>2. Once(old.items) /\ Once(vs[l]) /\ Shows(movedDown, vs[l], old.items) /\ movedDown \in BOOLEAN
      BY <1>5, <2>2, <2>8 DEF TabsOK, Follows, ListOK, IInv, PlayerOK
    <3>3. Once(view_add_items(vs[l], vid, ids)) /\ Shows(movedDown, view_add_items(vs[l], vid, ids), new.items)
      <4> DEFINE v == vs[l]
                 o == old.items
                 id == Job.item
      <4>1. /\ Once(v) /\ Once(o) /\ Shows(movedDown, v, o) /\ Range(ids) \cap Range(o) = {} /\ id \in ItemIds
            /\ vid = IF id = INVALID THEN Last(Inserted(o, IterOf(o, id), ids)) ELSE id
            /\ new.items = Inserted(o, IterOf(o, id), ids)
        BY <1>2, <2>3, <2>4, <2>5, <3>2
      <4> HIDE DEF v, o, id
      <4>2. Once(view_add_items(v, vid, ids)) /\ Shows(movedDown, view_add_items(v, vid, ids), Inserted(o, IterOf(o, id), ids))
        BY <2>4, <3>2, <4>1, AddShown
      <4>3. Once(view_add_items(v, vid, ids)) /\ Shows(movedDown, view_add_items(v, vid, ids), new.items)
        BY <4>1, <4>2
      <4> QED
        BY <4>3 DEF v
    <3> DEFINE shown == view_add_items(vs[l], vid, ids)
    <3> HIDE DEF shown
    <3>4. TabsOK([vs EXCEPT ![l] = shown], listCount)
      BY <2>8, <3>3 DEF TabsOK, shown
    <3>5. Follows([vs EXCEPT ![l] = shown], [lists EXCEPT ![l] = new], movedDown)
      BY <2>8, <3>3 DEF Follows, shown
    <3> QED
      BY <1>1, <2>1, <3>1, <3>4, <3>5 DEF shown
  <2>9. Following'
    <3> HIDE DEF cb
    <3>1. listCount' \in Nat /\ listCount <= listCount' /\ UNCHANGED views
      BY <1>1, <1>2
    <3> QED
      BY <1>2, <2>1, <2>7, <2>8, <3>1, TellsOne DEF IInv
  <2> QED
    BY <1>3, <2>6, <2>9 DEF IInv
<1> QED
  BY <1>4, <1>5

\* An item that is removed is not shown any more.
LEMMA RemoveItemKeeps ==
  ASSUME IInv, remove_playlist_item
  PROVE  IInv'
<1> DEFINE l == Job.list
           id == Job.item
           old == lists[l]
           cb == ItemJob("remove", l, id)
<1>1. /\ jobs' = Rest
      /\ UNCHANGED <<listCount, movedDown, currentList, currentItem, addedNext, urlCount, pipeline, decoding, outputState,
                     seeking, views, tab, shownItem, seekBlock, uiState, user>>
  BY DEF remove_playlist_item, player, sound, ui
<1>2. /\ l \in Nat /\ id \in ItemIds /\ Rest \in Seq(JobType(urlCount)) /\ listCount \in Nat /\ urlCount \in Nat
  <2>1. Takes("remove")
    BY DEF remove_playlist_item
  <2> QED
    BY <2>1, JobTaken, JobFields
<1>3. PlayerOK' /\ UserOK'
  BY <1>1, <1>2 DEF IInv, PlayerOK, UserOK
<1>4. CASE ~KnowsItem
  <2>1. lists' = lists /\ callbacks' = callbacks \o <<>>
    BY <1>4 DEF remove_playlist_item, Calls
  <2>2. callbacks' = callbacks
    BY <2>1, ConcatEmptySeq DEF IInv, Following
  <2> QED
    BY <1>1, <1>3, <2>1, <2>2 DEF IInv, ListsOK, Following
<1>5. CASE KnowsItem
  <2>1. lists' = [lists EXCEPT ![l] = remove_item(old, id)] /\ callbacks' = callbacks \o <<cb>>
    BY <1>5 DEF remove_playlist_item, Calls
  <2>2. l \in DOMAIN lists /\ id \in Range(old.items) /\ ListOK(old, urlCount)
    BY <1>5 DEF KnowsItem, get_playlist_item_with_item_id, IInv, ListsOK
  <2>3. remove_item(old, id).items = RemoveFirst(old.items, id) /\ ListOK(remove_item(old, id), urlCount)
    BY <1>2, <2>2, RemoveOK
  <2>4. ListsOK'
    BY <1>1, <1>2, <2>1, <2>3 DEF IInv, ListsOK
  <2>5. cb \in CallbackType
    BY <1>2 DEF CallbackType, ItemJob
  <2>6. ASSUME NEW vs, TabsOK(vs, listCount) /\ Follows(vs, lists, movedDown)
        PROVE  TabsOK(ViewsAfter(vs, cb), listCount') /\ Follows(ViewsAfter(vs, cb), lists', movedDown')
    <3> DEFINE shown == view_remove_item(vs[l], id)
    <3>1. ViewsAfter(vs, cb) = [vs EXCEPT ![l] = shown]
      BY <2>2, <2>6 DEF ViewsAfter, Follows, ItemJob
    <3>2. Once(old.items) /\ Once(vs[l]) /\ Shows(movedDown, vs[l], old.items) /\ movedDown \in BOOLEAN
      BY <2>2, <2>6 DEF TabsOK, Follows, ListOK, IInv, PlayerOK
    <3>3. Once(shown) /\ Shows(movedDown, shown, remove_item(old, id).items)
      BY <2>2, <2>3, <3>2, RemoveShown
    <3> HIDE DEF shown
    <3>4. TabsOK([vs EXCEPT ![l] = shown], listCount)
      BY <2>6, <3>3 DEF TabsOK
    <3>5. Follows([vs EXCEPT ![l] = shown], [lists EXCEPT ![l] = remove_item(old, id)], movedDown)
      BY <2>6, <3>3 DEF Follows
    <3> QED
      BY <1>1, <2>1, <3>1, <3>4, <3>5
  <2>7. Following'
    <3> HIDE DEF cb
    <3>1. listCount' \in Nat /\ listCount <= listCount' /\ UNCHANGED views
      BY <1>1, <1>2
    <3> QED
      BY <1>2, <2>1, <2>5, <2>6, <3>1, TellsOne DEF IInv
  <2> QED
    BY <1>3, <2>4, <2>7 DEF IInv
<1> QED
  BY <1>4, <1>5

\* An item that is moved is shown where it was moved to, or was moved down.
LEMMA MoveItemKeeps ==
  ASSUME IInv, move_playlist_item
  PROVE  IInv'
<1> DEFINE l == Job.list
           id == Job.item
           to == Job.to
           old == lists[l]
           down == movedDown \/ IterOf(old.items, id) < IterOf(old.items, to)
           cb == MoveJob(l, id, to)
<1>1. /\ jobs' = Rest
      /\ UNCHANGED <<listCount, currentList, currentItem, addedNext, urlCount, pipeline, decoding, outputState,
                     seeking, views, tab, shownItem, seekBlock, uiState, user>>
  BY DEF move_playlist_item, player, sound, ui
<1>2. /\ l \in Nat /\ id \in ItemIds /\ to \in ItemIds
      /\ Rest \in Seq(JobType(urlCount)) /\ listCount \in Nat /\ urlCount \in Nat
  <2>1. Takes("move")
    BY DEF move_playlist_item
  <2> QED
    BY <2>1, JobTaken, JobFields
<1>3. UserOK' /\ (movedDown' \in BOOLEAN => PlayerOK')
  BY <1>1, <1>2 DEF IInv, PlayerOK, UserOK
<1>4. CASE ~KnowsItem
  <2>1. UNCHANGED <<lists, callbacks, movedDown>>
    BY <1>4 DEF move_playlist_item
  <2>2. PlayerOK'
    BY <1>3, <2>1 DEF IInv, PlayerOK
  <2> QED
    BY <1>1, <1>3, <2>1, <2>2 DEF IInv, ListsOK, Following
<1>5. CASE KnowsItem
  <2>1. /\ lists' = [lists EXCEPT ![l] = move_item(old, id, to)] /\ callbacks' = callbacks \o <<cb>>
        /\ movedDown' = down
    BY <1>5 DEF move_playlist_item, Calls
  <2>2. l \in DOMAIN lists /\ id \in Range(old.items) /\ ListOK(old, urlCount)
    BY <1>5 DEF KnowsItem, get_playlist_item_with_item_id, IInv, ListsOK
  <2>3. move_item(old, id, to).items = Moved(old.items, id, to) /\ ListOK(move_item(old, id, to), urlCount)
    BY <1>2, <2>2, MoveOK
  <2>4. ListsOK'
    BY <1>1, <1>2, <2>1, <2>3 DEF IInv, ListsOK
  <2>5. cb \in CallbackType
    BY <1>2 DEF CallbackType, MoveJob
  <2>6. down \in BOOLEAN /\ movedDown \in BOOLEAN /\ (movedDown => down)
    BY DEF IInv, PlayerOK
  <2>7. ASSUME NEW vs, TabsOK(vs, listCount) /\ Follows(vs, lists, movedDown)
        PROVE  TabsOK(ViewsAfter(vs, cb), listCount') /\ Follows(ViewsAfter(vs, cb), lists', movedDown')
    <3> DEFINE shown == view_move_item(vs[l], id, to)
    <3>1. ViewsAfter(vs, cb) = [vs EXCEPT ![l] = shown]
      BY <2>2, <2>7 DEF ViewsAfter, Follows, MoveJob
    <3>2. Once(old.items) /\ Once(vs[l]) /\ Shows(movedDown, vs[l], old.items)
      BY <2>2, <2>7 DEF TabsOK, Follows, ListOK
    <3>3. Once(shown) /\ Shows(down, shown, move_item(old, id, to).items)
      BY <2>2, <2>3, <2>6, <3>2, MoveShown
    <3> HIDE DEF shown
    <3>4. TabsOK([vs EXCEPT ![l] = shown], listCount)
      BY <2>7, <3>3 DEF TabsOK
    <3> HIDE DEF down
    <3>5. \A m \in DOMAIN lists : m # l => Shows(down, vs[m], lists[m].items)
      BY <2>6, <2>7 DEF Follows, Shows
    <3>6. Follows([vs EXCEPT ![l] = shown], [lists EXCEPT ![l] = move_item(old, id, to)], down)
      BY <2>7, <3>3, <3>5 DEF Follows
    <3> QED
      BY <1>1, <2>1, <3>1, <3>4, <3>6
  <2>8. Following'
    <3> HIDE DEF cb, down
    <3>1. listCount' \in Nat /\ listCount <= listCount' /\ UNCHANGED views
      BY <1>1, <1>2
    <3> QED
      BY <1>2, <2>1, <2>5, <2>7, <3>1, TellsOne DEF IInv
  <2> QED
    BY <1>3, <2>1, <2>4, <2>6, <2>8 DEF IInv
<1> QED
  BY <1>4, <1>5

\* A playlist that is removed is not shown any more.
LEMMA RemoveListKeeps ==
  ASSUME IInv, remove_playlist
  PROVE  IInv'
<1> DEFINE l == Job.list
           cb == ListJob("removelist", l)
<1>1. /\ jobs' = Rest /\ lists' = Drop(lists, l) /\ callbacks' = callbacks \o <<cb>>
      /\ UNCHANGED <<listCount, movedDown, currentList, currentItem, addedNext, urlCount, pipeline, decoding, outputState,
                     seeking, views, tab, shownItem, seekBlock, uiState, user>>
  BY DEF remove_playlist, Calls, player, sound, ui
<1>2. l \in Nat /\ Rest \in Seq(JobType(urlCount)) /\ listCount \in Nat /\ urlCount \in Nat
  <2>1. Takes("removelist")
    BY DEF remove_playlist
  <2> QED
    BY <2>1, JobTaken, JobFields
<1>3. PlayerOK' /\ UserOK'
  BY <1>1, <1>2 DEF IInv, PlayerOK, UserOK
<1>4. ListsOK'
  BY <1>1, <1>2 DEF IInv, ListsOK, Drop
<1>5. cb \in CallbackType
  BY <1>2 DEF CallbackType, ListJob
<1>6. ASSUME NEW vs, TabsOK(vs, listCount) /\ Follows(vs, lists, movedDown)
      PROVE  TabsOK(ViewsAfter(vs, cb), listCount') /\ Follows(ViewsAfter(vs, cb), lists', movedDown')
  <2>1. ViewsAfter(vs, cb) = IF l \in DOMAIN vs THEN Drop(vs, l) ELSE vs
    BY DEF ViewsAfter, ListJob
  <2>2. TabsOK(Drop(vs, l), listCount) /\ Follows(Drop(vs, l), Drop(lists, l), movedDown)
    BY <1>6 DEF TabsOK, Follows, Drop
  <2>3. l \notin DOMAIN vs => Follows(vs, Drop(lists, l), movedDown)
    BY <1>6 DEF Follows, Drop
  <2> QED
    BY <1>1, <1>6, <2>1, <2>2, <2>3
<1>7. Following'
  <2> HIDE DEF cb
  <2>1. listCount' \in Nat /\ listCount <= listCount' /\ UNCHANGED views
    BY <1>1, <1>2
  <2> QED
    BY <1>1, <1>2, <1>5, <1>6, <2>1, TellsOne DEF IInv
<1> QED
  BY <1>3, <1>4, <1>7 DEF IInv

\* A start of a track keeps what is known of playlists and tabs.
LEMMA StartKeeps ==
  ASSUME IInv, NEW l, NEW id, start_play_internal(l, id), jobs' = Rest, Rest \in Seq(JobType(urlCount)),
         decoding' \in BOOLEAN, outputState' \in PluginStates,
         UNCHANGED <<listCount, movedDown, seeking, callbacks, ui, user>>
  PROVE  IInv'
<1>1. /\ currentList' = (IF l \in DOMAIN lists THEN l ELSE currentList)
      /\ cont_play_internal(l, id) /\ UNCHANGED <<currentItem, addedNext>>
  BY DEF start_play_internal
<1>2. UNCHANGED <<views, tab, shownItem, seekBlock, uiState>>
  BY DEF ui
<1>3. /\ ListsOK' /\ pipeline' \in Seq(TrackType(urlCount'))
      /\ urlCount' \in Nat /\ urlCount <= urlCount'
      /\ DOMAIN lists' = DOMAIN lists /\ \A m \in DOMAIN lists : lists'[m].items = lists[m].items
  BY <1>1, Continues DEF IInv
<1>4. Following'
  BY <1>2, <1>3, SameItems DEF IInv, ListsOK
<1>5. jobs' \in Seq(JobType(urlCount'))
  <2>1. JobType(urlCount) \subseteq JobType(urlCount')
    <3>1. urlCount \in Nat /\ urlCount' \in Nat /\ urlCount <= urlCount'
      BY <1>3 DEF IInv, ListsOK
    <3>2. \A n, m \in Nat : n <= m => 0 .. n - 1 \subseteq 0 .. m - 1
      OBVIOUS
    <3>3. 0 .. urlCount - 1 \subseteq 0 .. urlCount' - 1
      BY <3>1, <3>2
    <3> QED
      BY <3>3 DEF JobType
  <2> QED
    BY <2>1, SeqMonotonic
<1>6. currentList' \in INVALID .. listCount' - 1
  BY <1>1 DEF IInv, PlayerOK, ListsOK, INVALID
<1>7. PlayerOK'
  BY <1>1, <1>3, <1>5, <1>6 DEF IInv, PlayerOK
<1>8. UserOK'
  BY <1>2 DEF IInv, UserOK
<1> QED
  BY <1>3, <1>4, <1>7, <1>8 DEF IInv

\* Tracks that reach a stage are the same tracks.
LEMMA TracksReach ==
  ASSUME IInv, NEW stage \in Stages
  PROVE  /\ Reaches(stage) \in Seq(TrackType(urlCount)) /\ Len(Reaches(stage)) = Len(pipeline)
         /\ \A i \in 1 .. Len(pipeline) : Reaches(stage)[i].url = pipeline[i].url
<1>1. /\ Len(pipeline) \in Nat /\ DOMAIN pipeline = 1 .. Len(pipeline)
      /\ \A i \in 1 .. Len(pipeline) : pipeline[i] \in TrackType(urlCount)
  BY InRange DEF IInv, PlayerOK
<1> DEFINE n == Len(pipeline)
           t(i) == IF pipeline[i].url = Job.url THEN [pipeline[i] EXCEPT !.stage = stage] ELSE pipeline[i]
<1>2. \A i \in 1 .. n : t(i) \in TrackType(urlCount) /\ t(i).url = pipeline[i].url
  BY <1>1 DEF TrackType
<1>3. Reaches(stage) = [i \in 1 .. n |-> t(i)]
  BY <1>1 DEF Reaches
<1>4. n \in Nat
  BY <1>1
<1> HIDE DEF n, t
<1>5. [i \in 1 .. n |-> t(i)] \in Seq(TrackType(urlCount))
  BY <1>2, <1>4
<1>6. Len([i \in 1 .. n |-> t(i)]) = n
  BY <1>4
<1> QED
  BY <1>2, <1>3, <1>5, <1>6 DEF n

\* The jobs about what plays keep the invariant.
LEMMA PlayingKeeps ==
  ASSUME IInv, start_play \/ input_opened_cb \/ decoder_opened_cb
  PROVE  IInv'
<1>1. IInv /\ PlayerOK /\ ListsOK /\ decoding \in BOOLEAN /\ outputState \in PluginStates
  BY DEF IInv, PlayerOK
<1>2. Rest \in Seq(JobType(urlCount)) /\ Job \in JobType(urlCount) /\ urlCount \in Nat
  BY JobTaken DEF start_play, input_opened_cb, decoder_opened_cb
<1>3. CASE start_play
  BY <1>1, <1>2, <1>3, StartKeeps DEF start_play
<1>4. ASSUME NEW stage \in Stages, pipeline' = Reaches(stage), jobs' = Rest, decoding' \in BOOLEAN, outputState' \in PluginStates,
             UNCHANGED <<content, player, urlCount, seeking, callbacks, ui, user>>
      PROVE  IInv'
  <2>1. UNCHANGED <<lists, listCount, movedDown, currentList, currentItem, addedNext, views, tab, shownItem, seekBlock, uiState>>
    BY <1>4 DEF content, player, ui
  <2>2. pipeline' \in Seq(TrackType(urlCount))
    BY <1>4, TracksReach
  <2>3. PlayerOK'
    BY <1>2, <1>4, <2>1, <2>2 DEF IInv, PlayerOK
  <2> QED
    BY <1>4, <2>1, <2>3 DEF IInv, ListsOK, UserOK, Following
<1>5. CASE input_opened_cb
  <2>1. CASE Job.ok
    <3>1. /\ pipeline' = Reaches("input") /\ jobs' = Rest /\ decoding' = TRUE
          /\ UNCHANGED <<content, player, urlCount, outputState, seeking, callbacks, ui, user>>
      BY <1>5, <2>1 DEF input_opened_cb, content
    <3>2. "input" \in Stages
      BY DEF Stages
    <3> QED
      BY <1>1, <1>4, <3>1, <3>2
  <2>2. CASE ~Job.ok
    <3>1. start_play_internal(get_next_playlist_item_id, currentList) /\ UNCHANGED decoding
      BY <1>5, <2>2 DEF input_opened_cb
    <3>2. jobs' = Rest /\ UNCHANGED <<listCount, movedDown, outputState, seeking, callbacks, ui, user>>
      BY <1>5 DEF input_opened_cb
    <3> QED
      BY <1>1, <1>2, <3>1, <3>2, StartKeeps
  <2> QED
    BY <2>1, <2>2
<1>6. CASE decoder_opened_cb
  <2>1. CASE Job.ok
    <3>1. /\ pipeline' = Reaches("output") /\ jobs' = Rest /\ outputState' = "play"
          /\ UNCHANGED <<content, player, urlCount, decoding, seeking, callbacks, ui, user>>
      BY <1>6, <2>1 DEF decoder_opened_cb, content
    <3>2. "output" \in Stages /\ "play" \in PluginStates
      BY DEF Stages, PluginStates
    <3> QED
      BY <1>1, <1>4, <3>1, <3>2
  <2>2. CASE ~Job.ok
    <3>1. start_play_internal(get_next_playlist_item_id, currentList) /\ UNCHANGED outputState
      BY <1>6, <2>2 DEF decoder_opened_cb
    <3>2. jobs' = Rest /\ UNCHANGED <<listCount, movedDown, decoding, seeking, callbacks, ui, user>>
      BY <1>6 DEF decoder_opened_cb
    <3> QED
      BY <1>1, <1>2, <3>1, <3>2, StartKeeps
  <2> QED
    BY <2>1, <2>2
<1> QED
  BY <1>3, <1>5, <1>6

\* The progress of the track that plays, and the next that is added, keep the invariant.
LEMMA ProgressKeeps ==
  ASSUME IInv, progress_callback
  PROVE  IInv'
<1> DEFINE playing == IF currentList \in DOMAIN lists THEN get_playlist_item_with_url_id(lists[currentList], Job.url) ELSE {}
<1>1. Rest \in Seq(JobType(urlCount)) /\ Job.near \in BOOLEAN /\ listCount \in Nat /\ urlCount \in Nat
  <2>1. Takes("progress")
    BY DEF progress_callback
  <2> QED
    BY <2>1, JobTaken, JobFields
<1>2. /\ jobs' = Rest
      /\ UNCHANGED <<listCount, movedDown, currentList, decoding, outputState, seeking, views, tab, shownItem, seekBlock,
                     uiState, user>>
  BY DEF progress_callback, ui
<1>3. UserOK'
  BY <1>2 DEF IInv, UserOK
<1>4. CASE playing = {}
  <2>1. UNCHANGED <<lists, currentList, currentItem, addedNext, pipeline, urlCount, callbacks>>
    BY <1>4 DEF progress_callback, player
  <2>2. PlayerOK'
    BY <1>1, <1>2, <2>1 DEF IInv, PlayerOK
  <2> QED
    BY <1>2, <1>3, <2>1, <2>2 DEF IInv, ListsOK, Following
<1>5. CASE playing # {}
  <2>1. PICK id \in playing :
          LET isAdded == addedNext /\ id = currentItem
          IN /\ Calls(<<ItemJob("progress", currentList, id)>>)
             /\ currentItem' = id /\ addedNext' = (isAdded \/ Job.near)
             /\ IF Job.near /\ ~isAdded
                  THEN cont_play_internal(currentList, get_next_item_id(lists[currentList], id))
                  ELSE UNCHANGED <<lists, pipeline, urlCount>>
    BY <1>5 DEF progress_callback
  <2> DEFINE cb == ItemJob("progress", currentList, id)
  <2>2. currentList \in DOMAIN lists /\ id \in Range(lists[currentList].items)
    BY <1>5, <2>1 DEF get_playlist_item_with_url_id
  <2>3. currentList \in Nat /\ id \in Nat
    BY <1>1, <2>2, InRange DEF IInv, ListsOK, ListOK, Once
  <2>4. /\ ListsOK' /\ pipeline' \in Seq(TrackType(urlCount'))
        /\ urlCount' \in Nat /\ urlCount <= urlCount' /\ jobs \in Seq(JobType(urlCount'))
        /\ DOMAIN lists' = DOMAIN lists /\ \A m \in DOMAIN lists : lists'[m].items = lists[m].items
    <3>1. CASE UNCHANGED <<lists, pipeline, urlCount>>
      BY <1>1, <1>2, <3>1 DEF IInv, ListsOK, PlayerOK
    <3>2. CASE ~UNCHANGED <<lists, pipeline, urlCount>>
      <4>1. cont_play_internal(currentList, get_next_item_id(lists[currentList], id))
        BY <2>1, <3>2
      <4> QED
        BY <1>2, <4>1, Continues DEF IInv
    <3> QED
      BY <3>1, <3>2
  <2>5. PlayerOK'
    <3>1. Rest \in Seq(JobType(urlCount'))
      <4>1. jobs # <<>>
        BY DEF progress_callback, Takes
      <4> QED
        BY <2>4, <4>1, TailRange DEF Rest
    <3>2. addedNext' \in BOOLEAN /\ currentItem' \in ItemIds
      BY <2>1, <2>3 DEF ItemIds
    <3> QED
      BY <1>2, <2>4, <3>1, <3>2 DEF IInv, PlayerOK
  <2>6. cb \in CallbackType
    BY <2>3 DEF CallbackType, ItemJob, ItemIds
  <2>7. ASSUME NEW vs, TabsOK(vs, listCount) /\ Follows(vs, lists, movedDown)
        PROVE  TabsOK(ViewsAfter(vs, cb), listCount') /\ Follows(ViewsAfter(vs, cb), lists', movedDown')
    <3>1. ViewsAfter(vs, cb) = vs
      BY DEF ViewsAfter, ItemJob
    <3>2. Follows(vs, lists', movedDown')
      BY <1>2, <2>4, <2>7 DEF Follows
    <3> QED
      BY <1>2, <2>7, <3>1, <3>2
  <2>8. Following'
    <3> HIDE DEF cb
    <3>1. listCount' \in Nat /\ listCount <= listCount' /\ UNCHANGED views /\ callbacks' = callbacks \o <<cb>>
      BY <1>1, <1>2, <2>1 DEF Calls, cb
    <3> QED
      BY <1>1, <2>6, <2>7, <3>1, TellsOne DEF IInv
  <2> QED
    BY <1>3, <2>4, <2>5, <2>8 DEF IInv
<1> QED
  BY <1>4, <1>5

\* What controls the player, and seeks, keep the invariant.
LEMMA ControlsKeep ==
  ASSUME IInv, Controls \/ seek_duration_internal \/ decoder_seek_finished_cb
  PROVE  IInv'
<1>1. Rest \in Seq(JobType(urlCount)) /\ listCount \in Nat /\ urlCount \in Nat /\ jobs' = Rest
  BY JobTaken DEF Controls, seek_duration_internal, decoder_seek_finished_cb
<1>2. UNCHANGED <<lists, listCount, movedDown, currentList, currentItem, addedNext, urlCount, views, tab, shownItem,
                  seekBlock, uiState, user>>
  BY DEF Controls, seek_duration_internal, decoder_seek_finished_cb, content, player, ui, sound
<1>3. ListsOK' /\ UserOK'
  BY <1>2 DEF IInv, ListsOK, UserOK
<1>4. CASE Controls
  <2>1. UNCHANGED <<seeking, callbacks>>
    BY <1>4 DEF Controls
  <2>2. pipeline' \in {pipeline, <<>>} /\ decoding' \in BOOLEAN
    BY <1>4 DEF Controls, IInv, PlayerOK
  <2>3. outputState' \in PluginStates
    BY <1>4 DEF Controls, IInv, PlayerOK, PluginStates, Takes, Job
  <2>4. PlayerOK'
    BY <1>1, <1>2, <2>1, <2>2, <2>3, EmptySeq DEF IInv, PlayerOK
  <2> QED
    BY <1>2, <1>3, <2>1, <2>4 DEF IInv, Following
<1>5. CASE seek_duration_internal
  <2>1. UNCHANGED <<pipeline, decoding, outputState, callbacks>>
    BY <1>5 DEF seek_duration_internal
  <2>2. seeking' \in Nat
    BY <1>5 DEF seek_duration_internal, IInv, PlayerOK
  <2>3. PlayerOK'
    BY <1>1, <1>2, <2>1, <2>2 DEF IInv, PlayerOK
  <2> QED
    BY <1>2, <1>3, <2>1, <2>3 DEF IInv, Following
<1>6. CASE decoder_seek_finished_cb
  <2> DEFINE cb == Control("seekfinished")
  <2>1. UNCHANGED <<pipeline, decoding, outputState, seeking>> /\ callbacks' = callbacks \o <<cb>>
    BY <1>6 DEF decoder_seek_finished_cb, sound, Calls
  <2>2. PlayerOK'
    BY <1>1, <1>2, <2>1 DEF IInv, PlayerOK
  <2>3. cb \in CallbackType
    BY DEF Control, CallbackType
  <2>4. \A vs : ViewsAfter(vs, cb) = vs
    BY DEF Control, ViewsAfter
  <2>5. Following'
    <3> HIDE DEF cb
    <3>1. listCount' \in Nat /\ listCount <= listCount' /\ UNCHANGED <<views, listCount, lists, movedDown>>
      BY <1>1, <1>2
    <3>2. ASSUME NEW vs, TabsOK(vs, listCount) /\ Follows(vs, lists, movedDown)
          PROVE  TabsOK(ViewsAfter(vs, cb), listCount') /\ Follows(ViewsAfter(vs, cb), lists', movedDown')
      BY <2>4, <3>1, <3>2
    <3> QED
      BY <1>1, <2>1, <2>3, <3>1, <3>2, TellsOne DEF IInv
  <2> QED
    BY <1>3, <2>2, <2>5 DEF IInv
<1> QED
  BY <1>4, <1>5, <1>6

\* Each callback keeps the invariant.
LEMMA CallbackKeeps ==
  ASSUME IInv, RunCallback
  PROVE  IInv'
<1> DEFINE cb == Head(callbacks)
<1>1. /\ callbacks # <<>> /\ callbacks' = Tail(callbacks) /\ views' = ViewsAfter(views, cb)
      /\ tab' \in TabsAfter(views', cb) /\ shownItem' = ItemAfter(cb) /\ seekBlock' = BlockedAfter(cb)
      /\ UNCHANGED <<content, player, jobs, sound, uiState, user>>
  BY DEF RunCallback
<1>2. UNCHANGED <<lists, listCount, movedDown, currentList, currentItem, addedNext, urlCount, pipeline, decoding,
                  outputState, seeking, jobs, uiState, user>>
  BY <1>1 DEF content, player, sound
<1>3. ListsOK' /\ PlayerOK'
  BY <1>2 DEF IInv, ListsOK, PlayerOK
<1>4. Following' /\ cb \in CallbackType
  BY <1>1, <1>2, RunsFirst DEF IInv
<1>5. TabsOK(views', listCount') /\ listCount' \in Nat
  <2>1. TabsOK(views', listCount')
    <3>1. callbacks' \in Seq(CallbackType)
      BY <1>4 DEF Following
    <3>2. 0 \in 0 .. Len(callbacks')
      BY <3>1, LenProperties
    <3> QED
      BY <1>4, <3>2 DEF Following, Leads
  <2> QED
    BY <1>3, <2>1 DEF ListsOK
<1> HIDE DEF cb
<1>6. cb.op = "addlist" => cb.list \in DOMAIN views' /\ cb.list \in Nat
  BY <1>1, <1>4 DEF CallbackType, ViewsAfter, Put
<1>7. tab' \in DOMAIN views' \cup {INVALID} /\ (tab' = INVALID <=> DOMAIN views' = {})
  <2>1. \A l \in DOMAIN views' : l # INVALID
    BY <1>5 DEF TabsOK, INVALID
  <2>2. CASE cb.op = "addlist"
    BY <1>1, <1>6, <2>1, <2>2 DEF TabsAfter
  <2>3. CASE cb.op # "addlist"
    BY <1>1, <2>1, <2>3 DEF TabsAfter
  <2> QED
    BY <2>2, <2>3
<1>8. shownItem' \in ItemIds /\ seekBlock' \in BOOLEAN
  <2>1. cb.op = "progress" => cb.item \in ItemIds
    BY <1>4 DEF CallbackType
  <2> QED
    BY <1>1, <2>1 DEF ItemAfter, BlockedAfter, IInv, UserOK
<1>9. UserOK'
  BY <1>2, <1>7, <1>8 DEF IInv, UserOK
<1> QED
  BY <1>3, <1>4, <1>9 DEF IInv

\* It holds at the start.
LEMMA InitIInv == Init => IInv
<1> SUFFICES ASSUME Init PROVE IInv
  OBVIOUS
<1>1. DOMAIN <<>> = {} /\ Len(<<>>) = 0 /\ \A S : <<>> \in Seq(S)
  BY NothingIn
<1>2. 0 .. 0 - 1 = {} /\ {} \subseteq 0 .. 0 - 1
  OBVIOUS
<1>3. ListsOK
  BY <1>1, <1>2 DEF Init, ListsOK
<1>4. PlayerOK
  <2>1. INVALID \in INVALID .. 0 - 1
    BY DEF INVALID
  <2>2. currentList \in INVALID .. listCount - 1
    BY <2>1 DEF Init
  <2>3. jobs \in Seq(JobType(urlCount)) /\ pipeline \in Seq(TrackType(urlCount))
    BY <1>1 DEF Init
  <2>4. addedNext = FALSE /\ movedDown = FALSE /\ decoding = FALSE
    BY DEF Init
  <2>5. currentItem \in ItemIds
    BY DEF Init, ItemIds
  <2>6. outputState \in PluginStates /\ seeking \in Nat
    BY DEF Init, PluginStates
  <2> QED
    BY <2>2, <2>3, <2>4, <2>5, <2>6 DEF PlayerOK
<1>5. UserOK
  <2>1. user \in 0 .. MaxUser
    BY PlaylistAssumption DEF Init
  <2>2. views = <<>> /\ tab = INVALID
    BY DEF Init
  <2>3. DOMAIN views = {}
    BY <1>1, <2>2
  <2>4. tab \in DOMAIN views \cup {INVALID} /\ (tab = INVALID <=> DOMAIN views = {})
    BY <2>2, <2>3
  <2> QED
    BY <2>1, <2>4 DEF Init, UserOK, ItemIds, PluginStates
<1>6. Following
  <2> DEFINE h == [i \in {0} |-> views]
  <2>1. callbacks = <<>> /\ views = <<>> /\ lists = <<>>
    BY DEF Init
  <2>2. Len(callbacks) = 0
    BY <1>1, <2>1
  <2>3. callbacks \in Seq(CallbackType)
    BY <1>1, <2>1
  <2>4. h[0] = views /\ 1 .. 0 = {} /\ 0 .. 0 = {0}
    OBVIOUS
  <2>5. TabsOK(views, listCount) /\ Follows(views, lists, movedDown)
    BY <1>1, <2>1 DEF TabsOK, Follows
  <2> HIDE DEF h
  <2>6. Leads(h, views, callbacks, listCount)
    BY <2>2, <2>4, <2>5 DEF Leads
  <2>7. Follows(h[Len(callbacks)], lists, movedDown)
    BY <2>2, <2>4, <2>5
  <2> QED
    BY <2>3, <2>6, <2>7 DEF Following
<1> QED
  BY <1>3, <1>4, <1>5, <1>6 DEF IInv

\* Every step keeps the invariant.
LEMMA NextKeeps == IInv /\ [Next]_vars => IInv'
<1> SUFFICES ASSUME IInv, [Next]_vars PROVE IInv'
  OBVIOUS
<1>1. CASE User
  BY <1>1, UserKeeps
<1>2. CASE Pipeline
  BY <1>2, PipelineKeeps
<1>3. CASE RunJob
  BY <1>3, AddListKeeps, AddItemsKeeps, RemoveItemKeeps, MoveItemKeeps, RemoveListKeeps, PlayingKeeps, ProgressKeeps,
     ControlsKeep DEF RunJob
<1>4. CASE RunCallback
  BY <1>4, CallbackKeeps
<1>5. CASE UNCHANGED vars
  <2>1. UNCHANGED <<lists, listCount, movedDown, currentList, currentItem, addedNext, jobs, urlCount, pipeline, decoding,
                    outputState, seeking, callbacks, views, tab, shownItem, seekBlock, uiState, user>>
    BY <1>5 DEF vars, content, player, sound, ui
  <2> QED
    BY <2>1 DEF IInv, ListsOK, PlayerOK, UserOK, Following
<1> QED
  BY <1>1, <1>2, <1>3, <1>4, <1>5 DEF Next

\* The invariant holds of what the manager, its user and the sound do.
THEOREM Invariant == Spec => []IInv
<1> QED
  BY InitIInv, NextKeeps, PTL DEF Spec

-----------------------------------------------------------------------------
(* What it shows.                                                           *)

\* Every variable has the values it may have: an item is once in its playlist and in
\* its tab, each id was made, and each url id was given by the input.
THEOREM TypeCorrect == Spec => []TypeOK
<1>1. ASSUME IInv PROVE TypeOK
  <2>1. /\ listCount \in Nat /\ urlCount \in Nat /\ DOMAIN lists \subseteq 0 .. listCount - 1
        /\ \A l \in DOMAIN lists : ListOK(lists[l], urlCount)
    BY <1>1 DEF IInv, ListsOK
  <2>2. TabsOK(views, listCount)
    BY <1>1, TabsAreOK DEF IInv
  <2>3. \A i \in DOMAIN pipeline : pipeline[i].url \in 0 .. urlCount - 1
    BY <1>1, <2>1, TrackChanges DEF IInv, PlayerOK
  <2>4. /\ currentList \in INVALID .. listCount - 1 /\ currentItem \in ItemIds
        /\ addedNext \in BOOLEAN /\ movedDown \in BOOLEAN /\ decoding \in BOOLEAN
        /\ outputState \in PluginStates /\ seeking \in Nat
    BY <1>1 DEF IInv, PlayerOK
  <2>5. UserOK
    BY <1>1 DEF IInv
  <2>6. \A l \in DOMAIN lists : LET p == lists[l]
          IN /\ IsInjective(p.items) /\ p.made \in Nat /\ Range(p.items) \subseteq 0 .. p.made - 1
             /\ p.url \in [0 .. p.made - 1 -> INVALID .. urlCount - 1]
    BY <2>1 DEF ListOK, Once
  <2>7. DOMAIN views \subseteq 0 .. listCount - 1 /\ \A l \in DOMAIN views : IsInjective(views[l])
    BY <2>2 DEF TabsOK, Once
  <2>8. {addedNext, decoding, seekBlock, movedDown} \subseteq BOOLEAN /\ {outputState, uiState} \subseteq PluginStates
    BY <2>4, <2>5 DEF UserOK
  <2> QED
    BY <2>1, <2>3, <2>4, <2>5, <2>6, <2>7, <2>8 DEF TypeOK, UserOK
<1> QED
  BY <1>1, Invariant, PTL

\* The tabs are what the callbacks, one after the other, make of them.
LEMMA TabsLed ==
  ASSUME NEW h, Leads(h, views, callbacks, listCount), Len(callbacks) \in Nat
  PROVE  ViewsToBe = h[Len(callbacks)]
<1> DEFINE n == Len(callbacks)
           f == ViewsAfterFirst
           step(g) == [i \in 0 .. n |-> IF i = 0 THEN views ELSE ViewsAfter(g[i - 1], callbacks[i])]
           w == [i \in 0 .. n |-> h[i]]
<1>1. f = CHOOSE g : g = step(g)
  BY DEF ViewsAfterFirst
<1>2. w = step(w)
  <2>1. ASSUME NEW i \in 0 .. n
        PROVE  h[i] = IF i = 0 THEN views ELSE ViewsAfter(w[i - 1], callbacks[i])
    <3>1. CASE i = 0
      BY <3>1 DEF Leads
    <3>2. CASE i # 0
      <4>1. i \in 1 .. n /\ i - 1 \in 0 .. n
        BY <3>2
      <4>2. w[i - 1] = h[i - 1]
        BY <4>1
      <4> QED
        BY <3>2, <4>1, <4>2 DEF Leads
    <3> QED
      BY <3>1, <3>2
  <2> QED
    BY <2>1
<1> HIDE DEF f, step, w
<1>3. f = step(f)
  BY <1>1, <1>2
<1>4. /\ f[0] = views
      /\ \A i \in 1 .. n : f[i] = ViewsAfter(f[i - 1], callbacks[i])
  <2>1. \A i \in 0 .. n : f[i] = IF i = 0 THEN views ELSE ViewsAfter(f[i - 1], callbacks[i])
    <3>1. \A i \in 0 .. n : step(f)[i] = IF i = 0 THEN views ELSE ViewsAfter(f[i - 1], callbacks[i])
      BY DEF step
    <3> QED
      BY <1>3, <3>1
  <2>2. 0 \in 0 .. n /\ \A i \in 1 .. n : i \in 0 .. n /\ i # 0
    OBVIOUS
  <2> QED
    BY <2>1, <2>2
<1>5. \A i \in 0 .. n : f[i] = h[i]
  <2> DEFINE T == {i \in 0 .. n : f[i] # h[i]}
  <2>1. SUFFICES ASSUME T # {} PROVE FALSE
    OBVIOUS
  <2>2. PICK m \in T : \A i \in T : m <= i
    <3>1. T \subseteq Nat
      OBVIOUS
    <3> HIDE DEF T
    <3> QED
      BY <2>1, <3>1, LeastNat
  <2>3. m \in 0 .. n /\ f[m] # h[m]
    OBVIOUS
  <2>4. m # 0
    BY <1>4, <2>3 DEF Leads
  <2>5. m \in 1 .. n /\ m - 1 \in 0 .. n /\ ~(m <= m - 1)
    BY <2>3, <2>4
  <2>6. f[m - 1] = h[m - 1]
    BY <2>2, <2>5
  <2> QED
    BY <1>4, <2>3, <2>5, <2>6 DEF Leads
<1>6. ViewsToBe = f[n]
  BY DEF ViewsToBe, f
<1> QED
  BY <1>5, <1>6

\* The user interface shows, when all callbacks have run, the playlists the manager
\* has and their items, in the same order unless an item was moved down.
THEOREM TabsFollow == Spec => []ViewFollows
<1>1. ASSUME IInv PROVE ViewFollows
  <2>1. PICK h : Leads(h, views, callbacks, listCount) /\ Follows(h[Len(callbacks)], lists, movedDown)
    BY <1>1 DEF IInv, Following
  <2>2. Len(callbacks) \in Nat
    BY <1>1, InRange DEF IInv, Following
  <2>3. Follows(ViewsToBe, lists, movedDown)
    BY <2>1, <2>2, TabsLed
  <2> QED
    BY <2>3 DEF Follows, Shows, ViewFollows
<1> QED
  BY <1>1, Invariant, PTL

-----------------------------------------------------------------------------
(* How far the input reads ahead.                                           *)

\* Of these jobs, a start comes right after a stop, but for the first one if "first".
Starts(js, first) ==
  \A i \in 1 .. Len(js) : js[i].op = "start" => IF i = 1 THEN first ELSE js[i - 1].op = "stop"

\* The tracks that failed to open, of which these jobs tell, were given to the input
\* before url.
Failed(js, url) == \A i \in 1 .. Len(js) : js[i].op = "input_opened" /\ ~js[i].ok => js[i].url < url

\* The track with this url is of the item that plays, and its next one was added; or
\* it is of no item any more.
Known(ls, url, added, item) ==
  \A l \in DOMAIN ls : \A i \in DOMAIN ls[l].url : ls[l].url[i] = url => added /\ i = item

\* A track is started after a stop, which takes everything off the input.
StartsEmpty == Starts(jobs, Len(pipeline) = 0)

\* A url id is of one item.
UrlsOnce ==
  \A l, m \in DOMAIN lists : \A i \in DOMAIN lists[l].url, k \in DOMAIN lists[m].url :
    lists[l].url[i] = lists[m].url[k] /\ lists[l].url[i] # INVALID => l = m /\ i = k

\* Tracks given to the input later are behind.
Ordered(t) == \A i, j \in 1 .. Len(t) : i < j => t[i].url < t[j].url

\* One of the tracks t at most is behind the one that plays, or has failed there.
Behind(t, js, ls, added, item) ==
  /\ Len(t) <= 2
  /\ Len(t) = 2 => Known(ls, t[1].url, added, item) /\ Failed(js, t[2].url)
  /\ Len(t) = 1 => Known(ls, t[1].url, added, item) \/ Failed(js, t[1].url)

InOrder == Ordered(pipeline)

OneBehind == Behind(pipeline, jobs, lists, addedNext, currentItem)

Ahead == StartsEmpty /\ UrlsOnce /\ InOrder /\ OneBehind

\* The first job is taken.
LEMMA StartsTaken ==
  ASSUME NEW n \in Nat, NEW js \in Seq(JobType(n)), js # <<>>, NEW first \in BOOLEAN, Starts(js, first)
  PROVE  /\ Starts(Tail(js), TRUE) /\ (Head(js).op # "stop" => Starts(Tail(js), FALSE)) /\ (Head(js).op = "start" => first)
         /\ \A u : Failed(js, u) => Failed(Tail(js), u) /\ (Head(js).op = "input_opened" /\ ~Head(js).ok => Head(js).url < u)
<1>1. /\ Head(js) = js[1] /\ Len(Tail(js)) = Len(js) - 1 /\ Len(js) \in Nat \ {0}
      /\ \A i \in 1 .. Len(Tail(js)) : Tail(js)[i] = js[i + 1] /\ i + 1 \in 1 .. Len(js)
  BY TailRange
<1>2. ASSUME NEW i \in 1 .. Len(Tail(js)), Tail(js)[i].op = "start"
      PROVE  IF i = 1 THEN js[1].op = "stop" ELSE Tail(js)[i - 1].op = "stop"
  <2>1. js[i + 1].op = "start" /\ i + 1 \in 1 .. Len(js) /\ i + 1 # 1 /\ (i + 1) - 1 = i /\ i \in Nat
    BY <1>1, <1>2
  <2>2. js[i].op = "stop"
    BY <2>1 DEF Starts
  <2>3. i # 1 => i - 1 \in 1 .. Len(Tail(js)) /\ (i - 1) + 1 = i
    BY <1>1
  <2> QED
    BY <1>1, <2>2, <2>3
<1>3. 1 \in 1 .. Len(js)
  BY <1>1
<1>4. Starts(Tail(js), TRUE) /\ (Head(js).op # "stop" => Starts(Tail(js), FALSE))
  BY <1>1, <1>2 DEF Starts
<1>5. Head(js).op = "start" => first
  BY <1>1, <1>3 DEF Starts
<1> QED
  BY <1>1, <1>3, <1>4, <1>5 DEF Failed

\* Jobs are posted behind others.
LEMMA StartsPosted ==
  ASSUME NEW n \in Nat, NEW js \in Seq(JobType(n)), NEW ks \in Seq(JobType(n)),
         NEW first \in BOOLEAN, Starts(js, first), Starts(ks, FALSE)
  PROVE  /\ Starts(js \o ks, first)
         /\ \A u : Failed(js, u) /\ Failed(ks, u) => Failed(js \o ks, u)
<1> DEFINE r == js \o ks
<1>1. /\ Len(r) = Len(js) + Len(ks) /\ Len(js) \in Nat /\ Len(ks) \in Nat
      /\ \A i \in 1 .. Len(js) + Len(ks) : r[i] = IF i <= Len(js) THEN js[i] ELSE ks[i - Len(js)]
  BY ConcatRange, InRange
<1> HIDE DEF r
<1>2. ASSUME NEW i \in 1 .. Len(r), r[i].op = "start"
      PROVE  IF i = 1 THEN first ELSE r[i - 1].op = "stop"
  <2>1. CASE i <= Len(js)
    <3>1. i \in 1 .. Len(js) /\ (i # 1 => i - 1 \in 1 .. Len(js) + Len(ks) /\ i - 1 <= Len(js))
      BY <1>1, <2>1
    <3> QED
      BY <1>1, <1>2, <2>1, <3>1 DEF Starts
  <2>2. CASE ~(i <= Len(js))
    <3>1. i - Len(js) \in 1 .. Len(ks) /\ r[i] = ks[i - Len(js)]
      BY <1>1, <2>2
    <3>2. i - Len(js) # 1 /\ ks[i - Len(js) - 1].op = "stop"
      BY <1>2, <3>1 DEF Starts
    <3>3. i - 1 \in 1 .. Len(js) + Len(ks) /\ ~(i - 1 <= Len(js)) /\ (i - 1) - Len(js) = i - Len(js) - 1 /\ i # 1
      BY <1>1, <2>2, <3>1, <3>2
    <3> QED
      BY <1>1, <3>2, <3>3
  <2> QED
    BY <2>1, <2>2
<1>3. ASSUME NEW u, Failed(js, u), Failed(ks, u) PROVE Failed(r, u)
  <2> SUFFICES ASSUME NEW i \in 1 .. Len(r), r[i].op = "input_opened", ~r[i].ok PROVE r[i].url < u
    BY DEF Failed
  <2>1. CASE i <= Len(js)
    <3>1. i \in 1 .. Len(js) /\ r[i] = js[i]
      BY <1>1, <2>1
    <3> QED
      BY <1>3, <3>1 DEF Failed
  <2>2. CASE ~(i <= Len(js))
    <3>1. i - Len(js) \in 1 .. Len(ks) /\ r[i] = ks[i - Len(js)]
      BY <1>1, <2>2
    <3> QED
      BY <1>3, <3>1 DEF Failed
  <2> QED
    BY <2>1, <2>2
<1> QED
  BY <1>2, <1>3 DEF r, Starts

\* A single job that is neither a start nor tells of a failure; no job; and all jobs.
LEMMA TameJobs ==
  ASSUME NEW n \in Nat
  PROVE  /\ Starts(<<>>, FALSE) /\ \A u : Failed(<<>>, u)
         /\ \A j \in JobType(n) : j.op # "start" => Starts(<<j>>, FALSE)
         /\ \A j \in JobType(n) : \A u : (j.op = "input_opened" /\ ~j.ok => j.url < u) => Failed(<<j>>, u)
         /\ \A js \in Seq(JobType(n)) : Failed(js, n)
         /\ \A js \in Seq(JobType(n)) : Starts(js, FALSE) => \A first \in BOOLEAN : Starts(js, first)
<1>1. Len(<<>>) = 0 /\ 1 .. 0 = {}
  BY NothingIn
<1>2. \A j \in JobType(n) : Len(<<j>>) = 1 /\ <<j>>[1] = j
  BY SingleSeq
<1>3. \A js \in Seq(JobType(n)) : Failed(js, n)
  <2> SUFFICES ASSUME NEW js \in Seq(JobType(n)), NEW i \in 1 .. Len(js), js[i].op = "input_opened"
               PROVE  js[i].url < n
    BY DEF Failed
  <2>1. js[i] \in JobType(n)
    BY InRange
  <2>2. js[i].url \in 0 .. n - 1
    BY <2>1, JobFields
  <2> QED
    BY <2>2
<1>4. \A i \in 1 .. 1 : i = 1
  OBVIOUS
<1>5. Starts(<<>>, FALSE) /\ \A u : Failed(<<>>, u)
  BY <1>1 DEF Starts, Failed
<1>6. ASSUME NEW j \in JobType(n) PROVE j.op # "start" => Starts(<<j>>, FALSE)
  BY <1>2, <1>4 DEF Starts
<1>7. ASSUME NEW j \in JobType(n), NEW u, j.op = "input_opened" /\ ~j.ok => j.url < u PROVE Failed(<<j>>, u)
  BY <1>2, <1>4, <1>7 DEF Failed
<1>8. \A js \in Seq(JobType(n)) : Starts(js, FALSE) => \A first \in BOOLEAN : Starts(js, first)
  BY DEF Starts
<1> QED
  BY <1>3, <1>5, <1>6, <1>7, <1>8

\* No track, one, or two.
LEMMA FewTracks ==
  ASSUME NEW t, NEW js, NEW ls, NEW added, NEW item
  PROVE  /\ Len(t) = 0 => Ordered(t) /\ Behind(t, js, ls, added, item)
         /\ Len(t) = 1 => Ordered(t)
         /\ Len(t) = 1 /\ (Known(ls, t[1].url, added, item) \/ Failed(js, t[1].url)) => Behind(t, js, ls, added, item)
         /\ Len(t) = 2 /\ t[1].url < t[2].url => Ordered(t)
         /\ Len(t) = 2 /\ Known(ls, t[1].url, added, item) /\ Failed(js, t[2].url) => Behind(t, js, ls, added, item)
<1>1. /\ Len(t) = 0 => 1 .. Len(t) = {} /\ Len(t) # 1 /\ Len(t) # 2 /\ Len(t) <= 2
      /\ Len(t) = 1 => Len(t) # 2 /\ Len(t) <= 2
      /\ Len(t) = 2 => Len(t) # 1 /\ Len(t) <= 2
  <2>1. 1 .. 0 = {} /\ 0 <= 2 /\ 1 <= 2 /\ 2 <= 2 /\ 0 # 1 /\ 0 # 2 /\ 1 # 2
    OBVIOUS
  <2> QED
    BY <2>1, Zenon
<1>2. Len(t) = 1 => \A i, j \in 1 .. Len(t) : ~(i < j)
  OBVIOUS
<1>3. Len(t) = 2 => \A i, j \in 1 .. Len(t) : i < j => i = 1 /\ j = 2
  OBVIOUS
<1> QED
  BY <1>1, <1>2, <1>3 DEF Ordered, Behind

\* What is known of the tracks.
LEMMA TracksKnown ==
  ASSUME IInv
  PROVE  /\ Len(pipeline) \in Nat /\ DOMAIN pipeline = 1 .. Len(pipeline) /\ urlCount \in Nat
         /\ \A i \in 1 .. Len(pipeline) : pipeline[i].url \in 0 .. urlCount - 1
         /\ pipeline = <<>> <=> Len(pipeline) = 0
<1>1. pipeline \in Seq(TrackType(urlCount)) /\ urlCount \in Nat
  BY DEF IInv, PlayerOK, ListsOK
<1>2. Len(pipeline) \in Nat /\ DOMAIN pipeline = 1 .. Len(pipeline)
  BY <1>1, LenProperties
<1>3. \A i \in 1 .. Len(pipeline) : pipeline[i].url \in 0 .. urlCount - 1
  BY <1>1, <1>2, TrackChanges
<1>4. pipeline = <<>> <=> Len(pipeline) = 0
  BY <1>1, EmptySeq
<1> QED
  BY <1>1, <1>2, <1>3, <1>4

\* The url ids of the items are those they had, or none.
UrlsKept ==
  \A l \in DOMAIN lists' : \A i \in DOMAIN lists'[l].url :
    lists'[l].url[i] # INVALID => l \in DOMAIN lists /\ i \in DOMAIN lists[l].url /\ lists[l].url[i] = lists'[l].url[i]

\* A url id that was of one item is.
LEMMA KeptOnce ==
  ASSUME UrlsOnce, UrlsKept
  PROVE  /\ UrlsOnce'
         /\ \A url \in Nat : \A added, item : Known(lists, url, added, item) => Known(lists', url, added, item)
<1>1. UrlsOnce'
  BY DEF UrlsOnce, UrlsKept
<1>2. \A url \in Nat : url # INVALID
  BY DEF INVALID
<1>3. \A url \in Nat : \A added, item : Known(lists, url, added, item) => Known(lists', url, added, item)
  BY <1>2 DEF Known, UrlsKept
<1> QED
  BY <1>1, <1>3

\* The tracks stay, and what failed is before them.
LEMMA TracksStay ==
  ASSUME IInv, Ahead, Len(pipeline') = Len(pipeline), \A i \in 1 .. Len(pipeline) : pipeline'[i].url = pipeline[i].url,
         Starts(jobs', Len(pipeline) = 0), \A u : Failed(jobs, u) => Failed(jobs', u), UrlsKept,
         UNCHANGED <<currentItem, addedNext>>
  PROVE  Ahead'
<1>1. /\ Len(pipeline) \in Nat /\ \A i \in 1 .. Len(pipeline) : pipeline[i].url \in Nat
  BY TracksKnown
<1>2. UrlsOnce' /\ \A url \in Nat : \A added, item : Known(lists, url, added, item) => Known(lists', url, added, item)
  BY KeptOnce DEF Ahead
<1>3. StartsEmpty'
  BY DEF StartsEmpty
<1>4. InOrder'
  BY DEF Ahead, InOrder, Ordered
<1>5. OneBehind'
  <2>1. Len(pipeline) <= 2
    BY DEF Ahead, OneBehind, Behind
  <2>2. ASSUME Len(pipeline) = 2
        PROVE  Known(lists', pipeline'[1].url, addedNext', currentItem') /\ Failed(jobs', pipeline'[2].url)
    <3>1. 1 \in 1 .. Len(pipeline) /\ 2 \in 1 .. Len(pipeline)
      BY <2>2
    <3> QED
      BY <1>1, <1>2, <2>2, <3>1 DEF Ahead, OneBehind, Behind
  <2>3. ASSUME Len(pipeline) = 1
        PROVE  Known(lists', pipeline'[1].url, addedNext', currentItem') \/ Failed(jobs', pipeline'[1].url)
    <3>1. 1 \in 1 .. Len(pipeline)
      BY <2>3
    <3> QED
      BY <1>1, <1>2, <2>3, <3>1 DEF Ahead, OneBehind, Behind
  <2> QED
    BY <2>1, <2>2, <2>3 DEF OneBehind, Behind
<1> QED
  BY <1>2, <1>3, <1>4, <1>5 DEF Ahead

\* A track leaves; if it failed to open, this is told.
LEMMA TrackLeaves ==
  ASSUME IInv, Ahead, NEW k \in 1 .. Len(pipeline), Len(pipeline') = Len(pipeline) - 1,
         \A i \in 1 .. Len(pipeline) - 1 : pipeline'[i].url = IF i < k THEN pipeline[i].url ELSE pipeline[i + 1].url,
         NEW js \in Seq(JobType(urlCount)), jobs' = jobs \o js, Starts(js, FALSE),
         \A u : pipeline[k].url < u => Failed(js, u),
         UNCHANGED <<lists, currentItem, addedNext>>
  PROVE  Ahead'
<1>1. /\ Len(pipeline) \in Nat /\ \A i \in 1 .. Len(pipeline) : pipeline[i].url \in Nat
  BY TracksKnown
<1>2. UrlsOnce'
  BY DEF Ahead, UrlsOnce
<1>3. jobs \in Seq(JobType(urlCount)) /\ urlCount \in Nat
  BY DEF IInv, PlayerOK, ListsOK
<1>4. Len(pipeline) # 0
  BY <1>1
<1>5. Starts(jobs, FALSE)
  BY <1>4 DEF Ahead, StartsEmpty, Starts
<1>6. /\ Starts(jobs', FALSE) /\ \A u : Failed(jobs, u) /\ Failed(js, u) => Failed(jobs', u)
  BY <1>3, <1>5, StartsPosted
<1>7. jobs' \in Seq(JobType(urlCount))
  BY <1>3, ConcatProperties
<1>8. StartsEmpty'
  <2>1. Len(pipeline') = 0 => Starts(jobs', TRUE)
    BY <1>3, <1>6, <1>7, TameJobs
  <2> QED
    BY <1>6, <2>1 DEF StartsEmpty, Starts
<1>9. Len(pipeline) = 1 \/ Len(pipeline) = 2
  BY <1>1, <1>4 DEF Ahead, OneBehind, Behind
<1>10. CASE Len(pipeline) = 1
  <2>1. Len(pipeline') = 0
    BY <1>10
  <2>2. InOrder' /\ OneBehind'
    BY <2>1, FewTracks DEF InOrder, OneBehind
  <2> QED
    BY <1>2, <1>8, <2>2 DEF Ahead
<1>11. CASE Len(pipeline) = 2
  <2>1. Len(pipeline') = 1 /\ k \in {1, 2} /\ 1 \in 1 .. Len(pipeline) - 1 /\ 1 \in 1 .. Len(pipeline) /\ 2 \in 1 .. Len(pipeline)
    BY <1>11
  <2>2. InOrder'
    BY <2>1, FewTracks DEF InOrder
  <2>3. /\ Known(lists, pipeline[1].url, addedNext, currentItem) /\ Failed(jobs, pipeline[2].url)
        /\ pipeline[1].url < pipeline[2].url
    <3>1. 1 < 2
      OBVIOUS
    <3> QED
      BY <1>11, <2>1, <3>1 DEF Ahead, OneBehind, Behind, InOrder, Ordered
  <2>4. CASE k = 1
    <3>1. pipeline'[1].url = pipeline[2].url
      BY <2>1, <2>4
    <3>2. Failed(jobs', pipeline'[1].url)
      BY <1>6, <2>3, <2>4, <3>1
    <3>3. OneBehind'
      BY <2>1, <3>2, FewTracks DEF OneBehind
    <3> QED
      BY <1>2, <1>8, <2>2, <3>3 DEF Ahead
  <2>5. CASE k = 2
    <3>1. pipeline'[1].url = pipeline[1].url
      BY <2>1, <2>5
    <3>2. OneBehind'
      BY <2>1, <2>3, <3>1, FewTracks DEF OneBehind
    <3> QED
      BY <1>2, <1>8, <2>2, <3>2 DEF Ahead
  <2> QED
    BY <2>1, <2>4, <2>5
<1> QED
  BY <1>9, <1>10, <1>11

\* An item is given to the input, when one track at most is there, whose item is known
\* to play and to have been followed by its next, and no start waits.
LEMMA TrackAdded ==
  ASSUME IInv, Ahead, NEW l, NEW id, cont_play_internal(l, id), UNCHANGED <<listCount, movedDown>>,
         jobs' \in Seq(JobType(urlCount)), Starts(jobs', FALSE), \A u : Failed(jobs, u) => Failed(jobs', u),
         Len(pipeline) <= 1, Len(pipeline) = 1 => Known(lists, pipeline[1].url, addedNext', currentItem')
  PROVE  Ahead'
<1>1. /\ Len(pipeline) \in Nat /\ urlCount \in Nat /\ \A i \in 1 .. Len(pipeline) : pipeline[i].url \in 0 .. urlCount - 1
      /\ pipeline \in Seq(TrackType(urlCount))
  BY TracksKnown DEF IInv, PlayerOK
<1>0. Len(pipeline) = 0 \/ Len(pipeline) = 1
  <2>1. \A n \in Nat : n <= 1 => n = 0 \/ n = 1
    OBVIOUS
  <2> QED
    BY <1>1, <2>1
<1>2. StartsEmpty'
  BY TameJobs, <1>1 DEF StartsEmpty
<1>3. Failed(jobs', urlCount)
  BY <1>1, TameJobs
<1>4. CASE l \in DOMAIN lists /\ id \in Range(lists[l].items)
  <2> DEFINE new == [url |-> urlCount, list |-> l, item |-> id, stage |-> "added", near |-> FALSE]
  <2>1. get_playlist_item_with_item_id(lists[l], id) # {}
    BY <1>4 DEF get_playlist_item_with_item_id
  <2>2. /\ lists' = [lists EXCEPT ![l] = update_url_id(lists[l], id, urlCount)]
        /\ pipeline' = Append(pipeline, new) /\ urlCount' = urlCount + 1
    BY <1>4, <2>1 DEF cont_play_internal
  <2>3. \A m \in DOMAIN lists : \A i \in DOMAIN lists[m].url : lists[m].url[i] \in INVALID .. urlCount - 1
    BY DEF IInv, ListsOK, ListOK
  <2>4. /\ update_url_id(lists[l], id, urlCount).url = [lists[l].url EXCEPT ![id] = urlCount]
        /\ id \in DOMAIN lists[l].url
    <3>1. ListOK(lists[l], urlCount)
      BY <1>4 DEF IInv, ListsOK
    <3> DEFINE q == lists[l]
    <3>2. ListOK(q, urlCount) /\ id \in Range(q.items)
      BY <1>4, <3>1
    <3> HIDE DEF q
    <3>3. /\ update_url_id(q, id, urlCount).url = [q.url EXCEPT ![id] = urlCount]
          /\ DOMAIN q.url = 0 .. q.made - 1 /\ id \in 0 .. q.made - 1
      BY <1>1, <3>2, UpdateOK, ZenonT(40)
    <3> QED
      BY <3>3 DEF q
  <2>5. /\ DOMAIN lists' = DOMAIN lists
        /\ \A m \in DOMAIN lists : m # l => lists'[m] = lists[m]
        /\ lists'[l].url = [lists[l].url EXCEPT ![id] = urlCount]
    BY <1>4, <2>2, <2>4
  <2>6. \A m \in DOMAIN lists : DOMAIN lists'[m].url = DOMAIN lists[m].url
    BY <2>5
  <2>7. \A m \in DOMAIN lists : \A i \in DOMAIN lists[m].url :
          lists'[m].url[i] = IF m = l /\ i = id THEN urlCount ELSE lists[m].url[i]
    BY <2>4, <2>5
  <2>8. UrlsOnce'
    <3> SUFFICES ASSUME NEW a \in DOMAIN lists', NEW b \in DOMAIN lists',
                        NEW i \in DOMAIN lists'[a].url, NEW k \in DOMAIN lists'[b].url,
                        lists'[a].url[i] = lists'[b].url[k], lists'[a].url[i] # INVALID
                 PROVE  a = b /\ i = k
      BY DEF UrlsOnce
    <3>1. a \in DOMAIN lists /\ b \in DOMAIN lists /\ i \in DOMAIN lists[a].url /\ k \in DOMAIN lists[b].url
      BY <2>5, <2>6
    <3>2. lists[a].url[i] # urlCount /\ lists[b].url[k] # urlCount
      BY <1>1, <2>3, <3>1
    <3>3. /\ lists'[a].url[i] = IF a = l /\ i = id THEN urlCount ELSE lists[a].url[i]
          /\ lists'[b].url[k] = IF b = l /\ k = id THEN urlCount ELSE lists[b].url[k]
      BY <2>7, <3>1
    <3>4. UrlsOnce
      BY DEF Ahead
    <3>5. CASE a = l /\ i = id
      BY <3>2, <3>3, <3>5
    <3>6. CASE ~(a = l /\ i = id)
      <4>1. lists[a].url[i] = lists[b].url[k] /\ lists[a].url[i] # INVALID
        BY <3>2, <3>3, <3>6
      <4> QED
        BY <3>1, <3>4, <4>1 DEF UrlsOnce
    <3> QED
      BY <3>5, <3>6
  <2>9. /\ Len(pipeline') = Len(pipeline) + 1 /\ pipeline'[Len(pipeline) + 1].url = urlCount
        /\ \A i \in 1 .. Len(pipeline) : pipeline'[i] = pipeline[i]
    <3>1. /\ Append(pipeline, new) = pipeline' /\ new.url = urlCount
      BY <2>2
    <3>2. pipeline \in Seq(TrackType(urlCount) \cup {new})
      BY <1>1, SeqMonotonic
    <3> HIDE DEF new
    <3>3. /\ Len(Append(pipeline, new)) = Len(pipeline) + 1 /\ Append(pipeline, new)[Len(pipeline) + 1] = new
          /\ \A i \in 1 .. Len(pipeline) : Append(pipeline, new)[i] = pipeline[i]
      BY <3>2, AppendRange
    <3> QED
      BY <3>1, <3>3
  <2>10. CASE Len(pipeline) = 0
    <3>1. Len(pipeline') = 1 /\ pipeline'[1].url = urlCount
      BY <2>9, <2>10
    <3>2. InOrder' /\ OneBehind'
      BY <1>3, <3>1, FewTracks DEF InOrder, OneBehind
    <3> QED
      BY <1>2, <2>8, <3>2 DEF Ahead
  <2>11. CASE Len(pipeline) = 1
    <3>1. /\ Len(pipeline') = 2 /\ pipeline'[2].url = urlCount /\ pipeline'[1].url = pipeline[1].url
          /\ pipeline[1].url \in 0 .. urlCount - 1
      BY <1>1, <2>9, <2>11
    <3>2. InOrder'
      <4>1. pipeline'[1].url < pipeline'[2].url
        BY <1>1, <3>1
      <4> QED
        BY <3>1, <4>1, FewTracks DEF InOrder
    <3>3. Known(lists', pipeline'[1].url, addedNext', currentItem')
      <4> SUFFICES ASSUME NEW a \in DOMAIN lists', NEW i \in DOMAIN lists'[a].url, lists'[a].url[i] = pipeline[1].url
                   PROVE  addedNext' /\ i = currentItem'
        BY <3>1 DEF Known
      <4>1. a \in DOMAIN lists /\ i \in DOMAIN lists[a].url
        BY <2>5, <2>6
      <4>2. lists'[a].url[i] # urlCount
        BY <1>1, <3>1
      <4>3. lists[a].url[i] = pipeline[1].url
        BY <2>7, <4>1, <4>2
      <4> QED
        BY <2>11, <4>1, <4>3 DEF Known
    <3>4. OneBehind'
      BY <1>3, <3>1, <3>3, FewTracks DEF OneBehind
    <3> QED
      BY <1>2, <2>8, <3>2, <3>4 DEF Ahead
  <2> QED
    BY <1>0, <2>10, <2>11
<1>5. CASE ~(l \in DOMAIN lists /\ id \in Range(lists[l].items))
  <2>1. UNCHANGED <<lists, pipeline, urlCount>>
    BY <1>5 DEF cont_play_internal, get_playlist_item_with_item_id
  <2>2. UrlsOnce' /\ InOrder'
    BY <2>1 DEF Ahead, UrlsOnce, InOrder
  <2>3. OneBehind'
    <3>1. UNCHANGED <<Len(pipeline), pipeline[1].url>>
      BY <2>1
    <3> QED
      BY <1>0, <2>1, <3>1, FewTracks DEF OneBehind
  <2> QED
    BY <1>2, <2>2, <2>3 DEF Ahead
<1> QED
  BY <1>4, <1>5

\* What is posted behind the other jobs, while the tracks stay.
LEMMA PostedAhead ==
  ASSUME IInv, Ahead, NEW js \in Seq(JobType(urlCount)), jobs' = jobs \o js, Starts(js, FALSE), \A u : Failed(js, u),
         Len(pipeline') = Len(pipeline), \A i \in 1 .. Len(pipeline) : pipeline'[i].url = pipeline[i].url,
         UNCHANGED <<lists, currentItem, addedNext>>
  PROVE  Ahead'
<1>1. jobs \in Seq(JobType(urlCount)) /\ urlCount \in Nat
  BY DEF IInv, PlayerOK, ListsOK
<1> DEFINE none == Len(pipeline) = 0
<1>2. none \in BOOLEAN /\ Starts(jobs, none)
  BY DEF Ahead, StartsEmpty
<1> HIDE DEF none
<1>3. Starts(jobs', none) /\ \A u : Failed(jobs, u) => Failed(jobs', u)
  <2> DEFINE n == urlCount
             ks == jobs
             all == ks \o js
  <2>1. n \in Nat /\ ks \in Seq(JobType(n)) /\ js \in Seq(JobType(n)) /\ none \in BOOLEAN /\ Starts(ks, none)
    BY <1>1, <1>2
  <2>2. Starts(js, FALSE) /\ jobs' = all /\ \A u : Failed(js, u)
    OBVIOUS
  <2> HIDE DEF n, ks
  <2>3. Starts(all, none) /\ \A u : Failed(ks, u) /\ Failed(js, u) => Failed(all, u)
    BY <2>1, <2>2, StartsPosted
  <2> HIDE DEF all
  <2>4. Starts(jobs', none) /\ \A u : Failed(ks, u) => Failed(jobs', u)
    BY <2>2, <2>3
  <2> QED
    BY <2>4 DEF ks
<1>4. UrlsKept
  BY DEF UrlsKept
<1> QED
  BY <1>3, <1>4, TracksStay DEF none

\* What the user posts starts a track after a stop only.
LEMMA UserAhead ==
  ASSUME IInv, Ahead, User
  PROVE  Ahead'
<1>1. urlCount \in Nat
  BY DEF IInv, ListsOK
<1>2. UNCHANGED <<lists, currentItem, addedNext, pipeline>>
  BY DEF User, AddPlaylist, AddFiles, DeleteSelected, DropRows, RemoveTab, ChangeTab, PlayItem, StopPlay, TogglePause, SeekTo,
         content, player, sound
<1>3. ASSUME NEW js \in Seq(JobType(urlCount)), UserPosts(js), Starts(js, FALSE), \A u : Failed(js, u)
      PROVE  Ahead'
  BY <1>2, <1>3, PostedAhead DEF UserPosts
<1>4. ASSUME NEW j \in JobType(urlCount), UserPosts(<<j>>), j.op \notin {"start", "input_opened"}
      PROVE  Ahead'
  BY <1>1, <1>3, <1>4, TameJobs, FewJobs
<1>5. UserPosts(<<>>) => Ahead'
  BY <1>1, <1>3, TameJobs, FewJobs
<1>6. CASE AddPlaylist
  <2>1. PICK n \in 0 .. MaxLoad : UserPosts(<<[op |-> "addlist", loaded |-> n, urls |-> 0]>>)
    BY <1>6 DEF AddPlaylist
  <2>2. [op |-> "addlist", loaded |-> n, urls |-> 0] \in JobType(urlCount)
    BY PlaylistAssumption DEF JobType
  <2> QED
    BY <1>4, <2>1, <2>2
<1>7. CASE AddFiles
  <2>1. PICK n \in 0 .. MaxAdd :
          IF tab = INVALID
            THEN UserPosts(<<[op |-> "addlist", loaded |-> 0, urls |-> n]>>)
            ELSE \E from \in NextSelected : UserPosts(<<[op |-> "add", list |-> tab, item |-> from, urls |-> n]>>)
    BY <1>7 DEF AddFiles, add_playlist_directory_builder
  <2>2. n \in Nat
    BY PlaylistAssumption
  <2>3. CASE tab = INVALID
    <3>1. [op |-> "addlist", loaded |-> 0, urls |-> n] \in JobType(urlCount)
      BY <2>2 DEF JobType
    <3> QED
      BY <1>4, <2>1, <2>3, <3>1
  <2>4. CASE tab # INVALID
    <3>1. PICK from \in NextSelected : UserPosts(<<[op |-> "add", list |-> tab, item |-> from, urls |-> n]>>)
      BY <2>1, <2>4
    <3>2. tab \in Nat /\ from \in ItemIds
      BY <2>4, ShownItems DEF NextSelected
    <3>3. [op |-> "add", list |-> tab, item |-> from, urls |-> n] \in JobType(urlCount)
      BY <2>2, <3>2 DEF JobType
    <3> QED
      BY <1>4, <3>1, <3>3
  <2> QED
    BY <2>3, <2>4
<1>8. ASSUME NEW rows \in SelectedRows, NEW js, js = [i \in 1 .. Cardinality(rows) |-> js[i]], tab # INVALID, UserPosts(js),
             \A i \in 1 .. Cardinality(rows) : js[i] \in JobType(urlCount) /\ js[i].op \notin {"start", "input_opened"}
      PROVE  Ahead'
  <2>1. js \in Seq(JobType(urlCount))
    BY <1>8, RowJobs
  <2>2. DOMAIN js = 1 .. Cardinality(rows) /\ DOMAIN js = 1 .. Len(js)
    BY <1>8, <2>1, LenProperties
  <2>3. \A i \in 1 .. Len(js) : js[i].op \notin {"start", "input_opened"}
    BY <1>8, <2>2
  <2>4. Starts(js, FALSE) /\ \A u : Failed(js, u)
    BY <2>3 DEF Starts, Failed
  <2> QED
    BY <1>3, <1>8, <2>1, <2>4
<1>9. CASE DeleteSelected
  <2>1. PICK rows \in SelectedRows : UserPosts([i \in 1 .. Cardinality(rows) |-> remove_row(FromLast(rows)[i])])
    BY <1>9 DEF DeleteSelected
  <2> DEFINE js == [i \in 1 .. Cardinality(rows) |-> remove_row(FromLast(rows)[i])]
  <2>2. \A row : remove_row(row) \in JobType(urlCount) /\ remove_row(row).op = "remove"
    <3>1. tab \in Nat /\ \A row : get_item_playlist_id(row) \in ItemIds
      BY <1>9, ShownItems DEF DeleteSelected
    <3> QED
      BY <3>1 DEF remove_row, ItemJob, JobType
  <2>3. /\ js = [i \in 1 .. Cardinality(rows) |-> js[i]]
        /\ \A i \in 1 .. Cardinality(rows) : js[i] \in JobType(urlCount) /\ js[i].op \notin {"start", "input_opened"}
    BY <2>2
  <2>4. UserPosts(js) /\ tab # INVALID
    BY <1>9, <2>1 DEF DeleteSelected
  <2> HIDE DEF js
  <2> QED
    BY <1>8, <2>3, <2>4
<1>10. CASE DropRows
  <2>1. PICK rows \in SelectedRows, to \in DOMAIN views[tab] :
          UserPosts([i \in 1 .. Cardinality(rows) |-> MoveJob(tab, get_item_playlist_id(FromLast(rows)[i]), get_item_playlist_id(to))])
    BY <1>10 DEF DropRows
  <2> DEFINE j(row) == MoveJob(tab, get_item_playlist_id(row), get_item_playlist_id(to))
             js == [i \in 1 .. Cardinality(rows) |-> j(FromLast(rows)[i])]
  <2>2. \A row : j(row) \in JobType(urlCount) /\ j(row).op = "move"
    <3>1. tab \in Nat /\ \A row : get_item_playlist_id(row) \in ItemIds
      BY <1>10, ShownItems DEF DropRows
    <3> QED
      BY <3>1 DEF MoveJob, JobType
  <2>3. /\ js = [i \in 1 .. Cardinality(rows) |-> js[i]]
        /\ \A i \in 1 .. Cardinality(rows) : js[i] \in JobType(urlCount) /\ js[i].op \notin {"start", "input_opened"}
    <3> HIDE DEF j
    <3> QED
      BY <2>2
  <2>4. UserPosts(js) /\ tab # INVALID
    BY <1>10, <2>1 DEF DropRows
  <2> HIDE DEF js
  <2> QED
    BY <1>8, <2>3, <2>4
<1>11. CASE RemoveTab
  <2>1. PICK l \in DOMAIN views : UserPosts(<<ListJob("removelist", l)>>)
    BY <1>11 DEF RemoveTab
  <2>2. l \in Nat
    <3>1. listCount \in Nat
      BY DEF IInv, ListsOK
    <3> QED
      BY <3>1, TabsAreOK DEF IInv, TabsOK
  <2>3. ListJob("removelist", l) \in JobType(urlCount) /\ ListJob("removelist", l).op = "removelist"
    BY <2>2 DEF ListJob, JobType
  <2> QED
    BY <1>4, <2>1, <2>3
<1>12. CASE ChangeTab
  BY <1>5, <1>12 DEF ChangeTab
<1>13. \A op \in {"stop", "pause", "cont"} : UserPosts(<<Control(op)>>) => Ahead'
  <2>1. \A op \in {"stop", "pause", "cont"} : Control(op) \in JobType(urlCount) /\ Control(op).op = op
    BY DEF Control, JobType
  <2> QED
    BY <1>4, <2>1
<1>14. CASE PlayItem
  <2>1. PICK offset \in {-1, 0, 1} :
          IF tab = INVALID THEN UserPosts(<<>>)
            ELSE \E id \in ItemAtOffset(offset) : UserPosts(<<Control("stop"), ItemJob("start", tab, id)>>)
    BY <1>14 DEF PlayItem
  <2>2. CASE tab = INVALID
    BY <1>5, <2>1, <2>2
  <2>3. CASE tab # INVALID
    <3>1. PICK id \in ItemAtOffset(offset) : UserPosts(<<Control("stop"), ItemJob("start", tab, id)>>)
      BY <2>1, <2>3
    <3> DEFINE js == <<Control("stop"), ItemJob("start", tab, id)>>
    <3>2. tab \in Nat /\ id \in ItemIds
      BY <2>3, ShownItems DEF ItemAtOffset
    <3>3. /\ Control("stop") \in JobType(urlCount) /\ ItemJob("start", tab, id) \in JobType(urlCount)
          /\ Control("stop").op = "stop" /\ ItemJob("start", tab, id).op = "start"
      BY <3>2 DEF Control, ItemJob, JobType
    <3>4. js \in Seq(JobType(urlCount)) /\ Len(js) = 2 /\ js[1].op = "stop" /\ js[2].op = "start"
      BY <3>3
    <3> HIDE DEF js
    <3>5. \A i \in 1 .. 2 : i = 1 \/ (i = 2 /\ i - 1 = 1 /\ i # 1)
      OBVIOUS
    <3>6. Starts(js, FALSE) /\ \A u : Failed(js, u)
      BY <3>4, <3>5 DEF Starts, Failed
    <3>7. UserPosts(js)
      BY <3>1 DEF js
    <3> QED
      BY <1>3, <3>4, <3>6, <3>7
  <2> QED
    BY <2>2, <2>3
<1>15. CASE StopPlay
  BY <1>13, <1>15 DEF StopPlay
<1>16. CASE TogglePause
  BY <1>13, <1>16 DEF TogglePause
<1>17. CASE SeekTo
  <2> DEFINE js == seek_duration(get_current_play_ids[1], get_current_play_ids[2])
  <2>1. UserPosts(js)
    BY <1>17 DEF SeekTo
  <2>2. js = <<>> \/ (tab # INVALID /\ js = <<ItemJob("seek", tab, shownItem)>>)
    BY DEF seek_duration, get_current_play_ids
  <2> HIDE DEF js
  <2>3. CASE js = <<>>
    BY <1>5, <2>1, <2>3
  <2>4. CASE tab # INVALID /\ js = <<ItemJob("seek", tab, shownItem)>>
    <3>1. tab \in Nat /\ shownItem \in ItemIds
      BY <2>4, ShownItems DEF IInv, UserOK
    <3>2. ItemJob("seek", tab, shownItem) \in JobType(urlCount) /\ ItemJob("seek", tab, shownItem).op = "seek"
      BY <3>1 DEF ItemJob, JobType
    <3> QED
      BY <1>4, <2>1, <2>4, <3>2
  <2> QED
    BY <2>2, <2>3, <2>4
<1> QED
  BY <1>6, <1>7, <1>9, <1>10, <1>11, <1>12, <1>14, <1>15, <1>16, <1>17 DEF User

\* Tracks only leave the input, the decoder and the outputs.
LEMMA PipelineAhead ==
  ASSUME IInv, Ahead, Pipeline
  PROVE  Ahead'
<1>1. /\ urlCount \in Nat /\ pipeline \in Seq(TrackType(urlCount)) /\ jobs \in Seq(JobType(urlCount))
  BY DEF IInv, ListsOK, PlayerOK
<1>2. /\ Len(pipeline) \in Nat /\ DOMAIN pipeline = 1 .. Len(pipeline)
      /\ \A i \in 1 .. Len(pipeline) : pipeline[i].url \in 0 .. urlCount - 1
  BY TracksKnown
<1>3. ASSUME NEW js \in Seq(JobType(urlCount)), jobs' = jobs \o js, Starts(js, FALSE), \A u : Failed(js, u),
             NEW i \in DOMAIN pipeline, UNCHANGED <<lists, currentItem, addedNext>>,
             \/ UNCHANGED pipeline
             \/ \E st \in Stages : pipeline' = [pipeline EXCEPT ![i].stage = st]
             \/ \E near \in BOOLEAN : pipeline' = [pipeline EXCEPT ![i].near = @ \/ near]
      PROVE  Ahead'
  <2>1. CASE UNCHANGED pipeline
    BY <1>3, <2>1, PostedAhead
  <2>2. CASE \E st \in Stages : pipeline' = [pipeline EXCEPT ![i].stage = st]
    <3>1. PICK st \in Stages : pipeline' = [pipeline EXCEPT ![i].stage = st]
      BY <2>2
    <3>2. /\ Len([pipeline EXCEPT ![i].stage = st]) = Len(pipeline)
          /\ \A k \in 1 .. Len(pipeline) : [pipeline EXCEPT ![i].stage = st][k].url = pipeline[k].url
      BY <1>1, TrackChanges
    <3>3. Len(pipeline') = Len(pipeline) /\ \A k \in 1 .. Len(pipeline) : pipeline'[k].url = pipeline[k].url
      BY <3>1, <3>2, Zenon
    <3> QED
      BY <1>3, <3>3, PostedAhead
  <2>3. CASE \E near \in BOOLEAN : pipeline' = [pipeline EXCEPT ![i].near = @ \/ near]
    <3>1. PICK near \in BOOLEAN : pipeline' = [pipeline EXCEPT ![i].near = @ \/ near]
      BY <2>3
    <3>2. /\ Len([pipeline EXCEPT ![i].near = @ \/ near]) = Len(pipeline)
          /\ \A k \in 1 .. Len(pipeline) : [pipeline EXCEPT ![i].near = @ \/ near][k].url = pipeline[k].url
      BY <1>1, TrackChanges
    <3>3. Len(pipeline') = Len(pipeline) /\ \A k \in 1 .. Len(pipeline) : pipeline'[k].url = pipeline[k].url
      BY <3>1, <3>2, Zenon
    <3> QED
      BY <1>3, <3>3, PostedAhead
  <2> QED
    BY <1>3, <2>1, <2>2, <2>3
<1>4. ASSUME NEW j \in JobType(urlCount), jobs' = Append(jobs, j), j.op # "start"
      PROVE  /\ <<j>> \in Seq(JobType(urlCount)) /\ jobs' = jobs \o <<j>> /\ Starts(<<j>>, FALSE)
             /\ \A u : (j.op = "input_opened" /\ ~j.ok => j.url < u) => Failed(<<j>>, u)
  <2>1. Append(jobs, j) = jobs \o <<j>>
    BY <1>1, AppendRange
  <2>2. <<j>> \in Seq(JobType(urlCount))
    BY FewJobs
  <2>3. Starts(<<j>>, FALSE)
    BY <1>1, <1>4, TameJobs
  <2>4. \A u : (j.op = "input_opened" /\ ~j.ok => j.url < u) => Failed(<<j>>, u)
    BY <1>1, TameJobs
  <2> QED
    BY <1>4, <2>1, <2>2, <2>3, <2>4
<1>5. jobs' = jobs => jobs' = jobs \o <<>> /\ <<>> \in Seq(JobType(urlCount)) /\ Starts(<<>>, FALSE) /\ \A u : Failed(<<>>, u)
  BY <1>1, ConcatEmptySeq, TameJobs, EmptySeq
<1>6. ASSUME NEW stage, NEW op \in {"input_opened", "decoder_opened"}, Opens(stage, op)
      PROVE  Ahead'
  <2>1. PICK i \in DOMAIN pipeline :
          /\ jobs' = Append(jobs, [op |-> op, url |-> pipeline[i].url, ok |-> TRUE])
          /\ pipeline' = [pipeline EXCEPT ![i].stage = op]
    BY <1>6 DEF Opens
  <2> DEFINE j == [op |-> op, url |-> pipeline[i].url, ok |-> TRUE]
  <2>2. UNCHANGED <<lists, currentItem, addedNext>> /\ op \in Stages
    BY <1>6 DEF Opens, content, player, Stages
  <2>3. j \in JobType(urlCount) /\ j.op # "start" /\ j.ok
    BY <1>2 DEF JobType
  <2>4. jobs' = Append(jobs, j)
    BY <2>1
  <2> HIDE DEF j
  <2> QED
    BY <1>3, <1>4, <2>1, <2>2, <2>3, <2>4
<1>7. ASSUME NEW i \in DOMAIN pipeline, pipeline' = RemoveAt(pipeline, i) \/ (i = 1 /\ pipeline' = Tail(pipeline)),
             NEW js \in Seq(JobType(urlCount)), jobs' = jobs \o js, Starts(js, FALSE),
             \A u : pipeline[i].url < u => Failed(js, u),
             UNCHANGED <<lists, currentItem, addedNext>>
      PROVE  Ahead'
  <2>1. /\ Len(pipeline') = Len(pipeline) - 1 /\ i \in 1 .. Len(pipeline)
        /\ \A k \in 1 .. Len(pipeline) - 1 : pipeline'[k] = IF k < i THEN pipeline[k] ELSE pipeline[k + 1]
    <3>1. CASE pipeline' = RemoveAt(pipeline, i)
      BY <1>1, <1>2, <3>1, TakeAt
    <3>2. CASE i = 1 /\ pipeline' = Tail(pipeline)
      <4>1. pipeline # <<>>
        BY <1>2, TracksKnown
      <4>2. Len(pipeline') = Len(pipeline) - 1 /\ \A k \in 1 .. Len(pipeline') : pipeline'[k] = pipeline[k + 1]
        BY <1>1, <3>2, <4>1, TailRange
      <4>3. \A k \in 1 .. Len(pipeline) - 1 : ~(k < i)
        BY <1>2, <3>2
      <4> QED
        BY <1>2, <4>2, <4>3
    <3> QED
      BY <1>7, <3>1, <3>2
  <2>2. \A k \in 1 .. Len(pipeline) - 1 : pipeline'[k].url = IF k < i THEN pipeline[k].url ELSE pipeline[k + 1].url
    BY <2>1
  <2> QED
    BY <1>7, <2>1, <2>2, TrackLeaves
<1>8. CASE InputOpens
  BY <1>6, <1>8 DEF InputOpens
<1>9. CASE DecoderOpens
  BY <1>6, <1>9 DEF DecoderOpens
<1>10. CASE InputFails
  <2>1. PICK i \in DOMAIN pipeline :
          /\ jobs' = Append(jobs, [op |-> "input_opened", url |-> pipeline[i].url, ok |-> FALSE])
          /\ pipeline' = RemoveAt(pipeline, i)
    BY <1>10 DEF InputFails
  <2> DEFINE j == [op |-> "input_opened", url |-> pipeline[i].url, ok |-> FALSE]
  <2>2. UNCHANGED <<lists, currentItem, addedNext>>
    BY <1>10 DEF InputFails, content, player
  <2>3. j \in JobType(urlCount) /\ j.op # "start" /\ j.url = pipeline[i].url
    BY <1>2 DEF JobType
  <2>4. jobs' = Append(jobs, j)
    BY <2>1
  <2> HIDE DEF j
  <2> QED
    BY <1>4, <1>7, <2>1, <2>2, <2>3, <2>4
<1>11. CASE DecoderFails
  <2>1. PICK i \in DOMAIN pipeline : pipeline' = [pipeline EXCEPT ![i].stage = "failed"]
    BY <1>11 DEF DecoderFails
  <2>2. UNCHANGED <<lists, currentItem, addedNext, jobs>> /\ "failed" \in Stages
    BY <1>11 DEF DecoderFails, content, player, Stages
  <2> QED
    BY <1>3, <1>5, <2>1, <2>2
<1>12. CASE DecoderCloses
  <2>1. PICK i \in DOMAIN pipeline : pipeline' = RemoveAt(pipeline, i)
    BY <1>12 DEF DecoderCloses
  <2>2. UNCHANGED <<lists, currentItem, addedNext, jobs>>
    BY <1>12 DEF DecoderCloses, content, player
  <2> QED
    BY <1>5, <1>7, <2>1, <2>2
<1>13. pipeline # <<>> => 1 \in DOMAIN pipeline /\ Head(pipeline) = pipeline[1]
  <2>1. pipeline # <<>> => Len(pipeline) # 0 /\ Head(pipeline) = pipeline[1]
    BY <1>1, TracksKnown, TailRange
  <2> QED
    BY <1>2, <2>1
<1>14. ASSUME NEW near \in BOOLEAN, Progress(near)
       PROVE  Ahead'
  <2>1. /\ jobs' = Append(jobs, [op |-> "progress", url |-> Head(pipeline).url, near |-> near])
        /\ pipeline' = [pipeline EXCEPT ![1].near = @ \/ near] /\ pipeline # <<>>
    BY <1>14 DEF Progress
  <2> DEFINE j == [op |-> "progress", url |-> Head(pipeline).url, near |-> near]
  <2>2. UNCHANGED <<lists, currentItem, addedNext>>
    BY <1>14 DEF Progress, content, player
  <2>3. j \in JobType(urlCount) /\ j.op # "start" /\ j.op # "input_opened"
    BY <1>2, <1>13, <2>1 DEF JobType
  <2>4. jobs' = Append(jobs, j)
    BY <2>1
  <2> HIDE DEF j
  <2> QED
    BY <1>3, <1>4, <1>13, <2>1, <2>2, <2>3, <2>4
<1>15. CASE PlayFinishes
  <2>1. pipeline' = Tail(pipeline) /\ pipeline # <<>>
    BY <1>15 DEF PlayFinishes
  <2>2. UNCHANGED <<lists, currentItem, addedNext, jobs>>
    BY <1>15 DEF PlayFinishes, content, player
  <2> QED
    BY <1>5, <1>7, <1>13, <2>1, <2>2
<1>16. CASE SeekFinishes
  <2>1. jobs' = Append(jobs, Control("seekfinished")) /\ UNCHANGED <<lists, currentItem, addedNext, pipeline>>
    BY <1>16 DEF SeekFinishes, content, player
  <2>2. Control("seekfinished") \in JobType(urlCount) /\ Control("seekfinished").op \notin {"start", "input_opened"}
    BY DEF Control, JobType
  <2> DEFINE js == <<Control("seekfinished")>>
  <2>3. js \in Seq(JobType(urlCount)) /\ jobs' = jobs \o js /\ Starts(js, FALSE) /\ \A u : Failed(js, u)
    BY <1>4, <2>1, <2>2
  <2> HIDE DEF js
  <2> QED
    BY <2>1, <2>3, PostedAhead
<1> QED
  BY <1>8, <1>9, <1>10, <1>11, <1>12, <1>14, <1>15, <1>16 DEF Pipeline

\* A job that is not a stop is taken: no start comes first among the rest, and what
\* they tell of failures they told before.
LEMMA JobAhead ==
  ASSUME IInv, Ahead, jobs # <<>>, Job.op # "stop"
  PROVE  /\ Starts(Rest, FALSE) /\ Starts(Rest, Len(pipeline) = 0)
         /\ \A u : Failed(jobs, u) => Failed(Rest, u) /\ (Job.op = "input_opened" /\ ~Job.ok => Job.url < u)
         /\ Job.op = "start" => Len(pipeline) = 0
         /\ Rest \in Seq(JobType(urlCount)) /\ Job \in JobType(urlCount) /\ urlCount \in Nat
<1> DEFINE n == urlCount
           none == Len(pipeline) = 0
<1>1. n \in Nat /\ jobs \in Seq(JobType(n)) /\ none \in BOOLEAN /\ Starts(jobs, none)
  BY DEF IInv, PlayerOK, ListsOK, Ahead, StartsEmpty
<1> HIDE DEF n, none
<1>2. /\ Head(jobs).op # "stop" => Starts(Tail(jobs), FALSE)
      /\ Head(jobs).op = "start" => none
      /\ \A u : Failed(jobs, u) => Failed(Tail(jobs), u) /\ (Head(jobs).op = "input_opened" /\ ~Head(jobs).ok => Head(jobs).url < u)
  BY <1>1, StartsTaken
<1>3. Tail(jobs) \in Seq(JobType(n)) /\ Head(jobs) \in JobType(n)
  BY <1>1, TailRange
<1>4. Starts(Tail(jobs), FALSE)
  BY <1>2 DEF Job
<1>5. Starts(Tail(jobs), none)
  BY <1>1, <1>3, <1>4, TameJobs
<1> QED
  BY <1>1, <1>2, <1>3, <1>4, <1>5 DEF Job, Rest, n, none

\* A job is done that leaves the tracks, and gives no item a url id.
LEMMA JobStays ==
  ASSUME IInv, Ahead, jobs # <<>>, Job.op # "stop", jobs' = Rest, UrlsKept,
         Len(pipeline') = Len(pipeline), \A i \in 1 .. Len(pipeline) : pipeline'[i].url = pipeline[i].url,
         UNCHANGED <<currentItem, addedNext>>
  PROVE  Ahead'
<1>1. Starts(jobs', Len(pipeline) = 0) /\ \A u : Failed(jobs, u) => Failed(jobs', u)
  BY JobAhead
<1> QED
  BY <1>1, TracksStay

\* A new playlist has no items that were played.
LEMMA AddListAhead ==
  ASSUME IInv, Ahead, add_playlist
  PROVE  Ahead'
<1> DEFINE new == load_playlist(Job.loaded)
           job == [op |-> "add", list |-> listCount, item |-> INVALID, urls |-> Job.urls]
<1>1. /\ lists' = Put(lists, listCount, new) /\ jobs' = Append(Rest, job) /\ jobs # <<>> /\ Job.op = "addlist"
      /\ UNCHANGED <<currentItem, addedNext, pipeline>>
  BY DEF add_playlist, player, sound, Takes, Job
<1>2. /\ Starts(Rest, Len(pipeline) = 0) /\ Rest \in Seq(JobType(urlCount)) /\ Job \in JobType(urlCount) /\ urlCount \in Nat
      /\ \A u : Failed(jobs, u) => Failed(Rest, u)
  BY <1>1, JobAhead
<1>3. Job.loaded \in Nat /\ Job.urls \in Nat /\ listCount \in Nat /\ listCount \notin DOMAIN lists
  <2>1. Job.loaded \in Nat /\ Job.urls \in Nat
    BY <1>1, <1>2, JobFields
  <2>2. listCount \in Nat /\ DOMAIN lists \subseteq 0 .. listCount - 1
    BY DEF IInv, ListsOK
  <2>3. listCount \notin 0 .. listCount - 1
    BY <2>2
  <2> QED
    BY <2>1, <2>2, <2>3
<1>4. \A i \in DOMAIN new.url : new.url[i] = INVALID
  <2>1. new.url = [i \in 0 .. 0 + Job.loaded - 1 |-> IF i < 0 THEN NoItems.url[i] ELSE INVALID]
    BY DEF load_playlist, add_items, NoItems
  <2> QED
    BY <1>3, <2>1
<1>5. UrlsKept
  <2>1. /\ DOMAIN lists' = DOMAIN lists \cup {listCount} /\ lists'[listCount] = new
        /\ \A l \in DOMAIN lists : lists'[l] = lists[l]
    BY <1>1, <1>3 DEF Put
  <2> HIDE DEF new
  <2> QED
    BY <1>4, <2>1 DEF UrlsKept
<1>6. job \in JobType(urlCount) /\ job.op = "add"
  BY <1>3 DEF JobType, ItemIds
<1> DEFINE none == Len(pipeline) = 0
<1> HIDE DEF job, new
<1>7. jobs' = Rest \o <<job>> /\ <<job>> \in Seq(JobType(urlCount))
  <2>1. Append(Rest, job) = Rest \o <<job>>
    BY <1>2, <1>6, AppendRange
  <2>2. <<job>> \in Seq(JobType(urlCount))
    BY <1>6, FewJobs
  <2> QED
    BY <1>1, <2>1, <2>2
<1>8. Starts(<<job>>, FALSE) /\ \A u : Failed(<<job>>, u)
  <2>1. Starts(<<job>>, FALSE)
    BY <1>2, <1>6, TameJobs
  <2>2. \A u : Failed(<<job>>, u)
    BY <1>2, <1>6, TameJobs
  <2> QED
    BY <2>1, <2>2
<1>9. Starts(jobs', none) /\ \A u : Failed(Rest, u) => Failed(jobs', u)
  <2> DEFINE n == urlCount
             ks == Rest
             js == <<job>>
             all == ks \o js
  <2>1. n \in Nat /\ ks \in Seq(JobType(n)) /\ js \in Seq(JobType(n)) /\ none \in BOOLEAN /\ Starts(ks, none)
    BY <1>2, <1>7
  <2>2. Starts(js, FALSE) /\ jobs' = all /\ \A u : Failed(js, u)
    BY <1>7, <1>8
  <2> HIDE DEF n, ks, js, none
  <2>3. Starts(all, none) /\ \A u : Failed(ks, u) /\ Failed(js, u) => Failed(all, u)
    BY <2>1, <2>2, StartsPosted
  <2> HIDE DEF all
  <2>4. Starts(jobs', none) /\ \A u : Failed(ks, u) => Failed(jobs', u)
    BY <2>2, <2>3
  <2> QED
    BY <2>4 DEF ks
<1>10. \A u : Failed(jobs, u) => Failed(jobs', u)
  BY <1>2, <1>9
<1> QED
  BY <1>1, <1>5, <1>9, <1>10, TracksStay DEF none

\* Items that are added were not played; items that are moved or removed, and lists
\* that are removed, leave the url ids of the others.
LEMMA ListsAhead ==
  ASSUME IInv, Ahead, add_playlist_items_internal \/ remove_playlist_item \/ move_playlist_item \/ remove_playlist
  PROVE  Ahead'
<1>1. /\ jobs # <<>> /\ Job.op \in {"add", "remove", "move", "removelist"} /\ jobs' = Rest
      /\ UNCHANGED <<currentItem, addedNext, pipeline>>
  BY DEF add_playlist_items_internal, remove_playlist_item, move_playlist_item, remove_playlist, player, sound, Takes, Job
<1>2. Job \in JobType(urlCount) /\ urlCount \in Nat
  BY <1>1, JobAhead
<1>3. SUFFICES UrlsKept
  BY <1>1, JobStays
<1>4. lists' = lists => UrlsKept
  BY DEF UrlsKept
<1>5. ASSUME NEW l \in DOMAIN lists, NEW new, lists' = [lists EXCEPT ![l] = new],
             \A i \in DOMAIN new.url : new.url[i] # INVALID => i \in DOMAIN lists[l].url /\ lists[l].url[i] = new.url[i]
      PROVE  UrlsKept
  <2>1. DOMAIN lists' = DOMAIN lists /\ lists'[l] = new /\ \A m \in DOMAIN lists : m # l => lists'[m] = lists[m]
    BY <1>5
  <2> QED
    BY <1>5, <2>1 DEF UrlsKept
<1>6. CASE add_playlist_items_internal
  <2>1. CASE Job.list \notin DOMAIN lists \/ Job.urls = 0
    BY <1>4, <1>6, <2>1 DEF add_playlist_items_internal
  <2>2. CASE ~(Job.list \notin DOMAIN lists \/ Job.urls = 0)
    <3> DEFINE p == lists[Job.list]
               new == add_items(p, Job.item, Job.urls)
    <3>1. lists' = [lists EXCEPT ![Job.list] = new] /\ Job.list \in DOMAIN lists
      BY <1>6, <2>2 DEF add_playlist_items_internal
    <3>2. p.made \in Nat /\ p.url \in [0 .. p.made - 1 -> INVALID .. urlCount - 1]
      BY <3>1 DEF IInv, ListsOK, ListOK
    <3>3. Job.urls \in Nat
      <4>1. Job.op = "add"
        BY <1>6 DEF add_playlist_items_internal, Takes, Job
      <4> QED
        BY <1>2, <4>1, JobFields
    <3>4. new.url = [i \in 0 .. p.made + Job.urls - 1 |-> IF i < p.made THEN p.url[i] ELSE INVALID]
      BY DEF add_items
    <3>5. \A i \in DOMAIN new.url : new.url[i] # INVALID => i \in DOMAIN p.url /\ p.url[i] = new.url[i]
      <4> HIDE DEF p, new
      <4>1. DOMAIN p.url = 0 .. p.made - 1 /\ DOMAIN new.url = 0 .. p.made + Job.urls - 1
        BY <3>2, <3>4
      <4>2. \A i \in 0 .. p.made + Job.urls - 1 : i < p.made => i \in 0 .. p.made - 1
        BY <3>2, <3>3
      <4> QED
        BY <3>4, <4>1, <4>2
    <3> HIDE DEF new
    <3> QED
      BY <1>5, <3>1, <3>5
  <2> QED
    BY <2>1, <2>2
<1>7. CASE remove_playlist_item
  <2>1. CASE ~KnowsItem
    BY <1>4, <1>7, <2>1 DEF remove_playlist_item
  <2>2. CASE KnowsItem
    <3> DEFINE new == remove_item(lists[Job.list], Job.item)
    <3>1. lists' = [lists EXCEPT ![Job.list] = new] /\ Job.list \in DOMAIN lists
      BY <1>7, <2>2 DEF remove_playlist_item, KnowsItem
    <3>2. new.url = lists[Job.list].url
      <4>1. lists[Job.list] = [items |-> lists[Job.list].items, url |-> lists[Job.list].url, made |-> lists[Job.list].made]
        BY <3>1 DEF IInv, ListsOK, ListOK
      <4>2. \A q, u : q = [items |-> q.items, url |-> q.url, made |-> q.made] => [q EXCEPT !.items = u].url = q.url
        OBVIOUS
      <4> QED
        BY <4>1, <4>2 DEF remove_item
    <3> HIDE DEF new
    <3> QED
      BY <1>5, <3>1, <3>2
  <2> QED
    BY <2>1, <2>2
<1>8. CASE move_playlist_item
  <2>1. CASE ~KnowsItem
    BY <1>4, <1>8, <2>1 DEF move_playlist_item
  <2>2. CASE KnowsItem
    <3> DEFINE new == move_item(lists[Job.list], Job.item, Job.to)
    <3>1. lists' = [lists EXCEPT ![Job.list] = new] /\ Job.list \in DOMAIN lists
      BY <1>8, <2>2 DEF move_playlist_item, KnowsItem
    <3>2. new.url = lists[Job.list].url
      <4>1. lists[Job.list] = [items |-> lists[Job.list].items, url |-> lists[Job.list].url, made |-> lists[Job.list].made]
        BY <3>1 DEF IInv, ListsOK, ListOK
      <4>2. \A q, u : q = [items |-> q.items, url |-> q.url, made |-> q.made] => [q EXCEPT !.items = u].url = q.url
        OBVIOUS
      <4> QED
        BY <4>1, <4>2 DEF move_item
    <3> HIDE DEF new
    <3> QED
      BY <1>5, <3>1, <3>2
  <2> QED
    BY <2>1, <2>2
<1>9. CASE remove_playlist
  <2>1. lists' = [l \in DOMAIN lists \ {Job.list} |-> lists[l]]
    BY <1>9 DEF remove_playlist, Drop
  <2> QED
    BY <2>1 DEF UrlsKept
<1> QED
  BY <1>6, <1>7, <1>8, <1>9

\* Tracks are started, opened and fail to open.
LEMMA PlayingAhead ==
  ASSUME IInv, Ahead, ~StaleFailure, start_play \/ input_opened_cb \/ decoder_opened_cb
  PROVE  Ahead'
<1>1. /\ jobs # <<>> /\ Job.op \in {"start", "input_opened", "decoder_opened"} /\ jobs' = Rest
      /\ UNCHANGED <<listCount, movedDown>>
  BY DEF start_play, input_opened_cb, decoder_opened_cb, Takes, Job
<1>2. /\ Job \in JobType(urlCount) /\ urlCount \in Nat /\ jobs' \in Seq(JobType(urlCount)) /\ Starts(jobs', FALSE)
      /\ \A u : Failed(jobs, u) => Failed(jobs', u) /\ (Job.op = "input_opened" /\ ~Job.ok => Job.url < u)
      /\ Job.op = "start" => Len(pipeline) = 0
  BY <1>1, JobAhead
<1>3. Len(pipeline) \in Nat /\ \A i \in 1 .. Len(pipeline) : pipeline[i].url \in Nat
  BY TracksKnown
<1>4. ASSUME NEW l, NEW id, start_play_internal(l, id), Len(pipeline) <= 1,
             Len(pipeline) = 1 => Known(lists, pipeline[1].url, addedNext, currentItem)
      PROVE  Ahead'
  <2>1. cont_play_internal(l, id) /\ UNCHANGED <<currentItem, addedNext>>
    BY <1>4 DEF start_play_internal
  <2>2. Len(pipeline) = 1 => Known(lists, pipeline[1].url, addedNext', currentItem')
    BY <1>4, <2>1
  <2>3. \A u : Failed(jobs, u) => Failed(jobs', u)
    BY <1>2
  <2> QED
    BY <1>1, <1>2, <1>4, <2>1, <2>2, <2>3, TrackAdded
<1>5. ASSUME NEW stage \in Stages, pipeline' = Reaches(stage), UNCHANGED <<lists, currentItem, addedNext>>
      PROVE  Ahead'
  <2>1. Len(pipeline') = Len(pipeline) /\ \A i \in 1 .. Len(pipeline) : pipeline'[i].url = pipeline[i].url
    <3>1. Len(Reaches(stage)) = Len(pipeline) /\ \A i \in 1 .. Len(pipeline) : Reaches(stage)[i].url = pipeline[i].url
      BY TracksReach
    <3> QED
      BY <1>5, <3>1
  <2>2. UrlsKept
    BY <1>5 DEF UrlsKept
  <2> QED
    BY <1>1, <1>5, <2>1, <2>2, JobStays
<1>6. CASE start_play
  <2>1. Job.op = "start" /\ start_play_internal(Job.list, Job.item)
    BY <1>6 DEF start_play, Takes, Job
  <2>2. Len(pipeline) = 0
    BY <1>2, <2>1
  <2>3. Len(pipeline) <= 1 /\ Len(pipeline) # 1
    BY <2>2
  <2> QED
    BY <1>4, <2>1, <2>3
<1>7. CASE input_opened_cb
  <2>1. Job.op = "input_opened" /\ Takes("input_opened")
    BY <1>7 DEF input_opened_cb, Takes, Job
  <2>2. CASE Job.ok
    <3>1. pipeline' = Reaches("input") /\ UNCHANGED <<lists, currentItem, addedNext>> /\ "input" \in Stages
      BY <1>7, <2>2 DEF input_opened_cb, player, Stages
    <3> QED
      BY <1>5, <3>1
  <2>3. CASE ~Job.ok
    <3>1. start_play_internal(get_next_playlist_item_id, currentList)
      BY <1>7, <2>3 DEF input_opened_cb
    <3>2. Job.url \in Nat /\ \A i \in 1 .. Len(pipeline) : ~(pipeline[i].url >= Job.url)
      <4>1. Job.url \in Nat
        <5>1. Job.url \in 0 .. urlCount - 1
          BY <1>2, <2>1, JobFields
        <5> QED
          BY <1>2, <5>1
      <4>2. DOMAIN pipeline = 1 .. Len(pipeline)
        BY TracksKnown
      <4> QED
        BY <2>1, <2>3, <4>1, <4>2 DEF StaleFailure
    <3>3. \A i \in 1 .. Len(pipeline) : ~Failed(jobs, pipeline[i].url)
      BY <1>2, <1>3, <2>1, <2>3, <3>2
    <3>4. Len(pipeline) # 2
      <4>1. Len(pipeline) = 2 => 2 \in 1 .. Len(pipeline)
        OBVIOUS
      <4> QED
        BY <3>3, <4>1 DEF Ahead, OneBehind, Behind
    <3>5. Len(pipeline) = 1 => Known(lists, pipeline[1].url, addedNext, currentItem)
      <4>1. Len(pipeline) = 1 => 1 \in 1 .. Len(pipeline)
        OBVIOUS
      <4> QED
        BY <3>3, <4>1 DEF Ahead, OneBehind, Behind
    <3>6. Len(pipeline) <= 1
      <4>1. Len(pipeline) <= 2
        BY DEF Ahead, OneBehind, Behind
      <4>2. \A n \in Nat : n <= 2 /\ n # 2 => n <= 1
        OBVIOUS
      <4> QED
        BY <1>3, <3>4, <4>1, <4>2
    <3> QED
      BY <1>4, <3>1, <3>5, <3>6
  <2> QED
    BY <2>2, <2>3
<1>8. CASE decoder_opened_cb
  <2>1. Job.op = "decoder_opened"
    BY <1>8 DEF decoder_opened_cb, Takes, Job
  <2>2. Job.ok
    BY <1>2, <2>1, JobFields
  <2>3. pipeline' = Reaches("output") /\ UNCHANGED <<lists, currentItem, addedNext>> /\ "output" \in Stages
    BY <1>8, <2>2 DEF decoder_opened_cb, player, Stages
  <2> QED
    BY <1>5, <2>3
<1> QED
  BY <1>6, <1>7, <1>8

\* The track that plays is near its end: the next is added, unless it was.
LEMMA ProgressAhead ==
  ASSUME IInv, Ahead, ~StaleProgress, progress_callback
  PROVE  Ahead'
<1> DEFINE playing == IF currentList \in DOMAIN lists THEN get_playlist_item_with_url_id(lists[currentList], Job.url) ELSE {}
<1>1. Takes("progress") /\ jobs # <<>> /\ Job.op = "progress" /\ jobs' = Rest /\ UNCHANGED <<listCount, movedDown>>
  BY DEF progress_callback, Takes, Job
<1>2. /\ Job \in JobType(urlCount) /\ urlCount \in Nat /\ jobs' \in Seq(JobType(urlCount)) /\ Starts(jobs', FALSE)
      /\ Starts(jobs', Len(pipeline) = 0) /\ \A u : Failed(jobs, u) => Failed(jobs', u)
  BY <1>1, JobAhead
<1>3. /\ Len(pipeline) \in Nat \ {0} /\ pipeline[1].url = Job.url /\ Job.url \in Nat
      /\ \A i \in 1 .. Len(pipeline) : pipeline[i].url \in Nat
  <2>1. pipeline # <<>> /\ Job.url = Head(pipeline).url
    BY <1>1 DEF StaleProgress
  <2>2. Head(pipeline) = pipeline[1]
    BY <2>1, TailRange DEF IInv, PlayerOK
  <2>3. Job.url \in Nat
    <3>1. Job.url \in 0 .. urlCount - 1
      BY <1>1, <1>2, JobFields
    <3> QED
      BY <1>2, <3>1
  <2> QED
    BY <2>1, <2>2, <2>3, TracksKnown
<1>4. CASE playing = {}
  <2>1. UNCHANGED <<lists, currentItem, addedNext, pipeline>>
    BY <1>4 DEF progress_callback, player
  <2>2. UrlsKept
    BY <2>1 DEF UrlsKept
  <2> QED
    BY <1>1, <2>1, <2>2, JobStays
<1>5. CASE playing # {}
  <2>1. PICK id \in playing :
          LET isAdded == addedNext /\ id = currentItem
          IN /\ currentItem' = id /\ addedNext' = (isAdded \/ Job.near)
             /\ IF Job.near /\ ~isAdded
                  THEN cont_play_internal(currentList, get_next_item_id(lists[currentList], id))
                  ELSE UNCHANGED <<lists, pipeline, urlCount>>
    BY <1>5 DEF progress_callback
  <2>2. currentList \in DOMAIN lists /\ id \in Range(lists[currentList].items) /\ lists[currentList].url[id] = Job.url
    BY <1>5, <2>1 DEF get_playlist_item_with_url_id
  <2>3. id \in DOMAIN lists[currentList].url
    BY <2>2 DEF IInv, ListsOK, ListOK
  <2>4. \A l \in DOMAIN lists : \A i \in DOMAIN lists[l].url : lists[l].url[i] = Job.url => i = id
    BY <1>3, <2>2, <2>3 DEF Ahead, UrlsOnce, INVALID
  <2>5. \A added : added => Known(lists, pipeline[1].url, added, id)
    BY <1>3, <2>4 DEF Known
  <2>6. \A added, item : Known(lists, pipeline[1].url, added, item) => added /\ id = item
    BY <1>3, <2>2, <2>3 DEF Known
  <2>7. Len(pipeline) = 1 \/ Len(pipeline) = 2
    <3>1. Len(pipeline) <= 2
      BY DEF Ahead, OneBehind, Behind
    <3>2. \A n \in Nat \ {0} : n <= 2 => n = 1 \/ n = 2
      OBVIOUS
    <3> QED
      BY <1>3, <3>1, <3>2
  <2>8. Len(pipeline) = 2 => addedNext /\ id = currentItem
    BY <2>6 DEF Ahead, OneBehind, Behind
  <2>9. CASE Job.near /\ ~(addedNext /\ id = currentItem)
    <3>1. cont_play_internal(currentList, get_next_item_id(lists[currentList], id)) /\ addedNext' /\ currentItem' = id
      BY <2>1, <2>9
    <3>2. Len(pipeline) = 1
      BY <2>7, <2>8, <2>9
    <3>3. Len(pipeline) <= 1
      BY <3>2
    <3>4. Known(lists, pipeline[1].url, addedNext', currentItem')
      BY <2>5, <3>1
    <3> QED
      BY <1>1, <1>2, <3>1, <3>3, <3>4, TrackAdded
  <2>10. CASE ~(Job.near /\ ~(addedNext /\ id = currentItem))
    <3>1. UNCHANGED <<lists, pipeline>> /\ currentItem' = id /\ addedNext' = (addedNext /\ id = currentItem)
      BY <2>1, <2>10
    <3>2. UrlsOnce' /\ InOrder' /\ StartsEmpty'
      BY <1>2, <3>1 DEF Ahead, UrlsOnce, InOrder, StartsEmpty
    <3>3. CASE addedNext /\ id = currentItem
      <4>1. UNCHANGED <<addedNext, currentItem, pipeline, lists>>
        BY <3>1, <3>3 DEF IInv, PlayerOK
      <4>2. UrlsKept
        BY <4>1 DEF UrlsKept
      <4> QED
        BY <1>1, <4>1, <4>2, JobStays
    <3>4. CASE ~(addedNext /\ id = currentItem)
      <4>1. Len(pipeline) = 1 /\ ~Known(lists, pipeline[1].url, addedNext, currentItem)
        BY <2>6, <2>7, <2>8, <3>4
      <4>2. Failed(jobs', pipeline[1].url)
        BY <1>2, <4>1 DEF Ahead, OneBehind, Behind
      <4>3. OneBehind'
        BY <3>1, <4>1, <4>2, FewTracks DEF OneBehind
      <4> QED
        BY <3>2, <4>3 DEF Ahead
    <3> QED
      BY <3>3, <3>4
  <2> QED
    BY <2>9, <2>10
<1> QED
  BY <1>4, <1>5

\* What controls the player, and seeks, keep the order: a stop takes all tracks.
LEMMA ControlsAhead ==
  ASSUME IInv, Ahead, Controls \/ seek_duration_internal \/ decoder_seek_finished_cb
  PROVE  Ahead'
<1>1. jobs # <<>> /\ jobs' = Rest /\ UNCHANGED <<lists, currentItem, addedNext>>
  BY DEF Controls, seek_duration_internal, decoder_seek_finished_cb, content, player, Takes
<1>2. CASE Job.op # "stop"
  <2>1. UNCHANGED pipeline
    BY <1>2 DEF Controls, seek_duration_internal, decoder_seek_finished_cb, sound, Takes, Job
  <2>2. UrlsKept
    BY <1>1 DEF UrlsKept
  <2> QED
    BY <1>1, <1>2, <2>1, <2>2, JobStays
<1>3. CASE Job.op = "stop"
  <2>1. pipeline' = <<>>
    BY <1>3 DEF Controls, seek_duration_internal, decoder_seek_finished_cb, Takes, Job
  <2>2. Len(pipeline') = 0
    BY <2>1
  <2>3. Starts(jobs', TRUE)
    <3> DEFINE n == urlCount
               none == Len(pipeline) = 0
    <3>1. n \in Nat /\ jobs \in Seq(JobType(n)) /\ none \in BOOLEAN /\ Starts(jobs, none)
      BY DEF IInv, PlayerOK, ListsOK, Ahead, StartsEmpty
    <3> HIDE DEF n, none
    <3>2. Starts(Tail(jobs), TRUE)
      BY <1>1, <3>1, StartsTaken
    <3> QED
      BY <1>1, <3>2 DEF Rest
  <2>4. StartsEmpty'
    BY <2>2, <2>3 DEF StartsEmpty, Starts
  <2>5. InOrder' /\ OneBehind'
    BY <2>2, FewTracks DEF InOrder, OneBehind
  <2>6. UrlsOnce'
    BY <1>1 DEF Ahead, UrlsOnce
  <2> QED
    BY <2>4, <2>5, <2>6 DEF Ahead
<1> QED
  BY <1>2, <1>3

\* The tracks stay in order, one of them behind at most, while nothing is told too late.
LEMMA NextAhead == IInv /\ Ahead /\ ~StaleProgress /\ ~StaleFailure /\ [Next]_vars => Ahead'
<1> SUFFICES ASSUME IInv, Ahead, ~StaleProgress, ~StaleFailure, [Next]_vars PROVE Ahead'
  OBVIOUS
<1>1. CASE User
  BY <1>1, UserAhead
<1>2. CASE Pipeline
  BY <1>2, PipelineAhead
<1>3. CASE RunJob
  BY <1>3, AddListAhead, ListsAhead, PlayingAhead, ProgressAhead, ControlsAhead DEF RunJob
<1>4. CASE RunCallback \/ UNCHANGED vars
  <2>1. UNCHANGED <<lists, currentItem, addedNext, jobs, pipeline>>
    BY <1>4 DEF RunCallback, vars, content, player, sound
  <2> QED
    BY <2>1 DEF Ahead, StartsEmpty, UrlsOnce, InOrder, OneBehind
<1> QED
  BY <1>1, <1>2, <1>3, <1>4 DEF Next

\* One track at most is behind the one that plays, for as long as neither progress nor
\* a failure is told too late.
THEOREM FewAhead == Spec => OneAhead
<1>1. Init => Ahead
  <2> SUFFICES ASSUME Init PROVE Ahead
    OBVIOUS
  <2>1. lists = <<>> /\ jobs = <<>> /\ pipeline = <<>>
    BY DEF Init
  <2>2. Len(jobs) = 0 /\ Len(pipeline) = 0 /\ 1 .. 0 = {} /\ DOMAIN lists = {}
    BY <2>1
  <2>3. InOrder /\ OneBehind
    BY <2>2, FewTracks DEF InOrder, OneBehind
  <2>4. StartsEmpty /\ UrlsOnce
    BY <2>2 DEF StartsEmpty, Starts, UrlsOnce
  <2> QED
    BY <2>3, <2>4 DEF Ahead
<1>2. Ahead => Len(pipeline) <= 2
  BY DEF Ahead, OneBehind, Behind
<1>3. IInv /\ Ahead /\ ~(StaleProgress \/ StaleFailure) /\ [Next]_vars => Ahead'
  BY NextAhead
<1> QED
  BY <1>1, <1>2, <1>3, Invariant, PTL DEF Spec, OneAhead
=============================================================================
