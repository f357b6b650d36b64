--------------------------- MODULE Pagination_proofs ---------------------------
(***************************************************************************)
(* Theorems about Pagination, for every finite set of ids, all page sizes  *)
(* and every number of writes between two pages.                           *)
(***************************************************************************)
EXTENDS Pagination, FiniteSetTheorems, SequenceTheorems, TLAPS

-----------------------------------------------------------------------------
(* The order of a listing. *)

LEMMA OrderOfPlaces ==
    ASSUME NEW a \in Place, NEW b \in Place
    PROVE  /\ ~Precedes(a, a)
           /\ Precedes(a, b) => ~Precedes(b, a)
           /\ a.id # b.id => Precedes(a, b) \/ Precedes(b, a)
           /\ \A c \in Place : Precedes(a, b) /\ Precedes(b, c) => Precedes(a, c)
<1>1. \A p \in Place : p.key \in Nat /\ p.id \in Nat
    BY PaginationAssumption DEF Place
<1> QED
    BY <1>1 DEF Precedes

\* A place that moves up the listing stays where a cursor has already passed.
LEMMA MovingUp ==
    ASSUME NEW from \in Place, NEW id \in Ids, NEW k \in Nat, NEW l \in Nat, k <= l,
           ~Precedes(from, [key |-> k, id |-> id])
    PROVE  ~Precedes(from, [key |-> l, id |-> id])
<1>1. from.key \in Nat /\ from.id \in Nat /\ id \in Nat
    BY PaginationAssumption DEF Place
<1> QED
    BY <1>1 DEF Precedes

-----------------------------------------------------------------------------
(* What a page is. *)

LEMMA ToSetOfSeq ==
    ASSUME NEW S, NEW seq \in Seq(S)
    PROVE  ToSet(seq) = {seq[i] : i \in 1 .. Len(seq)}
BY DEF ToSet

LEMMA ListingOf ==
    ASSUME NEW ids \in SUBSET Ids, NEW found \in InOrder(ids)
    PROVE  /\ found \in Seq(Ids) /\ Len(found) \in Nat
           /\ \A i \in 1 .. Len(found) : found[i] \in ids
           /\ \A id \in ids : \E i \in 1 .. Len(found) : found[i] = id
           /\ \A i, j \in 1 .. Len(found) :
                i < j => Precedes(PlaceOf(found[i]), PlaceOf(found[j]))
<1>1. IsFiniteSet(ids)
    BY PaginationAssumption, FS_Subset
<1>2. Cardinality(ids) \in Nat
    BY <1>1, FS_CardinalityType
<1> DEFINE n == Cardinality(ids)
<1>3. /\ found \in [1 .. n -> ids] /\ ToSet(found) = ids
      /\ \A i, j \in DOMAIN found : i < j => Precedes(PlaceOf(found[i]), PlaceOf(found[j]))
    BY DEF InOrder
<1> HIDE DEF n
<1>4. found \in Seq(ids) /\ Len(found) = n
    BY <1>2, <1>3 DEF n
<1>5. found \in Seq(Ids)
    BY <1>4
<1>6. ids = {found[i] : i \in DOMAIN found} /\ DOMAIN found = 1 .. Len(found)
    BY <1>3, <1>4 DEF ToSet
<1> QED
    BY <1>2, <1>3, <1>4, <1>5, <1>6 DEF n

-----------------------------------------------------------------------------
(* The walk. *)

\* The place of a row that is written now.
FreshPlace(id) == [key |-> IF listing = "events" THEN id ELSE now, id |-> id]

TypeInv ==
    /\ listing \in Listings /\ now \in Nat /\ last \in Nat
    /\ rows \in [Ids -> Row \cup {NoRow, Spent}]
    /\ cursor \in Place \cup {NoCursor}
    /\ begun \in BOOLEAN /\ done \in BOOLEAN
    /\ shown \in Seq(Ids) /\ there \subseteq Ids

\* No row is newer than now; an event's place is its sequence.
KeysInv ==
    \A id \in Ids : IsRow(rows, id) =>
        IF listing = "events" THEN rows[id].key = id /\ id <= last ELSE rows[id].key <= now

BeginInv ==
    /\ ~begun => /\ cursor = NoCursor /\ ~done /\ shown = <<>> /\ rewritten = {}
                 /\ there = {id \in Ids : Matches(rows, id)}
    /\ begun /\ ~done => cursor # NoCursor
    /\ \A id \in there : Matches(rows, id)

\* The cursor has passed every row shown, also where the row is now, and where it
\* would be if it were written now.
Passed(id) ==
    /\ ~Precedes(cursor, FreshPlace(id))
    /\ IsRow(rows, id) => ~Precedes(cursor, PlaceOf(id))

ShownInv ==
    /\ ShownOnce
    /\ cursor # NoCursor => \A i \in 1 .. Len(shown) : Passed(shown[i])

\* What was there and stayed in its place is shown, or is ahead of the cursor.
Ahead(id) == ~done /\ cursor # NoCursor /\ Precedes(cursor, PlaceOf(id))

AheadInv ==
    begun => \A id \in there \ rewritten : (\E i \in 1 .. Len(shown) : shown[i] = id) \/ Ahead(id)

Inv == TypeInv /\ KeysInv /\ BeginInv /\ ShownInv /\ AheadInv

-----------------------------------------------------------------------------

LEMMA InitInv == Init => Inv
<1> SUFFICES ASSUME Init PROVE Inv
    OBVIOUS
<1>1. /\ rows = [id \in Ids |-> NoRow] /\ cursor = NoCursor /\ ~begun /\ ~done
      /\ shown = <<>> /\ there = {} /\ rewritten = {} /\ now = 0 /\ last = 0
      /\ listing \in Listings
    BY DEF Init
<1>2. \A id \in Ids : ~IsRow(rows, id)
    BY <1>1 DEF IsRow
<1>3. TypeInv
    <2>1. begun = FALSE /\ done = FALSE
        BY DEF Init
    <2>2. <<>> \in Seq(Ids)
        OBVIOUS
    <2> QED
        BY <1>1, <2>1, <2>2 DEF TypeInv
<1>4. KeysInv
    BY <1>2 DEF KeysInv
<1>5. BeginInv
    BY <1>1, <1>2 DEF BeginInv, Matches
<1>6. ShownInv
    BY <1>1 DEF ShownInv, ShownOnce
<1>7. AheadInv
    BY <1>1 DEF AheadInv
<1> QED
    BY <1>3, <1>4, <1>5, <1>6, <1>7 DEF Inv

-----------------------------------------------------------------------------
(* Writes: a row stays in its place, goes, or comes to the place of a row      *)
(* written now, and then it is noted or was not there.                         *)

Rewrites(changed) ==
    /\ rows' \in [Ids -> Row \cup {NoRow, Spent}] /\ last' \in Nat /\ last <= last'
    /\ \A id \in Ids : IsRow(rows', id) =>
          \/ IsRow(rows, id) /\ rows'[id].key = rows[id].key
          \/ /\ rows'[id].key = FreshPlace(id).key
             /\ listing = "events" => id <= last'
             /\ id \in changed \/ ~IsRow(rows, id)
    /\ Noted(changed)

LEMMA WriteRewrites ==
    ASSUME Inv, NEW id \in Ids, Write(id)
    PROVE  Rewrites({id})
<1>1. /\ rows' = [rows EXCEPT ![id] = [key |-> now, forgotten |-> FALSE]]
      /\ Noted({id}) /\ last' = last /\ listing \in {"fields", "notes"}
    BY DEF Write
<1>2. rows \in [Ids -> Row \cup {NoRow, Spent}] /\ now \in Nat /\ last \in Nat
    BY DEF Inv, TypeInv
<1>3. [key |-> now, forgotten |-> FALSE] \in Row
    BY <1>2 DEF Row
<1>4. /\ rows' \in [Ids -> Row \cup {NoRow, Spent}] /\ rows'[id].key = now
      /\ \A other \in Ids \ {id} : rows'[other] = rows[other]
    BY <1>1, <1>2, <1>3
<1>5. FreshPlace(id).key = now /\ listing # "events"
    BY <1>1 DEF FreshPlace
<1> QED
    BY <1>1, <1>2, <1>4, <1>5 DEF Rewrites, IsRow

LEMMA ReviseRewrites ==
    ASSUME Inv, NEW id \in Ids, ReviseNote(id)
    PROVE  Rewrites({})
<1>1. /\ rows' = [rows EXCEPT ![id].key = rows[id].key]
      /\ Noted({}) /\ last' = last /\ IsRow(rows, id)
    BY DEF ReviseNote, KeyOfRevised
<1>2. rows \in [Ids -> Row \cup {NoRow, Spent}] /\ last \in Nat
    BY DEF Inv, TypeInv
<1>3. rows[id] \in Row
    BY <1>1, <1>2 DEF IsRow
<1>4. [rows[id] EXCEPT !.key = rows[id].key] = rows[id]
    BY <1>3 DEF Row
<1>5. rows' = rows
    BY <1>1, <1>2, <1>4
<1> QED
    BY <1>1, <1>2, <1>5 DEF Rewrites, IsRow

LEMMA ForgetRewrites ==
    ASSUME Inv, NEW id \in Ids, Forget(id)
    PROVE  Rewrites(IF listing = "fields" THEN {id} ELSE {})
<1>1. /\ rows' = [rows EXCEPT ![id].forgotten = TRUE,
                              ![id].key = IF listing = "fields" THEN now ELSE @]
      /\ Noted(IF listing = "fields" THEN {id} ELSE {}) /\ last' = last
      /\ IsRow(rows, id) /\ listing # "events"
    BY DEF Forget
<1>2. rows \in [Ids -> Row \cup {NoRow, Spent}] /\ now \in Nat /\ last \in Nat
    BY DEF Inv, TypeInv
<1>3. rows[id] \in Row
    BY <1>1, <1>2 DEF IsRow
<1> DEFINE old == rows[id]
           row == [[old EXCEPT !.forgotten = TRUE]
                      EXCEPT !.key = IF listing = "fields" THEN now ELSE @]
           changed == IF listing = "fields" THEN {id} ELSE {}
<1>4. row \in Row /\ row.key = IF listing = "fields" THEN now ELSE rows[id].key
    BY <1>2, <1>3 DEF Row
<1>5. rows' = [rows EXCEPT ![id] = row]
    BY <1>1, <1>2
<1>6. (listing = "fields" => id \in changed) /\ Noted(changed)
    BY <1>1
<1>7. FreshPlace(id).key = now
    BY <1>1 DEF FreshPlace
<1> HIDE DEF row, changed
<1>8. /\ rows' \in [Ids -> Row \cup {NoRow, Spent}] /\ rows'[id] = row
      /\ \A other \in Ids \ {id} : rows'[other] = rows[other]
    BY <1>2, <1>4, <1>5
<1> QED
    <2>1. Rewrites(changed)
        BY <1>1, <1>2, <1>4, <1>6, <1>7, <1>8 DEF Rewrites, IsRow
    <2> QED
        BY <2>1 DEF changed

LEMMA DestroyRewrites ==
    ASSUME Inv, NEW id \in Ids, Destroy(id)
    PROVE  Rewrites({})
<1>1. /\ rows' = [rows EXCEPT ![id] = IF listing = "notes" THEN Spent ELSE NoRow]
      /\ Noted({}) /\ last' = last
    BY DEF Destroy
<1>2. rows \in [Ids -> Row \cup {NoRow, Spent}] /\ last \in Nat
    BY DEF Inv, TypeInv
<1> QED
    BY <1>1, <1>2 DEF Rewrites, IsRow

LEMMA AppendRewrites ==
    ASSUME Inv, NEW mine \in BOOLEAN, AppendEvent(mine)
    PROVE  Rewrites({})
<1>1. /\ last' = last + 1 /\ last + 1 \in Ids /\ Noted({}) /\ listing = "events"
      /\ rows' = [id \in Ids |->
                    IF Trimmed(id, last') THEN NoRow
                    ELSE IF mine /\ id = last' THEN [key |-> last', forgotten |-> FALSE]
                    ELSE rows[id]]
    BY DEF AppendEvent
<1>2. /\ rows \in [Ids -> Row \cup {NoRow, Spent}] /\ last \in Nat /\ KeysInv
    BY DEF Inv, TypeInv
<1>3. [key |-> last', forgotten |-> FALSE] \in Row
    BY <1>1, <1>2 DEF Row
<1>4. rows' \in [Ids -> Row \cup {NoRow, Spent}]
    BY <1>1, <1>2, <1>3
<1>5. ~IsRow(rows, last')
    <2>1. ~(last' <= last) /\ last' \in Ids
        BY <1>1, <1>2
    <2> QED
        BY <1>1, <1>2, <2>1 DEF KeysInv
<1>6. ASSUME NEW id \in Ids, IsRow(rows', id)
      PROVE  \/ IsRow(rows, id) /\ rows'[id].key = rows[id].key
             \/ rows'[id].key = FreshPlace(id).key /\ id <= last' /\ ~IsRow(rows, id)
    <2>1. ~Trimmed(id, last')
        BY <1>1, <1>6 DEF IsRow
    <2>2. CASE mine /\ id = last'
        <3>1. rows'[id].key = id
            BY <1>1, <2>1, <2>2
        <3> QED
            BY <1>1, <1>2, <1>5, <2>2, <3>1 DEF FreshPlace
    <2>3. CASE ~(mine /\ id = last')
        BY <1>1, <1>6, <2>1, <2>3 DEF IsRow
    <2> QED
        BY <2>2, <2>3
<1> QED
    <2>1. last' \in Nat /\ last <= last' /\ Noted({})
        BY <1>1, <1>2
    <2> QED
        BY <1>4, <1>6, <2>1 DEF Rewrites

-----------------------------------------------------------------------------

LEMMA RewritesKeep ==
    ASSUME Inv, NEW changed \in SUBSET Ids, Rewrites(changed)
    PROVE  Inv'
<1>1. /\ UNCHANGED <<listing, forgottenToo, cursor, begun, done, shown, now>>
      /\ there' = IF begun THEN {id \in there : Matches(rows', id)}
                           ELSE {id \in Ids : Matches(rows', id)}
      /\ rewritten' = IF begun THEN rewritten \cup changed ELSE {}
    BY DEF Rewrites, Noted, reading
<1>2. /\ rows' \in [Ids -> Row \cup {NoRow, Spent}] /\ last' \in Nat /\ last <= last'
      /\ \A id \in Ids : IsRow(rows', id) =>
            \/ IsRow(rows, id) /\ rows'[id].key = rows[id].key
            \/ /\ rows'[id].key = FreshPlace(id).key
               /\ listing = "events" => id <= last'
               /\ id \in changed \/ ~IsRow(rows, id)
    BY DEF Rewrites
<1>3. TypeInv /\ KeysInv /\ BeginInv /\ ShownInv /\ AheadInv
    BY DEF Inv
<1>4. \A id : Matches(rows', id) <=> Matches(rows, id)'
    BY <1>1 DEF Matches, IsRow
<1>5. TypeInv'
    BY <1>1, <1>2, <1>3 DEF TypeInv
<1>6. \A id \in Ids : FreshPlace(id)' = FreshPlace(id) /\ FreshPlace(id) \in Place
    BY <1>1, <1>3, PaginationAssumption DEF FreshPlace, TypeInv, Place
<1>7. KeysInv'
    <2> SUFFICES ASSUME NEW id \in Ids, IsRow(rows', id)
                 PROVE  IF listing = "events" THEN rows'[id].key = id /\ id <= last'
                                              ELSE rows'[id].key <= now
        BY <1>1 DEF KeysInv
    <2>1. CASE IsRow(rows, id) /\ rows'[id].key = rows[id].key
        <3>1. id \in Nat /\ last \in Nat
            BY <1>3, PaginationAssumption DEF TypeInv
        <3> QED
            BY <1>2, <1>3, <2>1, <3>1 DEF KeysInv
    <2>2. CASE rows'[id].key = FreshPlace(id).key /\ (listing = "events" => id <= last')
        <3>1. now \in Nat
            BY <1>3 DEF TypeInv
        <3> QED
            BY <2>2, <3>1 DEF FreshPlace
    <2> QED
        BY <1>2, <2>1, <2>2
<1>8. BeginInv'
    BY <1>1, <1>3, <1>4 DEF BeginInv
<1>9. ShownInv'
    <2>1. ShownOnce'
        BY <1>1, <1>3 DEF ShownInv, ShownOnce
    <2>2. ASSUME cursor # NoCursor, NEW i \in 1 .. Len(shown)
          PROVE  Passed(shown[i])'
        <3>1. shown[i] \in Ids /\ Passed(shown[i])
            BY <1>3, <2>2 DEF ShownInv, TypeInv
        <3> DEFINE id == shown[i]
        <3>2. ~Precedes(cursor, FreshPlace(id))
            BY <3>1 DEF Passed
        <3>3. ASSUME IsRow(rows', id) PROVE ~Precedes(cursor, [key |-> rows'[id].key, id |-> id])
            <4>1. CASE IsRow(rows, id) /\ rows'[id].key = rows[id].key
                BY <3>1, <4>1 DEF Passed, PlaceOf
            <4>2. CASE rows'[id].key = FreshPlace(id).key
                <5>1. FreshPlace(id) = [key |-> rows'[id].key, id |-> id]
                    BY <4>2 DEF FreshPlace
                <5> QED
                    BY <3>2, <5>1
            <4> QED
                BY <1>2, <3>1, <3>3, <4>1, <4>2
        <3>4. Passed(id)' <=> /\ ~Precedes(cursor, FreshPlace(id))
                              /\ IsRow(rows', id) =>
                                    ~Precedes(cursor, [key |-> rows'[id].key, id |-> id])
            BY <1>1, <1>6, <3>1 DEF Passed, PlaceOf, Precedes, IsRow
        <3> QED
            BY <1>1, <3>2, <3>3, <3>4
    <2> QED
        BY <1>1, <2>1, <2>2 DEF ShownInv
<1>10. AheadInv'
    <2> SUFFICES ASSUME begun, NEW id \in there' \ rewritten'
                 PROVE  (\E i \in 1 .. Len(shown) : shown[i] = id) \/ Ahead(id)'
        BY <1>1 DEF AheadInv
    <2>1. id \in there \ rewritten /\ id \notin changed /\ Matches(rows', id)
        BY <1>1
    <2>2. id \in Ids /\ IsRow(rows, id) /\ IsRow(rows', id)
        BY <1>3, <2>1 DEF TypeInv, BeginInv, Matches
    <2>3. rows'[id].key = rows[id].key
        BY <1>2, <2>1, <2>2
    <2>4. Ahead(id) => Ahead(id)'
        BY <1>1, <2>3 DEF Ahead, PlaceOf, Precedes
    <2> QED
        BY <1>3, <2>1, <2>4 DEF AheadInv
<1> QED
    BY <1>5, <1>7, <1>8, <1>9, <1>10 DEF Inv

LEMMA TickKeeps ==
    ASSUME Inv, Tick
    PROVE  Inv'
<1>1. /\ UNCHANGED <<listing, forgottenToo, cursor, begun, done, shown, rows, last, there, rewritten>>
      /\ now' = now + 1
    BY DEF Tick, reading
<1>2. TypeInv /\ KeysInv /\ BeginInv /\ ShownInv /\ AheadInv
    BY DEF Inv
<1>3. TypeInv' /\ now \in Nat
    BY <1>1, <1>2 DEF TypeInv
<1>4. KeysInv'
    <2>1. ASSUME NEW id \in Ids, IsRow(rows, id), rows[id].key <= now
          PROVE  rows[id].key <= now + 1
        <3>1. rows[id].key \in Nat
            BY <1>2, <2>1 DEF TypeInv, IsRow, Row
        <3> QED
            BY <1>3, <2>1, <3>1
    <2> QED
        BY <1>1, <1>2, <2>1 DEF KeysInv, IsRow
<1>5. BeginInv'
    BY <1>1, <1>2 DEF BeginInv, Matches, IsRow
<1>6. ShownInv'
    <2>1. ShownOnce'
        BY <1>1, <1>2 DEF ShownInv, ShownOnce
    <2>2. ASSUME cursor # NoCursor, NEW i \in 1 .. Len(shown)
          PROVE  Passed(shown[i])'
        <3> DEFINE id == shown[i]
        <3>1. id \in Ids /\ Passed(id) /\ cursor \in Place
            BY <1>2, <2>2 DEF ShownInv, TypeInv
        <3>2. ~Precedes(cursor, FreshPlace(id)')
            <4>1. CASE listing = "events"
                <5>1. FreshPlace(id)' = FreshPlace(id)
                    BY <1>1, <4>1 DEF FreshPlace
                <5> QED
                    BY <3>1, <5>1 DEF Passed
            <4>2. CASE listing # "events"
                <5>1. /\ FreshPlace(id) = [key |-> now, id |-> id]
                      /\ FreshPlace(id)' = [key |-> now + 1, id |-> id]
                    BY <1>1, <4>2 DEF FreshPlace
                <5>2. now <= now + 1 /\ now + 1 \in Nat
                    BY <1>3
                <5> QED
                    BY <1>3, <3>1, <5>1, <5>2, MovingUp DEF Passed
            <4> QED
                BY <4>1, <4>2
        <3>3. IsRow(rows, id) => ~Precedes(cursor, PlaceOf(id))
            BY <3>1 DEF Passed
        <3>4. Passed(id)' <=> /\ ~Precedes(cursor, FreshPlace(id)')
                              /\ IsRow(rows, id) => ~Precedes(cursor, PlaceOf(id))
            BY <1>1 DEF Passed, Precedes, PlaceOf, IsRow, FreshPlace
        <3> QED
            BY <1>1, <3>2, <3>3, <3>4
    <2> QED
        BY <1>1, <2>1, <2>2 DEF ShownInv
<1>7. AheadInv'
    BY <1>1, <1>2 DEF AheadInv, Ahead, Precedes, PlaceOf
<1> QED
    BY <1>3, <1>4, <1>5, <1>6, <1>7 DEF Inv

-----------------------------------------------------------------------------
(* Reading a page. *)

LEMMA RowsHavePlaces ==
    ASSUME Inv
    PROVE  \A id \in Ids : IsRow(rows, id) =>
                /\ PlaceOf(id) \in Place /\ PlaceOf(id).id = id
                /\ FreshPlace(id) \in Place /\ FreshPlace(id).id = id
                /\ PlaceOf(id).key <= FreshPlace(id).key
<1> SUFFICES ASSUME NEW id \in Ids, IsRow(rows, id)
             PROVE  /\ PlaceOf(id) \in Place /\ PlaceOf(id).id = id
                    /\ FreshPlace(id) \in Place /\ FreshPlace(id).id = id
                    /\ PlaceOf(id).key <= FreshPlace(id).key
    OBVIOUS
<1>1. rows[id] \in Row /\ now \in Nat /\ id \in Nat
    BY PaginationAssumption DEF Inv, TypeInv, IsRow
<1>2. rows[id].key \in Nat
    BY <1>1 DEF Row
<1>3. IF listing = "events" THEN rows[id].key = id ELSE rows[id].key <= now
    BY DEF Inv, KeysInv
<1> QED
    BY <1>1, <1>2, <1>3 DEF PlaceOf, FreshPlace, Place

\* What a page is made of: rows that match, after the cursor, each once and in order.
Page(found, limit) ==
    /\ found \in Seq(Ids) /\ Len(found) \in Nat
    /\ \A i \in 1 .. Len(found) : /\ Matches(rows, found[i])
                                  /\ cursor # NoCursor => Precedes(cursor, PlaceOf(found[i]))
    /\ \A id \in Ids : /\ Matches(rows, id)
                       /\ cursor # NoCursor => Precedes(cursor, PlaceOf(id))
                       => \E i \in 1 .. Len(found) : found[i] = id
    /\ \A i, j \in 1 .. Len(found) : i < j => Precedes(PlaceOf(found[i]), PlaceOf(found[j]))
    /\ ~done /\ begun' = TRUE
    /\ done' \in BOOLEAN /\ (done' <=> Len(found) <= limit)
    /\ \E n \in Nat :
          /\ n = IF Len(found) < limit THEN Len(found) ELSE limit
          /\ shown' \in Seq(Ids) /\ Len(shown') = Len(shown) + n
          /\ \A i \in 1 .. Len(shown) : shown'[i] = shown[i]
          /\ \A i \in 1 .. n : shown'[Len(shown) + i] = found[i]
    /\ cursor' = IF done' THEN NoCursor ELSE PlaceOf(found[limit])
    /\ UNCHANGED <<listing, forgottenToo, now, rows, last, there, rewritten>>

LEMMA ReadsPage ==
    ASSUME Inv, NEW limit \in PageSizes, ReadPage(limit)
    PROVE  \E found : Page(found, limit)
<1>1. PICK found \in InOrder(Following(cursor)) :
        /\ ~done /\ begun' = TRUE
        /\ shown' = shown \o SubSeq(found, 1, IF Len(found) < limit THEN Len(found) ELSE limit)
        /\ done' = IsLast(found, limit)
        /\ cursor' = IF done' THEN NoCursor
                     ELSE PlaceOf(Last(SubSeq(found, 1, IF Len(found) < limit THEN Len(found)
                                                                              ELSE limit)))
        /\ UNCHANGED <<listing, forgottenToo, now, rows, last, writes, there, rewritten>>
    BY DEF ReadPage
<1>2. limit \in Nat \ {0} /\ shown \in Seq(Ids)
    BY PaginationAssumption DEF Inv, TypeInv
<1> DEFINE ids == Following(cursor)
           n == IF Len(found) < limit THEN Len(found) ELSE limit
           items == SubSeq(found, 1, n)
<1>3. ids \in SUBSET Ids
    BY DEF Following, After
<1>4. \A id \in Ids : id \in ids <=> /\ Matches(rows, id)
                                     /\ cursor # NoCursor => Precedes(cursor, PlaceOf(id))
    BY DEF Following, After
<1>5. found \in InOrder(ids)
    OBVIOUS
<1> HIDE DEF ids
<1>6. /\ found \in Seq(Ids) /\ Len(found) \in Nat
      /\ \A i \in 1 .. Len(found) : found[i] \in ids
      /\ \A id \in ids : \E i \in 1 .. Len(found) : found[i] = id
      /\ \A i, j \in 1 .. Len(found) :
            i < j => Precedes(PlaceOf(found[i]), PlaceOf(found[j]))
    BY <1>3, <1>5, ListingOf
<1>7. n \in Nat /\ n <= Len(found) /\ (~(Len(found) <= limit) => n = limit)
    BY <1>2, <1>6
<1>8. n = IF Len(found) < limit THEN Len(found) ELSE limit
    OBVIOUS
<1>9. /\ shown' = shown \o items /\ done' \in BOOLEAN /\ (done' <=> Len(found) <= limit)
      /\ cursor' = IF done' THEN NoCursor ELSE PlaceOf(Last(items))
    <2>1. done' = (Len(found) <= limit)
        BY <1>1 DEF IsLast
    <2>2. done' \in BOOLEAN
        BY <2>1
    <2>3. done' <=> Len(found) <= limit
        BY <2>1
    <2>4. shown' = shown \o items
        BY <1>1
    <2>5. cursor' = IF done' THEN NoCursor ELSE PlaceOf(Last(items))
        BY <1>1
    <2> QED
        BY <2>2, <2>3, <2>4, <2>5
<1> HIDE DEF n
<1>10. /\ items \in Seq(Ids) /\ Len(items) = n
       /\ \A i \in 1 .. n : items[i] = found[i]
    BY <1>6, <1>7, SubSeqProperties
<1> HIDE DEF items
<1>11. /\ shown' \in Seq(Ids) /\ Len(shown') = Len(shown) + Len(items)
       /\ \A i \in 1 .. Len(shown) + Len(items) :
            shown'[i] = IF i <= Len(shown) THEN shown[i] ELSE items[i - Len(shown)]
    BY <1>2, <1>9, <1>10, ConcatProperties
<1>12. Len(shown) \in Nat
    BY <1>2
<1>13. \A i \in 1 .. Len(shown) : shown'[i] = shown[i]
    BY <1>7, <1>10, <1>11, <1>12
<1>14. ASSUME NEW i \in 1 .. n PROVE shown'[Len(shown) + i] = found[i]
    <2>1. /\ Len(shown) + i \in 1 .. Len(shown) + Len(items) /\ ~(Len(shown) + i <= Len(shown))
          /\ (Len(shown) + i) - Len(shown) = i
        BY <1>7, <1>10, <1>12
    <2>2. shown'[Len(shown) + i] = items[(Len(shown) + i) - Len(shown)]
        BY <1>11, <2>1
    <2> QED
        BY <1>10, <2>1, <2>2
<1>15. ~done' => Last(items) = found[limit]
    <2>1. ~done' => n = limit /\ limit \in 1 .. n
        BY <1>2, <1>7, <1>9
    <2> QED
        BY <1>10, <2>1 DEF Last
<1>16. \A i \in 1 .. Len(found) : found[i] \in Ids
    BY <1>3, <1>6
<1>17. \E m \in Nat :
          /\ m = IF Len(found) < limit THEN Len(found) ELSE limit
          /\ shown' \in Seq(Ids) /\ Len(shown') = Len(shown) + m
          /\ \A i \in 1 .. Len(shown) : shown'[i] = shown[i]
          /\ \A i \in 1 .. m : shown'[Len(shown) + i] = found[i]
    BY <1>7, <1>8, <1>10, <1>11, <1>13, <1>14
<1>18. \A i \in 1 .. Len(found) : /\ Matches(rows, found[i])
                                  /\ cursor # NoCursor => Precedes(cursor, PlaceOf(found[i]))
    BY <1>4, <1>6, <1>16
<1>19. \A id \in Ids : /\ Matches(rows, id)
                       /\ cursor # NoCursor => Precedes(cursor, PlaceOf(id))
                       => \E i \in 1 .. Len(found) : found[i] = id
    BY <1>4, <1>6
<1>20. cursor' = IF done' THEN NoCursor ELSE PlaceOf(found[limit])
    BY <1>9, <1>15
<1>21. Page(found, limit)
    BY <1>1, <1>6, <1>9, <1>17, <1>18, <1>19, <1>20 DEF Page
<1> QED
    BY <1>21

-----------------------------------------------------------------------------
\* Nothing the cursor has passed is on the next page.
LEMMA NewOnThePage ==
    ASSUME Inv, NEW limit \in PageSizes, NEW found, Page(found, limit),
           NEW i \in 1 .. Len(shown), NEW j \in 1 .. Len(found)
    PROVE  shown[i] # found[j]
<1>1. begun /\ ~done /\ cursor # NoCursor
    <2>1. begun
        BY DEF Inv, BeginInv
    <2>2. ~done
        BY DEF Page
    <2> QED
        BY <2>1, <2>2 DEF Inv, BeginInv
<1>2. Passed(shown[i])
    BY <1>1 DEF Inv, ShownInv
<1>3. Precedes(cursor, PlaceOf(found[j])) /\ IsRow(rows, found[j])
    BY <1>1 DEF Page, Matches
<1> QED
    BY <1>2, <1>3 DEF Passed

\* Passed of the next state, of an id of the next state.
PassedNext(id) ==
    /\ ~Precedes(cursor', [key |-> IF listing' = "events" THEN id ELSE now', id |-> id])
    /\ IsRow(rows', id) => ~Precedes(cursor', [key |-> rows'[id].key, id |-> id])

LEMMA ReadKeepsShown ==
    ASSUME Inv, NEW limit \in PageSizes, NEW found, Page(found, limit)
    PROVE  ShownInv'
<1>1. PICK n \in Nat :
          /\ n = IF Len(found) < limit THEN Len(found) ELSE limit
          /\ shown' \in Seq(Ids) /\ Len(shown') = Len(shown) + n
          /\ \A i \in 1 .. Len(shown) : shown'[i] = shown[i]
          /\ \A i \in 1 .. n : shown'[Len(shown) + i] = found[i]
    BY DEF Page
<1>2. /\ limit \in Nat \ {0} /\ Len(shown) \in Nat /\ Len(found) \in Nat /\ n <= Len(found)
      /\ shown \in Seq(Ids) /\ found \in Seq(Ids)
    BY <1>1, PaginationAssumption DEF Inv, TypeInv, Page
<1>3. ASSUME NEW k \in 1 .. Len(shown')
      PROVE  \/ k \in 1 .. Len(shown) /\ shown'[k] = shown[k]
             \/ /\ k > Len(shown) /\ k - Len(shown) \in 1 .. n
                /\ shown'[k] = found[k - Len(shown)]
    <2>1. CASE k <= Len(shown)
        BY <1>1, <1>2, <2>1
    <2>2. CASE ~(k <= Len(shown))
        <3>1. k > Len(shown) /\ k - Len(shown) \in 1 .. n /\ k = Len(shown) + (k - Len(shown))
            BY <1>1, <1>2, <2>2
        <3> QED
            BY <1>1, <3>1
    <2> QED
        BY <2>1, <2>2
<1>4. \A i \in 1 .. Len(found) : /\ found[i] \in Ids /\ IsRow(rows, found[i])
                                 /\ PlaceOf(found[i]) \in Place /\ PlaceOf(found[i]).id = found[i]
                                 /\ FreshPlace(found[i]) \in Place
                                 /\ PlaceOf(found[i]).key <= FreshPlace(found[i]).key
    <2>1. \A i \in 1 .. Len(found) : found[i] \in Ids /\ IsRow(rows, found[i])
        BY <1>2 DEF Page, Matches
    <2> QED
        BY <2>1, RowsHavePlaces
<1>5. \A i, j \in 1 .. Len(found) : i < j => Precedes(PlaceOf(found[i]), PlaceOf(found[j]))
    BY DEF Page
<1>6. \A i, j \in 1 .. Len(found) : i < j => found[i] # found[j]
    BY <1>4, <1>5, OrderOfPlaces
<1>7. \A i \in 1 .. Len(shown), j \in 1 .. Len(found) : shown[i] # found[j]
    BY NewOnThePage
<1>8. ShownOnce'
    <2> SUFFICES ASSUME NEW k \in 1 .. Len(shown'), NEW l \in 1 .. Len(shown'), k # l
                 PROVE  shown'[k] # shown'[l]
        BY DEF ShownOnce
    <2>1. CASE k <= Len(shown) /\ l <= Len(shown)
        <3>1. shown'[k] = shown[k] /\ shown'[l] = shown[l] /\ k \in 1 .. Len(shown) /\ l \in 1 .. Len(shown)
            BY <1>1, <1>2, <2>1
        <3> QED
            BY <3>1 DEF Inv, ShownInv, ShownOnce
    <2>2. CASE k <= Len(shown) /\ ~(l <= Len(shown))
        BY <1>2, <1>3, <1>7, <2>2
    <2>3. CASE ~(k <= Len(shown)) /\ l <= Len(shown)
        BY <1>2, <1>3, <1>7, <2>3
    <2>4. CASE ~(k <= Len(shown)) /\ ~(l <= Len(shown))
        <3> DEFINE i == k - Len(shown)
                   j == l - Len(shown)
        <3>1. shown'[k] = found[i] /\ shown'[l] = found[j]
            BY <1>2, <1>3, <2>4
        <3>2. i \in 1 .. Len(found) /\ j \in 1 .. Len(found) /\ (i < j \/ j < i)
            BY <1>1, <1>2, <2>4
        <3> QED
            BY <1>6, <3>1, <3>2
    <2> QED
        BY <2>1, <2>2, <2>3, <2>4
<1>9. ASSUME cursor' # NoCursor, NEW k \in 1 .. Len(shown')
      PROVE  PassedNext(shown'[k])
    <2>1. ~done' /\ cursor' = PlaceOf(found[limit]) /\ limit \in 1 .. Len(found) /\ n = limit
        <3>1. ~done' /\ cursor' = PlaceOf(found[limit]) /\ ~(Len(found) <= limit)
            BY <1>9 DEF Page
        <3> QED
            BY <1>1, <1>2, <3>1
    <2>2. rows' = rows /\ now' = now /\ listing' = listing
        BY DEF Page
    <2>3. cursor' \in Place
        BY <1>4, <2>1
    <2>4. ASSUME NEW id, ~Precedes(cursor', FreshPlace(id)),
                 IsRow(rows, id) => ~Precedes(cursor', PlaceOf(id))
          PROVE  PassedNext(id)
        BY <2>2, <2>4 DEF FreshPlace, PlaceOf, PassedNext
    <2>5. CASE k <= Len(shown)
        <3>1. shown'[k] = shown[k] /\ k \in 1 .. Len(shown) /\ shown[k] \in Ids
            BY <1>1, <1>2, <2>5
        <3> DEFINE id == shown[k]
        <3>2. cursor \in Place
            <4>1. begun /\ ~done
                BY <3>1 DEF Inv, BeginInv, Page
            <4> QED
                BY <4>1 DEF Inv, BeginInv, TypeInv
        <3>3. Passed(id) /\ Precedes(cursor, cursor')
            <4>1. cursor # NoCursor
                BY <3>2, MarksAssumption
            <4> QED
                BY <2>1, <3>1, <4>1 DEF Inv, ShownInv, Page
        <3>4. FreshPlace(id) \in Place
            BY <3>1, PaginationAssumption DEF FreshPlace, Place, Inv, TypeInv
        <3>5. ~Precedes(cursor', FreshPlace(id))
            BY <2>3, <3>2, <3>3, <3>4, OrderOfPlaces DEF Passed
        <3>6. IsRow(rows, id) => ~Precedes(cursor', PlaceOf(id))
            BY <2>3, <3>1, <3>2, <3>3, OrderOfPlaces, RowsHavePlaces DEF Passed
        <3>7. PassedNext(id)
            BY <2>4, <3>5, <3>6
        <3> QED
            BY <3>1, <3>7
    <2>6. CASE ~(k <= Len(shown))
        <3> DEFINE i == k - Len(shown)
        <3>1. shown'[k] = found[i] /\ i \in 1 .. Len(found) /\ i <= limit
            BY <1>2, <1>3, <2>1, <2>6
        <3> DEFINE id == found[i]
        <3>2. ~Precedes(cursor', PlaceOf(id))
            <4>1. CASE i = limit
                BY <2>1, <2>3, <4>1, OrderOfPlaces
            <4>2. CASE i < limit
                <5>1. Precedes(PlaceOf(id), cursor') /\ PlaceOf(id) \in Place
                    BY <1>4, <1>5, <2>1, <3>1, <4>2
                <5> QED
                    BY <2>3, <5>1, OrderOfPlaces
            <4> QED
                BY <1>2, <3>1, <4>1, <4>2
        <3>3. ~Precedes(cursor', FreshPlace(id))
            <4>1. /\ PlaceOf(id) = [key |-> PlaceOf(id).key, id |-> id]
                  /\ FreshPlace(id) = [key |-> FreshPlace(id).key, id |-> id]
                  /\ PlaceOf(id).key \in Nat /\ FreshPlace(id).key \in Nat
                  /\ PlaceOf(id).key <= FreshPlace(id).key /\ id \in Ids
                BY <1>4, <3>1 DEF PlaceOf, FreshPlace, Place
            <4> DEFINE a == PlaceOf(id).key
                       b == FreshPlace(id).key
            <4>2. ~Precedes(cursor', [key |-> a, id |-> id])
                BY <3>2, <4>1
            <4>3. a \in Nat /\ b \in Nat /\ a <= b /\ FreshPlace(id) = [key |-> b, id |-> id]
                BY <4>1
            <4> HIDE DEF a, b
            <4>4. ~Precedes(cursor', [key |-> b, id |-> id])
                BY <2>3, <4>1, <4>2, <4>3, MovingUp
            <4> QED
                BY <4>3, <4>4
        <3>4. PassedNext(id)
            BY <2>4, <3>2, <3>3
        <3> QED
            BY <3>1, <3>4
    <2> QED
        BY <1>2, <2>5, <2>6
<1> QED
    BY <1>8, <1>9 DEF ShownInv, Passed, FreshPlace, PlaceOf, PassedNext

-----------------------------------------------------------------------------
LEMMA ReadKeepsAhead ==
    ASSUME Inv, NEW limit \in PageSizes, NEW found, Page(found, limit)
    PROVE  AheadInv'
<1>1. PICK n \in Nat :
          /\ n = IF Len(found) < limit THEN Len(found) ELSE limit
          /\ shown' \in Seq(Ids) /\ Len(shown') = Len(shown) + n
          /\ \A i \in 1 .. Len(shown) : shown'[i] = shown[i]
          /\ \A i \in 1 .. n : shown'[Len(shown) + i] = found[i]
    BY DEF Page
<1>2. /\ limit \in Nat \ {0} /\ Len(shown) \in Nat /\ Len(found) \in Nat /\ n <= Len(found)
      /\ found \in Seq(Ids)
    BY <1>1, PaginationAssumption DEF Inv, TypeInv, Page
<1>3. UNCHANGED <<listing, forgottenToo, now, rows, last, there, rewritten>> /\ begun' = TRUE
    BY DEF Page
<1> SUFFICES ASSUME NEW id \in there \ rewritten
             PROVE  (\E k \in 1 .. Len(shown') : shown'[k] = id) \/ Ahead(id)'
    BY <1>3 DEF AheadInv
<1>4. id \in Ids /\ Matches(rows, id)
    BY DEF Inv, TypeInv, BeginInv
<1>5. CASE \E k \in 1 .. Len(shown) : shown[k] = id
    BY <1>1, <1>2, <1>5
<1>6. CASE ~(\E k \in 1 .. Len(shown) : shown[k] = id)
    <2>1. cursor # NoCursor => Precedes(cursor, PlaceOf(id))
        <3>1. cursor # NoCursor => begun
            BY DEF Inv, BeginInv
        <3>2. cursor # NoCursor => Ahead(id)
            BY <1>6, <3>1 DEF Inv, AheadInv
        <3> QED
            BY <3>2 DEF Ahead
    <2>2. PICK i \in 1 .. Len(found) : found[i] = id
        BY <1>4, <2>1 DEF Page
    <2>3. CASE i <= n
        <3>1. i \in 1 .. n /\ Len(shown) + i \in 1 .. Len(shown')
            BY <1>1, <1>2, <2>3
        <3> QED
            BY <1>1, <2>2, <3>1
    <2>4. CASE ~(i <= n)
        <3>1. limit < i /\ limit \in 1 .. Len(found) /\ ~(Len(found) <= limit)
            BY <1>1, <1>2, <2>2, <2>4
        <3>2. ~done' /\ cursor' = PlaceOf(found[limit])
            BY <3>1 DEF Page
        <3>3. Precedes(PlaceOf(found[limit]), PlaceOf(id))
            BY <2>2, <3>1 DEF Page
        <3>4. found[limit] \in Ids /\ IsRow(rows, found[limit])
            BY <1>2, <3>1 DEF Page, Matches
        <3>5. cursor' # NoCursor
            <4>1. PlaceOf(found[limit]) \in Place
                BY <3>4, RowsHavePlaces
            <4> QED
                BY <3>2, <4>1, MarksAssumption
        <3>6. PlaceOf(id)' = PlaceOf(id)
            BY <1>3 DEF PlaceOf
        <3>7. Precedes(cursor', PlaceOf(id)')
            BY <3>2, <3>3, <3>6
        <3> QED
            BY <3>2, <3>5, <3>7 DEF Ahead, Precedes
    <2> QED
        BY <2>3, <2>4
<1> QED
    BY <1>5, <1>6

LEMMA ReadKeeps ==
    ASSUME Inv, NEW limit \in PageSizes, ReadPage(limit)
    PROVE  Inv'
<1>1. PICK found : Page(found, limit)
    BY ReadsPage
<1>2. /\ UNCHANGED <<listing, forgottenToo, now, rows, last, there, rewritten>>
      /\ begun' = TRUE /\ done' \in BOOLEAN /\ shown' \in Seq(Ids)
      /\ cursor' = IF done' THEN NoCursor ELSE PlaceOf(found[limit])
    BY <1>1 DEF Page
<1>3. ~done' => cursor' \in Place
    <2> SUFFICES ASSUME ~done' PROVE cursor' \in Place
        OBVIOUS
    <2>1. limit \in 1 .. Len(found)
        <3>1. limit \in Nat \ {0} /\ Len(found) \in Nat /\ ~(Len(found) <= limit)
            BY <1>1, PaginationAssumption DEF Page
        <3> QED
            BY <3>1
    <2>2. found[limit] \in Ids /\ IsRow(rows, found[limit])
        BY <1>1, <2>1 DEF Page, Matches
    <2>3. PlaceOf(found[limit]) \in Place
        BY <2>2, RowsHavePlaces
    <2> QED
        BY <1>2, <2>3
<1>4. TypeInv'
    <2>1. cursor' \in Place \cup {NoCursor}
        BY <1>2, <1>3
    <2> QED
        BY <1>2, <2>1 DEF Inv, TypeInv
<1>5. KeysInv'
    BY <1>2 DEF Inv, KeysInv, IsRow
<1>6. BeginInv'
    <2>1. ~done' => cursor' # NoCursor
        BY <1>3, MarksAssumption
    <2>2. \A id \in there : Matches(rows, id)
        BY DEF Inv, BeginInv
    <2> QED
        BY <1>2, <2>1, <2>2 DEF BeginInv, Matches, IsRow
<1>7. ShownInv' /\ AheadInv'
    BY <1>1, ReadKeepsShown, ReadKeepsAhead
<1> QED
    BY <1>4, <1>5, <1>6, <1>7 DEF Inv

-----------------------------------------------------------------------------
(* The theorems. *)

LEMMA NextInv == Inv /\ [Next]_vars => Inv'
<1> SUFFICES ASSUME Inv, [Next]_vars PROVE Inv'
    OBVIOUS
<1>1. ASSUME NEW id \in Ids, Write(id) \/ ReviseNote(id) \/ Forget(id) \/ Destroy(id)
      PROVE  Inv'
    <2>1. \E changed \in SUBSET Ids : Rewrites(changed)
        <3>1. {} \in SUBSET Ids /\ {id} \in SUBSET Ids
            OBVIOUS
        <3>2. (IF listing = "fields" THEN {id} ELSE {}) \in SUBSET Ids
            OBVIOUS
        <3>3. CASE Write(id)
            BY <3>1, <3>3, WriteRewrites
        <3>4. CASE ReviseNote(id)
            BY <3>1, <3>4, ReviseRewrites
        <3>5. CASE Forget(id)
            BY <3>2, <3>5, ForgetRewrites
        <3>6. CASE Destroy(id)
            BY <3>1, <3>6, DestroyRewrites
        <3> QED
            BY <1>1, <3>3, <3>4, <3>5, <3>6
    <2> QED
        BY <2>1, RewritesKeep
<1>2. ASSUME NEW mine \in BOOLEAN, AppendEvent(mine) PROVE Inv'
    BY <1>2, AppendRewrites, RewritesKeep
<1>3. CASE Tick
    BY <1>3, TickKeeps
<1>4. ASSUME NEW limit \in PageSizes, ReadPage(limit) PROVE Inv'
    BY <1>4, ReadKeeps
<1>5. CASE UNCHANGED vars
    <2>1. UNCHANGED <<listing, forgottenToo, now, rows, last, cursor, begun, done, shown, there, rewritten>>
        BY <1>5 DEF vars
    <2>2. TypeInv' /\ KeysInv'
        BY <2>1 DEF Inv, TypeInv, KeysInv, IsRow
    <2>3. BeginInv'
        BY <2>1 DEF Inv, BeginInv, Matches, IsRow
    <2>4. ShownInv'
        BY <2>1 DEF Inv, ShownInv, ShownOnce, Passed, FreshPlace, PlaceOf, Precedes, IsRow
    <2>5. AheadInv'
        BY <2>1 DEF Inv, AheadInv, Ahead, PlaceOf, Precedes
    <2> QED
        BY <2>2, <2>3, <2>4, <2>5 DEF Inv
<1> QED
    BY <1>1, <1>2, <1>3, <1>4, <1>5 DEF Next

\* No page repeats a row of an earlier page, whatever is written, forgotten, destroyed
\* and written again between the pages (list_for_persona of memory/fields.py and
\* memory/notes.py, recent of events/sql_log.py).
THEOREM ShownOnceCorrect == Spec => []ShownOnce
<1>1. Inv => ShownOnce
    BY DEF Inv, ShownInv
<1> QED
    BY InitInv, NextInv, <1>1, PTL DEF Spec

\* A walk to the last page shows every row that was there from before its first page
\* and was not moved up the order by a write.
THEOREM WalkCorrect == Spec => []WalkIsComplete
<1>1. Inv => WalkIsComplete
    <2> SUFFICES ASSUME Inv, done, NEW id \in there \ rewritten PROVE id \in ToSet(shown)
        BY DEF WalkIsComplete
    <2>1. begun /\ shown \in Seq(Ids)
        BY DEF Inv, BeginInv, TypeInv
    <2>2. \E i \in 1 .. Len(shown) : shown[i] = id
        BY <2>1 DEF Inv, AheadInv, Ahead
    <2> QED
        BY <2>1, <2>2, ToSetOfSeq
<1> QED
    BY InitInv, NextInv, <1>1, PTL DEF Spec

\* A page that gives a cursor leaves a row after it: the SELECT asked for one row more
\* than the page holds, and got it.
THEOREM CursorsLead == Spec => CursorsLeadOn
<1>1. Inv /\ [Next]_vars => [~done /\ ~done' /\ shown' # shown => Following(cursor)' # {}]_vars
    <2> SUFFICES ASSUME Inv, [Next]_vars, ~done', shown' # shown
                 PROVE  Following(cursor)' # {}
        OBVIOUS
    <2>1. \E limit \in PageSizes : ReadPage(limit)
        BY DEF Next, vars, Write, ReviseNote, Forget, Destroy, AppendEvent, Noted, Tick, reading
    <2>2. PICK limit \in PageSizes : ReadPage(limit)
        BY <2>1
    <2>3. PICK found : Page(found, limit)
        BY <2>2, ReadsPage
    <2>4. /\ limit \in Nat \ {0} /\ Len(found) \in Nat /\ ~(Len(found) <= limit)
          /\ found \in Seq(Ids)
        BY <2>3, PaginationAssumption DEF Page
    <2>5. limit \in 1 .. Len(found) /\ limit + 1 \in 1 .. Len(found) /\ limit < limit + 1
        BY <2>4
    <2> DEFINE id == found[limit + 1]
    <2>6. /\ id \in Ids /\ Matches(rows, id) /\ cursor' = PlaceOf(found[limit])
          /\ Precedes(PlaceOf(found[limit]), PlaceOf(id))
        BY <2>3, <2>4, <2>5 DEF Page
    <2>7. rows' = rows /\ forgottenToo' = forgottenToo
        BY <2>3 DEF Page
    <2>8. cursor' # NoCursor
        <3>1. found[limit] \in Ids /\ IsRow(rows, found[limit])
            BY <2>3, <2>4, <2>5 DEF Page, Matches
        <3>2. PlaceOf(found[limit]) \in Place
            BY <3>1, RowsHavePlaces
        <3> QED
            BY <2>6, <3>2, MarksAssumption
    <2>9. Following(cursor)' = {other \in Ids : /\ Matches(rows, other)
                                                /\ Precedes(cursor', PlaceOf(other))}
        BY <2>7, <2>8 DEF Following, After, Matches, IsRow, PlaceOf, Precedes
    <2>10. id \in Following(cursor)'
        BY <2>6, <2>9
    <2> QED
        BY <2>10
<1> QED
    BY InitInv, NextInv, <1>1, PTL DEF Spec, CursorsLeadOn
=============================================================================
