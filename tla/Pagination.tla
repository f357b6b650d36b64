------------------------------ MODULE Pagination ------------------------------
(***************************************************************************)
(* A walk over the pages of a listing while its rows are written           *)
(* (list_for_persona of memory/fields.py and memory/notes.py, recent of    *)
(* events/sql_log.py, domain/cursors.py, memory/pagination.py).            *)
(*                                                                         *)
(* Each page is one SELECT, and between two pages anything may be written. *)
(* The three listings differ in what orders their rows and in what a write *)
(* does to that order, so one module is all three, and which one is walked *)
(* is chosen at the start.  Of a row the model keeps what a listing reads: *)
(* its place in the order and whether it is forgotten.  Times are stored   *)
(* as text of fixed width, whose order is that of the instants             *)
(* (storage/times.py); a cursor is base64 of a row's place, and what is    *)
(* modelled of it is that decoding gives back what was encoded.            *)
(***************************************************************************)
EXTENDS Integers, Sequences, FiniteSets, SequencesExt

CONSTANTS Ids,         \* the keys or ids of rows, in their text's order; an event's sequence
          NoRow, NoCursor,
          Spent,       \* an id whose note was destroyed: uuid4 gives it to no other
          PageSizes,   \* the limits a page may be asked for with
          MaxEntries,  \* SqlEventLog's max_entries
          MaxTime,     \* bound: the clock stops here
          MaxWrites    \* bound: this many writes

ASSUME PaginationAssumption ==
    /\ Ids \subseteq Nat /\ PageSizes \subseteq Nat \ {0}
    /\ MaxEntries \in Nat \ {0} /\ MaxTime \in Nat /\ MaxWrites \in Nat
    /\ IsFiniteSet(Ids)

Listings == {"fields", "notes", "events"}

VARIABLES listing,     \* which listing is walked
          forgottenToo,\* include_forgotten, the same on every page
          now, rows,
          last,        \* the sequence of the newest event
          writes,      \* how many writes there were
          cursor,      \* next_cursor of the newest page
          begun, done,
          shown,       \* the ids of the rows shown, in order
          there,       \* rows that matched from before the first page until now
          rewritten    \* of those, the ones written since

vars == <<listing, forgottenToo, now, rows, last, writes, cursor, begun, done, shown, there, rewritten>>
reading == <<listing, forgottenToo, cursor, begun, done, shown>>

\* key is updated_at for a field, created_at for a note, sequence for an event.
Row == [key : Nat, forgotten : BOOLEAN]
Place == [key : Nat, id : Ids]

\* A row is not one of the marks for none, nor a place the mark for no cursor.
ASSUME MarksAssumption == {NoRow, Spent} \cap Row = {} /\ NoRow # Spent /\ NoCursor \notin Place

PlaceOf(id) == [key |-> rows[id].key, id |-> id]

\* ORDER BY key DESC, id DESC.
Precedes(a, b) == a.key > b.key \/ (a.key = b.key /\ a.id > b.id)

IsRow(table, id) == table[id] \notin {NoRow, Spent}
Matches(table, id) == IsRow(table, id) /\ (forgottenToo \/ ~table[id].forgotten)

-----------------------------------------------------------------------------
(* Writes. *)

\* What every write does to the history.
Noted(changed) ==
    /\ writes < MaxWrites /\ writes' = writes + 1
    /\ there' = IF begun THEN {id \in there : Matches(rows', id)}
                         ELSE {id \in Ids : Matches(rows', id)}
    /\ rewritten' = IF begun THEN rewritten \cup changed ELSE {}
    /\ UNCHANGED <<now, reading>>

\* FieldStore.set, all its paths; NoteStore.write, whose id is a new one.
Write(id) ==
    /\ \/ listing = "fields"
       \/ listing = "notes" /\ rows[id] = NoRow
    /\ rows' = [rows EXCEPT ![id] = [key |-> now, forgotten |-> FALSE]]
    /\ Noted({id}) /\ UNCHANGED last

\* NoteStore.revise: updated_at moves, created_at does not.
MutKeyOfRevised(row) == now
KeyOfRevised(row) == row.key

ReviseNote(id) ==
    /\ listing = "notes" /\ IsRow(rows, id) /\ ~rows[id].forgotten
    /\ rows' = [rows EXCEPT ![id].key = KeyOfRevised(rows[id])]
    /\ Noted({}) /\ UNCHANGED last

\* forget, without immediate destruction.
Forget(id) ==
    /\ listing # "events" /\ IsRow(rows, id) /\ ~rows[id].forgotten
    /\ rows' = [rows EXCEPT ![id].forgotten = TRUE,
                            ![id].key = IF listing = "fields" THEN now ELSE @]
    /\ Noted(IF listing = "fields" THEN {id} ELSE {}) /\ UNCHANGED last

\* The row ends: an immediate erasure or the sweep.
Destroy(id) ==
    /\ listing # "events" /\ IsRow(rows, id)
    /\ rows' = [rows EXCEPT ![id] = IF listing = "notes" THEN Spent ELSE NoRow]
    /\ Noted({}) /\ UNCHANGED last

\* SqlEventLog.append, of this persona or of another one, with its trim.
Trimmed(id, newest) == id <= newest - MaxEntries

AppendEvent(mine) ==
    /\ listing = "events" /\ last + 1 \in Ids
    /\ last' = last + 1
    /\ rows' = [id \in Ids |->
                  IF Trimmed(id, last') THEN NoRow
                  ELSE IF mine /\ id = last' THEN [key |-> last', forgotten |-> FALSE]
                  ELSE rows[id]]
    /\ Noted({})

Tick == /\ now < MaxTime /\ now' = now + 1
        /\ UNCHANGED <<rows, last, writes, there, rewritten, reading>>

-----------------------------------------------------------------------------
(* Reading a page. *)

\* The rows the cursor leaves, newest first.
MutAtOrAfter(from) == {id \in Ids : Matches(rows, id) /\ ~Precedes(PlaceOf(id), from)}
MutAfter(from) == {id \in Ids : Matches(rows, id) /\ rows[id].key < from.key}
After(from) == {id \in Ids : Matches(rows, id) /\ Precedes(from, PlaceOf(id))}

Following(from) == IF from = NoCursor THEN {id \in Ids : Matches(rows, id)} ELSE After(from)

\* The rows of a SELECT: each once, in the order of the listing.
InOrder(ids) ==
    {found \in [1 .. Cardinality(ids) -> ids] :
        /\ ToSet(found) = ids
        /\ \A i, j \in DOMAIN found : i < j => Precedes(PlaceOf(found[i]), PlaceOf(found[j]))}

\* One row more than the page holds was asked for; that it came says there is
\* another page.
MutIsLast(found, limit) == Len(found) < limit
IsLast(found, limit) == Len(found) <= limit

ReadPage(limit) ==
    \E found \in InOrder(Following(cursor)) :
        LET items == SubSeq(found, 1, IF Len(found) < limit THEN Len(found) ELSE limit)
        IN  /\ ~done
            /\ begun' = TRUE
            /\ shown' = shown \o items
            /\ done' = IsLast(found, limit)
            /\ cursor' = IF done' THEN NoCursor ELSE PlaceOf(Last(items))
            /\ UNCHANGED <<listing, forgottenToo, now, rows, last, writes, there, rewritten>>

-----------------------------------------------------------------------------

Init ==
    /\ listing \in Listings /\ forgottenToo \in (IF listing = "events" THEN {FALSE} ELSE BOOLEAN)
    /\ now = 0 /\ rows = [id \in Ids |-> NoRow] /\ last = 0 /\ writes = 0
    /\ cursor = NoCursor /\ begun = FALSE /\ done = FALSE
    /\ shown = <<>> /\ there = {} /\ rewritten = {}

Next ==
    \/ \E id \in Ids : Write(id) \/ ReviseNote(id) \/ Forget(id) \/ Destroy(id)
    \/ \E mine \in BOOLEAN : AppendEvent(mine)
    \/ Tick
    \/ \E limit \in PageSizes : ReadPage(limit)

Spec == Init /\ [][Next]_vars

-----------------------------------------------------------------------------

\* No row appears twice in a walk, whatever is written, moved, destroyed and
\* written again between its pages, also when rows share an instant.
ShownOnce == \A i, j \in 1..Len(shown) : i # j => shown[i] # shown[j]

\* A finished walk has shown every row that was there before it began and stayed,
\* unless the row was written meanwhile in a listing that orders by its last write:
\* a field changed between two pages moves in front of the cursor (memory/fields.py,
\* list_for_persona), although list_fields is described as "stable across concurrent writes".
WalkIsComplete == done => there \ rewritten \subseteq ToSet(shown)

\* A page that gives a cursor is followed by one that is not empty, unless
\* something is written in between: a full last page gives none.
CursorsLeadOn == [][~done /\ ~done' /\ shown' # shown => Following(cursor)' # {}]_vars
=============================================================================
