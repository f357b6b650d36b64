------------------------------ MODULE SearchIndex ------------------------------
(***************************************************************************)
(* One FTS5 full-text index, as the two stores use it.  A pure module, like *)
(* EventLog.  An index is a record                                         *)
(*                                                                         *)
(*   entries   the documents a search can match, each with its docid       *)
(*   words     the docids whose words still stand in the segments on disk  *)
(*                                                                         *)
(* The two differ because an FTS5 DELETE writes a marker and leaves the    *)
(* words where they are until segments merge                               *)
(* (storage/database.py, drop_deleted_terms).                              *)
(***************************************************************************)
EXTENDS Integers

EmptyIndex == [entries |-> {}, words |-> {}]

\* INSERT INTO ..._fts (rowid, text): FieldStore._index and NoteStore._index.
Indexed(index, docid, text) ==
    [entries |-> index.entries \cup {[docid |-> docid, text |-> text]},
     words   |-> index.words \cup {docid}]

\* DELETE FROM ..._fts WHERE rowid = ...: _unindex, and the trigger that runs
\* for every row deleted from the table.  The words stay.
MutUnindexed(index, docids) == index

Unindexed(index, docids) ==
    [index EXCEPT !.entries = {d \in index.entries : d.docid \notin docids}]

\* INSERT INTO ..._fts(..._fts) VALUES ('optimize'): the segments are rewritten
\* with the words of the remaining documents only.
MutOptimized(index) == index

Optimized(index) ==
    [index EXCEPT !.words = {d.docid : d \in index.entries}]
=============================================================================
