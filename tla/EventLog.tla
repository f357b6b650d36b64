------------------------------- MODULE EventLog -------------------------------
(***************************************************************************)
(* The change log (src/persona_api/events/sql_log.py).  A pure module: a   *)
(* log is a value, and the stores that own a variable holding one build    *)
(* its next value from the operators below inside their own transactions,  *)
(* exactly as SqlEventLog.append takes its caller's connection.            *)
(*                                                                         *)
(* A log is [last |-> n, entries |-> set].  "last" is the AUTOINCREMENT    *)
(* counter of the table: it never goes back, whatever is trimmed.  Of an   *)
(* entry the model keeps what a property tells apart: whose persona and    *)
(* which subject it is about, the action, the revision or the erasure date *)
(* its detail announces, and the replaced value it may carry.  Ids,        *)
(* timestamps and provenance are left out.                                 *)
(***************************************************************************)
EXTENDS Integers

CONSTANTS NoValue,      \* the NULL of the old_value column
          Never,        \* the NULL of a purge_after column
          MaxEntries    \* SqlEventLog's max_entries

ASSUME MaxEntriesAssumption == MaxEntries \in Nat \ {0}
ASSUME NeverAssumption == Never \notin Nat

EmptyLog == [last |-> 0, entries |-> {}]

\* What an event says.  The actions of one noun share a prefix in the code
\* ("field.", "note.", "persona."); here each noun is a set of actions.
FieldActions == {"field.set", "field.revised", "field.forgotten"}
NoteActions == {"note.written", "note.revised", "note.forgotten"}
PersonaActions == {"persona.created", "persona.updated", "persona.deleted"}

Event(action, persona, subject, revision, due, old) ==
    [action |-> action, persona |-> persona, subject |-> subject,
     revision |-> revision, due |-> due, oldValue |-> old]

\* The entry as a row of the table.
Numbered(n, event) ==
    [sequence |-> n, action |-> event.action, persona |-> event.persona,
     subject |-> event.subject, revision |-> event.revision, due |-> event.due,
     oldValue |-> event.oldValue]

\* DELETE FROM events WHERE sequence <= max(sequence) - max_entries.  The row
\* just inserted is the newest and always stays, so max(sequence) is "newest".
MutTrimmed(entries, newest) ==
    {e \in entries : e.sequence >= newest - MaxEntries}

Trimmed(entries, newest) ==
    {e \in entries : ~(e.sequence <= newest - MaxEntries)}

\* append: insert one entry, then trim, in the caller's transaction.
Appended(log, event) ==
    LET n == log.last + 1
    IN  [last |-> n, entries |-> Trimmed(log.entries \cup {Numbered(n, event)}, n)]

\* strip_values, called once per target: every entry of one noun about one of
\* the targets, <<persona, subject>> pairs, loses the value it kept.  The calls
\* touch different rows, so their order is nothing.
MutStripValues(log, targets, actions) == log

MutStripAcross(log, targets, actions) ==
    [log EXCEPT !.entries =
        {IF <<e.persona, e.subject>> \in targets
         THEN [e EXCEPT !.oldValue = NoValue] ELSE e : e \in log.entries}]

StripValues(log, targets, actions) ==
    [log EXCEPT !.entries =
        {IF <<e.persona, e.subject>> \in targets /\ e.action \in actions
         THEN [e EXCEPT !.oldValue = NoValue] ELSE e : e \in log.entries}]

\* strip_persona_values: the same for every entry of a persona.
StripPersonaValues(log, persona) ==
    [log EXCEPT !.entries =
        {IF e.persona = persona THEN [e EXCEPT !.oldValue = NoValue] ELSE e :
            e \in log.entries}]
=============================================================================
