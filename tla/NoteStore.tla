------------------------------ MODULE NoteStore -------------------------------
(***************************************************************************)
(* The free-text half of a persona's memory                                *)
(* (src/persona_api/memory/notes.py): rows with an id of their own, their  *)
(* full-text index, and the events their transactions write.  It differs   *)
(* from FieldStore where the code does: a note is addressed by a fresh id, *)
(* so no write falls on an existing row, and a forgotten note is never     *)
(* revived.  One action per transaction; a refused write is no step.       *)
(***************************************************************************)
EXTENDS Store, SearchIndex, FiniteSets

CONSTANTS NoteIds,       \* bound: the ids uuid4 may hand out, each once
          Bodies,        \* accepted bodies
          Kinds,
          NoNote,        \* what the table holds at an id it has no row for
          MaxNotes,      \* NoteStore's max_notes
          MaxPinned,     \* NoteStore's max_pinned: the deployment's pinned cap
          PinCaps,       \* the caps requests pass as max_pinned
          NoteBatch,     \* the sweeper's batch, purge_due's limit
          FieldEvents    \* what FieldStore may write to the log that both share

VARIABLES notes,         \* the notes table
          noteSeq,       \* fts_sequence.next for notes
          noteIndex,     \* the notes_fts table
          issued         \* the ids new_note_id has returned

noteVars == <<notes, noteSeq, noteIndex, issued>>
vars == <<storeVars, noteVars>>

Row == [persona : Personas, body : Bodies, kind : Kinds, pinned : BOOLEAN,
        revision : Nat \ {0}, seq : Nat \ {0}, forgotten : BOOLEAN,
        purgeAfter : Nat \cup {Never}]

Document == [docid : Nat, text : Bodies]

FieldSubjects == {e.subject : e \in FieldEvents}
FieldValues == {e.oldValue : e \in FieldEvents}

Entry == [sequence : Nat, action : NoteActions \cup FieldActions \cup PersonaActions,
          persona : Personas, subject : NoteIds \cup FieldSubjects \cup Personas, revision : Nat,
          due : Nat \cup {Never}, oldValue : Bodies \cup FieldValues \cup {NoValue}]

ASSUME NoteAssumption ==
    /\ NoNote \notin Row
    /\ NoValue \notin Bodies
    /\ MaxNotes \in Nat /\ MaxPinned \in Nat
    \* _narrow in core/preferences.py: a person may lower the cap, never raise it.
    /\ PinCaps \subseteq 0..MaxPinned
    /\ NoteBatch \in Nat \ {0}
    /\ FieldEvents \subseteq [action : FieldActions, persona : Personas, subject : FieldSubjects,
                               revision : Nat, due : Nat \cup {Never}, oldValue : FieldValues]

NoteInit == /\ notes = [id \in NoteIds |-> NoNote]
            /\ noteSeq = 0
            /\ noteIndex = EmptyIndex
            /\ issued = {}

-----------------------------------------------------------------------------
(* Reading the table. *)

Exists(id) == notes[id] # NoNote
LiveIn(table, id) == table[id] # NoNote /\ ~table[id].forgotten
Live(id) == LiveIn(notes, id)
Forgotten(id) == Exists(id) /\ notes[id].forgotten

\* Every statement that changes one note names the persona as well as the id.
MutLiveFor(id, p) == Exists(id) /\ notes[id].persona = p
LiveFor(id, p) == Live(id) /\ notes[id].persona = p

\* The two counts _check_caps takes, inside the transaction that writes.
LiveOf(table, p) == {id \in NoteIds : LiveIn(table, id) /\ table[id].persona = p}
PinnedOf(table, p) == {id \in LiveOf(table, p) : table[id].pinned}

\* purge_after <= time, for the columns that have one.
DueBy(id, time) == Exists(id) /\ notes[id].purgeAfter # Never /\ notes[id].purgeAfter <= time

PastDue(id) == DueBy(id, now)

-----------------------------------------------------------------------------
(* The steps of a transaction. *)

MutMayPin(table, p, cap) == Cardinality(PinnedOf(table, p)) <= cap
MayPin(table, p, cap) == Cardinality(PinnedOf(table, p)) < cap

MayAdd(table, p) == Cardinality(LiveOf(table, p)) < MaxNotes

MutNewNote(p, body, kind, pinned, seq) ==
    [persona |-> p, body |-> body, kind |-> kind, pinned |-> pinned, revision |-> 0,
     seq |-> seq, forgotten |-> FALSE, purgeAfter |-> Never]

NewNote(p, body, kind, pinned, seq) ==
    [persona |-> p, body |-> body, kind |-> kind, pinned |-> pinned, revision |-> 1,
     seq |-> seq, forgotten |-> FALSE, purgeAfter |-> Never]

NothingChanges(row, body, kind, pinned) ==
    row.body = body /\ row.kind = kind /\ row.pinned = pinned

RevisedNote(row, body, kind, pinned) ==
    [row EXCEPT !.body = body, !.kind = kind, !.pinned = pinned,
                !.revision = row.revision + 1]

MutForgottenNote(row, due) == [row EXCEPT !.forgotten = TRUE]
ForgottenNote(row, due) == [row EXCEPT !.forgotten = TRUE, !.purgeAfter = due]

KeptBody(row, body, logValues) ==
    IF logValues /\ row.body # body THEN row.body ELSE NoValue

\* _destroy: the rows, and through the delete trigger their documents, with the
\* words of both; StripValues for the bodies the log kept.
Without(table, gone) == [id \in NoteIds |-> IF id \in gone THEN NoNote ELSE table[id]]

DocidsOf(table, gone) == {table[id].seq : id \in {n \in gone : table[n] # NoNote}}

DropDocuments(index, table, gone) ==
    IF gone = {} THEN index ELSE Optimized(Unindexed(index, DocidsOf(table, gone)))

\* The rows' primary keys as the log names them.
Subjects(table, gone) == {<<table[id].persona, id>> : id \in {n \in gone : table[n] # NoNote}}

\* The event as the log gets it.  "note.written" names the kind and no revision,
\* a new note's being 1; "note.revised" names the revision, "note.forgotten" the date.
NoteEvent(action, p, id, revision, due, old) == Event(action, p, id, revision, due, old)

-----------------------------------------------------------------------------
(* write, revise and forget. *)

WriteNote(p, id) ==
    \E body \in Bodies, kind \in Kinds, pinned \in BOOLEAN, cap \in PinCaps :
        LET row == NewNote(p, body, kind, pinned, noteSeq + 1)
        IN  /\ id \notin issued
            /\ p \in personas                  \* the foreign key
            /\ MayAdd(notes, p)
            /\ pinned => MayPin(notes, p, cap)
            /\ MayRecord
            /\ issued' = issued \cup {id}
            /\ noteSeq' = row.seq
            /\ notes' = [notes EXCEPT ![id] = row]
            /\ noteIndex' = Indexed(noteIndex, row.seq, row.body)
            /\ log' = Appended(log, NoteEvent("note.written", p, id, 1, Never, NoValue))
            /\ UNCHANGED <<now, personas>>

\* A PATCH names parts; what a revision does depends only on what they come to.
ReviseNote(p, id) ==
    \E body \in Bodies, kind \in Kinds, pinned \in BOOLEAN, cap \in PinCaps, logValues \in BOOLEAN :
        LET old == notes[id]
            row == RevisedNote(old, body, kind, pinned)
        IN  /\ LiveFor(id, p)
            /\ ~NothingChanges(old, body, kind, pinned)
            /\ pinned /\ ~old.pinned => MayPin(notes, p, cap)
            /\ MayRecord
            /\ notes' = [notes EXCEPT ![id] = row]
            /\ noteIndex' = Indexed(Unindexed(noteIndex, {old.seq}), old.seq, row.body)
            /\ log' = Appended(log, NoteEvent("note.revised", p, id, row.revision, Never,
                                              KeptBody(old, body, logValues)))
            /\ UNCHANGED <<now, personas, noteSeq, issued>>

ForgetNote(p, id, policy) ==
    LET due  == PurgeAfter(policy, now)
        gone == IF DestroysNow(policy) THEN {id} ELSE {}
    IN  /\ LiveFor(id, p)
        /\ MayRecord
        /\ notes' = Without([notes EXCEPT ![id] = ForgottenNote(notes[id], due)], gone)
        /\ noteIndex' = DropDocuments(Unindexed(noteIndex, {notes[id].seq}), notes, gone)
        /\ log' = StripValues(Appended(log, NoteEvent("note.forgotten", p, id, 0, due, NoValue)),
                              Subjects(notes, gone), NoteActions)
        /\ UNCHANGED <<now, personas, noteSeq, issued>>

-----------------------------------------------------------------------------
(* What the sweep and the deletion of a persona do to notes. *)

MutDueNotes(time) == {id \in NoteIds : Exists(id) /\ notes[id].purgeAfter # Never}
DueNotes(time) == {id \in NoteIds : DueBy(id, time)}

\* purge_due: oldest first, NoteBatch at most.
NoteBatches(time) ==
    LET due == DueNotes(time)
    IN  {b \in SUBSET due :
            /\ b # {}
            /\ Cardinality(b) = NoteBatch \/ (b = due /\ Cardinality(b) <= NoteBatch)
            /\ \A id \in b, other \in due \ b : notes[id].purgeAfter <= notes[other].purgeAfter}

\* The sweep read the clock before it purged the fields, so "time" may be past.
PurgeDueNotes(time) ==
    \E batch \in NoteBatches(time) :
        /\ notes' = Without(notes, batch)
        /\ noteIndex' = DropDocuments(noteIndex, notes, batch)
        /\ log' = StripValues(log, Subjects(notes, batch), NoteActions)
        /\ UNCHANGED <<now, personas, noteSeq, issued>>

NotesOf(p) == {id \in NoteIds : Exists(id) /\ notes[id].persona = p}

DropNotesOf(p) ==
    /\ notes' = Without(notes, NotesOf(p))
    /\ noteIndex' = Optimized(Unindexed(noteIndex, DocidsOf(notes, NotesOf(p))))
    /\ UNCHANGED <<noteSeq, issued>>

-----------------------------------------------------------------------------

NoteOperation ==
    \/ \E p \in Personas, id \in NoteIds :
          WriteNote(p, id) \/ ReviseNote(p, id) \/ \E policy \in Policies : ForgetNote(p, id, policy)
    \/ \E time \in 0..now : PurgeDueNotes(time)

Elsewhere ==
    \/ Tick
    \/ \E p \in Personas : \/ AddPersona(p)
                           \/ \E a \in PersonaActions : RecordPersonaEvent(p, a)
    \/ OtherTransaction(FieldEvents, FieldActions)

Init == StoreInit /\ NoteInit

Next == \/ UNCHANGED noteVars /\ Elsewhere
        \/ NoteOperation
        \/ \E p \in Personas : DropPersona(p) /\ DropNotesOf(p)

Spec == Init /\ [][Next]_vars

-----------------------------------------------------------------------------
(* What the store promises. *)

\* Every variable has its type; rows are under ids that were issued.
TypeOK ==
    /\ now \in Nat
    /\ personas \subseteq Personas
    /\ notes \in [NoteIds -> Row \cup {NoNote}]
    /\ noteSeq \in Nat
    /\ noteIndex \in [entries : SUBSET Document, words : SUBSET Nat]
    /\ log \in [last : Nat, entries : SUBSET Entry]
    /\ issued \subseteq NoteIds

\* Recall finds every live note by its present body and nothing else, and the
\* words of destroyed notes are out of the segments: what is on disk belongs to
\* rows.
IndexAgrees ==
    /\ noteIndex.entries =
           {[docid |-> notes[id].seq, text |-> notes[id].body] : id \in {n \in NoteIds : Live(n)}}
    /\ \A docid \in noteIndex.words : \E id \in NoteIds : Exists(id) /\ notes[id].seq = docid

\* A value the log kept of no field is of a note that exists, in the persona that
\* owns it, revised since.
KeptValuesBelongToRows ==
    \A e \in log.entries : e.oldValue # NoValue /\ e.action \notin FieldActions =>
        /\ e.action \in NoteActions /\ e.subject \in NoteIds
        /\ Exists(e.subject) /\ notes[e.subject].persona = e.persona
        /\ 1 < e.revision /\ e.revision <= notes[e.subject].revision

\* No persona has more live notes than its cap, and what goes into every prompt,
\* its pinned ones, is bounded by the deployment's cap, whatever is written,
\* revised and forgotten.
NotesWithinCaps ==
    \A p \in Personas : /\ Cardinality(LiveOf(notes, p)) <= MaxNotes
                        /\ Cardinality(PinnedOf(notes, p)) <= MaxPinned

EventsAbout(id) == {e \in log.entries : e.subject = id /\ e.action \in NoteActions}

\* The newest event the log holds about a note describes it as it is, and no body
\* the log kept outlives its note.
LogAgreesWithRows ==
    /\ KeptValuesBelongToRows
    /\ \A id \in NoteIds : Exists(id) =>
          \A e \in EventsAbout(id) :
              \/ \E f \in EventsAbout(id) : f.sequence > e.sequence
              \/ Live(id) /\ e.action # "note.forgotten" /\ e.revision = notes[id].revision
              \/ Forgotten(id) /\ e.action = "note.forgotten" /\ e.due = notes[id].purgeAfter

-----------------------------------------------------------------------------
(* A note is a thing of Lifecycle: its docid is its life. *)

LifeAt(p, id) ==
    IF Exists(id) /\ notes[id].persona = p
    THEN [life |-> notes[id].seq, forgotten |-> notes[id].forgotten, due |-> notes[id].purgeAfter]
    ELSE [life |-> 0, forgotten |-> FALSE, due |-> Never]

Life == INSTANCE Lifecycle WITH
            Owners <- Personas, Names <- NoteIds, time <- now, lives <- noteSeq,
            things <- [s \in Personas \X NoteIds |-> LifeAt(s[1], s[2])]

\* Nothing the store does to a note leaves the life of a remembered thing: it is
\* rescheduled by nobody and destroyed when it is due, or with its persona.
ImplementsLifecycle == Life!Spec

\* And that life is the simpler half: a forgotten note is never revived, revised
\* or moved to another persona, so all that can become of it is its end, which
\* comes when it is due or with its persona.
ForgottenForGood ==
    [][\A id \in NoteIds : Forgotten(id) =>
          \/ notes'[id] = notes[id]
          \/ notes'[id] = NoNote /\ (PastDue(id) \/ notes[id].persona \notin personas')]_vars
=============================================================================
