---------------------------- MODULE NoteStore_proofs ----------------------------
(***************************************************************************)
(* Theorems about NoteStore, for every set of personas, ids and bodies and *)
(* every value of the caps and bounds.                                     *)
(***************************************************************************)
EXTENDS NoteStore, EventLog_proofs

-----------------------------------------------------------------------------
(* The types the transactions work on. *)

Log == [last : Nat, entries : SUBSET Entry]
Index == [entries : SUBSET Document, words : SUBSET Nat]
Table == [NoteIds -> Row \cup {NoNote}]

Actions == NoteActions \cup FieldActions \cup PersonaActions
AllSubjects == NoteIds \cup FieldSubjects \cup Personas
Kept == Bodies \cup FieldValues
Body == EventsOf(Actions, Personas, AllSubjects, Kept)

\* What the lemmas about any store's log and index are here.
LEMMA Instances ==
    /\ Log = LogsOf(EntriesOf(Actions, Personas, AllSubjects, Kept))
    /\ Entry = EntriesOf(Actions, Personas, AllSubjects, Kept)
    /\ Index = IndexesOf(Bodies)
BY DEF Log, Entry, Index, Document, LogsOf, EntriesOf, IndexesOf, DocumentsOf, Actions,
       AllSubjects, Kept

LEMMA StateTypes ==
    ASSUME TypeOK
    PROVE  /\ log \in Log /\ noteIndex \in Index /\ notes \in Table /\ noteSeq \in Nat
           /\ now \in Nat /\ personas \subseteq Personas /\ issued \subseteq NoteIds
           /\ NoNote \notin Row
           /\ \A id \in NoteIds : notes[id] # NoNote => notes[id] \in Row
BY NoteAssumption DEF TypeOK, Log, Index, Table

LEMMA DropDocumentsType ==
    ASSUME NEW ix \in Index, NEW table, NEW gone
    PROVE  DropDocuments(ix, table, gone) \in Index
BY Instances, UnindexedKeepsType, OptimizedKeepsType DEF DropDocuments

LEMMA WithoutType ==
    ASSUME NEW table \in Table, NEW gone
    PROVE  Without(table, gone) \in Table
BY DEF Without, Table

LEMMA WithoutAt ==
    ASSUME NEW table, NEW gone, NEW id \in NoteIds
    PROVE  Without(table, gone)[id] = IF id \in gone THEN NoNote ELSE table[id]
BY DEF Without

LEMMA PurgeAfterType ==
    ASSUME TypeOK, NEW policy \in Policies
    PROVE  PurgeAfter(policy, now) \in Nat \cup {Never}
<1>1. CASE policy.mode = "grace"
    <2>1. policy.graceDays \in Nat
        BY <1>1, GraceAssumption DEF Policies
    <2> QED
        BY <1>1, <2>1 DEF PurgeAfter, TypeOK
<1> QED
    BY <1>1 DEF PurgeAfter

-----------------------------------------------------------------------------
(* What each transaction writes, slot by slot.  A row is under an issued id, *)
(* so a new note falls on no other.                                          *)

RowsAreIssued == \A id \in NoteIds : Exists(id) => id \in issued

\* The table differs at id only.
Only(id) == \A other \in NoteIds : other # id => notes'[other] = notes[other]

Written(p, id, row, cap) ==
    /\ notes[id] = NoNote /\ p \in personas
    /\ notes' \in Table /\ notes'[id] = row /\ Only(id)
    /\ row.persona = p /\ row.revision = 1 /\ row.seq = noteSeq + 1
    /\ ~row.forgotten /\ row.forgotten \in BOOLEAN /\ row.purgeAfter = Never
    /\ MayAdd(notes, p) /\ (row.pinned => MayPin(notes, p, cap))
    /\ issued' = issued \cup {id} /\ noteSeq' = noteSeq + 1
    /\ noteIndex' = Indexed(noteIndex, noteSeq + 1, row.body)
    /\ log' = Appended(log, NoteEvent("note.written", p, id, 1, Never, NoValue))
    /\ now' = now /\ personas' = personas

LEMMA WriteParts ==
    ASSUME TypeOK, RowsAreIssued, NEW p \in Personas, NEW id \in NoteIds, WriteNote(p, id)
    PROVE  \E row \in Row, cap \in PinCaps : Written(p, id, row, cap)
<1>1. PICK body \in Bodies, kind \in Kinds, pinned \in BOOLEAN, cap \in PinCaps :
        LET row == NewNote(p, body, kind, pinned, noteSeq + 1)
        IN  /\ id \notin issued
            /\ p \in personas
            /\ MayAdd(notes, p)
            /\ pinned => MayPin(notes, p, cap)
            /\ issued' = issued \cup {id}
            /\ noteSeq' = row.seq
            /\ notes' = [notes EXCEPT ![id] = row]
            /\ noteIndex' = Indexed(noteIndex, row.seq, row.body)
            /\ log' = Appended(log, NoteEvent("note.written", p, id, 1, Never, NoValue))
            /\ UNCHANGED <<now, personas>>
    BY DEF WriteNote
<1> DEFINE row == NewNote(p, body, kind, pinned, noteSeq + 1)
<1>2. /\ row \in Row /\ row.persona = p /\ row.revision = 1 /\ row.seq = noteSeq + 1
      /\ row.body = body /\ row.pinned = pinned
      /\ row.forgotten = FALSE /\ row.purgeAfter = Never
    BY StateTypes DEF NewNote, Row
<1>3. notes \in Table /\ notes[id] = NoNote
    BY <1>1, StateTypes DEF RowsAreIssued, Exists
<1> HIDE DEF row
<1>4. /\ notes' = [notes EXCEPT ![id] = row]
      /\ noteIndex' = Indexed(noteIndex, noteSeq + 1, row.body) /\ noteSeq' = noteSeq + 1
    BY <1>1, <1>2 DEF row
<1>5. notes' \in Table /\ notes'[id] = row /\ Only(id)
    BY <1>2, <1>3, <1>4 DEF Table, Only
<1>6. Written(p, id, row, cap)
    BY <1>1, <1>2, <1>3, <1>4, <1>5 DEF Written
<1> QED
    BY <1>2, <1>6

Revised(p, id, row, cap, kept) ==
    /\ notes[id] \in Row /\ notes[id].persona = p /\ ~notes[id].forgotten
    /\ notes' \in Table /\ notes'[id] = row /\ Only(id)
    /\ row.persona = p /\ row.revision = notes[id].revision + 1 /\ row.seq = notes[id].seq
    /\ row.forgotten = notes[id].forgotten /\ row.purgeAfter = notes[id].purgeAfter
    /\ row.pinned /\ ~notes[id].pinned => MayPin(notes, p, cap)
    /\ noteIndex' = Indexed(Unindexed(noteIndex, {notes[id].seq}), notes[id].seq, row.body)
    /\ log' = Appended(log, NoteEvent("note.revised", p, id, notes[id].revision + 1, Never, kept))
    /\ now' = now /\ personas' = personas /\ noteSeq' = noteSeq /\ issued' = issued

LEMMA ReviseParts ==
    ASSUME TypeOK, NEW p \in Personas, NEW id \in NoteIds, ReviseNote(p, id)
    PROVE  \E row \in Row, cap \in PinCaps, kept \in Bodies \cup {NoValue} :
               Revised(p, id, row, cap, kept)
<1>1. PICK body \in Bodies, kind \in Kinds, pinned \in BOOLEAN, cap \in PinCaps,
           logValues \in BOOLEAN :
        LET old == notes[id]
            row == RevisedNote(old, body, kind, pinned)
        IN  /\ LiveFor(id, p)
            /\ ~NothingChanges(old, body, kind, pinned)
            /\ pinned /\ ~old.pinned => MayPin(notes, p, cap)
            /\ MayRecord
            /\ notes' = [notes EXCEPT ![id] = row]
            /\ noteIndex' = Indexed(Unindexed(noteIndex, {old.seq}), old.seq, row.body)
            /\ log' = Appended(log, NoteEvent("note.revised", p, id, row.revision, Never,
                                              KeptBody(old, body, logValues)))
            /\ UNCHANGED <<now, personas, noteSeq, issued>>
    BY DEF ReviseNote
<1> DEFINE old == notes[id]
           row == RevisedNote(old, body, kind, pinned)
           kept == KeptBody(old, body, logValues)
<1>2. /\ old \in Row /\ old.persona = p /\ ~old.forgotten /\ notes \in Table
      /\ LiveFor(id, p)
    BY <1>1, StateTypes DEF LiveFor, Live, LiveIn
<1>3. /\ row.persona = p /\ row.revision = old.revision + 1 /\ row.seq = old.seq
      /\ row.body = body /\ row.pinned = pinned
      /\ row.forgotten = old.forgotten /\ row.purgeAfter = old.purgeAfter
    BY <1>2 DEF RevisedNote, Row
<1>4. row \in Row
    <2>1. old.revision + 1 \in Nat \ {0}
        BY <1>2 DEF Row
    <2> QED
        BY <1>2, <2>1 DEF RevisedNote, Row
<1>5. kept \in Bodies \cup {NoValue}
    BY <1>2 DEF KeptBody, Row
<1> HIDE DEF row, kept
<1>6. notes' = [notes EXCEPT ![id] = row]
    BY <1>1 DEF row
<1>7. notes' \in Table /\ notes'[id] = row /\ Only(id)
    BY <1>2, <1>4, <1>6 DEF Table, Only
<1>8. /\ noteIndex' = Indexed(Unindexed(noteIndex, {old.seq}), old.seq, row.body)
      /\ log' = Appended(log, NoteEvent("note.revised", p, id, old.revision + 1, Never, kept))
      /\ pinned /\ ~old.pinned => MayPin(notes, p, cap)
      /\ UNCHANGED <<now, personas, noteSeq, issued>>
    BY <1>1, <1>3 DEF row, kept
<1>9. Revised(p, id, row, cap, kept)
    BY <1>2, <1>3, <1>7, <1>8 DEF Revised
<1> QED
    BY <1>4, <1>5, <1>9

Forgot(p, id, due, gone, row) ==
    /\ notes[id] \in Row /\ notes[id].persona = p /\ ~notes[id].forgotten
    /\ gone \in {{}, {id}} /\ due \in Nat \cup {Never}
    /\ due \in {Never} \cup {now + g : g \in GracePeriods}
    /\ notes' \in Table /\ Only(id)
    /\ gone = {id} => notes'[id] = NoNote
    /\ gone = {} => notes'[id] = row
    /\ row.persona = p /\ row.revision = notes[id].revision /\ row.seq = notes[id].seq
    /\ row.pinned = notes[id].pinned /\ row.forgotten = TRUE /\ row.purgeAfter = due
    /\ noteIndex' = DropDocuments(Unindexed(noteIndex, {notes[id].seq}), notes, gone)
    /\ log' = StripValues(Appended(log, NoteEvent("note.forgotten", p, id, 0, due, NoValue)),
                          Subjects(notes, gone), NoteActions)
    /\ now' = now /\ personas' = personas /\ noteSeq' = noteSeq /\ issued' = issued

LEMMA ForgetParts ==
    ASSUME TypeOK, NEW p \in Personas, NEW id \in NoteIds, NEW policy \in Policies,
           ForgetNote(p, id, policy)
    PROVE  \E row, due, gone : row \in Row /\ Forgot(p, id, due, gone, row)
<1> DEFINE due == PurgeAfter(policy, now)
           gone == IF DestroysNow(policy) THEN {id} ELSE {}
           row == ForgottenNote(notes[id], due)
           kept == [notes EXCEPT ![id] = row]
<1>1. /\ notes[id] \in Row /\ notes[id].persona = p /\ ~notes[id].forgotten /\ notes \in Table
    BY StateTypes DEF ForgetNote, LiveFor, Live, LiveIn
<1>2. /\ due \in Nat \cup {Never}
      /\ due \in {Never} \cup {now + g : g \in GracePeriods}
    <2>1. due \in {Never} \cup {now + g : g \in GracePeriods}
        BY DEF PurgeAfter, Policies
    <2> QED
        BY <2>1, PurgeAfterType
<1>3. /\ notes' = Without(kept, gone)
      /\ noteIndex' = DropDocuments(Unindexed(noteIndex, {notes[id].seq}), notes, gone)
      /\ log' = StripValues(Appended(log, NoteEvent("note.forgotten", p, id, 0, due, NoValue)),
                            Subjects(notes, gone), NoteActions)
      /\ UNCHANGED <<now, personas, noteSeq, issued>>
    BY DEF ForgetNote
<1> HIDE DEF due
<1>4. /\ row.persona = p /\ row.revision = notes[id].revision /\ row.seq = notes[id].seq
      /\ row.pinned = notes[id].pinned /\ row.forgotten = TRUE /\ row.purgeAfter = due
      /\ row \in Row
    BY <1>1, <1>2 DEF ForgottenNote, Row
<1>5. gone \in {{}, {id}}
    OBVIOUS
<1> HIDE DEF row, gone
<1>6. kept \in Table /\ \A other \in NoteIds : kept[other] = IF other = id THEN row ELSE notes[other]
    BY <1>1, <1>4 DEF Table
<1> HIDE DEF kept
<1>7. /\ notes' \in Table
      /\ \A other \in NoteIds : notes'[other] = IF other \in gone THEN NoNote ELSE kept[other]
    BY <1>3, <1>6, WithoutType, WithoutAt
<1>8. /\ Only(id)
      /\ gone = {id} => notes'[id] = NoNote
      /\ gone = {} => notes'[id] = row
    BY <1>5, <1>6, <1>7 DEF Only
<1>9. Forgot(p, id, due, gone, row)
    BY <1>1, <1>2, <1>3, <1>4, <1>5, <1>7, <1>8 DEF Forgot
<1> QED
    BY <1>4, <1>9

\* The purge and the cascade take rows away and change none.
LEMMA PurgeParts ==
    ASSUME NEW time \in 0..now, PurgeDueNotes(time)
    PROVE  \E batch \in SUBSET NoteIds :
             /\ batch # {} /\ \A id \in batch : Exists(id) /\ DueBy(id, time)
             /\ notes' = Without(notes, batch)
             /\ noteIndex' = DropDocuments(noteIndex, notes, batch)
             /\ log' = StripValues(log, Subjects(notes, batch), NoteActions)
             /\ UNCHANGED <<now, personas, noteSeq, issued>>
<1>1. PICK batch \in NoteBatches(time) :
             /\ notes' = Without(notes, batch)
             /\ noteIndex' = DropDocuments(noteIndex, notes, batch)
             /\ log' = StripValues(log, Subjects(notes, batch), NoteActions)
             /\ UNCHANGED <<now, personas, noteSeq, issued>>
    BY DEF PurgeDueNotes
<1>2. batch \in SUBSET NoteIds /\ batch # {} /\ \A id \in batch : Exists(id) /\ DueBy(id, time)
    BY DEF NoteBatches, DueNotes, DueBy
<1> QED
    BY <1>1, <1>2

LEMMA DropParts ==
    ASSUME NEW p \in Personas, DropNotesOf(p), NEW id \in NoteIds
    PROVE  notes'[id] = IF Exists(id) /\ notes[id].persona = p THEN NoNote ELSE notes[id]
BY WithoutAt DEF DropNotesOf, NotesOf

-----------------------------------------------------------------------------
(* Every variable keeps its type, and no row is under an id not issued.      *)

TypeInv == TypeOK /\ RowsAreIssued

LEMMA InitType == Init => TypeInv
<1> SUFFICES ASSUME Init PROVE TypeInv
    OBVIOUS
<1>1. RowsAreIssued
    BY DEF Init, NoteInit, RowsAreIssued, Exists
<1>2. EmptyLog \in Log /\ EmptyIndex \in Index
    BY DEF EmptyLog, EmptyIndex, Log, Index
<1> QED
    BY <1>1, <1>2 DEF Init, StoreInit, NoteInit, TypeOK, TypeInv, Log, Index

LEMMA EventType ==
    ASSUME NEW action \in NoteActions, NEW p \in Personas, NEW id \in NoteIds,
           NEW revision \in Nat, NEW due \in Nat \cup {Never},
           NEW old \in Bodies \cup {NoValue}
    PROVE  NoteEvent(action, p, id, revision, due, old) \in Body
BY DEF NoteEvent, Event, Body, EventsOf, Actions, AllSubjects, Kept

\* The lemmas about logs, for this store's.
LEMMA LogTypes ==
    ASSUME NEW lg \in Log
    PROVE  /\ \A ev \in Body : Appended(lg, ev) \in Log
           /\ \A targets, actions : StripValues(lg, targets, actions) \in Log
           /\ \A p : StripPersonaValues(lg, p) \in Log
<1>1. \A ev \in Body : Appended(lg, ev) \in Log
    BY Instances, AppendKeepsType DEF Body
<1>2. \A targets, actions : StripValues(lg, targets, actions) \in Log
    BY Instances, StripKeepsType
<1>3. \A p : StripPersonaValues(lg, p) \in Log
    BY Instances, StripPersonaKeepsType
<1> QED
    BY <1>1, <1>2, <1>3

LEMMA IndexTypes ==
    ASSUME NEW ix \in Index
    PROVE  /\ \A docid \in Nat, body \in Bodies : Indexed(ix, docid, body) \in Index
           /\ \A docids : Unindexed(ix, docids) \in Index
           /\ Optimized(ix) \in Index
<1>1. \A docid \in Nat, body \in Bodies : Indexed(ix, docid, body) \in Index
    BY Instances, IndexedKeepsType
<1>2. \A docids : Unindexed(ix, docids) \in Index
    BY Instances, UnindexedKeepsType
<1>3. Optimized(ix) \in Index
    BY Instances, OptimizedKeepsType
<1> QED
    BY <1>1, <1>2, <1>3

\* A transaction of the field store leaves a log of the same type.
LEMMA FieldEventType == \A e \in FieldEvents : e \in Body /\ e.action \in FieldActions
<1> SUFFICES ASSUME NEW e \in FieldEvents
             PROVE  e \in Body /\ e.action \in FieldActions
    OBVIOUS
<1>1. e \in [action : FieldActions, persona : Personas, subject : FieldSubjects,
              revision : Nat, due : Nat \cup {Never}, oldValue : FieldValues]
    BY NoteAssumption
<1> QED
    BY <1>1 DEF Body, EventsOf, Actions, AllSubjects, Kept

LEMMA OtherType ==
    ASSUME log \in Log, OtherTransaction(FieldEvents, FieldActions)
    PROVE  log' \in Log
<1>1. ASSUME NEW gone, log' = StripValues(log, gone, FieldActions)
      PROVE  log' \in Log
    BY <1>1, LogTypes
<1>2. ASSUME NEW e \in FieldEvents, NEW gone,
             \/ log' = Appended(StripValues(log, gone, FieldActions), e)
             \/ log' = StripValues(Appended(log, e), gone, FieldActions)
      PROVE  log' \in Log
    BY <1>2, FieldEventType, LogTypes
<1> QED
    BY <1>1, <1>2 DEF OtherTransaction

LEMMA NextType == TypeInv /\ [Next]_vars => TypeInv'
<1> SUFFICES ASSUME TypeInv, [Next]_vars
             PROVE  TypeInv'
    OBVIOUS
<1>0. /\ log \in Log /\ noteIndex \in Index /\ notes \in Table /\ noteSeq \in Nat
      /\ now \in Nat /\ personas \subseteq Personas /\ issued \subseteq NoteIds
      /\ TypeOK /\ RowsAreIssued /\ NoNote \notin Row
    BY StateTypes DEF TypeInv
\* What is to be shown, in the terms of the lemmas.
<1>a. ASSUME log' \in Log, noteIndex' \in Index, notes' \in Table, noteSeq' \in Nat,
             now' \in Nat, personas' \subseteq Personas, issued' \subseteq NoteIds,
             \A id \in NoteIds : notes'[id] # NoNote => id \in issued'
      PROVE  TypeInv'
    BY <1>a DEF TypeInv, TypeOK, RowsAreIssued, Exists, Log, Index, Table
<1>1. ASSUME NEW p \in Personas, NEW id \in NoteIds, WriteNote(p, id)
      PROVE  TypeInv'
    <2>1. PICK row \in Row, cap \in PinCaps : Written(p, id, row, cap)
        BY <1>0, <1>1, WriteParts
    <2>2. noteIndex' \in Index
        <3>1. row.body \in Bodies /\ noteSeq + 1 \in Nat
            BY <1>0 DEF Row
        <3> QED
            BY <1>0, <2>1, <3>1, IndexTypes DEF Written
    <2>3. log' \in Log
        <3>1. NoteEvent("note.written", p, id, 1, Never, NoValue) \in Body
            BY EventType DEF NoteActions
        <3> QED
            BY <1>0, <2>1, <3>1, LogTypes DEF Written
    <2>4. \A other \in NoteIds : notes'[other] # NoNote => other \in issued'
        BY <1>0, <2>1 DEF Written, Only, RowsAreIssued, Exists
    <2>5. /\ notes' \in Table /\ noteSeq' \in Nat /\ now' \in Nat /\ personas' \subseteq Personas
          /\ issued' \subseteq NoteIds
        BY <1>0, <2>1 DEF Written
    <2> QED
        BY <1>a, <2>2, <2>3, <2>4, <2>5
<1>2. ASSUME NEW p \in Personas, NEW id \in NoteIds, ReviseNote(p, id)
      PROVE  TypeInv'
    <2>1. PICK row \in Row, cap \in PinCaps, kept \in Bodies \cup {NoValue} :
                Revised(p, id, row, cap, kept)
        BY <1>0, <1>2, ReviseParts
    <2>2. notes[id] \in Row /\ notes[id].seq \in Nat /\ notes[id].revision + 1 \in Nat
          /\ row.body \in Bodies
        BY <2>1 DEF Revised, Row
    <2>3. noteIndex' \in Index
        <3>1. Unindexed(noteIndex, {notes[id].seq}) \in Index
            BY <1>0, IndexTypes
        <3> QED
            BY <2>1, <2>2, <3>1, IndexTypes DEF Revised
    <2>4. log' \in Log
        <3>1. NoteEvent("note.revised", p, id, notes[id].revision + 1, Never, kept) \in Body
            BY <2>2, EventType DEF NoteActions
        <3> QED
            BY <1>0, <2>1, <3>1, LogTypes DEF Revised
    <2>5. \A other \in NoteIds : notes'[other] # NoNote => other \in issued'
        BY <1>0, <2>1 DEF Revised, Only, RowsAreIssued, Exists
    <2> QED
        BY <1>a, <1>0, <2>1, <2>3, <2>4, <2>5 DEF Revised
<1>3. ASSUME NEW p \in Personas, NEW id \in NoteIds, NEW policy \in Policies,
             ForgetNote(p, id, policy)
      PROVE  TypeInv'
    <2>1. PICK row, due, gone : row \in Row /\ Forgot(p, id, due, gone, row)
        BY <1>0, <1>3, ForgetParts
    <2>2. noteIndex' \in Index
        <3>1. Unindexed(noteIndex, {notes[id].seq}) \in Index
            BY <1>0, IndexTypes
        <3> QED
            BY <2>1, <3>1, DropDocumentsType DEF Forgot
    <2>3. log' \in Log
        <3>1. NoteEvent("note.forgotten", p, id, 0, due, NoValue) \in Body
            BY <2>1, EventType DEF NoteActions, Forgot
        <3>2. Appended(log, NoteEvent("note.forgotten", p, id, 0, due, NoValue)) \in Log
            BY <1>0, <3>1, LogTypes
        <3> QED
            BY <2>1, <3>2, LogTypes DEF Forgot
    <2>4. \A other \in NoteIds : notes'[other] # NoNote => other \in issued'
        BY <1>0, <2>1 DEF Forgot, Only, RowsAreIssued, Exists
    <2> QED
        BY <1>a, <1>0, <2>1, <2>2, <2>3, <2>4 DEF Forgot
<1>4. ASSUME NEW time \in 0..now, PurgeDueNotes(time)
      PROVE  TypeInv'
    <2>1. PICK batch \in SUBSET NoteIds :
             /\ notes' = Without(notes, batch)
             /\ noteIndex' = DropDocuments(noteIndex, notes, batch)
             /\ log' = StripValues(log, Subjects(notes, batch), NoteActions)
             /\ UNCHANGED <<now, personas, noteSeq, issued>>
        BY <1>4, PurgeParts
    <2>2. \A id \in NoteIds : notes'[id] # NoNote => notes'[id] = notes[id]
        BY <2>1, WithoutAt
    <2>3. /\ log' \in Log /\ noteIndex' \in Index /\ notes' \in Table
        BY <1>0, <2>1, LogTypes, DropDocumentsType, WithoutType
    <2>4. \A id \in NoteIds : notes'[id] # NoNote => id \in issued'
        BY <1>0, <2>1, <2>2 DEF RowsAreIssued, Exists
    <2> QED
        BY <1>a, <1>0, <2>1, <2>3, <2>4
<1>5. ASSUME NEW p \in Personas, DropPersona(p), DropNotesOf(p)
      PROVE  TypeInv'
    <2>1. \A id \in NoteIds : notes'[id] # NoNote => notes'[id] = notes[id]
        BY <1>5, DropParts
    <2>2. log' \in Log /\ noteIndex' \in Index /\ notes' \in Table
        <3>1. Unindexed(noteIndex, DocidsOf(notes, NotesOf(p))) \in Index
            BY <1>0, IndexTypes
        <3> QED
            BY <1>0, <1>5, <3>1, LogTypes, IndexTypes, WithoutType DEF DropNotesOf, DropPersona
    <2>3. /\ personas' \subseteq Personas /\ now' \in Nat /\ noteSeq' \in Nat /\ issued' = issued
        BY <1>0, <1>5 DEF DropNotesOf, DropPersona
    <2>4. \A id \in NoteIds : notes'[id] # NoNote => id \in issued'
        BY <1>0, <2>1, <2>3 DEF RowsAreIssued, Exists
    <2> QED
        BY <1>a, <1>0, <2>2, <2>3, <2>4
<1>6. CASE Elsewhere /\ UNCHANGED noteVars
    <2>1. log' \in Log
        <3>1. ASSUME NEW p \in Personas, NEW a \in PersonaActions, RecordPersonaEvent(p, a)
              PROVE  log' \in Log
            <4>1. Event(a, p, p, 0, Never, NoValue) \in Body
                BY DEF Event, Body, EventsOf, Actions, AllSubjects, Kept
            <4> QED
                BY <1>0, <3>1, <4>1, LogTypes DEF RecordPersonaEvent
        <3> QED
            BY <1>0, <1>6, <3>1, OtherType DEF Elsewhere, Tick, AddPersona
    <2>2. personas' \subseteq Personas /\ now' \in Nat
        BY <1>0, <1>6 DEF Elsewhere, Tick, AddPersona, RecordPersonaEvent, OtherTransaction
    <2>3. UNCHANGED <<notes, noteSeq, noteIndex, issued>>
        BY <1>6 DEF noteVars
    <2>4. \A id \in NoteIds : notes'[id] # NoNote => id \in issued'
        BY <1>0, <2>3 DEF RowsAreIssued, Exists
    <2> QED
        BY <1>a, <1>0, <2>1, <2>2, <2>3, <2>4
<1>7. CASE UNCHANGED vars
    BY <1>7 DEF vars, storeVars, noteVars, TypeInv, TypeOK, RowsAreIssued, Exists
<1> QED
    BY <1>1, <1>2, <1>3, <1>4, <1>5, <1>6, <1>7 DEF Next, NoteOperation

\* Type correctness of the note store.
THEOREM TypeCorrect == Spec => []TypeOK
<1>1. Spec => []TypeInv
    BY InitType, NextType, PTL DEF Spec
<1> QED
    BY <1>1, PTL DEF TypeInv

-----------------------------------------------------------------------------
(* The invariants of the table.  As for fields, only forgotten rows have a   *)
(* date, so a purge takes no document.                                       *)

DocidsAreUnique ==
    \A id, other \in NoteIds : Exists(id) /\ Exists(other) =>
        /\ notes[id].seq <= noteSeq
        /\ notes[id].seq = notes[other].seq => id = other

ScheduledIsForgotten ==
    \A id \in NoteIds : Exists(id) /\ notes[id].purgeAfter # Never => notes[id].forgotten

TableInv == TypeInv /\ DocidsAreUnique /\ ScheduledIsForgotten

LEMMA InitTable == Init => TableInv
BY InitType DEF Init, NoteInit, TableInv, DocidsAreUnique, ScheduledIsForgotten, Exists

LEMMA TableTypes ==
    ASSUME TableInv
    PROVE  /\ TypeOK /\ RowsAreIssued /\ DocidsAreUnique /\ ScheduledIsForgotten
           /\ log \in Log /\ noteIndex \in Index /\ notes \in Table /\ noteSeq \in Nat
           /\ now \in Nat /\ NoNote \notin Row
           /\ \A id \in NoteIds : notes[id] # NoNote => notes[id] \in Row
BY StateTypes DEF TableInv, TypeInv

LEMMA NextTable == TableInv /\ [Next]_vars => TableInv'
<1> SUFFICES ASSUME TableInv, [Next]_vars
             PROVE  (DocidsAreUnique /\ ScheduledIsForgotten)'
    BY NextType DEF TableInv
<1>0. /\ notes \in Table /\ noteSeq \in Nat /\ TypeOK /\ RowsAreIssued
      /\ DocidsAreUnique /\ ScheduledIsForgotten /\ NoNote \notin Row
      /\ \A id \in NoteIds : notes[id] # NoNote => notes[id] \in Row /\ notes[id].seq \in Nat
    BY TableTypes DEF Row
<1>1. ASSUME NEW p \in Personas, NEW id \in NoteIds, WriteNote(p, id)
      PROVE  (DocidsAreUnique /\ ScheduledIsForgotten)'
    <2>1. PICK row \in Row, cap \in PinCaps : Written(p, id, row, cap)
        BY <1>0, <1>1, WriteParts
    <2> QED
        BY <1>0, <2>1 DEF Written, Only, DocidsAreUnique, ScheduledIsForgotten, Exists
<1>2. ASSUME NEW p \in Personas, NEW id \in NoteIds, ReviseNote(p, id)
      PROVE  (DocidsAreUnique /\ ScheduledIsForgotten)'
    <2>1. PICK row \in Row, cap \in PinCaps, kept \in Bodies \cup {NoValue} :
                Revised(p, id, row, cap, kept)
        BY <1>0, <1>2, ReviseParts
    <2> QED
        BY <1>0, <2>1 DEF Revised, Only, DocidsAreUnique, ScheduledIsForgotten, Exists
<1>3. ASSUME NEW p \in Personas, NEW id \in NoteIds, NEW policy \in Policies,
             ForgetNote(p, id, policy)
      PROVE  (DocidsAreUnique /\ ScheduledIsForgotten)'
    <2>1. PICK row, due, gone : row \in Row /\ Forgot(p, id, due, gone, row)
        BY <1>0, <1>3, ForgetParts
    <2> QED
        BY <1>0, <2>1 DEF Forgot, Only, DocidsAreUnique, ScheduledIsForgotten, Exists
<1>4. CASE /\ \A id \in NoteIds : notes'[id] \in {NoNote, notes[id]}
           /\ noteSeq' = noteSeq
    BY <1>0, <1>4 DEF DocidsAreUnique, ScheduledIsForgotten, Exists
<1>5. ASSUME NEW time \in 0..now, PurgeDueNotes(time)
      PROVE  (DocidsAreUnique /\ ScheduledIsForgotten)'
    BY <1>4, <1>5, PurgeParts, WithoutAt
<1>6. ASSUME NEW p \in Personas, DropPersona(p), DropNotesOf(p)
      PROVE  (DocidsAreUnique /\ ScheduledIsForgotten)'
    BY <1>4, <1>6, DropParts DEF DropNotesOf
<1>7. CASE UNCHANGED noteVars
    BY <1>4, <1>7 DEF noteVars
<1> QED
    BY <1>1, <1>2, <1>3, <1>5, <1>6, <1>7 DEF Next, NoteOperation, Elsewhere, vars

-----------------------------------------------------------------------------
(* The search index. *)

LEMMA UnindexedParts ==
    ASSUME NEW ix \in Index, NEW docids
    PROVE  /\ Unindexed(ix, docids) \in Index
           /\ Unindexed(ix, docids).entries = {d \in ix.entries : d.docid \notin docids}
           /\ Unindexed(ix, docids).words = ix.words
BY IndexTypes DEF Unindexed, Index

LEMMA OptimizedParts ==
    ASSUME NEW ix \in Index
    PROVE  /\ Optimized(ix).entries = ix.entries
           /\ Optimized(ix).words = {d.docid : d \in ix.entries}
BY DEF Optimized, Index

LEMMA DropDocumentsParts ==
    ASSUME NEW ix \in Index, NEW table, NEW gone
    PROVE  /\ DropDocuments(ix, table, gone).entries =
                  {d \in ix.entries : d.docid \notin DocidsOf(table, gone)}
           /\ gone = {} => DropDocuments(ix, table, gone).words = ix.words
           /\ gone # {} => \A x \in DropDocuments(ix, table, gone).words :
                              \E d \in DropDocuments(ix, table, gone).entries : x = d.docid
<1>1. CASE gone = {}
    BY <1>1 DEF DropDocuments, DocidsOf
<1>2. CASE gone # {}
    BY <1>2, UnindexedParts, OptimizedParts DEF DropDocuments
<1> QED
    BY <1>1, <1>2

DocumentOf(id) == [docid |-> notes[id].seq, text |-> notes[id].body]

EntriesAgree ==
    \A d : d \in noteIndex.entries <=> \E id \in NoteIds : Live(id) /\ d = DocumentOf(id)

WordsAgree ==
    \A docid \in noteIndex.words : \E id \in NoteIds : Exists(id) /\ notes[id].seq = docid

LEMMA IndexPointwise == IndexAgrees <=> EntriesAgree /\ WordsAgree
BY DEF IndexAgrees, EntriesAgree, WordsAgree, DocumentOf

LEMMA InitIndex == Init => IndexAgrees
BY DEF Init, NoteInit, EmptyIndex, IndexAgrees, Live, LiveIn

\* What is left in an index just rewritten are the documents, and those are rows.
LEMMA RewrittenWords ==
    ASSUME EntriesAgree', \A x \in noteIndex'.words : \E d \in noteIndex'.entries : x = d.docid
    PROVE  WordsAgree'
<1> SUFFICES ASSUME NEW docid \in noteIndex'.words
             PROVE  \E id \in NoteIds : Exists(id)' /\ notes'[id].seq = docid
    BY DEF WordsAgree
<1>1. PICK d \in noteIndex'.entries : docid = d.docid
    OBVIOUS
<1>2. PICK id \in NoteIds : Live(id)' /\ d = DocumentOf(id)'
    BY DEF EntriesAgree
<1> QED
    BY <1>1, <1>2 DEF DocumentOf, Live, LiveIn, Exists

LEMMA OthersUnchanged ==
    ASSUME NEW id \in NoteIds, Only(id), NEW other \in NoteIds, other # id
    PROVE  /\ Live(other)' <=> Live(other)
           /\ Exists(other)' <=> Exists(other)
           /\ notes'[other] = notes[other]
           /\ DocumentOf(other)' = DocumentOf(other)
BY DEF Only, Live, LiveIn, Exists, DocumentOf

LEMMA WriteIndex ==
    ASSUME TableInv, IndexAgrees, NEW p \in Personas, NEW id \in NoteIds, WriteNote(p, id)
    PROVE  IndexAgrees'
<1>0. /\ TypeOK /\ RowsAreIssued /\ NoNote \notin Row
    BY TableTypes
<1>1. PICK row \in Row, cap \in PinCaps : Written(p, id, row, cap)
    BY <1>0, WriteParts
<1>2. /\ notes[id] = NoNote /\ notes'[id] = row /\ Only(id)
      /\ row.seq = noteSeq + 1 /\ ~row.forgotten
      /\ noteIndex' = Indexed(noteIndex, row.seq, row.body)
    BY <1>1 DEF Written
<1> DEFINE new == [docid |-> row.seq, text |-> row.body]
<1>3. /\ noteIndex'.entries = noteIndex.entries \cup {new}
      /\ noteIndex'.words = noteIndex.words \cup {row.seq}
    BY <1>2 DEF Indexed
<1>4. ~Live(id) /\ Live(id)' /\ DocumentOf(id)' = new /\ Exists(id)' /\ ~Exists(id)
    BY <1>0, <1>2 DEF Live, LiveIn, DocumentOf, Exists
<1> HIDE DEF new
<1>5. EntriesAgree /\ WordsAgree
    BY IndexPointwise
<1>6. EntriesAgree'
    BY <1>2, <1>3, <1>4, <1>5, OthersUnchanged DEF EntriesAgree
<1>7. WordsAgree'
    BY <1>2, <1>3, <1>4, <1>5, OthersUnchanged DEF WordsAgree
<1>8. (EntriesAgree /\ WordsAgree)' => IndexAgrees'
    BY DEF IndexAgrees, EntriesAgree, WordsAgree, DocumentOf
<1> QED
    BY <1>6, <1>7, <1>8

LEMMA ReviseIndex ==
    ASSUME TableInv, IndexAgrees, NEW p \in Personas, NEW id \in NoteIds, ReviseNote(p, id)
    PROVE  IndexAgrees'
<1>0. /\ TypeOK /\ RowsAreIssued /\ NoNote \notin Row /\ noteIndex \in Index /\ DocidsAreUnique
    BY TableTypes
<1>1. PICK row \in Row, cap \in PinCaps, kept \in Bodies \cup {NoValue} :
            Revised(p, id, row, cap, kept)
    BY <1>0, ReviseParts
<1> DEFINE docid == notes[id].seq
           new == [docid |-> docid, text |-> row.body]
<1>2. /\ notes[id] \in Row /\ ~notes[id].forgotten /\ notes'[id] = row /\ Only(id)
      /\ row.seq = docid /\ ~row.forgotten
      /\ noteIndex' = Indexed(Unindexed(noteIndex, {docid}), docid, row.body)
    BY <1>1 DEF Revised
<1>3. /\ noteIndex'.entries = {d \in noteIndex.entries : d.docid \notin {docid}} \cup {new}
      /\ noteIndex'.words = noteIndex.words \cup {docid}
    BY <1>0, <1>2, UnindexedParts DEF Indexed
<1>4. Live(id)' /\ DocumentOf(id)' = new /\ Exists(id)' /\ Exists(id)
    BY <1>0, <1>2 DEF Live, LiveIn, DocumentOf, Exists
<1>5. \A other \in NoteIds : Live(other) => (DocumentOf(other).docid = docid <=> other = id)
    BY <1>0, <1>4 DEF DocidsAreUnique, DocumentOf, Live, LiveIn, Exists
<1>6. notes'[id].seq = docid
    BY <1>2
<1> HIDE DEF new, docid
<1>7. EntriesAgree /\ WordsAgree
    BY IndexPointwise
<1>8. EntriesAgree'
    <2>1. \A d : d \in noteIndex'.entries <=> (d \in noteIndex.entries /\ d.docid # docid) \/ d = new
        BY <1>3
    <2>2. \A other \in NoteIds : other # id =>
              (Live(other)' <=> Live(other)) /\ DocumentOf(other)' = DocumentOf(other)
        BY <1>2, OthersUnchanged
    <2> QED
        BY <1>4, <1>5, <1>7, <2>1, <2>2 DEF EntriesAgree
<1>9. WordsAgree'
    <2>1. \A other \in NoteIds : Exists(other) => Exists(other)' /\ notes'[other].seq = notes[other].seq
        BY <1>2, <1>4, <1>6, OthersUnchanged DEF docid
    <2>2. noteIndex'.words = noteIndex.words \cup {docid}
        BY <1>3
    <2> QED
        BY <1>4, <1>6, <1>7, <2>1, <2>2 DEF WordsAgree
<1>10. (EntriesAgree /\ WordsAgree)' => IndexAgrees'
    BY DEF IndexAgrees, EntriesAgree, WordsAgree, DocumentOf
<1> QED
    BY <1>8, <1>9, <1>10

LEMMA ForgetIndex ==
    ASSUME TableInv, IndexAgrees, NEW p \in Personas, NEW id \in NoteIds, NEW policy \in Policies,
           ForgetNote(p, id, policy)
    PROVE  IndexAgrees'
<1>0. /\ TypeOK /\ RowsAreIssued /\ NoNote \notin Row /\ noteIndex \in Index /\ DocidsAreUnique
    BY TableTypes
<1>1. PICK row, due, gone : row \in Row /\ Forgot(p, id, due, gone, row)
    BY <1>0, ForgetParts
<1> DEFINE docid == notes[id].seq
           cut == Unindexed(noteIndex, {docid})
<1>2. /\ notes[id] \in Row /\ Only(id) /\ gone \in {{}, {id}}
      /\ gone = {id} => notes'[id] = NoNote
      /\ gone = {} => notes'[id] = row
      /\ row.seq = docid /\ row.forgotten
      /\ noteIndex' = DropDocuments(cut, notes, gone)
    BY <1>1 DEF Forgot
<1>3. /\ cut \in Index
      /\ cut.entries = {d \in noteIndex.entries : d.docid \notin {docid}}
      /\ cut.words = noteIndex.words
    BY <1>0, UnindexedParts
<1>4. DocidsOf(notes, gone) \subseteq {docid}
    BY <1>2 DEF DocidsOf
<1> HIDE DEF cut
<1>5. /\ noteIndex'.entries = {d \in noteIndex.entries : d.docid \notin {docid}}
      /\ gone = {} => noteIndex'.words = noteIndex.words
      /\ gone # {} => \A x \in noteIndex'.words : \E d \in noteIndex'.entries : x = d.docid
    BY <1>2, <1>3, <1>4, DropDocumentsParts
<1>6. ~Live(id)' /\ Exists(id) /\ (gone = {} => Exists(id)' /\ notes'[id].seq = docid)
    BY <1>0, <1>1, <1>2 DEF Live, LiveIn, Exists
<1>7. \A other \in NoteIds : Live(other) => (DocumentOf(other).docid = docid <=> other = id)
    BY <1>0, <1>6 DEF DocidsAreUnique, DocumentOf, Live, LiveIn, Exists
<1>8. EntriesAgree /\ WordsAgree
    BY IndexPointwise
<1>9. EntriesAgree'
    <2> HIDE DEF docid
    <2> QED
        BY <1>2, <1>5, <1>6, <1>7, <1>8, OthersUnchanged DEF EntriesAgree
<1>10. WordsAgree'
    <2>1. CASE gone = {}
        <3>1. \A other \in NoteIds : Exists(other) => Exists(other)' /\ notes'[other].seq = notes[other].seq
            BY <1>2, <1>6, <2>1, OthersUnchanged
        <3> QED
            BY <1>5, <1>8, <2>1, <3>1 DEF WordsAgree
    <2>2. CASE gone # {}
        BY <1>5, <1>9, <2>2, RewrittenWords
    <2> QED
        BY <2>1, <2>2
<1>11. (EntriesAgree /\ WordsAgree)' => IndexAgrees'
    BY DEF IndexAgrees, EntriesAgree, WordsAgree, DocumentOf
<1> QED
    BY <1>9, <1>10, <1>11

\* A step that destroys the rows in "gone", and takes their documents.
LEMMA DestroyIndex ==
    ASSUME TableInv, IndexAgrees, NEW gone \in SUBSET NoteIds,
           \A id \in NoteIds : notes'[id] = IF id \in gone THEN NoNote ELSE notes[id],
           noteIndex'.entries = {d \in noteIndex.entries : d.docid \notin DocidsOf(notes, gone)},
           \A x \in noteIndex'.words : \E d \in noteIndex'.entries : x = d.docid
    PROVE  IndexAgrees'
<1>0. DocidsAreUnique
    BY TableTypes
<1>1. \A id \in NoteIds : /\ Live(id)' <=> Live(id) /\ id \notin gone
                          /\ Live(id)' => DocumentOf(id)' = DocumentOf(id)
    BY DEF Live, LiveIn, DocumentOf
<1>2. \A id \in NoteIds : Live(id) => (DocumentOf(id).docid \in DocidsOf(notes, gone) <=> id \in gone)
    BY <1>0 DEF DocidsAreUnique, DocidsOf, DocumentOf, Live, LiveIn, Exists
<1>3. EntriesAgree'
    BY <1>1, <1>2, IndexPointwise DEF EntriesAgree
<1>4. WordsAgree'
    BY <1>3, RewrittenWords
<1>5. (EntriesAgree /\ WordsAgree)' => IndexAgrees'
    BY DEF IndexAgrees, EntriesAgree, WordsAgree, DocumentOf
<1> QED
    BY <1>3, <1>4, <1>5

LEMMA NextIndex == TableInv /\ IndexAgrees /\ [Next]_vars => IndexAgrees'
<1> SUFFICES ASSUME TableInv, IndexAgrees, [Next]_vars
             PROVE  IndexAgrees'
    OBVIOUS
<1>0. noteIndex \in Index
    BY TableTypes
<1>1. ASSUME NEW p \in Personas, NEW id \in NoteIds,
             \/ WriteNote(p, id) \/ ReviseNote(p, id)
             \/ \E policy \in Policies : ForgetNote(p, id, policy)
      PROVE  IndexAgrees'
    BY <1>1, WriteIndex, ReviseIndex, ForgetIndex
<1>2. ASSUME NEW time \in 0..now, PurgeDueNotes(time)
      PROVE  IndexAgrees'
    <2>1. PICK batch \in SUBSET NoteIds :
             /\ batch # {} /\ notes' = Without(notes, batch)
             /\ noteIndex' = DropDocuments(noteIndex, notes, batch)
        BY <1>2, PurgeParts
    <2>2. /\ noteIndex'.entries = {d \in noteIndex.entries : d.docid \notin DocidsOf(notes, batch)}
          /\ \A x \in noteIndex'.words : \E d \in noteIndex'.entries : x = d.docid
        BY <1>0, <2>1, DropDocumentsParts
    <2> QED
        BY <2>1, <2>2, WithoutAt, DestroyIndex
<1>3. ASSUME NEW p \in Personas, DropPersona(p), DropNotesOf(p)
      PROVE  IndexAgrees'
    <2> DEFINE cut == Unindexed(noteIndex, DocidsOf(notes, NotesOf(p)))
    <2>1. /\ cut \in Index
          /\ cut.entries = {d \in noteIndex.entries : d.docid \notin DocidsOf(notes, NotesOf(p))}
        BY <1>0, UnindexedParts
    <2>2. /\ notes' = Without(notes, NotesOf(p)) /\ noteIndex' = Optimized(cut)
        BY <1>3 DEF DropNotesOf
    <2> HIDE DEF cut
    <2>3. noteIndex'.entries = cut.entries /\ noteIndex'.words = {d.docid : d \in cut.entries}
        BY <2>1, <2>2, OptimizedParts
    <2>4. NotesOf(p) \in SUBSET NoteIds
        BY DEF NotesOf
    <2> QED
        BY <2>1, <2>2, <2>3, <2>4, WithoutAt, DestroyIndex
<1>4. CASE UNCHANGED noteVars
    BY <1>4 DEF noteVars, IndexAgrees, Live, LiveIn, Exists
<1> QED
    BY <1>1, <1>2, <1>3, <1>4 DEF Next, NoteOperation, Elsewhere, vars

\* Recall's index holds exactly the live notes, and the words on disk are those
\* of existing notes, whatever was written, revised, forgotten, purged or deleted.
THEOREM IndexCorrect == Spec => []IndexAgrees
BY InitTable, NextTable, InitIndex, NextIndex, PTL DEF Spec

-----------------------------------------------------------------------------
(* The caps.  A note is never revived, so both counts only grow with a write *)
(* that asks for room first.                                                 *)

CapsInv == \A p \in Personas : /\ IsFiniteSet(LiveOf(notes, p))
                               /\ Cardinality(LiveOf(notes, p)) <= MaxNotes
                               /\ IsFiniteSet(PinnedOf(notes, p))
                               /\ Cardinality(PinnedOf(notes, p)) <= MaxPinned

LEMMA InitCaps == Init => CapsInv
<1>1. MaxNotes \in Nat /\ MaxPinned \in Nat
    BY NoteAssumption
<1> SUFFICES ASSUME Init, NEW p \in Personas
             PROVE  LiveOf(notes, p) = {} /\ PinnedOf(notes, p) = {}
    BY <1>1, FS_EmptySet DEF CapsInv
<1> QED
    BY DEF Init, NoteInit, LiveOf, PinnedOf, LiveIn

LEMMA NextCaps == TableInv /\ CapsInv /\ [Next]_vars => CapsInv'
<1> SUFFICES ASSUME TableInv, CapsInv, [Next]_vars, NEW q \in Personas
             PROVE  /\ IsFiniteSet(LiveOf(notes', q))
                    /\ Cardinality(LiveOf(notes', q)) <= MaxNotes
                    /\ IsFiniteSet(PinnedOf(notes', q))
                    /\ Cardinality(PinnedOf(notes', q)) <= MaxPinned
    BY DEF CapsInv
<1>0. TypeOK /\ RowsAreIssued /\ NoNote \notin Row /\ MaxNotes \in Nat /\ MaxPinned \in Nat
    BY TableTypes, NoteAssumption
\* The two ways a count may change.
<1>a. ASSUME LiveOf(notes', q) \subseteq LiveOf(notes, q)
      PROVE  IsFiniteSet(LiveOf(notes', q)) /\ Cardinality(LiveOf(notes', q)) <= MaxNotes
    BY <1>0, <1>a, FewerFit DEF CapsInv
<1>b. ASSUME PinnedOf(notes', q) \subseteq PinnedOf(notes, q)
      PROVE  IsFiniteSet(PinnedOf(notes', q)) /\ Cardinality(PinnedOf(notes', q)) <= MaxPinned
    BY <1>0, <1>b, FewerFit DEF CapsInv
<1>c. ASSUME NEW id, LiveOf(notes', q) \subseteq LiveOf(notes, q) \cup {id}, MayAdd(notes, q)
      PROVE  IsFiniteSet(LiveOf(notes', q)) /\ Cardinality(LiveOf(notes', q)) <= MaxNotes
    BY <1>0, <1>c, OneMoreFits DEF CapsInv, MayAdd
<1>d. ASSUME NEW id, NEW cap \in PinCaps, PinnedOf(notes', q) \subseteq PinnedOf(notes, q) \cup {id},
             MayPin(notes, q, cap)
      PROVE  IsFiniteSet(PinnedOf(notes', q)) /\ Cardinality(PinnedOf(notes', q)) <= MaxPinned
    <2>1. cap \in Nat /\ cap <= MaxPinned
        BY NoteAssumption
    <2>2. IsFiniteSet(PinnedOf(notes', q)) /\ Cardinality(PinnedOf(notes', q)) <= cap
        BY <1>d, <2>1, OneMoreFits DEF CapsInv, MayPin
    <2> QED
        BY <1>0, <2>1, <2>2, FS_CardinalityType
<1>1. ASSUME NEW p \in Personas, NEW id \in NoteIds, WriteNote(p, id)
      PROVE  /\ IsFiniteSet(LiveOf(notes', q)) /\ Cardinality(LiveOf(notes', q)) <= MaxNotes
             /\ IsFiniteSet(PinnedOf(notes', q)) /\ Cardinality(PinnedOf(notes', q)) <= MaxPinned
    <2>1. PICK row \in Row, cap \in PinCaps : Written(p, id, row, cap)
        BY <1>0, <1>1, WriteParts
    <2>2. /\ notes'[id] = row /\ row.persona = p /\ MayAdd(notes, p)
          /\ row.pinned => MayPin(notes, p, cap)
          /\ \A other \in NoteIds : other # id => notes'[other] = notes[other]
        BY <2>1 DEF Written, Only
    <2>3. CASE q # p
        <3>1. LiveOf(notes', q) \subseteq LiveOf(notes, q)
            BY <2>2, <2>3 DEF LiveOf, LiveIn
        <3>2. PinnedOf(notes', q) \subseteq PinnedOf(notes, q)
            BY <2>2, <2>3 DEF PinnedOf, LiveOf, LiveIn
        <3> QED
            BY <3>1, <3>2, <1>a, <1>b
    <2>4. CASE q = p
        <3>1. LiveOf(notes', q) \subseteq LiveOf(notes, q) \cup {id}
            BY <2>2 DEF LiveOf, LiveIn
        <3>2. CASE row.pinned
            <4>1. PinnedOf(notes', q) \subseteq PinnedOf(notes, q) \cup {id}
                BY <2>2 DEF PinnedOf, LiveOf, LiveIn
            <4> QED
                BY <2>2, <2>4, <3>1, <3>2, <4>1, <1>c, <1>d
        <3>3. CASE ~row.pinned
            <4>1. PinnedOf(notes', q) \subseteq PinnedOf(notes, q)
                BY <2>2, <3>3 DEF PinnedOf, LiveOf, LiveIn
            <4> QED
                BY <2>2, <2>4, <3>1, <4>1, <1>b, <1>c
        <3> QED
            BY <3>2, <3>3
    <2> QED
        BY <2>3, <2>4
<1>2. ASSUME NEW p \in Personas, NEW id \in NoteIds, ReviseNote(p, id)
      PROVE  /\ IsFiniteSet(LiveOf(notes', q)) /\ Cardinality(LiveOf(notes', q)) <= MaxNotes
             /\ IsFiniteSet(PinnedOf(notes', q)) /\ Cardinality(PinnedOf(notes', q)) <= MaxPinned
    <2>1. PICK row \in Row, cap \in PinCaps, kept \in Bodies \cup {NoValue} :
                Revised(p, id, row, cap, kept)
        BY <1>0, <1>2, ReviseParts
    <2>2. /\ notes[id] \in Row /\ ~notes[id].forgotten /\ notes[id].persona = p
          /\ notes'[id] = row /\ row.persona = p
          /\ row.pinned /\ ~notes[id].pinned => MayPin(notes, p, cap)
          /\ \A other \in NoteIds : other # id => notes'[other] = notes[other]
        BY <2>1 DEF Revised, Only
    <2>3. LiveOf(notes', q) \subseteq LiveOf(notes, q)
        BY <1>0, <2>2 DEF LiveOf, LiveIn
    <2>4. CASE q = p /\ row.pinned /\ ~notes[id].pinned
        <3>1. PinnedOf(notes', q) \subseteq PinnedOf(notes, q) \cup {id}
            BY <2>2 DEF PinnedOf, LiveOf, LiveIn
        <3> QED
            BY <2>2, <2>3, <2>4, <3>1, <1>a, <1>d
    <2>5. CASE ~(q = p /\ row.pinned /\ ~notes[id].pinned)
        <3>1. PinnedOf(notes', q) \subseteq PinnedOf(notes, q)
            BY <1>0, <2>2, <2>5 DEF PinnedOf, LiveOf, LiveIn
        <3> QED
            BY <2>3, <3>1, <1>a, <1>b
    <2> QED
        BY <2>4, <2>5
<1>3. CASE \A id \in NoteIds : LiveIn(notes', id) => notes'[id] = notes[id]
    <2>1. LiveOf(notes', q) \subseteq LiveOf(notes, q)
        BY <1>3 DEF LiveOf, LiveIn
    <2>2. PinnedOf(notes', q) \subseteq PinnedOf(notes, q)
        BY <1>3 DEF PinnedOf, LiveOf, LiveIn
    <2> QED
        BY <2>1, <2>2, <1>a, <1>b
<1>4. ASSUME NEW p \in Personas, NEW id \in NoteIds, NEW policy \in Policies,
             ForgetNote(p, id, policy)
      PROVE  \A other \in NoteIds : LiveIn(notes', other) => notes'[other] = notes[other]
    <2>1. PICK row, due, gone : row \in Row /\ Forgot(p, id, due, gone, row)
        BY <1>0, <1>4, ForgetParts
    <2>2. /\ notes'[id] = NoNote \/ notes'[id].forgotten
          /\ \A other \in NoteIds : other # id => notes'[other] = notes[other]
        BY <2>1 DEF Forgot, Only
    <2> QED
        BY <2>2 DEF LiveIn
<1>5. ASSUME NEW time \in 0..now, PurgeDueNotes(time)
      PROVE  \A other \in NoteIds : LiveIn(notes', other) => notes'[other] = notes[other]
    BY <1>5, PurgeParts, WithoutAt DEF LiveIn
<1>6. ASSUME NEW p \in Personas, DropPersona(p), DropNotesOf(p)
      PROVE  \A other \in NoteIds : LiveIn(notes', other) => notes'[other] = notes[other]
    BY <1>6, DropParts DEF LiveIn
<1>7. CASE UNCHANGED notes
    BY <1>3, <1>7
<1> QED
    BY <1>1, <1>2, <1>3, <1>4, <1>5, <1>6, <1>7
       DEF Next, NoteOperation, Elsewhere, noteVars, vars

\* No persona ever has more live notes than the cap, nor more pinned ones than the
\* deployment's, whatever cap each request brought.
THEOREM NotesCapped == Spec => []NotesWithinCaps
<1>1. Spec => []CapsInv
    BY InitTable, NextTable, InitCaps, NextCaps, PTL DEF Spec
<1>2. CapsInv => NotesWithinCaps
    BY DEF CapsInv, NotesWithinCaps
<1> QED
    BY <1>1, <1>2, PTL

-----------------------------------------------------------------------------
(* The change log: its window, and the values it keeps.  A fresh id has no   *)
(* kept value because a kept value is of a row; a destroyed row's values are *)
(* stripped by the pair that names it in the log.                            *)

\* The lemmas about what becomes of an entry, for this store's log.
LEMMA StripParts ==
    ASSUME NEW lg \in Log, NEW targets, NEW actions
    PROVE  /\ Stripped(StripValues(lg, targets, actions), lg)
           /\ \A e \in StripValues(lg, targets, actions).entries :
                 <<e.persona, e.subject>> \in targets /\ e.action \in actions
                     => e.oldValue = NoValue
BY Instances, StripEntries

LEMMA StripPersonaParts ==
    ASSUME NEW lg \in Log, NEW p
    PROVE  /\ Stripped(StripPersonaValues(lg, p), lg)
           /\ \A e \in StripPersonaValues(lg, p).entries :
                 e.persona = p => e.oldValue = NoValue
BY Instances, StripPersonaEntries

LEMMA AppendedParts ==
    ASSUME NEW lg \in Log, NEW ev \in Body, NEW e \in Appended(lg, ev).entries
    PROVE  e \in lg.entries \/ e = Numbered(lg.last + 1, ev)
<1>1. Appended(lg, ev) \in Log
    BY LogTypes
<1>2. e \in Entry
    BY <1>1 DEF Log
<1>3. \A x \in Entry : x \in Appended(lg, ev).entries =>
          x \in lg.entries \/ x = Numbered(lg.last + 1, ev)
    BY Instances, AppendedEntries DEF Body
<1> QED
    BY <1>2, <1>3

LogWindow == Window(log)

LogInv == LogWindow /\ KeptValuesBelongToRows

Backed(e) ==
    /\ e.action \in NoteActions /\ e.subject \in NoteIds
    /\ Exists(e.subject) /\ notes[e.subject].persona = e.persona
    /\ 1 < e.revision /\ e.revision <= notes[e.subject].revision

LEMMA KeptBacked ==
    KeptValuesBelongToRows <=>
        \A e \in log.entries : e.oldValue # NoValue /\ e.action \notin FieldActions => Backed(e)
BY DEF KeptValuesBelongToRows, Backed

\* The row at id goes on, in the same persona and at no lower revision.
Stays(id) ==
    Exists(id) => /\ Exists(id)' /\ notes'[id].persona = notes[id].persona
                  /\ notes[id].revision \in Nat /\ notes'[id].revision \in Nat
                  /\ notes[id].revision <= notes'[id].revision

\* An entry that was there before, of a row that goes on, is still backed.
LEMMA StillBacked ==
    ASSUME LogInv, log \in Log, NEW e, NEW f \in log.entries, SameEvent(e, f),
           e.oldValue \in {f.oldValue, NoValue}, e.oldValue # NoValue,
           e.action \notin FieldActions, Stays(f.subject)
    PROVE  Backed(e)'
<1>1. Backed(f)
    BY KeptBacked DEF LogInv, SameEvent
<1>2. f.revision \in Nat
    BY DEF Log, Entry
<1> QED
    BY <1>1, <1>2 DEF SameEvent, Stays, Backed

LEMMA InitLog == Init => LogInv
BY EmptyWindow DEF Init, StoreInit, EmptyLog, LogInv, LogWindow, KeptValuesBelongToRows

LEMMA AppendWindow ==
    ASSUME NEW lg \in Log, NEW ev \in Body, Window(lg)
    PROVE  Window(Appended(lg, ev))
BY Instances, AppendKeepsWindow DEF Body

\* A step that only strips, and takes a row away only with the values kept of it.
LEMMA StripLog ==
    ASSUME TableInv, LogInv, Stripped(log', log),
           \A id \in NoteIds : notes'[id] \in {NoNote, notes[id]},
           \A e \in log'.entries, id \in NoteIds :
               /\ e.subject = id /\ e.action \in NoteActions
               /\ Exists(id) /\ notes[id].persona = e.persona /\ notes'[id] = NoNote
               => e.oldValue = NoValue
    PROVE  LogInv'
<1>1. LogWindow'
    BY StripKeepsWindow DEF LogInv, LogWindow
<1>2. ASSUME NEW e \in log'.entries, e.oldValue # NoValue, e.action \notin FieldActions
      PROVE  Backed(e)'
    <2>0. log \in Log
        BY TableTypes
    <2>1. PICK f \in log.entries : SameEvent(e, f) /\ e.oldValue \in {f.oldValue, NoValue}
        BY DEF Stripped
    <2>2. Backed(f)
        BY <1>2, <2>1, KeptBacked DEF LogInv, SameEvent
    <2>3. Exists(f.subject)'
        BY <1>2, <2>1, <2>2 DEF Backed, SameEvent, Exists
    <2>4. Stays(f.subject)
        <3>1. notes[f.subject] \in Row
            BY <2>2, TableTypes DEF Backed, Exists
        <3>2. notes[f.subject].revision \in Nat
            BY <3>1 DEF Row
        <3> QED
            BY <2>2, <2>3, <3>2 DEF Stays, Exists, Backed
    <2> QED
        BY <1>2, <2>0, <2>1, <2>4, StillBacked
<1>3. KeptValuesBelongToRows'
    BY <1>2 DEF KeptValuesBelongToRows, Backed
<1> QED
    BY <1>1, <1>3 DEF LogInv

LEMMA WriteLog ==
    ASSUME TableInv, LogInv, NEW p \in Personas, NEW id \in NoteIds, WriteNote(p, id)
    PROVE  LogInv'
<1>0. /\ TypeOK /\ RowsAreIssued /\ NoNote \notin Row /\ log \in Log
      /\ \A n \in NoteIds : notes[n] # NoNote => notes[n] \in Row
    BY TableTypes
<1>1. PICK row \in Row, cap \in PinCaps : Written(p, id, row, cap)
    BY <1>0, WriteParts
<1> DEFINE ev == NoteEvent("note.written", p, id, 1, Never, NoValue)
<1>2. ev \in Body /\ Numbered(log.last + 1, ev).oldValue = NoValue
    <2>1. ev \in Body
        BY EventType DEF NoteActions
    <2>2. Numbered(log.last + 1, ev).oldValue = NoValue
        BY DEF NoteEvent, Event, Numbered
    <2> QED
        BY <2>1, <2>2
<1> HIDE DEF ev
<1>3. log' = Appended(log, ev) /\ notes[id] = NoNote /\ Only(id)
    BY <1>1 DEF Written, ev
<1>4. LogWindow'
    BY <1>0, <1>2, <1>3, AppendWindow DEF LogInv, LogWindow
<1>5. ASSUME NEW e \in log'.entries, e.oldValue # NoValue, e.action \notin FieldActions
      PROVE  Backed(e)'
    <2>1. e \in log.entries
        BY <1>0, <1>2, <1>3, <1>5, AppendedParts
    <2>2. Backed(e)
        BY <1>5, <2>1, KeptBacked DEF LogInv, SameEvent
    <2>3. notes'[e.subject] = notes[e.subject]
        BY <1>3, <2>2 DEF Only, Backed, Exists
    <2> QED
        BY <2>2, <2>3 DEF Backed, Exists
<1>6. KeptValuesBelongToRows'
    BY <1>5 DEF KeptValuesBelongToRows, Backed
<1> QED
    BY <1>4, <1>6 DEF LogInv

LEMMA ReviseLog ==
    ASSUME TableInv, LogInv, NEW p \in Personas, NEW id \in NoteIds, ReviseNote(p, id)
    PROVE  LogInv'
<1>0. /\ TypeOK /\ RowsAreIssued /\ NoNote \notin Row /\ log \in Log
      /\ \A n \in NoteIds : notes[n] # NoNote => notes[n] \in Row
      /\ Stripped(log, log)
    BY TableTypes, NothingStripped
<1>1. PICK row \in Row, cap \in PinCaps, kept \in Bodies \cup {NoValue} :
            Revised(p, id, row, cap, kept)
    BY <1>0, ReviseParts
<1>2. /\ notes[id] \in Row /\ notes[id].persona = p /\ notes'[id] = row /\ Only(id)
      /\ row.persona = p /\ row.revision = notes[id].revision + 1
      /\ notes[id].revision \in Nat /\ notes[id].revision >= 1
    BY <1>1 DEF Revised, Row
<1> DEFINE ev == NoteEvent("note.revised", p, id, notes[id].revision + 1, Never, kept)
           new == Numbered(log.last + 1, ev)
<1>3. log' = Appended(log, ev)
    BY <1>1 DEF Revised
<1>4. ev \in Body
    <2>1. notes[id].revision + 1 \in Nat
        BY <1>2
    <2> QED
        BY <2>1, EventType DEF NoteActions
<1>5. /\ new.action \in NoteActions /\ new.subject = id /\ new.persona = p
      /\ new.revision = notes[id].revision + 1
    BY DEF Numbered, NoteEvent, Event, NoteActions
<1> HIDE DEF ev
<1>6. LogWindow'
    BY <1>0, <1>3, <1>4, AppendWindow DEF LogInv, LogWindow
<1>7. \A n \in NoteIds : Stays(n)
    <2> SUFFICES ASSUME NEW n \in NoteIds, Exists(n)
                 PROVE  Stays(n)
        BY DEF Stays
    <2>1. CASE n = id
        BY <1>0, <1>2, <2>1 DEF Stays, Exists
    <2>2. CASE n # id
        <3>1. notes'[n] = notes[n] /\ notes[n].revision \in Nat
            BY <1>0, <1>2, <2>2 DEF Only, Exists, Row
        <3> QED
            BY <3>1 DEF Stays, Exists
    <2> QED
        BY <2>1, <2>2
<1>8. ASSUME NEW e \in log'.entries, e.oldValue # NoValue, e.action \notin FieldActions
      PROVE  Backed(e)'
    <2>1. CASE e = new
        <3>1. Exists(id)'
            BY <1>0, <1>2 DEF Exists
        <3> HIDE DEF new
        <3> QED
            BY <1>2, <1>5, <2>1, <3>1 DEF Backed
    <2>2. CASE e # new
        <3>1. e \in log.entries
            BY <1>0, <1>3, <1>4, <2>2, AppendedParts
        <3>2. e.subject \in NoteIds
            BY <1>8, <3>1, KeptBacked DEF LogInv, Backed
        <3>3. SameEvent(e, e)
            BY DEF SameEvent
        <3> QED
            BY <1>0, <1>7, <1>8, <3>1, <3>2, <3>3, StillBacked
    <2> QED
        BY <2>1, <2>2
<1>9. KeptValuesBelongToRows'
    BY <1>8 DEF KeptValuesBelongToRows, Backed
<1> QED
    BY <1>6, <1>9 DEF LogInv

LEMMA ForgetLog ==
    ASSUME TableInv, LogInv, NEW p \in Personas, NEW id \in NoteIds, NEW policy \in Policies,
           ForgetNote(p, id, policy)
    PROVE  LogInv'
<1>0. /\ TypeOK /\ RowsAreIssued /\ NoNote \notin Row /\ log \in Log
      /\ \A n \in NoteIds : notes[n] # NoNote => notes[n] \in Row
    BY TableTypes
<1>1. PICK row, due, gone : row \in Row /\ Forgot(p, id, due, gone, row)
    BY <1>0, ForgetParts
<1>2. /\ notes[id] \in Row /\ notes[id].persona = p /\ Only(id)
      /\ due \in Nat \cup {Never} /\ gone \in {{}, {id}}
      /\ gone = {} => notes'[id] = row
      /\ row.persona = p /\ row.revision = notes[id].revision
      /\ notes[id].revision \in Nat
    BY <1>1 DEF Forgot, Row
<1> DEFINE ev == NoteEvent("note.forgotten", p, id, 0, due, NoValue)
           lg == Appended(log, ev)
<1>3. log' = StripValues(lg, Subjects(notes, gone), NoteActions)
    BY <1>1 DEF Forgot
<1>4. ev \in Body /\ Numbered(log.last + 1, ev).oldValue = NoValue
    <2>1. ev \in Body
        BY <1>2, EventType DEF NoteActions
    <2>2. Numbered(log.last + 1, ev).oldValue = NoValue
        BY DEF NoteEvent, Event, Numbered
    <2> QED
        BY <2>1, <2>2
<1> HIDE DEF ev
<1>5. lg \in Log
    BY <1>0, <1>4, LogTypes
<1>6. /\ Stripped(log', lg)
      /\ \A e \in log'.entries : <<e.persona, e.subject>> \in Subjects(notes, gone)
                                 /\ e.action \in NoteActions => e.oldValue = NoValue
    <2> HIDE DEF lg
    <2> QED
        BY <1>3, <1>5, StripParts
<1>7. LogWindow'
    <2>1. Window(lg)
        BY <1>0, <1>4, AppendWindow DEF LogInv, LogWindow
    <2> HIDE DEF lg
    <2> QED
        BY <1>6, <2>1, StripKeepsWindow DEF LogWindow
<1>8. gone = {id} => <<p, id>> \in Subjects(notes, gone)
    BY <1>0, <1>2 DEF Subjects
<1>9. ASSUME NEW e \in log'.entries, e.oldValue # NoValue, e.action \notin FieldActions
      PROVE  Backed(e)'
    <2>1. PICK f \in lg.entries : SameEvent(e, f) /\ e.oldValue \in {f.oldValue, NoValue}
        BY <1>6 DEF Stripped
    <2>2. f \in log.entries
        BY <1>0, <1>4, <1>9, <2>1, AppendedParts
    <2>3. Backed(f)
        BY <1>9, <2>1, <2>2, KeptBacked DEF LogInv, SameEvent
    <2>4. f.subject = id => gone = {}
        <3>1. f.subject = id => <<e.persona, e.subject>> = <<p, id>> /\ e.action \in NoteActions
            BY <1>2, <2>1, <2>3 DEF SameEvent, Backed
        <3> QED
            BY <1>2, <1>6, <1>8, <1>9, <3>1
    <2>5. Stays(f.subject)
        <3>1. CASE f.subject = id
            BY <1>0, <1>1, <1>2, <2>4, <3>1 DEF Stays, Exists
        <3>2. CASE f.subject # id
            <4>1. notes'[f.subject] = notes[f.subject] /\ notes[f.subject] \in Row
                BY <1>0, <1>2, <2>3, <3>2 DEF Only, Backed, Exists
            <4>2. notes[f.subject].revision \in Nat
                BY <4>1 DEF Row
            <4> QED
                BY <2>3, <4>1, <4>2 DEF Stays, Exists
        <3> QED
            BY <3>1, <3>2
    <2> QED
        BY <1>0, <1>9, <2>1, <2>2, <2>5, StillBacked
<1>10. KeptValuesBelongToRows'
    BY <1>9 DEF KeptValuesBelongToRows, Backed
<1> QED
    BY <1>7, <1>10 DEF LogInv

LEMMA PurgeLog ==
    ASSUME TableInv, LogInv, NEW time \in 0..now, PurgeDueNotes(time)
    PROVE  LogInv'
<1>1. PICK batch \in SUBSET NoteIds :
            notes' = Without(notes, batch) /\ log' = StripValues(log, Subjects(notes, batch), NoteActions)
    BY PurgeParts
<1>2. /\ Stripped(log', log)
      /\ \A e \in log'.entries : <<e.persona, e.subject>> \in Subjects(notes, batch)
                                 /\ e.action \in NoteActions => e.oldValue = NoValue
    BY <1>1, TableTypes, StripParts
<1>3. \A id \in NoteIds : /\ notes'[id] \in {NoNote, notes[id]}
                          /\ Exists(id) /\ notes'[id] = NoNote => id \in batch
    BY <1>1, WithoutAt DEF Exists
<1>4. \A id \in batch : Exists(id) => <<notes[id].persona, id>> \in Subjects(notes, batch)
    BY DEF Subjects, Exists
<1> QED
    BY <1>2, <1>3, <1>4, StripLog

LEMMA DropLog ==
    ASSUME TableInv, LogInv, NEW p \in Personas, DropPersona(p), DropNotesOf(p)
    PROVE  LogInv'
<1>1. /\ Stripped(log', log)
      /\ \A e \in log'.entries : e.persona = p => e.oldValue = NoValue
    BY TableTypes, StripPersonaParts DEF DropPersona
<1>2. \A id \in NoteIds : /\ notes'[id] \in {NoNote, notes[id]}
                          /\ Exists(id) /\ notes'[id] = NoNote => notes[id].persona = p
    BY DropParts DEF Exists
<1> QED
    BY <1>1, <1>2, StripLog

LEMMA RecordLog ==
    ASSUME TableInv, LogInv, NEW p \in Personas, NEW a \in PersonaActions,
           RecordPersonaEvent(p, a), notes' = notes
    PROVE  LogInv'
<1> DEFINE ev == Event(a, p, p, 0, Never, NoValue)
<1>1. ev \in Body /\ Numbered(log.last + 1, ev).oldValue = NoValue
    BY DEF Event, Body, EventsOf, Actions, AllSubjects, Kept, Numbered
<1>2. log' = Appended(log, ev) /\ log \in Log
    BY TableTypes DEF RecordPersonaEvent
<1> HIDE DEF ev
<1>3. LogWindow'
    BY <1>1, <1>2, AppendWindow DEF LogInv, LogWindow
<1>4. \A e \in log'.entries : e.oldValue # NoValue => e \in log.entries
    BY <1>1, <1>2, AppendedParts
<1>5. KeptValuesBelongToRows'
    BY <1>4 DEF LogInv, KeptValuesBelongToRows, Exists
<1> QED
    BY <1>3, <1>5 DEF LogInv

\* What the field store's transactions do to the log, as this store needs it.
LEMMA OtherWritesLog ==
    ASSUME log \in Log, Window(log), OtherTransaction(FieldEvents, FieldActions)
    PROVE  /\ Window(log')
           /\ \/ Stripped(log', log)
              \/ \E e \in FieldEvents : Follows(log', log, Numbered(log.last + 1, e))
           /\ \A e \in log'.entries : e.action \notin FieldActions => \E f \in log.entries :
                 SameEvent(e, f) /\ e.oldValue \in {f.oldValue, NoValue}
<1>1. ASSUME NEW gone, log' = StripValues(log, gone, FieldActions)
      PROVE  Stripped(log', log)
    BY <1>1, StripParts
<1>2. ASSUME Stripped(log', log)
      PROVE  /\ Window(log')
             /\ \A e \in log'.entries : \E f \in log.entries :
                   SameEvent(e, f) /\ e.oldValue \in {f.oldValue, NoValue}
    <2>1. Window(log')
        BY <1>2, StripKeepsWindow
    <2> QED
        BY <1>2, <2>1 DEF Stripped
<1>3. ASSUME NEW e \in FieldEvents, NEW gone,
             \/ log' = Appended(StripValues(log, gone, FieldActions), e)
             \/ log' = StripValues(Appended(log, e), gone, FieldActions)
      PROVE  /\ Window(log') /\ Follows(log', log, Numbered(log.last + 1, e))
             /\ \A x \in log'.entries : x.action \notin FieldActions => \E f \in log.entries :
                   SameEvent(x, f) /\ x.oldValue \in {f.oldValue, NoValue}
    <2>1. e \in EventsOf(Actions, Personas, AllSubjects, Kept) /\ e.action \in FieldActions
        BY FieldEventType DEF Body
    <2> QED
        BY <1>3, <2>1, Instances, OtherWrites
<1> QED
    BY <1>1, <1>2, <1>3 DEF OtherTransaction

LEMMA OtherLog ==
    ASSUME TableInv, LogInv, OtherTransaction(FieldEvents, FieldActions), notes' = notes
    PROVE  LogInv'
<1>0. log \in Log /\ Window(log)
    BY TableTypes DEF LogInv, LogWindow
<1>1. /\ Window(log')
      /\ \A e \in log'.entries : e.action \notin FieldActions => \E f \in log.entries :
            SameEvent(e, f) /\ e.oldValue \in {f.oldValue, NoValue}
    BY <1>0, OtherWritesLog
<1>2. ASSUME NEW e \in log'.entries, e.oldValue # NoValue, e.action \notin FieldActions
      PROVE  Backed(e)'
    <2>1. PICK f \in log.entries : SameEvent(e, f) /\ e.oldValue \in {f.oldValue, NoValue}
        BY <1>1, <1>2
    <2>2. Backed(f)
        BY <1>2, <2>1, KeptBacked DEF LogInv, SameEvent
    <2> QED
        BY <2>1, <2>2 DEF Backed, SameEvent, Exists
<1>3. KeptValuesBelongToRows'
    BY <1>2 DEF KeptValuesBelongToRows, Backed
<1> QED
    BY <1>1, <1>3 DEF LogInv, LogWindow

LEMMA NextLog == TableInv /\ LogInv /\ [Next]_vars => LogInv'
<1> SUFFICES ASSUME TableInv, LogInv, [Next]_vars
             PROVE  LogInv'
    OBVIOUS
<1>1. CASE NoteOperation
    BY <1>1, WriteLog, ReviseLog, ForgetLog, PurgeLog DEF NoteOperation
<1>2. CASE \E p \in Personas : DropPersona(p) /\ DropNotesOf(p)
    BY <1>2, DropLog
<1>3. ASSUME NEW p \in Personas, NEW a \in PersonaActions, RecordPersonaEvent(p, a),
             UNCHANGED noteVars
      PROVE  LogInv'
    BY <1>3, RecordLog DEF noteVars
<1>4. ASSUME OtherTransaction(FieldEvents, FieldActions), UNCHANGED noteVars
      PROVE  LogInv'
    BY <1>4, OtherLog DEF noteVars
<1>5. CASE UNCHANGED <<log, notes>>
    BY <1>5 DEF LogInv, LogWindow, KeptValuesBelongToRows, Exists
<1> QED
    BY <1>1, <1>2, <1>3, <1>4, <1>5 DEF Next, Elsewhere, Tick, AddPersona, noteVars, storeVars, vars

-----------------------------------------------------------------------------
(* The newest event about a note.  As for a field, but an id is one note's   *)
(* for ever, so whose persona an entry names does not matter.                *)

About(e, id) == e.subject = id /\ e.action \in NoteActions

Describes(e, row) ==
    \/ ~row.forgotten /\ e.action # "note.forgotten" /\ e.revision = row.revision
    \/ row.forgotten /\ e.action = "note.forgotten" /\ e.due = row.purgeAfter

Told(entries, id, row) ==
    \A e \in entries : About(e, id) =>
        \/ \E f \in entries : About(f, id) /\ f.sequence > e.sequence
        \/ Describes(e, row)

ToldInv == \A id \in NoteIds : Exists(id) => Told(log.entries, id, notes[id])

LEMMA SameIsSame ==
    ASSUME NEW e, NEW f, SameEvent(e, f), NEW id, NEW row
    PROVE  /\ About(e, id) <=> About(f, id)
           /\ Describes(e, row) <=> Describes(f, row)
           /\ e.sequence = f.sequence
BY DEF SameEvent, About, Describes

\* A strip leaves what is told of every note.
LEMMA StripTells ==
    ASSUME NEW lg1, NEW lg2, NEW id, NEW row, Stripped(lg2, lg1), Told(lg1.entries, id, row)
    PROVE  Told(lg2.entries, id, row)
<1> SUFFICES ASSUME NEW e \in lg2.entries, About(e, id),
                    ~\E f \in lg2.entries : About(f, id) /\ f.sequence > e.sequence
             PROVE  Describes(e, row)
    BY DEF Told
<1>1. PICK f \in lg1.entries : SameEvent(e, f)
    BY DEF Stripped
<1>2. About(f, id) /\ e.sequence = f.sequence
    BY <1>1, SameIsSame
<1>3. ~\E g \in lg1.entries : About(g, id) /\ g.sequence > f.sequence
    <2> SUFFICES ASSUME NEW g \in lg1.entries, About(g, id), g.sequence > f.sequence
                 PROVE  FALSE
        OBVIOUS
    <2>1. PICK h \in lg2.entries : SameEvent(h, g)
        BY DEF Stripped
    <2>2. About(h, id) /\ h.sequence = g.sequence
        BY <2>1, SameIsSame
    <2> QED
        BY <1>2, <2>2
<1> QED
    BY <1>1, <1>2, <1>3, SameIsSame DEF Told

\* An event about something else leaves what is told of this note.
LEMMA OthersTell ==
    ASSUME NEW lg1, NEW lg2, NEW id, NEW row, NEW new, Follows(lg2, lg1, new), ~About(new, id),
           Told(lg1.entries, id, row)
    PROVE  Told(lg2.entries, id, row)
<1> SUFFICES ASSUME NEW e \in lg2.entries, About(e, id),
                    ~\E f \in lg2.entries : About(f, id) /\ f.sequence > e.sequence
             PROVE  Describes(e, row)
    BY DEF Told
<1>1. PICK f \in lg1.entries : SameEvent(e, f)
    BY SameIsSame DEF Follows
<1>2. About(f, id) /\ e.sequence = f.sequence
    BY <1>1, SameIsSame
<1>3. ~\E g \in lg1.entries : About(g, id) /\ g.sequence > f.sequence
    <2> SUFFICES ASSUME NEW g \in lg1.entries, About(g, id), g.sequence > f.sequence
                 PROVE  FALSE
        OBVIOUS
    <2>1. PICK h \in lg2.entries : SameEvent(h, g)
        BY <1>2 DEF Follows
    <2>2. About(h, id) /\ h.sequence = g.sequence
        BY <2>1, SameIsSame
    <2> QED
        BY <1>2, <2>2
<1> QED
    BY <1>1, <1>2, <1>3, SameIsSame DEF Told

\* An event that describes the note as it has become settles what is told of it.
LEMMA OwnTells ==
    ASSUME NEW lg1, NEW lg2, NEW id, NEW row, NEW new, Follows(lg2, lg1, new), About(new, id),
           Describes(new, row)
    PROVE  Told(lg2.entries, id, row)
<1> SUFFICES ASSUME NEW e \in lg2.entries, About(e, id),
                    ~\E f \in lg2.entries : About(f, id) /\ f.sequence > e.sequence
             PROVE  Describes(e, row)
    BY DEF Told
<1>1. PICK n \in lg2.entries : SameEvent(n, new)
    BY DEF Follows
<1>2. About(n, id) /\ n.sequence = new.sequence
    BY <1>1, SameIsSame
<1>3. ~SameEvent(e, new) => n.sequence > e.sequence
    <2> SUFFICES ASSUME ~SameEvent(e, new)
                 PROVE  n.sequence > e.sequence
        OBVIOUS
    <2>1. PICK f \in lg1.entries : SameEvent(e, f)
        BY DEF Follows
    <2> QED
        BY <1>2, <2>1, SameIsSame DEF Follows
<1> QED
    BY <1>2, <1>3, SameIsSame

LEMMA InitTold == Init => ToldInv
BY DEF Init, NoteInit, ToldInv, Exists

\* The steps that append an event about the note at w, and touch no other.
LEMMA WriteTold ==
    ASSUME ToldInv, NEW w \in NoteIds, Only(w),
           NEW new, Follows(log', log, new), About(new, w),
           notes'[w] # NoNote => Describes(new, notes'[w])
    PROVE  ToldInv'
<1> SUFFICES ASSUME NEW id \in NoteIds, notes'[id] # NoNote
             PROVE  Told(log'.entries, id, notes'[id])
    BY DEF ToldInv, Exists
<1>1. CASE id = w
    BY <1>1, OwnTells
<1>2. CASE id # w
    <2>1. ~About(new, id)
        BY <1>2 DEF About
    <2>2. notes'[id] = notes[id] /\ Told(log.entries, id, notes[id])
        BY <1>2 DEF ToldInv, Exists, Only
    <2> QED
        BY <2>1, <2>2, OthersTell
<1> QED
    BY <1>1, <1>2

\* The steps that only destroy notes, and strip what the log kept of them.
LEMMA DestroyTold ==
    ASSUME ToldInv, \A id \in NoteIds : notes'[id] \in {NoNote, notes[id]}, Stripped(log', log)
    PROVE  ToldInv'
<1> SUFFICES ASSUME NEW id \in NoteIds, notes'[id] # NoNote
             PROVE  Told(log'.entries, id, notes'[id])
    BY DEF ToldInv, Exists
<1>1. notes'[id] = notes[id] /\ Told(log.entries, id, notes[id])
    BY DEF ToldInv, Exists
<1> QED
    BY <1>1, StripTells

LEMMA NextFollows ==
    ASSUME TableInv, LogInv, NEW ev \in Body
    PROVE  Follows(Appended(log, ev), log, Numbered(log.last + 1, ev))
<1>1. log \in Log /\ Window(log) /\ Stripped(log, log)
    BY TableTypes, NothingStripped DEF LogInv, LogWindow
<1> QED
    BY <1>1, Instances, AppendFollows DEF Body

LEMMA OtherTold ==
    ASSUME TableInv, LogInv, ToldInv, OtherTransaction(FieldEvents, FieldActions), notes' = notes
    PROVE  ToldInv'
<1>1. log \in Log /\ Window(log)
    BY TableTypes DEF LogInv, LogWindow
<1>2. \/ Stripped(log', log)
      \/ \E e \in FieldEvents : Follows(log', log, Numbered(log.last + 1, e))
    BY <1>1, OtherWritesLog
<1> SUFFICES ASSUME NEW id \in NoteIds, notes[id] # NoNote
             PROVE  Told(log'.entries, id, notes[id])
    BY DEF ToldInv, Exists
<1>3. Told(log.entries, id, notes[id])
    BY DEF ToldInv, Exists
<1>4. CASE Stripped(log', log)
    BY <1>3, <1>4, StripTells
<1>5. ASSUME NEW e \in FieldEvents, Follows(log', log, Numbered(log.last + 1, e))
      PROVE  Told(log'.entries, id, notes[id])
    <2>1. ~About(Numbered(log.last + 1, e), id)
        BY FieldEventType DEF About, Numbered, NoteActions, FieldActions
    <2> QED
        BY <1>3, <1>5, <2>1, OthersTell
<1> QED
    BY <1>2, <1>4, <1>5

LEMMA NextTold == TableInv /\ LogInv /\ ToldInv /\ [Next]_vars => ToldInv'
<1> SUFFICES ASSUME TableInv, LogInv, ToldInv, [Next]_vars
             PROVE  ToldInv'
    OBVIOUS
<1>0. TypeOK /\ RowsAreIssued /\ log \in Log
    BY TableTypes
<1>1. ASSUME NEW p \in Personas, NEW id \in NoteIds, WriteNote(p, id)
      PROVE  ToldInv'
    <2>1. PICK row \in Row, cap \in PinCaps : Written(p, id, row, cap)
        BY <1>0, <1>1, WriteParts
    <2> DEFINE ev == NoteEvent("note.written", p, id, 1, Never, NoValue)
               new == Numbered(log.last + 1, ev)
    <2>2. ev \in Body
        BY EventType DEF NoteActions
    <2>3. About(new, id) /\ new.action # "note.forgotten" /\ new.revision = 1
        BY DEF Numbered, NoteEvent, Event, About, NoteActions
    <2>4. log' = Appended(log, ev)
        BY <2>1 DEF Written
    <2> HIDE DEF ev
    <2>5. Follows(log', log, new)
        BY <2>2, <2>4, NextFollows
    <2> HIDE DEF new
    <2>6. Describes(new, notes'[id]) /\ Only(id)
        BY <2>1, <2>3 DEF Describes, Written
    <2> QED
        BY <2>3, <2>5, <2>6, WriteTold
<1>2. ASSUME NEW p \in Personas, NEW id \in NoteIds, ReviseNote(p, id)
      PROVE  ToldInv'
    <2>1. PICK row \in Row, cap \in PinCaps, kept \in Bodies \cup {NoValue} :
                Revised(p, id, row, cap, kept)
        BY <1>0, <1>2, ReviseParts
    <2> DEFINE ev == NoteEvent("note.revised", p, id, notes[id].revision + 1, Never, kept)
               new == Numbered(log.last + 1, ev)
    <2>2. ev \in Body
        <3>1. notes[id].revision + 1 \in Nat
            BY <2>1 DEF Revised, Row
        <3> QED
            BY <3>1, EventType DEF NoteActions
    <2>3. About(new, id) /\ new.action # "note.forgotten" /\ new.revision = notes[id].revision + 1
        BY DEF Numbered, NoteEvent, Event, About, NoteActions
    <2>4. log' = Appended(log, ev)
        BY <2>1 DEF Revised
    <2> HIDE DEF ev
    <2>5. Follows(log', log, new)
        BY <2>2, <2>4, NextFollows
    <2> HIDE DEF new
    <2>6. Describes(new, notes'[id]) /\ Only(id)
        BY <2>1, <2>3 DEF Describes, Revised
    <2> QED
        BY <2>3, <2>5, <2>6, WriteTold
<1>3. ASSUME NEW p \in Personas, NEW id \in NoteIds, NEW policy \in Policies,
             ForgetNote(p, id, policy)
      PROVE  ToldInv'
    <2>1. PICK row, due, gone : row \in Row /\ Forgot(p, id, due, gone, row)
        BY <1>0, <1>3, ForgetParts
    <2> DEFINE ev == NoteEvent("note.forgotten", p, id, 0, due, NoValue)
               lg == Appended(log, ev)
               new == Numbered(log.last + 1, ev)
    <2>2. ev \in Body
        <3>1. due \in Nat \cup {Never}
            BY <2>1 DEF Forgot
        <3> QED
            BY <3>1, EventType DEF NoteActions
    <2>3. About(new, id) /\ new.action = "note.forgotten" /\ new.due = due
        BY DEF Numbered, NoteEvent, Event, About, NoteActions
    <2>4. log' = StripValues(lg, Subjects(notes, gone), NoteActions)
        BY <2>1 DEF Forgot
    <2> HIDE DEF ev
    <2>5. Follows(lg, log, new) /\ lg \in Log
        BY <1>0, <2>2, NextFollows, LogTypes
    <2> HIDE DEF lg, new
    <2>6. Stripped(log', lg)
        BY <2>4, <2>5, StripParts
    <2>7. Follows(log', log, new)
        BY <2>5, <2>6, StripFollows
    <2>8. (notes'[id] # NoNote => Describes(new, notes'[id])) /\ Only(id)
        BY <2>1, <2>3 DEF Describes, Forgot
    <2> QED
        BY <2>3, <2>7, <2>8, WriteTold
<1>4. ASSUME NEW time \in 0..now, PurgeDueNotes(time)
      PROVE  ToldInv'
    BY <1>0, <1>4, PurgeParts, WithoutAt, StripParts, DestroyTold
<1>5. ASSUME NEW p \in Personas, DropPersona(p), DropNotesOf(p)
      PROVE  ToldInv'
    BY <1>0, <1>5, DropParts, StripPersonaParts, DestroyTold DEF DropPersona
<1>6. ASSUME NEW p \in Personas, NEW a \in PersonaActions, RecordPersonaEvent(p, a), notes' = notes
      PROVE  ToldInv'
    <2> DEFINE ev == Event(a, p, p, 0, Never, NoValue)
               new == Numbered(log.last + 1, ev)
    <2>1. ev \in Body
        BY DEF Event, Body, EventsOf, Actions, AllSubjects, Kept
    <2>2. log' = Appended(log, ev)
        BY <1>6 DEF RecordPersonaEvent
    <2>3. \A id \in NoteIds : ~About(new, id)
        BY DEF Event, Numbered, About, NoteActions, PersonaActions
    <2> HIDE DEF ev
    <2>4. Follows(log', log, new)
        BY <2>1, <2>2, NextFollows
    <2> HIDE DEF new
    <2> QED
        BY <1>6, <2>3, <2>4, OthersTell DEF ToldInv, Exists
<1>7. ASSUME OtherTransaction(FieldEvents, FieldActions), notes' = notes
      PROVE  ToldInv'
    BY <1>7, OtherTold
<1>8. CASE UNCHANGED <<log, notes>>
    BY <1>8 DEF ToldInv, Exists
<1> QED
    BY <1>1, <1>2, <1>3, <1>4, <1>5, <1>6, <1>7, <1>8
       DEF Next, NoteOperation, Elsewhere, Tick, AddPersona, noteVars, storeVars, vars

\* The newest event the log still holds about a note is true of it, and no body
\* the log has kept outlives its note.
THEOREM NewestEventIsTrue == Spec => []LogAgreesWithRows
<1>1. Spec => [](LogInv /\ ToldInv)
    BY InitTable, NextTable, InitLog, NextLog, InitTold, NextTold, PTL DEF Spec
<1>2. LogInv /\ ToldInv => LogAgreesWithRows
    <2> SUFFICES ASSUME ToldInv, NEW id \in NoteIds, Exists(id), NEW e \in EventsAbout(id)
                 PROVE  \/ \E f \in EventsAbout(id) : f.sequence > e.sequence
                        \/ Live(id) /\ e.action # "note.forgotten"
                                    /\ e.revision = notes[id].revision
                        \/ Forgotten(id) /\ e.action = "note.forgotten"
                                         /\ e.due = notes[id].purgeAfter
        BY DEF LogAgreesWithRows, LogInv
    <2>1. \A f : f \in EventsAbout(id) <=> f \in log.entries /\ About(f, id)
        BY DEF EventsAbout, About
    <2>2. \/ \E f \in log.entries : About(f, id) /\ f.sequence > e.sequence
          \/ Describes(e, notes[id])
        BY <2>1 DEF ToldInv, Told
    <2> QED
        BY <2>1, <2>2 DEF Describes, Live, LiveIn, Forgotten, Exists
<1> QED
    BY <1>1, <1>2, PTL

-----------------------------------------------------------------------------
(* What a step may do to a forgotten note.                                   *)

ForgottenStep(id) ==
    Forgotten(id) =>
        \/ notes'[id] = notes[id]
        \/ notes'[id] = NoNote /\ (PastDue(id) \/ notes[id].persona \notin personas')

LEMMA EveryForgottenStep ==
    ASSUME TableInv, [Next]_vars, NEW id \in NoteIds, Forgotten(id)
    PROVE  ForgottenStep(id)
<1>0. /\ TypeOK /\ RowsAreIssued /\ NoNote \notin Row /\ now \in Nat
      /\ notes[id] \in Row /\ notes[id].purgeAfter \in Nat \cup {Never}
    BY TableTypes DEF Forgotten, Exists, Row
<1>1. ASSUME NEW p \in Personas, NEW n \in NoteIds, WriteNote(p, n)
      PROVE  notes'[id] = notes[id]
    BY <1>0, <1>1, WriteParts DEF Written, Only, Forgotten, Exists
<1>2. ASSUME NEW p \in Personas, NEW n \in NoteIds, ReviseNote(p, n)
      PROVE  notes'[id] = notes[id]
    BY <1>0, <1>2, ReviseParts DEF Revised, Only, Forgotten
<1>3. ASSUME NEW p \in Personas, NEW n \in NoteIds, NEW policy \in Policies,
             ForgetNote(p, n, policy)
      PROVE  notes'[id] = notes[id]
    BY <1>0, <1>3, ForgetParts DEF Forgot, Only, Forgotten
<1>4. ASSUME NEW time \in 0..now, PurgeDueNotes(time)
      PROVE  notes'[id] = notes[id] \/ (notes'[id] = NoNote /\ PastDue(id))
    <2>1. PICK batch \in SUBSET NoteIds : /\ \A n \in batch : Exists(n) /\ DueBy(n, time)
                                          /\ notes' = Without(notes, batch)
        BY <1>4, PurgeParts
    <2>2. id \in batch => PastDue(id)
        <3>1. time \in Nat /\ time <= now
            BY <1>0
        <3> QED
            BY <1>0, <2>1, <3>1 DEF PastDue, DueBy
    <2>3. notes'[id] = IF id \in batch THEN NoNote ELSE notes[id]
        BY <2>1, WithoutAt
    <2> QED
        BY <2>2, <2>3
<1>5. ASSUME NEW p \in Personas, DropPersona(p), DropNotesOf(p)
      PROVE  notes'[id] = notes[id] \/ (notes'[id] = NoNote /\ notes[id].persona \notin personas')
    <2>1. notes'[id] = IF Exists(id) /\ notes[id].persona = p THEN NoNote ELSE notes[id]
        BY <1>5, DropParts
    <2>2. p \notin personas'
        BY <1>5 DEF DropPersona
    <2> QED
        BY <2>1, <2>2
<1>6. CASE notes' = notes
    BY <1>6 DEF ForgottenStep
<1> QED
    BY <1>1, <1>2, <1>3, <1>4, <1>5, <1>6
       DEF Next, NoteOperation, Elsewhere, noteVars, vars, ForgottenStep

\* A forgotten note is never revived, revised or moved to another persona: it stays
\* as it is until it is due or its persona goes, and then it is destroyed.
THEOREM ForgottenStays == Spec => ForgottenForGood
<1>1. TableInv /\ [Next]_vars =>
          [\A id \in NoteIds : Forgotten(id) =>
              \/ notes'[id] = notes[id]
              \/ notes'[id] = NoNote /\ (PastDue(id) \/ notes[id].persona \notin personas')]_vars
    BY EveryForgottenStep DEF ForgottenStep
<1> QED
    BY <1>1, InitTable, NextTable, PTL DEF Spec, ForgottenForGood

-----------------------------------------------------------------------------
(* NoteStore implements Lifecycle: a note is remembered once, under an id    *)
(* never used before; a revision is no event of its life; and nothing but    *)
(* its date or its persona's end destroys it.                                *)

Lives == [s \in Personas \X NoteIds |-> LifeAt(s[1], s[2])]

LEMMA LifeOfNote ==
    ASSUME NEW p, NEW id
    PROVE  /\ Exists(id) /\ notes[id].persona = p =>
                  LifeAt(p, id) = Life!Thing(notes[id].seq, notes[id].forgotten,
                                             notes[id].purgeAfter)
           /\ ~(Exists(id) /\ notes[id].persona = p) => LifeAt(p, id) = Life!Absent
BY DEF LifeAt, Life!Thing, Life!Absent

\* A step that touches one note, and leaves it in its persona if it has one, changes
\* the one life in that place.
LEMMA OneLife ==
    ASSUME NEW p \in Personas, NEW id \in NoteIds, Only(id),
           notes[id] = NoNote \/ notes[id].persona = p,
           notes'[id] = NoNote \/ notes'[id].persona = p
    PROVE  Lives' = [Lives EXCEPT ![<<p, id>>] = LifeAt(p, id)']
<1> SUFFICES ASSUME NEW s \in Personas \X NoteIds
             PROVE  Lives'[s] = [Lives EXCEPT ![<<p, id>>] = LifeAt(p, id)'][s]
    BY DEF Lives
<1>1. PICK q \in Personas, n \in NoteIds : s = <<q, n>>
    OBVIOUS
<1>2. Lives'[s] = LifeAt(q, n)' /\ Lives[s] = LifeAt(q, n)
    BY <1>1 DEF Lives
<1>3. CASE s = <<p, id>>
    BY <1>1, <1>2, <1>3 DEF Lives
<1>4. CASE s # <<p, id>>
    <2>1. LifeAt(q, n)' = LifeAt(q, n)
        BY <1>1, <1>4 DEF LifeAt, Exists, Only
    <2> QED
        BY <1>2, <1>4, <2>1 DEF Lives
<1> QED
    BY <1>3, <1>4

LEMMA LivesBegin == Init => Life!Init
BY DEF Init, StoreInit, NoteInit, Life!Init, Life!Absent, Life!Thing, Life!Places, LifeAt, Exists

LEMMA WriteLives ==
    ASSUME TableInv, NEW p \in Personas, NEW id \in NoteIds, WriteNote(p, id)
    PROVE  Life!Remember(<<p, id>>)
<1>0. TypeOK /\ RowsAreIssued /\ NoNote \notin Row
    BY TableTypes
<1>1. PICK row \in Row, cap \in PinCaps : Written(p, id, row, cap)
    BY <1>0, WriteParts
<1>2. /\ notes[id] = NoNote /\ notes'[id] = row /\ Only(id) /\ row.persona = p
      /\ row.seq = noteSeq + 1 /\ row.forgotten = FALSE /\ row.purgeAfter = Never
      /\ noteSeq' = noteSeq + 1 /\ now' = now
    BY <1>1 DEF Written
<1>3. Lives[<<p, id>>] = Life!Absent
    BY <1>2, LifeOfNote DEF Lives, Exists
<1>4. LifeAt(p, id)' = Life!Thing(noteSeq + 1, FALSE, Never)
    <2>1. Exists(id)' /\ notes'[id].persona = p
        BY <1>0, <1>2 DEF Exists
    <2>2. LifeAt(p, id)' = [life |-> row.seq, forgotten |-> row.forgotten, due |-> row.purgeAfter]
        BY <1>2, <2>1 DEF LifeAt
    <2> QED
        BY <1>2, <2>2 DEF Life!Thing
<1>5. Lives' = [Lives EXCEPT ![<<p, id>>] = Life!Thing(noteSeq + 1, FALSE, Never)]
    <2>1. Lives' = [Lives EXCEPT ![<<p, id>>] = LifeAt(p, id)']
        BY <1>2, OneLife
    <2> QED
        BY <1>4, <2>1
<1> QED
    BY <1>2, <1>3, <1>5 DEF Life!Remember, Lives

LEMMA ReviseLives ==
    ASSUME TableInv, NEW p \in Personas, NEW id \in NoteIds, ReviseNote(p, id)
    PROVE  UNCHANGED <<now, Lives, noteSeq>>
<1>0. TypeOK /\ NoNote \notin Row
    BY TableTypes
<1>1. PICK row \in Row, cap \in PinCaps, kept \in Bodies \cup {NoValue} :
            Revised(p, id, row, cap, kept)
    BY <1>0, ReviseParts
<1>2. /\ notes[id] \in Row /\ notes[id].persona = p /\ notes'[id] = row /\ Only(id)
      /\ row.persona = p /\ row.seq = notes[id].seq /\ row.forgotten = notes[id].forgotten
      /\ row.purgeAfter = notes[id].purgeAfter /\ now' = now /\ noteSeq' = noteSeq
    BY <1>1 DEF Revised
<1>3. LifeAt(p, id)' = LifeAt(p, id)
    BY <1>0, <1>2 DEF LifeAt, Exists
<1>4. Lives[<<p, id>>] = LifeAt(p, id)
    BY DEF Lives
<1>5. Lives' = [Lives EXCEPT ![<<p, id>>] = Lives[<<p, id>>]]
    BY <1>2, <1>3, <1>4, OneLife
<1>6. Lives' = Lives
    BY <1>5 DEF Lives
<1> QED
    BY <1>2, <1>6

LEMMA ForgetLives ==
    ASSUME TableInv, NEW p \in Personas, NEW id \in NoteIds, NEW policy \in Policies,
           ForgetNote(p, id, policy)
    PROVE  Life!Forget(<<p, id>>)
<1>0. TypeOK /\ NoNote \notin Row
    BY TableTypes
<1>1. PICK row, due, gone : row \in Row /\ Forgot(p, id, due, gone, row)
    BY <1>0, ForgetParts
<1>2. /\ notes[id] \in Row /\ notes[id].persona = p /\ ~notes[id].forgotten /\ Only(id)
      /\ notes'[id] = NoNote \/ notes'[id] = row
      /\ row.persona = p /\ row.seq = notes[id].seq /\ row.forgotten = TRUE
      /\ row.purgeAfter = due /\ due \in {Never} \cup {now + g : g \in GracePeriods}
      /\ now' = now /\ noteSeq' = noteSeq
    BY <1>1 DEF Forgot
<1>3. Lives[<<p, id>>] = Life!Thing(notes[id].seq, notes[id].forgotten, notes[id].purgeAfter)
    BY <1>0, <1>2, LifeOfNote DEF Lives, Exists
<1>4. Lives[<<p, id>>].life = notes[id].seq /\ ~Lives[<<p, id>>].forgotten
    BY <1>2, <1>3 DEF Life!Thing
<1>5. Lives[<<p, id>>] # Life!Absent
    <2>1. Lives[<<p, id>>].life # 0
        BY <1>2, <1>4 DEF Row
    <2> QED
        BY <2>1 DEF Life!Absent, Life!Thing
<1>6. \/ LifeAt(p, id)' = Life!Absent
      \/ LifeAt(p, id)' = Life!Thing(Lives[<<p, id>>].life, TRUE, due)
    BY <1>0, <1>2, <1>4 DEF LifeAt, Exists, Life!Absent, Life!Thing
<1>7. Lives' = [Lives EXCEPT ![<<p, id>>] = LifeAt(p, id)']
    BY <1>2, OneLife
<1>8. \E next \in {Life!Absent} \cup {Life!Thing(Lives[<<p, id>>].life, TRUE, d) :
                                   d \in {Never} \cup {now + g : g \in GracePeriods}} :
          Lives' = [Lives EXCEPT ![<<p, id>>] = next]
    BY <1>2, <1>6, <1>7
<1> QED
    BY <1>2, <1>4, <1>5, <1>8 DEF Life!Forget, Lives

\* Where notes were taken away, lives ended, and no other changed.
LEMMA PurgeLives ==
    ASSUME TableInv, NEW time \in 0..now, PurgeDueNotes(time)
    PROVE  Life!DestroyDue
<1>1. PICK batch \in SUBSET NoteIds :
             /\ \A id \in batch : Exists(id) /\ DueBy(id, time)
             /\ notes' = Without(notes, batch)
             /\ UNCHANGED <<now, noteSeq>>
    BY PurgeParts
<1>2. now \in Nat /\ time \in Nat /\ time <= now
    BY TableTypes
<1> DEFINE gone == {s \in Personas \X NoteIds : s[2] \in batch /\ notes[s[2]].persona = s[1]}
<1>3. \A id \in NoteIds : notes'[id] = IF id \in batch THEN NoNote ELSE notes[id]
    BY <1>1, WithoutAt
<1>4. \A s \in Personas \X NoteIds :
          LifeAt(s[1], s[2])' = IF s \in gone THEN Life!Absent ELSE LifeAt(s[1], s[2])
    BY <1>3 DEF LifeAt, Exists, Life!Absent, Life!Thing
<1>5. \A s \in gone : Lives[s].due # Never /\ Lives[s].due <= now
    <2> SUFFICES ASSUME NEW s \in gone
                 PROVE  Lives[s].due # Never /\ Lives[s].due <= now
        OBVIOUS
    <2>1. Exists(s[2]) /\ DueBy(s[2], time) /\ s \in Personas \X NoteIds /\ notes[s[2]].persona = s[1]
        BY <1>1
    <2>2. Lives[s].due = notes[s[2]].purgeAfter
        BY <2>1 DEF Lives, LifeAt
    <2>3. notes[s[2]].purgeAfter \in Nat \cup {Never}
        BY <2>1, TableTypes DEF Exists, Row
    <2> QED
        BY <1>2, <2>1, <2>2, <2>3 DEF DueBy
<1> HIDE DEF gone
<1>6. Life!Remove(gone)
    BY <1>1, <1>4 DEF Life!Remove, Life!Places
<1>7. gone \subseteq {s \in Personas \X NoteIds : Life!Over(s)}
    BY <1>5 DEF Life!Over, Lives, gone
<1> QED
    BY <1>6, <1>7 DEF Life!DestroyDue, Life!Places

LEMMA DropLives ==
    ASSUME NEW p \in Personas, DropPersona(p), DropNotesOf(p)
    PROVE  Life!RemoveOwner(p)
<1>1. \A id \in NoteIds : notes'[id] = IF Exists(id) /\ notes[id].persona = p THEN NoNote ELSE notes[id]
    BY DropParts
<1>2. UNCHANGED <<now, noteSeq>>
    BY DEF DropPersona, DropNotesOf
<1>3. \A s \in Personas \X NoteIds :
          LifeAt(s[1], s[2])' = IF s \in {p} \X NoteIds THEN Life!Absent ELSE LifeAt(s[1], s[2])
    BY <1>1 DEF LifeAt, Exists, Life!Absent, Life!Thing
<1> QED
    BY <1>2, <1>3 DEF Life!RemoveOwner, Life!Remove, Life!Places

LEMMA LivesGoOn ==
    TableInv /\ [Next]_vars => [Life!Next]_<<now, Lives, noteSeq>>
<1> SUFFICES ASSUME TableInv, [Next]_vars
             PROVE  Life!Next \/ UNCHANGED <<now, Lives, noteSeq>>
    OBVIOUS
<1>1. ASSUME NEW p \in Personas, NEW id \in NoteIds, WriteNote(p, id)
      PROVE  Life!Next
    BY <1>1, WriteLives DEF Life!Next, Life!Places
<1>2. ASSUME NEW p \in Personas, NEW id \in NoteIds, ReviseNote(p, id)
      PROVE  UNCHANGED <<now, Lives, noteSeq>>
    BY <1>2, ReviseLives
<1>3. ASSUME NEW p \in Personas, NEW id \in NoteIds, NEW policy \in Policies,
             ForgetNote(p, id, policy)
      PROVE  Life!Next
    BY <1>3, ForgetLives DEF Life!Next, Life!Places
<1>4. ASSUME NEW t \in 0..now, PurgeDueNotes(t)
      PROVE  Life!Next
    BY <1>4, PurgeLives DEF Life!Next
<1>5. ASSUME NEW p \in Personas, DropPersona(p), DropNotesOf(p)
      PROVE  Life!Next
    BY <1>5, DropLives DEF Life!Next
<1>6. ASSUME Tick, UNCHANGED noteVars
      PROVE  Life!Next
    BY <1>6 DEF Tick, noteVars, Life!Next, Life!TimePasses, LifeAt, Exists
<1>7. CASE UNCHANGED <<now, notes, noteSeq>>
    BY <1>7 DEF Lives, LifeAt, Exists
<1> QED
    BY <1>1, <1>2, <1>3, <1>4, <1>5, <1>6, <1>7
       DEF Next, NoteOperation, Elsewhere, AddPersona, RecordPersonaEvent,
           OtherTransaction, noteVars, storeVars, vars

\* The table of notes implements the life of a remembered thing.
THEOREM NotesImplementLifecycle == Spec => ImplementsLifecycle
<1>1. TableInv /\ [Next]_vars =>
          [Life!Next]_<<now, [s \in Personas \X NoteIds |-> LifeAt(s[1], s[2])], noteSeq>>
    BY LivesGoOn DEF Lives
<1> QED
    BY <1>1, LivesBegin, InitTable, NextTable, PTL
       DEF Spec, ImplementsLifecycle, Life!Spec
=============================================================================
