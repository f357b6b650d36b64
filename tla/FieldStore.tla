------------------------------ MODULE FieldStore ------------------------------
(***************************************************************************)
(* The structured half of a persona's memory                               *)
(* (src/persona_api/memory/fields.py): one table of rows keyed by          *)
(* (account, profile, key), its full-text index, and the events its        *)
(* transactions write.  One action per transaction; a transaction that     *)
(* raises is rolled back, so a refused write is no step at all.            *)
(***************************************************************************)
EXTENDS Store, SearchIndex, FiniteSets

CONSTANTS Keys,          \* normalized field keys
          Values,        \* canonical JSON values
          Descriptions,
          NoRow,         \* what the table holds at a key it has no row for
          MaxFields,     \* FieldStore's max_fields
          MaxPinned,     \* FieldStore's max_pinned: the deployment's pinned cap
          PinCaps,       \* the caps requests pass as max_pinned
          FieldBatch,    \* the sweeper's batch, purge_due's limit
          NoteEvents     \* what NoteStore may write to the log that both share

VARIABLES fields,        \* the fields table
          fieldSeq,      \* fts_sequence.next for fields
          fieldIndex     \* the fields_fts table

fieldVars == <<fields, fieldSeq, fieldIndex>>
vars == <<storeVars, fieldVars>>

Slots == Personas \X Keys

Row == [value : Values, description : Descriptions, pinned : BOOLEAN,
        revision : Nat \ {0}, seq : Nat \ {0}, forgotten : BOOLEAN,
        purgeAfter : Nat \cup {Never}]

\* A document of the index, and a row of the events table.
Document == [docid : Nat, text : Keys \X Descriptions \X Values]

NoteSubjects == {e.subject : e \in NoteEvents}
NoteValues == {e.oldValue : e \in NoteEvents}

Entry == [sequence : Nat, action : FieldActions \cup NoteActions \cup PersonaActions,
          persona : Personas, subject : Keys \cup NoteSubjects \cup Personas, revision : Nat,
          due : Nat \cup {Never}, oldValue : Values \cup NoteValues \cup {NoValue}]

ASSUME FieldAssumption ==
    /\ NoRow \notin Row
    /\ NoValue \notin Values
    /\ MaxFields \in Nat /\ MaxPinned \in Nat
    \* _narrow in core/preferences.py: a person may lower the cap, never raise it.
    /\ PinCaps \subseteq 0..MaxPinned
    /\ FieldBatch \in Nat \ {0}
    /\ NoteEvents \subseteq [action : NoteActions, persona : Personas, subject : NoteSubjects,
                              revision : Nat, due : Nat \cup {Never}, oldValue : NoteValues]

FieldInit == /\ fields = [s \in Slots |-> NoRow]
             /\ fieldSeq = 0
             /\ fieldIndex = EmptyIndex

-----------------------------------------------------------------------------
(* Reading the table. *)

Exists(s) == fields[s] # NoRow
LiveIn(table, s) == table[s] # NoRow /\ ~table[s].forgotten
Live(s) == LiveIn(fields, s)
Forgotten(s) == Exists(s) /\ fields[s].forgotten

\* The two counts _check_caps takes, inside the transaction that writes.
LiveOf(table, p) == {k \in Keys : LiveIn(table, <<p, k>>)}
PinnedOf(table, p) == {k \in LiveOf(table, p) : table[<<p, k>>].pinned}

\* purge_after <= now, for the columns that have one.
Due(row, time) == row.purgeAfter # Never /\ row.purgeAfter <= time

PastDue(s) == Exists(s) /\ Due(fields[s], now)

\* key, description and value, the words _index is given.
Searchable(s, row) == <<s[2], row.description, row.value>>

-----------------------------------------------------------------------------
(* The steps of a transaction. *)

\* set treats a row whose grace period has ended as no row: it destroys it and
\* writes a new one.
MutStartsAfresh(s) == ~Exists(s)
StartsAfresh(s) == ~Exists(s) \/ PastDue(s)

\* _next_seq: docids come from a counter of their own, never from the table.
MutNextSeq == Cardinality({s \in Slots : Exists(s)}) + 1
NextSeq == fieldSeq + 1

CapsAllow(table, p, reviving, addingPinned, cap) ==
    /\ reviving => Cardinality(LiveOf(table, p)) < MaxFields
    /\ addingPinned => Cardinality(PinnedOf(table, p)) < cap

\* Of the rows _revise is given, the forgotten ones become live: they count.
MutRevives(row) == FALSE
Revives(row) == row.forgotten

\* _destroy, in three parts: StripValues for the values the log kept about the
\* rows, and here the rows and, through the delete trigger, their documents,
\* with the words of both.
Without(table, gone) ==
    [s \in Slots |-> IF s \in gone THEN NoRow ELSE table[s]]

DocidsOf(table, gone) == {table[s].seq : s \in {t \in gone : table[t] # NoRow}}

DropDocuments(index, table, gone) ==
    IF gone = {} THEN index ELSE Optimized(Unindexed(index, DocidsOf(table, gone)))

\* The row _insert writes.
MutNewRow(value, description, pinned, seq) ==
    [value |-> value, description |-> description, pinned |-> pinned, revision |-> 0,
     seq |-> seq, forgotten |-> FALSE, purgeAfter |-> Never]

NewRow(value, description, pinned, seq) ==
    [value |-> value, description |-> description, pinned |-> pinned, revision |-> 1,
     seq |-> seq, forgotten |-> FALSE, purgeAfter |-> Never]

\* The row _revise leaves: reviving clears both columns of a forgotten row.
MutRevisedRow(row, value, description, pinned) ==
    [row EXCEPT !.value = value, !.description = description, !.pinned = pinned,
                !.revision = row.revision + 1]

RevisedRow(row, value, description, pinned) ==
    [row EXCEPT !.value = value, !.description = description, !.pinned = pinned,
                !.revision = row.revision + 1,
                !.forgotten = FALSE, !.purgeAfter = Never]

\* _revise returns early, without writing, when nothing would change.
NothingChanges(row, value, description, pinned) ==
    /\ row.value = value /\ row.description = description /\ row.pinned = pinned
    /\ ~row.forgotten

\* The value a revision keeps in the log, when the writer asked for it.
KeptValue(row, value, logValues) ==
    IF logValues /\ row.value # value THEN row.value ELSE NoValue

FieldEvent(action, s, revision, due, old) ==
    Event(action, s[1], s[2], revision, due, old)

-----------------------------------------------------------------------------
(* set: PUT of one field.  A caller's pinned is true, false or absent; what *)
(* a revision does depends only on what it will be, so "pinned" ranges over *)
(* the outcomes.                                                            *)

InsertField(p, k, value, description, pinned, cap) ==
    LET s    == <<p, k>>
        gone == IF PastDue(s) THEN {s} ELSE {}
        base == Without(fields, gone)
        row  == NewRow(value, description, pinned, NextSeq)
    IN  /\ p \in personas                      \* the foreign key
        /\ StartsAfresh(s)
        /\ CapsAllow(base, p, TRUE, pinned, cap)
        /\ MayRecord
        /\ fieldSeq' = NextSeq
        /\ fields' = [base EXCEPT ![s] = row]
        /\ fieldIndex' = Indexed(DropDocuments(fieldIndex, fields, gone),
                                 row.seq, Searchable(s, row))
        /\ log' = Appended(StripValues(log, gone, FieldActions),
                         FieldEvent("field.set", s, 1, Never, NoValue))
        /\ UNCHANGED <<now, personas>>

\* A live row, or a forgotten one inside its grace period, which it revives.
ReviseField(p, k, value, description, pinned, cap, logValues) ==
    LET s   == <<p, k>>
        old == fields[s]
        row == RevisedRow(old, value, description, pinned)
    IN  /\ ~StartsAfresh(s)
        /\ ~NothingChanges(old, value, description, pinned)
        /\ CapsAllow(fields, p, Revives(old), pinned /\ ~old.pinned, cap)
        /\ MayRecord
        /\ fields' = [fields EXCEPT ![s] = row]
        /\ fieldIndex' = Indexed(Unindexed(fieldIndex, {old.seq}),
                                 old.seq, Searchable(s, row))
        /\ log' = Appended(log,
               FieldEvent(IF old.forgotten THEN "field.set" ELSE "field.revised",
                          s, row.revision, Never, KeptValue(old, value, logValues)))
        /\ UNCHANGED <<now, personas, fieldSeq>>

SetField(p, k) ==
    \E value \in Values, description \in Descriptions, pinned \in BOOLEAN, cap \in PinCaps :
        \/ InsertField(p, k, value, description, pinned, cap)
        \/ \E logValues \in BOOLEAN :
              ReviseField(p, k, value, description, pinned, cap, logValues)

-----------------------------------------------------------------------------
(* Forgetting and destroying. *)

\* The UPDATE of forget matches live rows only.
MutCanForget(s) == Exists(s)
CanForget(s) == Live(s)

ForgetField(p, k, policy) ==
    LET s    == <<p, k>>
        due  == PurgeAfter(policy, now)
        gone == IF DestroysNow(policy) THEN {s} ELSE {}
        row  == [fields[s] EXCEPT !.forgotten = TRUE, !.purgeAfter = due]
    IN  /\ CanForget(s)
        /\ MayRecord
        /\ fields' = Without([fields EXCEPT ![s] = row], gone)
        /\ fieldIndex' = DropDocuments(Unindexed(fieldIndex, {row.seq}), fields, gone)
        /\ log' = StripValues(Appended(log, FieldEvent("field.forgotten", s, 0, due, NoValue)),
                              gone, FieldActions)
        /\ UNCHANGED <<now, personas, fieldSeq>>

\* purge_due: oldest first, FieldBatch at most.
MutDueFields == {s \in Slots : Exists(s) /\ fields[s].purgeAfter # Never}
DueFields == {s \in Slots : PastDue(s)}

FieldBatches ==
    {b \in SUBSET DueFields :
        /\ b # {}
        /\ \/ Cardinality(b) = FieldBatch
           \/ b = DueFields /\ Cardinality(b) <= FieldBatch
        /\ \A s \in b, t \in DueFields \ b : fields[s].purgeAfter <= fields[t].purgeAfter}

PurgeDueFields ==
    \E batch \in FieldBatches :
        /\ fields' = Without(fields, batch)
        /\ fieldIndex' = DropDocuments(fieldIndex, fields, batch)
        /\ log' = StripValues(log, batch, FieldActions)
        /\ UNCHANGED <<now, personas, fieldSeq>>

\* What deleting a persona does to its fields: the cascade, the trigger of every
\* row it removes, and one rewrite of the index.
DropFieldsOf(p) ==
    LET gone == {p} \X Keys
    IN  /\ fields' = Without(fields, gone)
        /\ fieldIndex' = Optimized(Unindexed(fieldIndex, DocidsOf(fields, gone)))
        /\ fieldSeq' = fieldSeq

-----------------------------------------------------------------------------

FieldOperation ==
    \/ \E p \in Personas, k \in Keys :
          SetField(p, k) \/ \E policy \in Policies : ForgetField(p, k, policy)
    \/ PurgeDueFields

Elsewhere ==
    \/ Tick
    \/ \E p \in Personas : \/ AddPersona(p)
                           \/ \E a \in PersonaActions : RecordPersonaEvent(p, a)
    \/ OtherTransaction(NoteEvents, NoteActions)

Init == StoreInit /\ FieldInit

Next == \/ UNCHANGED fieldVars /\ Elsewhere
        \/ FieldOperation
        \/ \E p \in Personas : DropPersona(p) /\ DropFieldsOf(p)

Spec == Init /\ [][Next]_vars

-----------------------------------------------------------------------------
(* What the store promises. *)

\* Every variable has its type; the log's entries are rows of the events table.
TypeOK ==
    /\ now \in Nat
    /\ personas \subseteq Personas
    /\ fields \in [Slots -> Row \cup {NoRow}]
    /\ fieldSeq \in Nat
    /\ fieldIndex \in [entries : SUBSET Document, words : SUBSET Nat]
    /\ log \in [last : Nat, entries : SUBSET Entry]

\* The full-text index holds exactly the live rows, each under its own docid and
\* with its current text: a search finds every live field, by what it says now,
\* and nothing forgotten, destroyed or belonging to somebody else.
IndexAgrees ==
    fieldIndex.entries =
        {[docid |-> fields[s].seq, text |-> Searchable(s, fields[s])] :
            s \in {t \in Slots : Live(t)}}

\* No two rows carry one docid, and none carries a docid not handed out yet:
\* with IndexAgrees, a search hit joins to one row.
DocidsAreUnique ==
    \A s, t \in Slots : Exists(s) /\ Exists(t) =>
        /\ fields[s].seq <= fieldSeq
        /\ fields[s].seq = fields[t].seq => s = t

\* Once a row is destroyed, by any path, its words are out of the index's
\* segments too: each docid that still has words on disk is an existing row's.
WordsBelongToRows ==
    \A docid \in fieldIndex.words : \E s \in Slots : Exists(s) /\ fields[s].seq = docid

\* A value the log kept of no note belongs to a field that still exists, and to
\* that row rather than to an earlier one at the same key: the row has come at
\* least to the revision the event names.
KeptValuesBelongToRows ==
    \A e \in log.entries : e.oldValue # NoValue /\ e.action \notin NoteActions =>
        /\ e.action \in FieldActions
        /\ <<e.persona, e.subject>> \in Slots
        /\ Exists(<<e.persona, e.subject>>)
        /\ e.revision <= fields[<<e.persona, e.subject>>].revision
        /\ e.revision > 1

\* A row belongs to a persona that exists: deleting one leaves nothing behind
\* that a persona created later under the same name would inherit.
RowsHavePersonas == \A s \in Slots : Exists(s) => s[1] \in personas

\* By noun as well: a persona event's subject is a profile name, and a field may
\* have the same name as its profile.
EventsAbout(s) ==
    {e \in log.entries : /\ e.persona = s[1] /\ e.subject = s[2]
                         /\ e.action \in FieldActions}

\* The newest event the log holds about a row describes the row as it is: its
\* revision while it is live, and when forgotten the date it is due to be
\* destroyed on (or that it has none).
LogAgreesWithRows ==
    \A s \in Slots : Exists(s) =>
        \A e \in EventsAbout(s) :
            \/ \E f \in EventsAbout(s) : f.sequence > e.sequence
            \/ Live(s) /\ e.action # "field.forgotten" /\ e.revision = fields[s].revision
            \/ Forgotten(s) /\ e.action = "field.forgotten" /\ e.due = fields[s].purgeAfter

\* No persona holds more live fields than the cap: not by an insert, not by one over a
\* row past its date, and not by a revival, each of which makes a row live.
FieldsWithinCap == \A p \in Personas : Cardinality(LiveOf(fields, p)) <= MaxFields

\* "Every pinned field ... Bounded by the pinned cap" (fields.py, pinned).
PinnedWithinCap == \A p \in Personas : Cardinality(PinnedOf(fields, p)) <= MaxPinned

\* The log is exactly its newest MaxEntries entries: trimming loses no other one
\* and leaves no older one, across every store that writes to it.
LogIsTheNewest ==
    /\ {e.sequence : e \in log.entries} =
           {n \in 1..log.last : n > log.last - MaxEntries}
    /\ \A e, f \in log.entries : e.sequence = f.sequence => e = f

-----------------------------------------------------------------------------
(* What a step may never do. *)

\* The row at s before the step is still there after it.
Survives(s) == fields'[s] # NoRow /\ fields'[s].seq = fields[s].seq

\* A row is destroyed early by nobody: a forgotten one goes when it is due or
\* with its persona, and one that is never due (a tombstone) only with its
\* persona.
DestroyedWhenDue ==
    [][\A s \in Slots : Forgotten(s) /\ ~Survives(s) => PastDue(s) \/ s[1] \notin personas']_vars

\* What is past its date never comes back, even when a write beats the sweep to
\* it: the row stays forgotten until it is destroyed.
PastDueNeverReturns ==
    [][\A s \in Slots : PastDue(s) /\ Survives(s) => fields'[s] = fields[s]]_vars

\* Once forgotten, a row keeps the date it was given until it is revived:
\* forgetting again, or another setting later, reschedules nothing.
ScheduleIsKept ==
    [][\A s \in Slots : Forgotten(s) /\ Survives(s) =>
          \/ fields'[s].purgeAfter = fields[s].purgeAfter
          \/ ~fields'[s].forgotten]_vars

\* A write that pins a row that did not carry a pin, live or forgotten, leaves
\* no more than the cap pinned.  (Proved, and checked by no configuration: with a
\* cap of one live field the pinned cap is never met.)
NewPinsWithinCap ==
    [][\A s \in Slots :
          LiveIn(fields', s) /\ fields'[s].pinned /\ (Exists(s) /\ Survives(s) => ~fields[s].pinned)
          => Cardinality(PinnedOf(fields', s[1])) <= MaxPinned]_vars

-----------------------------------------------------------------------------
(* A field is a thing of Lifecycle: its docid is its life. *)

LifeOf(row) ==
    IF row = NoRow THEN [life |-> 0, forgotten |-> FALSE, due |-> Never]
    ELSE [life |-> row.seq, forgotten |-> row.forgotten, due |-> row.purgeAfter]

Life == INSTANCE Lifecycle WITH
            Owners <- Personas, Names <- Keys,
            time <- now, things <- [s \in Slots |-> LifeOf(fields[s])], lives <- fieldSeq

\* Nothing the store does to a row, by whatever path, leaves the life of a
\* remembered thing: revived only while it may be, rescheduled by nobody,
\* destroyed only when it is due, and never to return.
ImplementsLifecycle == Life!Spec
=============================================================================
