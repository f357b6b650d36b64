--------------------------- MODULE FieldStore_proofs ---------------------------
(***************************************************************************)
(* Theorems about FieldStore, for every set of personas, keys and values    *)
(* and every value of the caps and bounds.                                  *)
(***************************************************************************)
EXTENDS FieldStore, EventLog_proofs

USE DEF Slots

-----------------------------------------------------------------------------
(* The operators the transactions are built from. *)

Log == [last : Nat, entries : SUBSET Entry]

Body == [action : FieldActions \cup NoteActions \cup PersonaActions, persona : Personas,
         subject : Keys \cup NoteSubjects \cup Personas, revision : Nat,
         due : Nat \cup {Never}, oldValue : Values \cup NoteValues \cup {NoValue}]

Index == [entries : SUBSET Document, words : SUBSET Nat]
Table == [Slots -> Row \cup {NoRow}]

Actions == FieldActions \cup NoteActions \cup PersonaActions
Subjects == Keys \cup NoteSubjects \cup Personas
Kept == Values \cup NoteValues
Texts == Keys \X Descriptions \X Values

\* What the lemmas about any store's log and index are here.
LEMMA Instances ==
    /\ Log = LogsOf(EntriesOf(Actions, Personas, Subjects, Kept))
    /\ Body = EventsOf(Actions, Personas, Subjects, Kept)
    /\ Entry = EntriesOf(Actions, Personas, Subjects, Kept)
    /\ Index = IndexesOf(Texts)
BY DEF Log, Body, Entry, Index, Document, LogsOf, EntriesOf, EventsOf, IndexesOf, DocumentsOf,
       Actions, Subjects, Kept, Texts

LEMMA AppendType ==
    ASSUME NEW lg \in Log, NEW ev \in Body
    PROVE  Appended(lg, ev) \in Log
BY Instances, AppendKeepsType

LEMMA StripType ==
    ASSUME NEW lg \in Log, NEW targets, NEW actions
    PROVE  StripValues(lg, targets, actions) \in Log
BY Instances, StripKeepsType

LEMMA StripPersonaType ==
    ASSUME NEW lg \in Log, NEW p
    PROVE  StripPersonaValues(lg, p) \in Log
BY Instances, StripPersonaKeepsType

LEMMA IndexedType ==
    ASSUME NEW ix \in Index, NEW docid \in Nat,
           NEW text \in Keys \X Descriptions \X Values
    PROVE  Indexed(ix, docid, text) \in Index
BY Instances, IndexedKeepsType DEF Texts

LEMMA UnindexedType ==
    ASSUME NEW ix \in Index, NEW docids
    PROVE  Unindexed(ix, docids) \in Index
BY Instances, UnindexedKeepsType

LEMMA OptimizedType ==
    ASSUME NEW ix \in Index
    PROVE  Optimized(ix) \in Index
BY Instances, OptimizedKeepsType

LEMMA DropDocumentsType ==
    ASSUME NEW ix \in Index, NEW table, NEW gone
    PROVE  DropDocuments(ix, table, gone) \in Index
BY UnindexedType, OptimizedType DEF DropDocuments

LEMMA WithoutType ==
    ASSUME NEW table \in Table, NEW gone
    PROVE  Without(table, gone) \in Table
BY DEF Without, Table

LEMMA SearchableType ==
    ASSUME NEW s \in Slots, NEW row \in Row
    PROVE  Searchable(s, row) \in Keys \X Descriptions \X Values
BY DEF Searchable, Row

LEMMA NewRowType ==
    ASSUME NEW value \in Values, NEW description \in Descriptions,
           NEW pinned \in BOOLEAN, NEW seq \in Nat \ {0}
    PROVE  NewRow(value, description, pinned, seq) \in Row
BY DEF NewRow, Row

LEMMA RevisedRowType ==
    ASSUME NEW row \in Row, NEW value \in Values, NEW description \in Descriptions,
           NEW pinned \in BOOLEAN
    PROVE  RevisedRow(row, value, description, pinned) \in Row
<1>1. row.revision + 1 \in Nat \ {0}
    BY DEF Row
<1> QED
    BY <1>1 DEF RevisedRow, Row

-----------------------------------------------------------------------------
(* Every variable keeps its type. *)

LEMMA InitType == Init => TypeOK
<1>1. EmptyLog \in Log /\ EmptyIndex \in Index
    BY DEF EmptyLog, EmptyIndex, Log, Index
<1> QED
    BY <1>1 DEF Init, StoreInit, FieldInit, TypeOK, Log, Index

LEMMA InsertType ==
    ASSUME TypeOK, NEW p \in Personas, NEW k \in Keys, NEW value \in Values,
           NEW description \in Descriptions, NEW pinned \in BOOLEAN, NEW cap \in PinCaps,
           InsertField(p, k, value, description, pinned, cap)
    PROVE  TypeOK'
<1> DEFINE s == <<p, k>>
           gone == IF PastDue(s) THEN {s} ELSE {}
           row == NewRow(value, description, pinned, fieldSeq + 1)
<1>1. /\ fieldSeq + 1 \in Nat \ {0} /\ row \in Row /\ row.seq = fieldSeq + 1
      /\ fields \in Table /\ fieldIndex \in Index /\ log \in Log
      /\ now \in Nat /\ personas \subseteq Personas
    BY NewRowType DEF TypeOK, Table, Index, Log, NewRow
<1>2. fields' = [Without(fields, gone) EXCEPT ![s] = row]
    BY DEF InsertField, NextSeq, StartsAfresh, Exists
<1>3. fields' \in Table
    BY <1>1, <1>2, WithoutType DEF Table
<1>4. fieldIndex' \in Index
    <2>1. fieldIndex' = Indexed(DropDocuments(fieldIndex, fields, gone), row.seq,
                                Searchable(s, row))
        BY DEF InsertField, NextSeq, StartsAfresh, Exists
    <2> QED
        BY <1>1, <2>1, DropDocumentsType, SearchableType, IndexedType
<1>5. log' \in Log
    <2>1. FieldEvent("field.set", s, 1, Never, NoValue) \in Body
        BY DEF FieldEvent, Event, Body, FieldActions
    <2>2. log' = Appended(StripValues(log, gone, FieldActions),
                          FieldEvent("field.set", s, 1, Never, NoValue))
        BY DEF InsertField, NextSeq, StartsAfresh, Exists
    <2> QED
        BY <1>1, <2>1, <2>2, StripType, AppendType
<1> QED
    BY <1>1, <1>3, <1>4, <1>5 DEF TypeOK, Table, Index, Log, InsertField, NextSeq

LEMMA ReviseType ==
    ASSUME TypeOK, NEW p \in Personas, NEW k \in Keys, NEW value \in Values,
           NEW description \in Descriptions, NEW pinned \in BOOLEAN, NEW cap \in PinCaps,
           NEW logValues \in BOOLEAN,
           ReviseField(p, k, value, description, pinned, cap, logValues)
    PROVE  TypeOK'
<1> DEFINE s == <<p, k>>
           old == fields[s]
           row == RevisedRow(old, value, description, pinned)
           ev == FieldEvent(IF old.forgotten THEN "field.set" ELSE "field.revised",
                            s, row.revision, Never, KeptValue(old, value, logValues))
<1>1. old \in Row
    BY DEF TypeOK, ReviseField, StartsAfresh, Exists
<1>2. /\ row \in Row /\ old.seq \in Nat
      /\ fields \in Table /\ fieldIndex \in Index /\ log \in Log
      /\ now \in Nat /\ personas \subseteq Personas
    BY <1>1, RevisedRowType DEF TypeOK, Table, Index, Log, Row
<1>3. fields' \in Table
    BY <1>2 DEF Table, ReviseField
<1>4. fieldIndex' \in Index
    <2>1. fieldIndex' = Indexed(Unindexed(fieldIndex, {old.seq}), old.seq,
                                Searchable(s, row))
        BY DEF ReviseField
    <2> QED
        BY <1>2, <2>1, UnindexedType, SearchableType, IndexedType
<1>5. log' \in Log
    <2>1. ev \in Body
        BY <1>1, <1>2 DEF FieldEvent, Event, Body, FieldActions, KeptValue, Row
    <2>2. log' = Appended(log, ev)
        BY DEF ReviseField
    <2> QED
        BY <1>2, <2>1, <2>2, AppendType
<1> QED
    BY <1>2, <1>3, <1>4, <1>5 DEF TypeOK, Table, Index, Log, ReviseField

LEMMA PurgeAfterType ==
    ASSUME TypeOK, NEW policy \in Policies
    PROVE  PurgeAfter(policy, now) \in Nat \cup {Never}
<1>1. CASE policy.mode = "grace"
    <2>1. policy.graceDays \in Nat
        BY <1>1, GraceAssumption DEF Policies
    <2>2. now \in Nat
        BY DEF TypeOK
    <2> QED
        BY <1>1, <2>1, <2>2 DEF PurgeAfter
<1> QED
    BY <1>1 DEF PurgeAfter

ForgottenRow(row, due) == [row EXCEPT !.forgotten = TRUE, !.purgeAfter = due]

LEMMA ForgottenRowType ==
    ASSUME NEW row \in Row, NEW due \in Nat \cup {Never}
    PROVE  /\ ForgottenRow(row, due) \in Row /\ ForgottenRow(row, due) # NoRow
           /\ ForgottenRow(row, due).forgotten = TRUE
           /\ ForgottenRow(row, due).purgeAfter = due
           /\ ForgottenRow(row, due).seq = row.seq
           /\ ForgottenRow(row, due).revision = row.revision
<1>1. ForgottenRow(row, due) \in Row
    BY DEF ForgottenRow, Row
<1>2. /\ ForgottenRow(row, due).forgotten = TRUE /\ ForgottenRow(row, due).purgeAfter = due
      /\ ForgottenRow(row, due).seq = row.seq
      /\ ForgottenRow(row, due).revision = row.revision
    BY DEF ForgottenRow, Row
<1> QED
    BY <1>1, <1>2, FieldAssumption

LEMMA ForgetType ==
    ASSUME TypeOK, NEW p \in Personas, NEW k \in Keys, NEW policy \in Policies,
           ForgetField(p, k, policy)
    PROVE  TypeOK'
<1> DEFINE s == <<p, k>>
           due == PurgeAfter(policy, now)
           gone == IF DestroysNow(policy) THEN {s} ELSE {}
           row == [fields[s] EXCEPT !.forgotten = TRUE, !.purgeAfter = due]
<1>1. fields[s] \in Row
    BY DEF TypeOK, ForgetField, CanForget, Live, LiveIn
<1>2. due \in Nat \cup {Never}
    BY PurgeAfterType
<1>3. /\ row \in Row
      /\ fields \in Table /\ fieldIndex \in Index /\ log \in Log
      /\ now \in Nat /\ personas \subseteq Personas
    BY <1>1, <1>2 DEF TypeOK, Table, Index, Log, Row
<1>4. fields' \in Table
    <2>1. [fields EXCEPT ![s] = row] \in Table
        BY <1>3 DEF Table
    <2> QED
        BY <2>1, WithoutType DEF ForgetField
<1>5. fieldIndex' \in Index
    BY <1>3, UnindexedType, DropDocumentsType DEF ForgetField
<1>6. log' \in Log
    <2>1. FieldEvent("field.forgotten", s, 0, due, NoValue) \in Body
        BY <1>2 DEF FieldEvent, Event, Body, FieldActions
    <2> QED
        BY <1>3, <2>1, AppendType, StripType DEF ForgetField
<1> QED
    BY <1>3, <1>4, <1>5, <1>6 DEF TypeOK, Table, Index, Log, ForgetField

\* A transaction of the note store leaves a log of the same type.
LEMMA NoteEventType == \A e \in NoteEvents : e \in Body /\ e.action \in NoteActions
<1> SUFFICES ASSUME NEW e \in NoteEvents
             PROVE  e \in Body /\ e.action \in NoteActions
    OBVIOUS
<1>1. e \in [action : NoteActions, persona : Personas, subject : NoteSubjects,
              revision : Nat, due : Nat \cup {Never}, oldValue : NoteValues]
    BY FieldAssumption
<1> QED
    BY <1>1 DEF Body

LEMMA OtherType ==
    ASSUME log \in Log, OtherTransaction(NoteEvents, NoteActions)
    PROVE  log' \in Log
<1>1. ASSUME NEW gone, log' = StripValues(log, gone, NoteActions)
      PROVE  log' \in Log
    BY <1>1, StripType
<1>2. ASSUME NEW e \in NoteEvents, NEW gone,
             \/ log' = Appended(StripValues(log, gone, NoteActions), e)
             \/ log' = StripValues(Appended(log, e), gone, NoteActions)
      PROVE  log' \in Log
    BY <1>2, NoteEventType, StripType, AppendType
<1> QED
    BY <1>1, <1>2 DEF OtherTransaction

LEMMA NextType == TypeOK /\ [Next]_vars => TypeOK'
<1> SUFFICES ASSUME TypeOK, [Next]_vars
             PROVE  TypeOK'
    OBVIOUS
<1>0. /\ fields \in Table /\ fieldIndex \in Index /\ log \in Log
    BY DEF TypeOK, Table, Index, Log
<1>1. ASSUME NEW p \in Personas, NEW k \in Keys, SetField(p, k)
      PROVE  TypeOK'
    BY <1>1, InsertType, ReviseType DEF SetField
<1>2. ASSUME NEW p \in Personas, NEW k \in Keys, NEW policy \in Policies,
             ForgetField(p, k, policy)
      PROVE  TypeOK'
    BY <1>2, ForgetType
<1>3. CASE PurgeDueFields
    BY <1>0, <1>3, WithoutType, DropDocumentsType, StripType
       DEF PurgeDueFields, TypeOK, Table, Index, Log
<1>4. ASSUME NEW p \in Personas, DropPersona(p), DropFieldsOf(p)
      PROVE  TypeOK'
    BY <1>0, <1>4, WithoutType, UnindexedType, OptimizedType, StripPersonaType
       DEF DropPersona, DropFieldsOf, TypeOK, Table, Index, Log
<1>5. CASE Tick /\ UNCHANGED fieldVars
    BY <1>5 DEF Tick, fieldVars, TypeOK
<1>6. ASSUME NEW p \in Personas, AddPersona(p), UNCHANGED fieldVars
      PROVE  TypeOK'
    BY <1>6 DEF AddPersona, fieldVars, TypeOK
<1>7. ASSUME NEW p \in Personas, NEW a \in PersonaActions, RecordPersonaEvent(p, a),
             UNCHANGED fieldVars
      PROVE  TypeOK'
    <2>1. Event(a, p, p, 0, Never, NoValue) \in Body
        BY DEF Event, Body
    <2> QED
        BY <1>0, <1>7, <2>1, AppendType DEF RecordPersonaEvent, fieldVars, TypeOK, Log
<1>8. ASSUME OtherTransaction(NoteEvents, NoteActions), UNCHANGED fieldVars
      PROVE  TypeOK'
    <2>1. log' \in Log
        BY <1>0, <1>8, OtherType
    <2>2. UNCHANGED <<now, personas, fields, fieldSeq, fieldIndex>>
        BY <1>8 DEF OtherTransaction, fieldVars
    <2> QED
        BY <2>1, <2>2 DEF TypeOK, Log
<1>9. CASE UNCHANGED vars
    BY <1>9 DEF vars, storeVars, fieldVars, TypeOK
<1> QED
    BY <1>1, <1>2, <1>3, <1>4, <1>5, <1>6, <1>7, <1>8, <1>9
       DEF Next, FieldOperation, Elsewhere

\* Type correctness of the field store.
THEOREM TypeCorrect == Spec => []TypeOK
<1> QED
    BY InitType, NextType, PTL DEF Spec

-----------------------------------------------------------------------------
(* What each transaction does to the table, slot by slot. *)

LEMMA WithoutAt ==
    ASSUME NEW table, NEW gone, NEW t \in Slots
    PROVE  Without(table, gone)[t] = IF t \in gone THEN NoRow ELSE table[t]
BY DEF Without

LEMMA InsertTable ==
    ASSUME TypeOK, NEW p \in Personas, NEW k \in Keys, NEW value \in Values,
           NEW description \in Descriptions, NEW pinned \in BOOLEAN, NEW cap \in PinCaps,
           InsertField(p, k, value, description, pinned, cap)
    PROVE  /\ <<p, k>> \in Slots
           /\ fields[<<p, k>>] = NoRow \/ PastDue(<<p, k>>)
           /\ NewRow(value, description, pinned, fieldSeq + 1) \in Row
           /\ fields'[<<p, k>>] = NewRow(value, description, pinned, fieldSeq + 1)
           /\ \A t \in Slots : t # <<p, k>> => fields'[t] = fields[t]
<1> DEFINE s == <<p, k>>
           gone == IF PastDue(s) THEN {s} ELSE {}
           base == Without(fields, gone)
           row == NewRow(value, description, pinned, fieldSeq + 1)
<1>1. row \in Row
    BY NewRowType DEF TypeOK
<1>2. base \in Table
    BY WithoutType DEF TypeOK, Table
<1>3. StartsAfresh(s) /\ fields' = [base EXCEPT ![s] = row]
    BY DEF InsertField, NextSeq
<1>4. \A t \in Slots : fields'[t] = IF t = s THEN row ELSE base[t]
    BY <1>2, <1>3 DEF Table
<1> QED
    BY <1>1, <1>3, <1>4, WithoutAt DEF StartsAfresh, Exists

LEMMA ReviseTable ==
    ASSUME TypeOK, NEW p \in Personas, NEW k \in Keys, NEW value \in Values,
           NEW description \in Descriptions, NEW pinned \in BOOLEAN, NEW cap \in PinCaps,
           NEW logValues \in BOOLEAN,
           ReviseField(p, k, value, description, pinned, cap, logValues)
    PROVE  /\ <<p, k>> \in Slots
           /\ fields[<<p, k>>] \in Row /\ ~PastDue(<<p, k>>)
           /\ RevisedRow(fields[<<p, k>>], value, description, pinned) \in Row
           /\ fields'[<<p, k>>] = RevisedRow(fields[<<p, k>>], value, description, pinned)
           /\ \A t \in Slots : t # <<p, k>> => fields'[t] = fields[t]
<1>1. fields[<<p, k>>] \in Row
    BY DEF TypeOK, ReviseField, StartsAfresh, Exists
<1> QED
    BY <1>1, RevisedRowType DEF TypeOK, ReviseField, StartsAfresh

LEMMA ForgetTable ==
    ASSUME TypeOK, NEW p \in Personas, NEW k \in Keys, NEW policy \in Policies,
           ForgetField(p, k, policy)
    PROVE  /\ <<p, k>> \in Slots
           /\ fields[<<p, k>>] \in Row /\ ~fields[<<p, k>>].forgotten
           /\ DestroysNow(policy) => fields'[<<p, k>>] = NoRow
           /\ ~DestroysNow(policy) =>
                 fields'[<<p, k>>] = ForgottenRow(fields[<<p, k>>], PurgeAfter(policy, now))
           /\ \A t \in Slots : t # <<p, k>> => fields'[t] = fields[t]
<1> DEFINE s == <<p, k>>
           row == ForgottenRow(fields[s], PurgeAfter(policy, now))
           gone == IF DestroysNow(policy) THEN {s} ELSE {}
           kept == [fields EXCEPT ![s] = row]
<1>1. fields[s] \in Row /\ ~fields[s].forgotten
    BY DEF TypeOK, ForgetField, CanForget, Live, LiveIn
<1>2. fields' = Without(kept, gone)
    BY DEF ForgetField, ForgottenRow
<1>3. \A t \in Slots : kept[t] = IF t = s THEN row ELSE fields[t]
    BY DEF TypeOK
<1> HIDE DEF kept, row
<1>4. \A t \in Slots : fields'[t] = IF t \in gone THEN NoRow ELSE kept[t]
    BY <1>2, WithoutAt
<1> QED
    BY <1>1, <1>3, <1>4 DEF row

LEMMA DropTable ==
    ASSUME NEW p \in Personas, DropFieldsOf(p), NEW t \in Slots
    PROVE  fields'[t] = IF t[1] = p THEN NoRow ELSE fields[t]
BY WithoutAt DEF DropFieldsOf

-----------------------------------------------------------------------------
(* The invariants of the table.  ScheduledIsForgotten is what makes a purge  *)
(* harmless to the index: only forgotten rows, which have no document, have  *)
(* a date.                                                                   *)

ScheduledIsForgotten ==
    \A s \in Slots : Exists(s) /\ fields[s].purgeAfter # Never => fields[s].forgotten

TableInv == RowsHavePersonas /\ DocidsAreUnique /\ ScheduledIsForgotten

LEMMA InitTable == Init => TableInv
BY DEF Init, FieldInit, TableInv, RowsHavePersonas, DocidsAreUnique, ScheduledIsForgotten,
       Exists

LEMMA NextTable == TypeOK /\ TableInv /\ [Next]_vars => TableInv'
<1> SUFFICES ASSUME TypeOK, TableInv, [Next]_vars
             PROVE  TableInv'
    OBVIOUS
<1>0. /\ fields \in [Slots -> Row \cup {NoRow}] /\ fieldSeq \in Nat /\ NoRow \notin Row
    BY FieldAssumption DEF TypeOK
<1> USE DEF TableInv, RowsHavePersonas, DocidsAreUnique, ScheduledIsForgotten, Exists
<1>1. ASSUME NEW p \in Personas, NEW k \in Keys, NEW value \in Values,
             NEW description \in Descriptions, NEW pinned \in BOOLEAN, NEW cap \in PinCaps,
             InsertField(p, k, value, description, pinned, cap)
      PROVE  TableInv'
    <2>1. /\ p \in personas' /\ personas' = personas /\ fieldSeq' = fieldSeq + 1
        BY <1>1 DEF InsertField, NextSeq
    <2> DEFINE s == <<p, k>>
    <2>2. /\ s \in Slots /\ s[1] = p
          /\ fields'[s] \in Row
          /\ fields'[s] = NewRow(value, description, pinned, fieldSeq + 1)
          /\ \A t \in Slots : t # s => fields'[t] = fields[t]
        BY <1>1, InsertTable
    <2> HIDE DEF s
    <2>3. fields'[s].seq = fieldSeq + 1 /\ fields'[s].purgeAfter = Never
        BY <2>2 DEF NewRow
    <2> QED
        BY <1>0, <2>1, <2>2, <2>3 DEF Row
<1>2. ASSUME NEW p \in Personas, NEW k \in Keys, NEW value \in Values,
             NEW description \in Descriptions, NEW pinned \in BOOLEAN, NEW cap \in PinCaps,
             NEW logValues \in BOOLEAN,
             ReviseField(p, k, value, description, pinned, cap, logValues)
      PROVE  TableInv'
    <2>1. personas' = personas /\ fieldSeq' = fieldSeq
        BY <1>2 DEF ReviseField
    <2> DEFINE s == <<p, k>>
    <2>2. /\ s \in Slots /\ fields[s] \in Row
          /\ fields'[s] = RevisedRow(fields[s], value, description, pinned)
          /\ \A t \in Slots : t # s => fields'[t] = fields[t]
        BY <1>2, ReviseTable
    <2> HIDE DEF s
    <2>3. fields'[s].seq = fields[s].seq /\ fields'[s].purgeAfter = Never
        BY <2>2 DEF RevisedRow, Row
    <2> QED
        BY <1>0, <2>1, <2>2, <2>3 DEF Row
<1>3. ASSUME NEW p \in Personas, NEW k \in Keys, NEW policy \in Policies,
             ForgetField(p, k, policy)
      PROVE  TableInv'
    <2>1. personas' = personas /\ fieldSeq' = fieldSeq
        BY <1>3 DEF ForgetField
    <2> DEFINE s == <<p, k>>
    <2>2. /\ s \in Slots /\ fields[s] \in Row
          /\ \/ fields'[s] = NoRow
             \/ fields'[s] = ForgottenRow(fields[s], PurgeAfter(policy, now))
          /\ \A t \in Slots : t # s => fields'[t] = fields[t]
        BY <1>3, ForgetTable
    <2> HIDE DEF s
    <2>3. PurgeAfter(policy, now) \in Nat \cup {Never}
        BY PurgeAfterType
    <2>4. LET kept == ForgottenRow(fields[s], PurgeAfter(policy, now))
          IN  kept.seq = fields[s].seq /\ kept.forgotten = TRUE
        BY <2>2, <2>3, ForgottenRowType
    <2>5. fields'[s] # NoRow => fields'[s].seq = fields[s].seq /\ fields'[s].forgotten
        BY <2>2, <2>4
    <2> QED
        BY <1>0, <2>1, <2>2, <2>5 DEF Row
<1>4. CASE PurgeDueFields
    BY <1>0, <1>4, WithoutAt DEF PurgeDueFields
<1>5. ASSUME NEW p \in Personas, DropPersona(p), DropFieldsOf(p)
      PROVE  TableInv'
    <2>1. personas' = personas \ {p} /\ fieldSeq' = fieldSeq
        BY <1>5 DEF DropPersona, DropFieldsOf
    <2> QED
        BY <1>0, <1>5, <2>1, DropTable
<1>6. CASE Elsewhere /\ UNCHANGED fieldVars
    <2>1. UNCHANGED <<fields, fieldSeq>> /\ personas \subseteq personas'
        BY <1>6 DEF Elsewhere, Tick, AddPersona, RecordPersonaEvent, OtherTransaction, fieldVars
    <2> QED
        BY <2>1
<1>7. CASE UNCHANGED vars
    BY <1>7 DEF vars, storeVars, fieldVars
<1> QED
    BY <1>1, <1>2, <1>3, <1>4, <1>5, <1>6, <1>7 DEF Next, FieldOperation, SetField

\* Every row belongs to a persona, and no two rows share a docid, in every
\* state of every instance.
THEOREM TableCorrect == Spec => [](RowsHavePersonas /\ DocidsAreUnique)
<1>1. Spec => []TableInv
    BY InitType, NextType, InitTable, NextTable, PTL DEF Spec
<1> QED
    BY <1>1, PTL DEF TableInv

-----------------------------------------------------------------------------
(* The search index. *)

LEMMA UnindexedParts ==
    ASSUME NEW ix \in Index, NEW docids
    PROVE  /\ Unindexed(ix, docids).entries = {d \in ix.entries : d.docid \notin docids}
           /\ Unindexed(ix, docids).words = ix.words
BY DEF Unindexed, Index

LEMMA OptimizedParts ==
    ASSUME NEW ix \in Index
    PROVE  /\ Optimized(ix).entries = ix.entries
           /\ Optimized(ix).words = {d.docid : d \in ix.entries}
BY DEF Optimized, Index

LEMMA DropParts ==
    ASSUME NEW ix \in Index, NEW table, NEW gone
    PROVE  /\ DropDocuments(ix, table, gone).entries =
                  {d \in ix.entries : d.docid \notin DocidsOf(table, gone)}
           /\ gone = {} => DropDocuments(ix, table, gone).words = ix.words
           /\ gone # {} => \A x \in DropDocuments(ix, table, gone).words :
                              \E d \in DropDocuments(ix, table, gone).entries : x = d.docid
<1>1. CASE gone = {}
    BY <1>1 DEF DropDocuments, DocidsOf
<1>2. CASE gone # {}
    BY <1>2, UnindexedType, UnindexedParts, OptimizedParts DEF DropDocuments
<1> QED
    BY <1>1, <1>2

DocumentOf(s) == [docid |-> fields[s].seq, text |-> Searchable(s, fields[s])]

LEMMA IndexPointwise ==
    IndexAgrees <=> \A d : d \in fieldIndex.entries <=> \E s \in Slots : Live(s) /\ d = DocumentOf(s)
BY DEF IndexAgrees, DocumentOf

IndexInv == IndexAgrees /\ WordsBelongToRows

LEMMA InitIndex == Init => IndexInv
BY DEF Init, FieldInit, EmptyIndex, IndexInv, IndexAgrees, WordsBelongToRows, Live, LiveIn

\* Words need no argument of their own where the index has just been rewritten:
\* what is left are the documents, and those are rows.
LEMMA RewrittenWords ==
    ASSUME IndexAgrees', \A x \in fieldIndex'.words : \E d \in fieldIndex'.entries : x = d.docid
    PROVE  WordsBelongToRows'
<1> SUFFICES ASSUME NEW docid \in fieldIndex'.words
             PROVE  \E s \in Slots : Exists(s)' /\ fields'[s].seq = docid
    BY DEF WordsBelongToRows
<1>1. PICK d \in fieldIndex'.entries : docid = d.docid
    OBVIOUS
<1>2. PICK s \in Slots : Live(s)' /\ d = DocumentOf(s)'
    BY DEF IndexAgrees, DocumentOf
<1> QED
    BY <1>1, <1>2 DEF DocumentOf, Live, LiveIn, Exists

LEMMA InsertIndex ==
    ASSUME TypeOK, TableInv, IndexInv,
           NEW p \in Personas, NEW k \in Keys, NEW value \in Values,
           NEW description \in Descriptions, NEW pinned \in BOOLEAN, NEW cap \in PinCaps,
           InsertField(p, k, value, description, pinned, cap)
    PROVE  IndexInv'
<1> DEFINE s == <<p, k>>
           gone == IF PastDue(s) THEN {s} ELSE {}
           row == NewRow(value, description, pinned, fieldSeq + 1)
           dropped == DropDocuments(fieldIndex, fields, gone)
<1>0. /\ fields \in [Slots -> Row \cup {NoRow}] /\ NoRow \notin Row /\ fieldSeq \in Nat
      /\ fieldIndex \in Index
    BY FieldAssumption DEF TypeOK, Index
<1>1. /\ s \in Slots /\ row \in Row /\ fields'[s] = row
      /\ \A t \in Slots : t # s => fields'[t] = fields[t]
      /\ fields[s] = NoRow \/ PastDue(s)
    BY InsertTable
<1>2. row.seq = fieldSeq + 1 /\ ~row.forgotten
    BY DEF NewRow
<1>3. /\ fieldIndex'.entries = dropped.entries \cup
             {[docid |-> row.seq, text |-> Searchable(s, row)]}
      /\ fieldIndex'.words = dropped.words \cup {row.seq}
    BY DEF InsertField, Indexed, NextSeq, StartsAfresh, Exists
<1>4. ~Live(s)
    BY <1>0, <1>1 DEF TableInv, ScheduledIsForgotten, Live, LiveIn, PastDue, Due, Exists
<1>5. dropped.entries = fieldIndex.entries
    <2>0. dropped.entries = {d \in fieldIndex.entries : d.docid \notin DocidsOf(fields, gone)}
        BY <1>0, DropParts
    <2> HIDE DEF dropped
    <2> SUFFICES ASSUME NEW d \in fieldIndex.entries
                 PROVE  d.docid \notin DocidsOf(fields, gone)
        BY <2>0
    <2>1. PICK t \in Slots : Live(t) /\ d = DocumentOf(t)
        BY IndexPointwise DEF IndexInv
    <2>2. d.docid = fields[t].seq /\ t # s /\ Exists(t)
        BY <2>1, <1>4 DEF DocumentOf, Live, LiveIn, Exists
    <2> QED
        BY <1>1, <2>2 DEF DocidsOf, TableInv, DocidsAreUnique, Exists
<1> HIDE DEF s, row
<1>6. IndexAgrees'
    <2>1. Live(s)'
        BY <1>0, <1>1, <1>2 DEF Live, LiveIn
    <2>2. DocumentOf(s)' = [docid |-> row.seq, text |-> Searchable(s, row)]
        BY <1>1 DEF DocumentOf
    <2>3. \A t \in Slots : t # s => (Live(t)' <=> Live(t)) /\ DocumentOf(t)' = DocumentOf(t)
        BY <1>1 DEF Live, LiveIn, DocumentOf
    <2>4. \A d : d \in fieldIndex'.entries <=> \E t \in Slots : Live(t)' /\ d = DocumentOf(t)'
        BY <1>1, <1>3, <1>4, <1>5, <2>1, <2>2, <2>3, IndexPointwise DEF IndexInv
    <2> QED
        BY <2>4 DEF IndexAgrees, DocumentOf
<1>7. WordsBelongToRows'
    <2>1. CASE gone = {}
        <3>1. fieldIndex'.words = fieldIndex.words \cup {row.seq}
            BY <1>0, <1>3, <2>1, DropParts
        <3>2. fields[s] = NoRow
            BY <1>1, <2>1
        <3> QED
            BY <1>0, <1>1, <3>1, <3>2 DEF IndexInv, WordsBelongToRows, Exists
    <2>2. CASE gone # {}
        <3>1. \A x \in dropped.words : \E d \in dropped.entries : x = d.docid
            BY <1>0, <2>2, DropParts
        <3> HIDE DEF dropped
        <3> DEFINE new == [docid |-> row.seq, text |-> Searchable(s, row)]
        <3>3. new.docid = row.seq
            OBVIOUS
        <3> HIDE DEF new
        <3>4. fieldIndex'.entries = dropped.entries \cup {new}
            BY <1>3 DEF new
        <3>2. \A x \in fieldIndex'.words : \E d \in fieldIndex'.entries : x = d.docid
            BY <1>3, <3>1, <3>3, <3>4
        <3> QED
            BY <1>6, <3>2, RewrittenWords
    <2> QED
        BY <2>1, <2>2
<1> QED
    BY <1>6, <1>7 DEF IndexInv

LEMMA ReviseIndex ==
    ASSUME TypeOK, TableInv, IndexInv,
           NEW p \in Personas, NEW k \in Keys, NEW value \in Values,
           NEW description \in Descriptions, NEW pinned \in BOOLEAN, NEW cap \in PinCaps,
           NEW logValues \in BOOLEAN,
           ReviseField(p, k, value, description, pinned, cap, logValues)
    PROVE  IndexInv'
<1> DEFINE s == <<p, k>>
           old == fields[s]
           row == RevisedRow(old, value, description, pinned)
           new == [docid |-> old.seq, text |-> Searchable(s, row)]
<1>0. /\ fields \in [Slots -> Row \cup {NoRow}] /\ NoRow \notin Row /\ fieldIndex \in Index
    BY FieldAssumption DEF TypeOK, Index
<1>1. /\ s \in Slots /\ old \in Row /\ row \in Row /\ fields'[s] = row
      /\ \A t \in Slots : t # s => fields'[t] = fields[t]
    BY ReviseTable
<1>2. row.seq = old.seq /\ ~row.forgotten
    BY <1>1 DEF RevisedRow, Row
<1>3. /\ fieldIndex'.entries = {d \in fieldIndex.entries : d.docid \notin {old.seq}} \cup {new}
      /\ fieldIndex'.words = fieldIndex.words \cup {old.seq}
    BY <1>0, UnindexedParts DEF ReviseField, Indexed
<1> HIDE DEF s, row
<1>4. Live(s)' /\ DocumentOf(s)' = new
    BY <1>0, <1>1, <1>2 DEF Live, LiveIn, DocumentOf
<1>5. \A t \in Slots : t # s => (Live(t)' <=> Live(t)) /\ DocumentOf(t)' = DocumentOf(t)
    BY <1>1 DEF Live, LiveIn, DocumentOf
<1>6. \A t \in Slots : Live(t) => (DocumentOf(t).docid = old.seq <=> t = s)
    BY <1>0, <1>1 DEF TableInv, DocidsAreUnique, DocumentOf, Live, LiveIn, Exists
<1> HIDE DEF new, old
<1>7. IndexAgrees'
    <2>1. \A d : d \in fieldIndex'.entries <=> \E t \in Slots : Live(t)' /\ d = DocumentOf(t)'
        BY <1>1, <1>3, <1>4, <1>5, <1>6, IndexPointwise DEF IndexInv
    <2> QED
        BY <2>1 DEF IndexAgrees, DocumentOf
<1>8. WordsBelongToRows'
    BY <1>0, <1>1, <1>2, <1>3 DEF IndexInv, WordsBelongToRows, Exists, old
<1> QED
    BY <1>7, <1>8 DEF IndexInv

LEMMA ForgetIndex ==
    ASSUME TypeOK, TableInv, IndexInv,
           NEW p \in Personas, NEW k \in Keys, NEW policy \in Policies,
           ForgetField(p, k, policy)
    PROVE  IndexInv'
<1> DEFINE s == <<p, k>>
           old == fields[s]
           gone == IF DestroysNow(policy) THEN {s} ELSE {}
           cut == Unindexed(fieldIndex, {old.seq})
<1>0. /\ fields \in [Slots -> Row \cup {NoRow}] /\ NoRow \notin Row /\ fieldIndex \in Index
    BY FieldAssumption DEF TypeOK, Index
<1>1. /\ s \in Slots /\ old \in Row
      /\ DestroysNow(policy) => fields'[s] = NoRow
      /\ ~DestroysNow(policy) => fields'[s] = ForgottenRow(old, PurgeAfter(policy, now))
      /\ \A t \in Slots : t # s => fields'[t] = fields[t]
    <2> HIDE DEF cut, gone
    <2> QED
        BY ForgetTable
<1>2. ~DestroysNow(policy) =>
          fields'[s] # NoRow /\ fields'[s].forgotten /\ fields'[s].seq = old.seq
    <2>1. PurgeAfter(policy, now) \in Nat \cup {Never}
        BY PurgeAfterType
    <2>2. LET kept == ForgottenRow(old, PurgeAfter(policy, now))
          IN  /\ kept \in Row /\ kept # NoRow /\ kept.forgotten = TRUE
              /\ kept.seq = old.seq /\ kept.revision = old.revision
        BY <1>1, <2>1, ForgottenRowType
    <2> QED
        BY <1>1, <2>2
<1>3. /\ cut \in Index
      /\ cut.entries = {d \in fieldIndex.entries : d.docid \notin {old.seq}}
      /\ cut.words = fieldIndex.words
    BY <1>0, UnindexedType, UnindexedParts
<1>4. fieldIndex' = DropDocuments(cut, fields, gone)
    <2>1. [old EXCEPT !.forgotten = TRUE, !.purgeAfter = PurgeAfter(policy, now)].seq = old.seq
        BY <1>1 DEF Row
    <2> QED
        BY <2>1 DEF ForgetField
<1>5. /\ fieldIndex'.entries = {d \in cut.entries : d.docid \notin DocidsOf(fields, gone)}
      /\ gone = {} => fieldIndex'.words = cut.words
      /\ gone # {} => \A x \in fieldIndex'.words : \E d \in fieldIndex'.entries : x = d.docid
    <2> HIDE DEF cut, gone
    <2> QED
        BY <1>3, <1>4, DropParts
<1>6. DocidsOf(fields, gone) \subseteq {old.seq}
    BY DEF DocidsOf
<1>7. fieldIndex'.entries = {d \in fieldIndex.entries : d.docid \notin {old.seq}}
    BY <1>3, <1>5, <1>6
<1> HIDE DEF s, cut
<1>8. ~Live(s)'
    BY <1>1, <1>2 DEF Live, LiveIn
<1>9. \A t \in Slots : t # s => (Live(t)' <=> Live(t)) /\ DocumentOf(t)' = DocumentOf(t)
    BY <1>1 DEF Live, LiveIn, DocumentOf
<1>10. \A t \in Slots : Live(t) => (DocumentOf(t).docid = old.seq <=> t = s)
    BY <1>0, <1>1 DEF TableInv, DocidsAreUnique, DocumentOf, Live, LiveIn, Exists
<1>11. IndexAgrees'
    <2>1. \A d : d \in fieldIndex'.entries <=> \E t \in Slots : Live(t)' /\ d = DocumentOf(t)'
        BY <1>1, <1>7, <1>8, <1>9, <1>10, IndexPointwise DEF IndexInv
    <2> QED
        BY <2>1 DEF IndexAgrees, DocumentOf
<1>12. WordsBelongToRows'
    <2>1. CASE DestroysNow(policy)
        BY <1>5, <1>11, <2>1, RewrittenWords
    <2>2. CASE ~DestroysNow(policy)
        <3>1. fieldIndex'.words = fieldIndex.words
            BY <1>3, <1>5, <2>2
        <3> QED
            BY <1>0, <1>1, <1>2, <2>2, <3>1 DEF IndexInv, WordsBelongToRows, Exists
    <2> QED
        BY <2>1, <2>2
<1> QED
    BY <1>11, <1>12 DEF IndexInv

\* A purge takes rows that are not in the index; what it leaves of the words is
\* what the rewrite leaves.
LEMMA PurgeIndex ==
    ASSUME TypeOK, TableInv, IndexInv, PurgeDueFields
    PROVE  IndexInv'
<1>0. /\ fields \in [Slots -> Row \cup {NoRow}] /\ NoRow \notin Row /\ fieldIndex \in Index
    BY FieldAssumption DEF TypeOK, Index
<1>1. PICK batch \in FieldBatches :
            /\ fields' = Without(fields, batch)
            /\ fieldIndex' = DropDocuments(fieldIndex, fields, batch)
    BY DEF PurgeDueFields
<1>2. /\ batch # {} /\ batch \subseteq Slots
      /\ \A s \in batch : Exists(s) /\ fields[s].purgeAfter # Never
    BY DEF FieldBatches, DueFields, PastDue, Due
<1>3. /\ fieldIndex'.entries = {d \in fieldIndex.entries : d.docid \notin DocidsOf(fields, batch)}
      /\ \A x \in fieldIndex'.words : \E d \in fieldIndex'.entries : x = d.docid
    BY <1>0, <1>1, <1>2, DropParts
<1>4. \A s \in batch : ~Live(s)
    BY <1>2 DEF TableInv, ScheduledIsForgotten, Live, LiveIn
<1>5. \A s \in Slots : (Live(s)' <=> Live(s)) /\ (Live(s) => DocumentOf(s)' = DocumentOf(s))
    BY <1>1, <1>4, WithoutAt DEF Live, LiveIn, DocumentOf
<1>6. \A s \in Slots : Live(s) => DocumentOf(s).docid \notin DocidsOf(fields, batch)
    BY <1>2, <1>4 DEF TableInv, DocidsAreUnique, DocidsOf, DocumentOf, Live, LiveIn, Exists
<1>7. IndexAgrees'
    <2>1. \A d : d \in fieldIndex'.entries <=> \E t \in Slots : Live(t)' /\ d = DocumentOf(t)'
        BY <1>3, <1>5, <1>6, IndexPointwise DEF IndexInv
    <2> QED
        BY <2>1 DEF IndexAgrees, DocumentOf
<1> QED
    BY <1>3, <1>7, RewrittenWords DEF IndexInv

LEMMA DropIndex ==
    ASSUME TypeOK, TableInv, IndexInv, NEW p \in Personas, DropFieldsOf(p)
    PROVE  IndexInv'
<1> DEFINE gone == {p} \X Keys
           cut == Unindexed(fieldIndex, DocidsOf(fields, gone))
<1>0. /\ fields \in [Slots -> Row \cup {NoRow}] /\ NoRow \notin Row /\ fieldIndex \in Index
    BY FieldAssumption DEF TypeOK, Index
<1>1. /\ cut \in Index
      /\ cut.entries = {d \in fieldIndex.entries : d.docid \notin DocidsOf(fields, gone)}
    BY <1>0, UnindexedType, UnindexedParts
<1>2. /\ fieldIndex'.entries = cut.entries
      /\ fieldIndex'.words = {d.docid : d \in cut.entries}
    BY <1>1, OptimizedParts DEF DropFieldsOf
<1>3. \A s \in Slots : fields'[s] = IF s[1] = p THEN NoRow ELSE fields[s]
    BY DropTable
<1>4. \A s \in Slots : s \in gone <=> s[1] = p
    OBVIOUS
<1> HIDE DEF gone, cut
<1>5. \A s \in Slots : /\ Live(s)' <=> Live(s) /\ s[1] # p
                       /\ Live(s)' => DocumentOf(s)' = DocumentOf(s)
    BY <1>3 DEF Live, LiveIn, DocumentOf
<1>6. \A s \in Slots : Live(s) => (DocumentOf(s).docid \in DocidsOf(fields, gone) <=> s[1] = p)
    <2> SUFFICES ASSUME NEW s \in Slots, Live(s)
                 PROVE  fields[s].seq \in DocidsOf(fields, gone) <=> s \in gone
        BY <1>4 DEF DocumentOf
    <2>1. gone \subseteq Slots
        BY DEF gone
    <2> QED
        BY <2>1 DEF TableInv, DocidsAreUnique, DocidsOf, Live, LiveIn, Exists
<1>7. IndexAgrees'
    <2>1. \A d : d \in fieldIndex'.entries <=> \E t \in Slots : Live(t)' /\ d = DocumentOf(t)'
        BY <1>1, <1>2, <1>5, <1>6, IndexPointwise DEF IndexInv
    <2> QED
        BY <2>1 DEF IndexAgrees, DocumentOf
<1>8. \A x \in fieldIndex'.words : \E d \in fieldIndex'.entries : x = d.docid
    BY <1>2
<1> QED
    BY <1>7, <1>8, RewrittenWords DEF IndexInv

LEMMA NextIndex == TypeOK /\ TableInv /\ IndexInv /\ [Next]_vars => IndexInv'
<1> SUFFICES ASSUME TypeOK, TableInv, IndexInv, [Next]_vars
             PROVE  IndexInv'
    OBVIOUS
<1>1. CASE FieldOperation
    BY <1>1, InsertIndex, ReviseIndex, ForgetIndex, PurgeIndex DEF FieldOperation, SetField
<1>2. CASE \E p \in Personas : DropPersona(p) /\ DropFieldsOf(p)
    BY <1>2, DropIndex
<1>3. CASE UNCHANGED fieldVars
    BY <1>3 DEF fieldVars, IndexInv, IndexAgrees, WordsBelongToRows, Live, LiveIn, Exists
<1> QED
    BY <1>1, <1>2, <1>3 DEF Next, Elsewhere, vars

LEMMA IndexInvariant == Spec => []IndexInv
BY InitType, NextType, InitTable, NextTable, InitIndex, NextIndex, PTL DEF Spec

\* The search index holds exactly the live rows, whatever was written, forgotten,
\* revived, purged or deleted.
THEOREM IndexCorrect == Spec => []IndexAgrees
BY IndexInvariant, PTL DEF IndexInv

\* The words in the index's segments on disk are those of rows that still exist:
\* no path that destroys a row leaves its words behind.
THEOREM WordsCorrect == Spec => []WordsBelongToRows
BY IndexInvariant, PTL DEF IndexInv

-----------------------------------------------------------------------------
(* The change log. *)

LEMMA AppendedParts ==
    ASSUME NEW lg \in Log, NEW ev \in Body
    PROVE  /\ Appended(lg, ev).last = lg.last + 1
           /\ Numbered(lg.last + 1, ev) \in Entry
           /\ \A e \in Entry : e \in Appended(lg, ev).entries <=>
                  /\ e \in lg.entries \/ e = Numbered(lg.last + 1, ev)
                  /\ ~(e.sequence <= lg.last + 1 - MaxEntries)
BY Instances, AppendedEntries

LEMMA StripParts ==
    ASSUME NEW lg \in Log, NEW targets, NEW actions
    PROVE  /\ Stripped(StripValues(lg, targets, actions), lg)
           /\ \A e \in StripValues(lg, targets, actions).entries :
                 <<e.persona, e.subject>> \in targets /\ e.action \in actions
                     => e.oldValue = NoValue
BY Instances, StripEntries

LEMMA StripPersonaParts ==
    ASSUME NEW lg \in Log, NEW p
    PROVE  /\ Stripped(StripPersonaValues(lg, p), lg)
           /\ \A e \in StripPersonaValues(lg, p).entries :
                 e.persona = p => e.oldValue = NoValue
BY Instances, StripPersonaEntries

LogWindow == Window(log)

LogInv == LogWindow /\ KeptValuesBelongToRows

LEMMA InitLog == Init => LogInv
BY EmptyWindow DEF Init, StoreInit, EmptyLog, LogInv, LogWindow, KeptValuesBelongToRows

LEMMA AppendWindow ==
    ASSUME NEW lg \in Log, NEW ev \in Body, Window(lg)
    PROVE  Window(Appended(lg, ev))
BY Instances, AppendKeepsWindow

LEMMA WindowKept ==
    ASSUME TypeOK, LogWindow, NEW lg \in Log, Stripped(lg, log)
    PROVE  /\ log' = lg => LogWindow'
           /\ \A ev \in Body : log' = Appended(lg, ev) => LogWindow'
<1>1. Window(lg)
    <2>1. log \in Log
        BY DEF TypeOK, Log
    <2> QED
        BY <2>1, StripKeepsWindow DEF LogWindow
<1> QED
    BY <1>1, AppendWindow DEF LogWindow

\* An entry of the next log is the new event, or an entry of the old log that
\* may have lost its value.
LEMMA NextEntries ==
    ASSUME NEW lg \in Log, NEW lg2 \in Log, NEW ev \in Body, Stripped(lg2, lg),
           NEW e \in Appended(lg2, ev).entries
    PROVE  \/ e = Numbered(lg.last + 1, ev)
           \/ e \in lg2.entries /\ \E f \in lg.entries :
                  SameEvent(e, f) /\ e.oldValue \in {f.oldValue, NoValue}
BY Instances, KeptEntries

LEMMA InsertLog ==
    ASSUME TypeOK, TableInv, LogInv,
           NEW p \in Personas, NEW k \in Keys, NEW value \in Values,
           NEW description \in Descriptions, NEW pinned \in BOOLEAN, NEW cap \in PinCaps,
           InsertField(p, k, value, description, pinned, cap)
    PROVE  LogInv'
<1> DEFINE s == <<p, k>>
           gone == IF PastDue(s) THEN {s} ELSE {}
           lg == StripValues(log, gone, FieldActions)
           ev == FieldEvent("field.set", s, 1, Never, NoValue)
<1>0. log \in Log
    BY DEF TypeOK, Log
<1>1. /\ s \in Slots
      /\ fields[s] = NoRow \/ PastDue(s)
      /\ \A t \in Slots : t # s => fields'[t] = fields[t]
    BY InsertTable
<1>2. ev \in Body /\ ev.oldValue = NoValue
    BY DEF FieldEvent, Event, Body, FieldActions
<1>3. /\ lg \in Log /\ Stripped(lg, log)
      /\ \A e \in lg.entries : <<e.persona, e.subject>> \in gone /\ e.action \in FieldActions
                                   => e.oldValue = NoValue
    BY <1>0, StripType, StripParts
<1>4. log' = Appended(lg, ev)
    BY DEF InsertField, NextSeq, StartsAfresh, Exists
<1>5. LogWindow'
    BY <1>2, <1>3, <1>4, WindowKept DEF LogInv
<1> HIDE DEF s, lg, ev
<1>6. KeptValuesBelongToRows'
    <2> SUFFICES ASSUME NEW e \in log'.entries, e.oldValue # NoValue, e.action \notin NoteActions
                 PROVE  /\ e.action \in FieldActions
                        /\ <<e.persona, e.subject>> \in Slots
                        /\ Exists(<<e.persona, e.subject>>)'
                        /\ e.revision <= fields'[<<e.persona, e.subject>>].revision
                        /\ e.revision > 1
        BY DEF KeptValuesBelongToRows
    <2>1. Numbered(log.last + 1, ev).oldValue = NoValue
        BY <1>2 DEF Numbered
    <2>2. PICK f \in log.entries : SameEvent(e, f) /\ e.oldValue \in {f.oldValue, NoValue}
        BY <1>0, <1>2, <1>3, <1>4, <2>1, NextEntries
    <2>3. e \in lg.entries
        BY <1>0, <1>2, <1>3, <1>4, <2>1, NextEntries
    <2>4. /\ f.action \in FieldActions /\ <<f.persona, f.subject>> \in Slots
          /\ Exists(<<f.persona, f.subject>>)
          /\ f.revision <= fields[<<f.persona, f.subject>>].revision /\ f.revision > 1
        BY <2>2 DEF SameEvent, LogInv, KeptValuesBelongToRows
    <2>5. e.persona = f.persona /\ e.subject = f.subject /\ e.action = f.action
          /\ e.revision = f.revision
        BY <2>2 DEF SameEvent
    <2>6. <<f.persona, f.subject>> # s
        BY <1>1, <1>3, <2>3, <2>4, <2>5 DEF Exists
    <2> QED
        BY <1>1, <2>4, <2>5, <2>6 DEF Exists
<1> QED
    BY <1>5, <1>6 DEF LogInv

LEMMA ReviseLog ==
    ASSUME TypeOK, LogInv,
           NEW p \in Personas, NEW k \in Keys, NEW value \in Values,
           NEW description \in Descriptions, NEW pinned \in BOOLEAN, NEW cap \in PinCaps,
           NEW logValues \in BOOLEAN,
           ReviseField(p, k, value, description, pinned, cap, logValues)
    PROVE  LogInv'
<1> DEFINE s == <<p, k>>
           old == fields[s]
           row == RevisedRow(old, value, description, pinned)
           ev == FieldEvent(IF old.forgotten THEN "field.set" ELSE "field.revised",
                            s, row.revision, Never, KeptValue(old, value, logValues))
           new == Numbered(log.last + 1, ev)
<1>0. log \in Log /\ Stripped(log, log) /\ NoRow \notin Row
    BY NothingStripped, FieldAssumption DEF TypeOK, Log
<1>1. /\ s \in Slots /\ old \in Row /\ row \in Row /\ fields'[s] = row
      /\ \A t \in Slots : t # s => fields'[t] = fields[t]
    BY ReviseTable
<1>2. row.revision = old.revision + 1 /\ old.revision \in Nat /\ old.revision >= 1
    BY <1>1 DEF RevisedRow, Row
<1>3. ev \in Body
    BY <1>1 DEF FieldEvent, Event, Body, FieldActions, KeptValue, Row
<1>4. /\ new.action \in FieldActions /\ new.persona = p /\ new.subject = k
      /\ new.revision = row.revision
    BY DEF Numbered, FieldEvent, Event, FieldActions
<1>5. log' = Appended(log, ev)
    BY DEF ReviseField
<1>6. LogWindow'
    BY <1>0, <1>3, <1>5, WindowKept DEF LogInv
<1> HIDE DEF old, row, ev, new
<1>7. KeptValuesBelongToRows'
    <2> SUFFICES ASSUME NEW e \in log'.entries, e.oldValue # NoValue, e.action \notin NoteActions
                 PROVE  /\ e.action \in FieldActions
                        /\ <<e.persona, e.subject>> \in Slots
                        /\ Exists(<<e.persona, e.subject>>)'
                        /\ e.revision <= fields'[<<e.persona, e.subject>>].revision
                        /\ e.revision > 1
        BY DEF KeptValuesBelongToRows
    <2>1. CASE e = new
        <3>1. <<e.persona, e.subject>> = s
            BY <1>4, <2>1
        <3> QED
            BY <1>0, <1>1, <1>2, <1>4, <2>1, <3>1 DEF Exists
    <2>2. CASE e # new
        <3>1. PICK f \in log.entries : SameEvent(e, f) /\ e.oldValue \in {f.oldValue, NoValue}
            BY <1>0, <1>3, <1>5, <2>2, NextEntries DEF new
        <3>2. /\ f.action \in FieldActions /\ <<f.persona, f.subject>> \in Slots
              /\ Exists(<<f.persona, f.subject>>)
              /\ f.revision <= fields[<<f.persona, f.subject>>].revision /\ f.revision > 1
            BY <3>1 DEF SameEvent, LogInv, KeptValuesBelongToRows
        <3>3. e.persona = f.persona /\ e.subject = f.subject /\ e.action = f.action
              /\ e.revision = f.revision
            BY <3>1 DEF SameEvent
        <3>4. e.revision \in Nat
            BY <1>0, <3>1, <3>3 DEF Log, Entry
        <3>5. CASE <<f.persona, f.subject>> = s
            BY <1>0, <1>1, <1>2, <3>2, <3>3, <3>4, <3>5 DEF Exists, old
        <3>6. CASE <<f.persona, f.subject>> # s
            BY <1>1, <3>2, <3>3, <3>6 DEF Exists
        <3> QED
            BY <3>5, <3>6
    <2> QED
        BY <2>1, <2>2
<1> QED
    BY <1>6, <1>7 DEF LogInv

LEMMA ForgetLog ==
    ASSUME TypeOK, LogInv,
           NEW p \in Personas, NEW k \in Keys, NEW policy \in Policies,
           ForgetField(p, k, policy)
    PROVE  LogInv'
<1> DEFINE s == <<p, k>>
           due == PurgeAfter(policy, now)
           gone == IF DestroysNow(policy) THEN {s} ELSE {}
           ev == FieldEvent("field.forgotten", s, 0, due, NoValue)
           lg == Appended(log, ev)
<1>0. log \in Log /\ Stripped(log, log) /\ NoRow \notin Row
    BY NothingStripped, FieldAssumption DEF TypeOK, Log
<1>1. /\ s \in Slots /\ fields[s] \in Row
      /\ ~DestroysNow(policy) => fields'[s] = ForgottenRow(fields[s], PurgeAfter(policy, now))
      /\ \A t \in Slots : t # s => fields'[t] = fields[t]
    <2> HIDE DEF lg, ev, gone, due
    <2> QED
        BY ForgetTable
<1>2. ~DestroysNow(policy) => fields'[s] \in Row /\ fields'[s].revision = fields[s].revision
    <2>1. PurgeAfter(policy, now) \in Nat \cup {Never}
        BY PurgeAfterType
    <2>2. LET kept == ForgottenRow(fields[s], PurgeAfter(policy, now))
          IN  /\ kept \in Row /\ kept # NoRow /\ kept.forgotten = TRUE
              /\ kept.seq = fields[s].seq /\ kept.revision = fields[s].revision
        BY <1>1, <2>1, ForgottenRowType
    <2> QED
        BY <1>1, <2>2
<1>3. ev \in Body /\ ev.oldValue = NoValue
    BY PurgeAfterType DEF FieldEvent, Event, Body, FieldActions
<1>4. /\ lg \in Log
      /\ log' = StripValues(lg, gone, FieldActions)
    BY <1>0, <1>3, AppendType DEF ForgetField
<1>5. /\ Stripped(log', lg)
      /\ \A e \in log'.entries : <<e.persona, e.subject>> \in gone /\ e.action \in FieldActions
                                   => e.oldValue = NoValue
    BY <1>4, StripParts
<1> HIDE DEF lg, ev
<1>6. LogWindow'
    <2>1. Window(lg)
        BY <1>0, <1>3, AppendWindow DEF lg, LogInv, LogWindow
    <2>2. log' \in Log
        BY <1>4, StripType
    <2> QED
        BY <1>4, <1>5, <2>1, <2>2, StripKeepsWindow DEF LogWindow
<1>7. KeptValuesBelongToRows'
    <2> SUFFICES ASSUME NEW e \in log'.entries, e.oldValue # NoValue, e.action \notin NoteActions
                 PROVE  /\ e.action \in FieldActions
                        /\ <<e.persona, e.subject>> \in Slots
                        /\ Exists(<<e.persona, e.subject>>)'
                        /\ e.revision <= fields'[<<e.persona, e.subject>>].revision
                        /\ e.revision > 1
        BY DEF KeptValuesBelongToRows
    <2>1. PICK f \in lg.entries : SameEvent(e, f) /\ e.oldValue \in {f.oldValue, NoValue}
        BY <1>5 DEF Stripped
    <2>2. f \in log.entries
        <3>1. Numbered(log.last + 1, ev).oldValue = NoValue
            BY <1>3 DEF Numbered
        <3>2. f \in Entry
            BY <1>4 DEF Log
        <3> QED
            BY <1>0, <1>3, <2>1, <3>1, <3>2, AppendedParts DEF lg
    <2>3. /\ f.action \in FieldActions /\ <<f.persona, f.subject>> \in Slots
          /\ Exists(<<f.persona, f.subject>>)
          /\ f.revision <= fields[<<f.persona, f.subject>>].revision /\ f.revision > 1
        BY <2>1, <2>2 DEF SameEvent, LogInv, KeptValuesBelongToRows
    <2>4. e.persona = f.persona /\ e.subject = f.subject /\ e.action = f.action
          /\ e.revision = f.revision
        BY <2>1 DEF SameEvent
    <2>5. CASE <<f.persona, f.subject>> = s
        <3>1. ~DestroysNow(policy)
            BY <1>5, <2>3, <2>4, <2>5
        <3> QED
            BY <1>0, <1>2, <2>3, <2>4, <2>5, <3>1 DEF Exists
    <2>6. CASE <<f.persona, f.subject>> # s
        BY <1>1, <2>3, <2>4, <2>6 DEF Exists
    <2> QED
        BY <2>5, <2>6
<1> QED
    BY <1>6, <1>7 DEF LogInv

LEMMA PurgeLog ==
    ASSUME TypeOK, LogInv, PurgeDueFields
    PROVE  LogInv'
<1>0. log \in Log
    BY DEF TypeOK, Log
<1>1. PICK batch \in FieldBatches :
            fields' = Without(fields, batch) /\ log' = StripValues(log, batch, FieldActions)
    BY DEF PurgeDueFields
<1>2. /\ log' \in Log /\ Stripped(log', log)
      /\ \A e \in log'.entries : <<e.persona, e.subject>> \in batch /\ e.action \in FieldActions
                                   => e.oldValue = NoValue
    BY <1>0, <1>1, StripType, StripParts
<1>3. LogWindow'
    BY <1>0, <1>2, WindowKept DEF LogInv
<1>4. ASSUME NEW e \in log'.entries, e.oldValue # NoValue, e.action \notin NoteActions
      PROVE  /\ e.action \in FieldActions
             /\ <<e.persona, e.subject>> \in Slots
             /\ Exists(<<e.persona, e.subject>>)'
             /\ e.revision <= fields'[<<e.persona, e.subject>>].revision
             /\ e.revision > 1
    <2>1. PICK f \in log.entries : SameEvent(e, f) /\ e.oldValue \in {f.oldValue, NoValue}
        BY <1>2 DEF Stripped
    <2>2. /\ f.action \in FieldActions /\ <<f.persona, f.subject>> \in Slots
          /\ Exists(<<f.persona, f.subject>>)
          /\ f.revision <= fields[<<f.persona, f.subject>>].revision /\ f.revision > 1
        BY <1>4, <2>1 DEF SameEvent, LogInv, KeptValuesBelongToRows
    <2>3. e.persona = f.persona /\ e.subject = f.subject /\ e.action = f.action
          /\ e.revision = f.revision
        BY <2>1 DEF SameEvent
    <2>4. fields'[<<e.persona, e.subject>>] = fields[<<f.persona, f.subject>>]
        BY <1>1, <1>2, <1>4, <2>2, <2>3, WithoutAt
    <2> QED
        BY <2>2, <2>3, <2>4 DEF Exists
<1> QED
    BY <1>3, <1>4 DEF LogInv, KeptValuesBelongToRows

LEMMA DropLog ==
    ASSUME TypeOK, LogInv, NEW p \in Personas, DropPersona(p), DropFieldsOf(p)
    PROVE  LogInv'
<1>0. log \in Log
    BY DEF TypeOK, Log
<1>1. /\ log' \in Log /\ Stripped(log', log)
      /\ \A e \in log'.entries : e.persona = p => e.oldValue = NoValue
    BY <1>0, StripPersonaType, StripPersonaParts DEF DropPersona
<1>2. LogWindow'
    BY <1>0, <1>1, WindowKept DEF LogInv
<1>3. ASSUME NEW e \in log'.entries, e.oldValue # NoValue, e.action \notin NoteActions
      PROVE  /\ e.action \in FieldActions
             /\ <<e.persona, e.subject>> \in Slots
             /\ Exists(<<e.persona, e.subject>>)'
             /\ e.revision <= fields'[<<e.persona, e.subject>>].revision
             /\ e.revision > 1
    <2>1. PICK f \in log.entries : SameEvent(e, f) /\ e.oldValue \in {f.oldValue, NoValue}
        BY <1>1 DEF Stripped
    <2>2. /\ f.action \in FieldActions /\ <<f.persona, f.subject>> \in Slots
          /\ Exists(<<f.persona, f.subject>>)
          /\ f.revision <= fields[<<f.persona, f.subject>>].revision /\ f.revision > 1
        BY <1>3, <2>1 DEF SameEvent, LogInv, KeptValuesBelongToRows
    <2>3. e.persona = f.persona /\ e.subject = f.subject /\ e.action = f.action
          /\ e.revision = f.revision
        BY <2>1 DEF SameEvent
    <2>4. fields'[<<e.persona, e.subject>>] = fields[<<f.persona, f.subject>>]
        BY <1>1, <1>3, <2>2, <2>3, DropTable
    <2> QED
        BY <2>2, <2>3, <2>4 DEF Exists
<1> QED
    BY <1>2, <1>3 DEF LogInv, KeptValuesBelongToRows

LEMMA RecordLog ==
    ASSUME TypeOK, LogInv, NEW p \in Personas, NEW a \in PersonaActions,
           RecordPersonaEvent(p, a), UNCHANGED fieldVars
    PROVE  LogInv'
<1> DEFINE ev == Event(a, p, p, 0, Never, NoValue)
<1>1. log \in Log /\ Stripped(log, log)
    BY NothingStripped DEF TypeOK, Log
<1>2. ev \in Body /\ Numbered(log.last + 1, ev).oldValue = NoValue
    BY DEF Event, Body, Numbered
<1>3. log' = Appended(log, ev) /\ fields' = fields
    BY DEF RecordPersonaEvent, fieldVars
<1> HIDE DEF ev
<1>4. LogWindow'
    BY <1>1, <1>2, <1>3, WindowKept DEF LogInv
<1>5. \A e \in log'.entries : e.oldValue # NoValue => e \in log.entries
    <2>1. log' \in Log
        BY <1>1, <1>2, <1>3, AppendType
    <2> QED
        BY <1>1, <1>2, <1>3, <2>1, AppendedParts DEF Log
<1>6. KeptValuesBelongToRows'
    BY <1>3, <1>5 DEF LogInv, KeptValuesBelongToRows, Exists
<1> QED
    BY <1>4, <1>6 DEF LogInv

\* What the note store's transactions do to the log, as this store needs it.
LEMMA OtherWritesLog ==
    ASSUME log \in Log, Window(log), OtherTransaction(NoteEvents, NoteActions)
    PROVE  /\ Window(log')
           /\ \/ Stripped(log', log)
              \/ \E e \in NoteEvents : Follows(log', log, Numbered(log.last + 1, e))
           /\ \A e \in log'.entries : e.action \notin NoteActions => \E f \in log.entries :
                 SameEvent(e, f) /\ e.oldValue \in {f.oldValue, NoValue}
<1>1. ASSUME NEW gone, log' = StripValues(log, gone, NoteActions)
      PROVE  Stripped(log', log)
    BY <1>1, StripParts
<1>2. ASSUME Stripped(log', log)
      PROVE  /\ Window(log')
             /\ \A e \in log'.entries : \E f \in log.entries :
                   SameEvent(e, f) /\ e.oldValue \in {f.oldValue, NoValue}
    <2>1. Window(log')
        BY <1>2, StripKeepsWindow
    <2> QED
        BY <1>2, <2>1 DEF Stripped
<1>3. ASSUME NEW e \in NoteEvents, NEW gone,
             \/ log' = Appended(StripValues(log, gone, NoteActions), e)
             \/ log' = StripValues(Appended(log, e), gone, NoteActions)
      PROVE  /\ Window(log') /\ Follows(log', log, Numbered(log.last + 1, e))
             /\ \A x \in log'.entries : x.action \notin NoteActions => \E f \in log.entries :
                   SameEvent(x, f) /\ x.oldValue \in {f.oldValue, NoValue}
    <2>1. e \in Body /\ e.action \in NoteActions
        BY NoteEventType
    <2> QED
        BY <1>3, <2>1, Instances, OtherWrites
<1> QED
    BY <1>1, <1>2, <1>3 DEF OtherTransaction

LEMMA OtherLog ==
    ASSUME TypeOK, LogInv, OtherTransaction(NoteEvents, NoteActions), UNCHANGED fieldVars
    PROVE  LogInv'
<1>1. /\ Window(log')
      /\ \A e \in log'.entries : e.action \notin NoteActions => \E f \in log.entries :
            SameEvent(e, f) /\ e.oldValue \in {f.oldValue, NoValue}
    <2>1. log \in Log /\ Window(log)
        BY DEF TypeOK, Log, LogInv, LogWindow
    <2> QED
        BY <2>1, OtherWritesLog
<1>2. ASSUME NEW e \in log'.entries, e.oldValue # NoValue, e.action \notin NoteActions
      PROVE  /\ e.action \in FieldActions
             /\ <<e.persona, e.subject>> \in Slots
             /\ Exists(<<e.persona, e.subject>>)'
             /\ e.revision <= fields'[<<e.persona, e.subject>>].revision
             /\ e.revision > 1
    <2>1. PICK f \in log.entries : SameEvent(e, f) /\ e.oldValue \in {f.oldValue, NoValue}
        BY <1>1, <1>2
    <2>2. f.oldValue # NoValue /\ f.action \notin NoteActions
        BY <1>2, <2>1 DEF SameEvent
    <2>3. fields' = fields
        BY DEF fieldVars
    <2>4. e.persona = f.persona /\ e.subject = f.subject /\ e.action = f.action
          /\ e.revision = f.revision
        BY <2>1 DEF SameEvent
    <2> QED
        BY <2>2, <2>3, <2>4 DEF LogInv, KeptValuesBelongToRows, Exists
<1> QED
    BY <1>1, <1>2 DEF LogInv, LogWindow, KeptValuesBelongToRows

LEMMA NextLog == TypeOK /\ TableInv /\ LogInv /\ [Next]_vars => LogInv'
<1> SUFFICES ASSUME TypeOK, TableInv, LogInv, [Next]_vars
             PROVE  LogInv'
    OBVIOUS
<1>1. CASE FieldOperation
    BY <1>1, InsertLog, ReviseLog, ForgetLog, PurgeLog DEF FieldOperation, SetField
<1>2. CASE \E p \in Personas : DropPersona(p) /\ DropFieldsOf(p)
    BY <1>2, DropLog
<1>3. ASSUME NEW p \in Personas, NEW a \in PersonaActions, RecordPersonaEvent(p, a),
             UNCHANGED fieldVars
      PROVE  LogInv'
    BY <1>3, RecordLog
<1>4. ASSUME OtherTransaction(NoteEvents, NoteActions), UNCHANGED fieldVars
      PROVE  LogInv'
    BY <1>4, OtherLog
<1>5. CASE UNCHANGED <<log, fields>>
    BY <1>5 DEF LogInv, LogWindow, KeptValuesBelongToRows, Exists
<1> QED
    BY <1>1, <1>2, <1>3, <1>4, <1>5 DEF Next, Elsewhere, Tick, AddPersona, fieldVars, storeVars, vars

\* A value the log keeps always belongs to a row that exists, in that row's own
\* lifetime: destroying a row destroys every copy of its values with it.
THEOREM KeptValuesCorrect == Spec => []KeptValuesBelongToRows
<1>1. Spec => []LogInv
    BY InitType, NextType, InitTable, NextTable, InitLog, NextLog, PTL DEF Spec
<1> QED
    BY <1>1, PTL DEF LogInv

LEMMA NewestEntries ==
    ASSUME NEW lg \in Log, Window(lg)
    PROVE  /\ {e.sequence : e \in lg.entries} = {n \in 1..lg.last : n > lg.last - MaxEntries}
           /\ \A e, f \in lg.entries : e.sequence = f.sequence => e = f
<1>1. \A e \in lg.entries : e.sequence \in {n \in 1..lg.last : n > lg.last - MaxEntries}
    BY MaxEntriesAssumption DEF Window, Log, Entry
<1>2. \A n \in {m \in 1..lg.last : m > lg.last - MaxEntries} :
          \E e \in lg.entries : e.sequence = n
    BY DEF Window
<1> QED
    BY <1>1, <1>2 DEF Window, Unambiguous

\* The log holds its newest entries, every one of them and nothing older, for
\* every bound: no transaction's trim takes more than it should.
THEOREM LogCorrect == Spec => []LogIsTheNewest
<1>1. Spec => [](LogInv /\ TypeOK)
    BY InitType, NextType, InitTable, NextTable, InitLog, NextLog, PTL DEF Spec
<1>2. LogInv /\ TypeOK => LogIsTheNewest
    <2> SUFFICES ASSUME LogInv, TypeOK PROVE LogIsTheNewest
        OBVIOUS
    <2>1. log \in Log /\ Window(log)
        BY DEF TypeOK, Log, LogInv, LogWindow
    <2> QED
        BY <2>1, NewestEntries DEF LogIsTheNewest
<1> QED
    BY <1>1, <1>2, PTL

-----------------------------------------------------------------------------
(* The newest event about a row.  Whether it describes the row says nothing  *)
(* of the values the log has kept, so a strip does not touch it; a trim takes *)
(* an older entry before a newer one; and the one event a transaction appends *)
(* about the row it writes describes what it wrote.                          *)

About(e, s) == e.persona = s[1] /\ e.subject = s[2] /\ e.action \in FieldActions

Describes(e, row) ==
    \/ ~row.forgotten /\ e.action # "field.forgotten" /\ e.revision = row.revision
    \/ row.forgotten /\ e.action = "field.forgotten" /\ e.due = row.purgeAfter

Told(entries, s, row) ==
    \A e \in entries : About(e, s) =>
        \/ \E f \in entries : About(f, s) /\ f.sequence > e.sequence
        \/ Describes(e, row)

ToldInv == \A s \in Slots : Exists(s) => Told(log.entries, s, fields[s])

LEMMA SameIsSame ==
    ASSUME NEW e, NEW f, SameEvent(e, f), NEW s, NEW row
    PROVE  /\ About(e, s) <=> About(f, s)
           /\ Describes(e, row) <=> Describes(f, row)
           /\ e.sequence = f.sequence
BY DEF SameEvent, About, Describes

\* A strip leaves what is told of every row.
LEMMA StripTells ==
    ASSUME NEW lg1, NEW lg2, NEW s, NEW row, Stripped(lg2, lg1), Told(lg1.entries, s, row)
    PROVE  Told(lg2.entries, s, row)
<1> SUFFICES ASSUME NEW e \in lg2.entries, About(e, s),
                    ~\E f \in lg2.entries : About(f, s) /\ f.sequence > e.sequence
             PROVE  Describes(e, row)
    BY DEF Told
<1>1. PICK f \in lg1.entries : SameEvent(e, f)
    BY DEF Stripped
<1>2. About(f, s) /\ e.sequence = f.sequence
    BY <1>1, SameIsSame
<1>3. ~\E g \in lg1.entries : About(g, s) /\ g.sequence > f.sequence
    <2> SUFFICES ASSUME NEW g \in lg1.entries, About(g, s), g.sequence > f.sequence
                 PROVE  FALSE
        OBVIOUS
    <2>1. PICK h \in lg2.entries : SameEvent(h, g)
        BY DEF Stripped
    <2>2. About(h, s) /\ h.sequence = g.sequence
        BY <2>1, SameIsSame
    <2> QED
        BY <1>2, <2>2
<1> QED
    BY <1>1, <1>2, <1>3, SameIsSame DEF Told

\* An event about another row leaves what is told of this one.
LEMMA OthersTell ==
    ASSUME NEW lg1, NEW lg2, NEW s, NEW row, NEW new, Follows(lg2, lg1, new), ~About(new, s),
           Told(lg1.entries, s, row)
    PROVE  Told(lg2.entries, s, row)
<1> SUFFICES ASSUME NEW e \in lg2.entries, About(e, s),
                    ~\E f \in lg2.entries : About(f, s) /\ f.sequence > e.sequence
             PROVE  Describes(e, row)
    BY DEF Told
<1>1. PICK f \in lg1.entries : SameEvent(e, f)
    BY SameIsSame DEF Follows
<1>2. About(f, s) /\ e.sequence = f.sequence
    BY <1>1, SameIsSame
<1>3. ~\E g \in lg1.entries : About(g, s) /\ g.sequence > f.sequence
    <2> SUFFICES ASSUME NEW g \in lg1.entries, About(g, s), g.sequence > f.sequence
                 PROVE  FALSE
        OBVIOUS
    <2>1. PICK h \in lg2.entries : SameEvent(h, g)
        BY <1>2 DEF Follows
    <2>2. About(h, s) /\ h.sequence = g.sequence
        BY <2>1, SameIsSame
    <2> QED
        BY <1>2, <2>2
<1> QED
    BY <1>1, <1>2, <1>3, SameIsSame DEF Told

\* An event that describes the row as it has become settles what is told of it.
LEMMA OwnTells ==
    ASSUME NEW lg1, NEW lg2, NEW s, NEW row, NEW new, Follows(lg2, lg1, new), About(new, s),
           Describes(new, row)
    PROVE  Told(lg2.entries, s, row)
<1> SUFFICES ASSUME NEW e \in lg2.entries, About(e, s),
                    ~\E f \in lg2.entries : About(f, s) /\ f.sequence > e.sequence
             PROVE  Describes(e, row)
    BY DEF Told
<1>1. PICK n \in lg2.entries : SameEvent(n, new)
    BY DEF Follows
<1>2. About(n, s) /\ n.sequence = new.sequence
    BY <1>1, SameIsSame
<1>3. ~SameEvent(e, new) => n.sequence > e.sequence
    <2> SUFFICES ASSUME ~SameEvent(e, new)
                 PROVE  n.sequence > e.sequence
        OBVIOUS
    <2>1. PICK f \in lg1.entries : SameEvent(e, f)
        BY DEF Follows
    <2> QED
        BY <1>2, <2>1, SameIsSame DEF Follows
<1> QED
    BY <1>2, <1>3, SameIsSame

LEMMA InitTold == Init => ToldInv
BY DEF Init, FieldInit, ToldInv, Exists

\* The steps that append an event about the row at w, and touch no other.
LEMMA WriteTold ==
    ASSUME TypeOK, LogInv, ToldInv, NEW w \in Slots,
           \A t \in Slots : t # w => fields'[t] = fields[t],
           NEW new, Follows(log', log, new), About(new, w),
           fields'[w] # NoRow => Describes(new, fields'[w])
    PROVE  ToldInv'
<1> SUFFICES ASSUME NEW s \in Slots, fields'[s] # NoRow
             PROVE  Told(log'.entries, s, fields'[s])
    BY DEF ToldInv, Exists
<1>1. CASE s = w
    BY <1>1, OwnTells
<1>2. CASE s # w
    <2>1. ~About(new, s)
        BY <1>2 DEF About
    <2>2. fields'[s] = fields[s] /\ Told(log.entries, s, fields[s])
        BY <1>2 DEF ToldInv, Exists
    <2> QED
        BY <2>1, <2>2, OthersTell
<1> QED
    BY <1>1, <1>2

\* The steps that only destroy rows, and strip what the log kept of them.
LEMMA DestroyTold ==
    ASSUME ToldInv, \A t \in Slots : fields'[t] \in {NoRow, fields[t]}, Stripped(log', log)
    PROVE  ToldInv'
<1> SUFFICES ASSUME NEW s \in Slots, fields'[s] # NoRow
             PROVE  Told(log'.entries, s, fields'[s])
    BY DEF ToldInv, Exists
<1>1. fields'[s] = fields[s] /\ Told(log.entries, s, fields[s])
    BY DEF ToldInv, Exists
<1> QED
    BY <1>1, StripTells

\* What an append, with or without a strip around it, does to the log.
LEMMA NextFollows ==
    ASSUME TypeOK, LogInv, NEW lg \in Log, NEW ev \in Body, Stripped(lg, log)
    PROVE  Follows(Appended(lg, ev), log, Numbered(log.last + 1, ev))
<1>1. log \in Log /\ Window(log)
    BY DEF TypeOK, Log, LogInv, LogWindow
<1> QED
    BY <1>1, Instances, AppendFollows

LEMMA InsertTold ==
    ASSUME TypeOK, TableInv, LogInv, ToldInv,
           NEW p \in Personas, NEW k \in Keys, NEW value \in Values,
           NEW description \in Descriptions, NEW pinned \in BOOLEAN, NEW cap \in PinCaps,
           InsertField(p, k, value, description, pinned, cap)
    PROVE  ToldInv'
<1> DEFINE s == <<p, k>>
           gone == IF PastDue(s) THEN {s} ELSE {}
           lg == StripValues(log, gone, FieldActions)
           ev == FieldEvent("field.set", s, 1, Never, NoValue)
           new == Numbered(log.last + 1, ev)
<1>0. log \in Log
    BY DEF TypeOK, Log
<1>1. /\ s \in Slots
      /\ fields'[s] = NewRow(value, description, pinned, fieldSeq + 1)
      /\ \A t \in Slots : t # s => fields'[t] = fields[t]
    BY InsertTable
<1>2. ev \in Body
    BY DEF FieldEvent, Event, Body, FieldActions
<1>3. lg \in Log /\ Stripped(lg, log)
    BY <1>0, StripType, StripParts
<1>4. log' = Appended(lg, ev)
    BY DEF InsertField, NextSeq, StartsAfresh, Exists
<1>5. About(new, s) /\ Describes(new, fields'[s])
    BY <1>1 DEF Numbered, FieldEvent, Event, About, Describes, FieldActions, NewRow
<1> HIDE DEF s, lg, ev, new
<1>6. Follows(log', log, new)
    BY <1>2, <1>3, <1>4, NextFollows DEF new
<1> QED
    BY <1>1, <1>5, <1>6, WriteTold

LEMMA ReviseTold ==
    ASSUME TypeOK, LogInv, ToldInv,
           NEW p \in Personas, NEW k \in Keys, NEW value \in Values,
           NEW description \in Descriptions, NEW pinned \in BOOLEAN, NEW cap \in PinCaps,
           NEW logValues \in BOOLEAN,
           ReviseField(p, k, value, description, pinned, cap, logValues)
    PROVE  ToldInv'
<1> DEFINE s == <<p, k>>
           old == fields[s]
           row == RevisedRow(old, value, description, pinned)
           ev == FieldEvent(IF old.forgotten THEN "field.set" ELSE "field.revised",
                            s, row.revision, Never, KeptValue(old, value, logValues))
           new == Numbered(log.last + 1, ev)
<1>0. log \in Log /\ Stripped(log, log)
    BY NothingStripped DEF TypeOK, Log
<1>1. /\ s \in Slots /\ old \in Row /\ row \in Row /\ fields'[s] = row
      /\ \A t \in Slots : t # s => fields'[t] = fields[t]
    BY ReviseTable
<1>2. row.revision \in Nat /\ ~row.forgotten
    BY <1>1 DEF RevisedRow, Row
<1>3. ev \in Body
    BY <1>1, <1>2 DEF FieldEvent, Event, Body, FieldActions, KeptValue, Row
<1>4. log' = Appended(log, ev)
    BY DEF ReviseField
<1>5. About(new, s) /\ new.action # "field.forgotten" /\ new.revision = row.revision
    BY DEF Numbered, FieldEvent, Event, About, FieldActions
<1> HIDE DEF s, row, ev, new
<1>6. Describes(new, fields'[s])
    BY <1>1, <1>2, <1>5 DEF Describes
<1>7. Follows(log', log, new)
    BY <1>0, <1>3, <1>4, NextFollows DEF new
<1> QED
    BY <1>1, <1>5, <1>6, <1>7, WriteTold

LEMMA ForgetTold ==
    ASSUME TypeOK, LogInv, ToldInv,
           NEW p \in Personas, NEW k \in Keys, NEW policy \in Policies,
           ForgetField(p, k, policy)
    PROVE  ToldInv'
<1> DEFINE s == <<p, k>>
           due == PurgeAfter(policy, now)
           gone == IF DestroysNow(policy) THEN {s} ELSE {}
           ev == FieldEvent("field.forgotten", s, 0, due, NoValue)
           lg == Appended(log, ev)
           new == Numbered(log.last + 1, ev)
<1>0. log \in Log /\ Stripped(log, log)
    BY NothingStripped DEF TypeOK, Log
<1>1. /\ s \in Slots
      /\ fields[s] \in Row
      /\ DestroysNow(policy) => fields'[s] = NoRow
      /\ ~DestroysNow(policy) => fields'[s] = ForgottenRow(fields[s], due)
      /\ \A t \in Slots : t # s => fields'[t] = fields[t]
    <2> HIDE DEF lg, ev, gone
    <2> QED
        BY ForgetTable
<1>2. due \in Nat \cup {Never}
    BY PurgeAfterType
<1>3. ev \in Body
    BY <1>2 DEF FieldEvent, Event, Body, FieldActions
<1>4. lg \in Log /\ log' = StripValues(lg, gone, FieldActions)
    BY <1>0, <1>3, AppendType DEF ForgetField
<1>5. About(new, s) /\ new.action = "field.forgotten" /\ new.due = due
    BY DEF Numbered, FieldEvent, Event, About, FieldActions
<1> HIDE DEF s, due, gone, ev, lg, new
<1>6. fields'[s] # NoRow => Describes(new, fields'[s])
    <2>1. /\ ForgottenRow(fields[s], due).forgotten = TRUE
          /\ ForgottenRow(fields[s], due).purgeAfter = due
        BY <1>1, <1>2, ForgottenRowType
    <2> QED
        BY <1>1, <1>5, <2>1 DEF Describes
<1>7. Follows(log', log, new)
    <2>1. Follows(lg, log, new)
        BY <1>0, <1>3, NextFollows DEF lg, new
    <2>2. Stripped(log', lg)
        BY <1>4, StripParts
    <2> QED
        BY <2>1, <2>2, StripFollows
<1> QED
    BY <1>1, <1>5, <1>6, <1>7, WriteTold

LEMMA RecordTold ==
    ASSUME TypeOK, LogInv, ToldInv, NEW p \in Personas, NEW a \in PersonaActions,
           RecordPersonaEvent(p, a), UNCHANGED fieldVars
    PROVE  ToldInv'
<1> DEFINE ev == Event(a, p, p, 0, Never, NoValue)
           new == Numbered(log.last + 1, ev)
<1>1. log \in Log /\ Stripped(log, log)
    BY NothingStripped DEF TypeOK, Log
<1>2. ev \in Body
    BY DEF Event, Body
<1>3. log' = Appended(log, ev) /\ fields' = fields
    BY DEF RecordPersonaEvent, fieldVars
<1>4. \A s \in Slots : ~About(new, s)
    BY DEF Event, Numbered, About, FieldActions, PersonaActions
<1> HIDE DEF ev, new
<1>5. Follows(log', log, new)
    BY <1>1, <1>2, <1>3, NextFollows DEF new
<1> QED
    BY <1>3, <1>4, <1>5, OthersTell DEF ToldInv, Exists

LEMMA OtherTold ==
    ASSUME TypeOK, LogInv, ToldInv, OtherTransaction(NoteEvents, NoteActions), UNCHANGED fieldVars
    PROVE  ToldInv'
<1>1. log \in Log /\ Window(log) /\ fields' = fields
    BY DEF TypeOK, Log, LogInv, LogWindow, fieldVars
<1>2. \/ Stripped(log', log)
      \/ \E e \in NoteEvents : Follows(log', log, Numbered(log.last + 1, e))
    BY <1>1, OtherWritesLog
<1> SUFFICES ASSUME NEW s \in Slots, fields[s] # NoRow
             PROVE  Told(log'.entries, s, fields[s])
    BY <1>1 DEF ToldInv, Exists
<1>3. Told(log.entries, s, fields[s])
    BY DEF ToldInv, Exists
<1>4. CASE Stripped(log', log)
    BY <1>3, <1>4, StripTells
<1>5. ASSUME NEW e \in NoteEvents, Follows(log', log, Numbered(log.last + 1, e))
      PROVE  Told(log'.entries, s, fields[s])
    <2>1. ~About(Numbered(log.last + 1, e), s)
        BY NoteEventType DEF About, Numbered, NoteActions, FieldActions
    <2> QED
        BY <1>3, <1>5, <2>1, OthersTell
<1> QED
    BY <1>2, <1>4, <1>5

LEMMA NextTold == TypeOK /\ TableInv /\ LogInv /\ ToldInv /\ [Next]_vars => ToldInv'
<1> SUFFICES ASSUME TypeOK, TableInv, LogInv, ToldInv, [Next]_vars
             PROVE  ToldInv'
    OBVIOUS
<1>0. log \in Log
    BY DEF TypeOK, Log
<1>1. ASSUME NEW p \in Personas, NEW k \in Keys, SetField(p, k)
      PROVE  ToldInv'
    BY <1>1, InsertTold, ReviseTold DEF SetField
<1>2. ASSUME NEW p \in Personas, NEW k \in Keys, NEW policy \in Policies,
             ForgetField(p, k, policy)
      PROVE  ToldInv'
    BY <1>2, ForgetTold
<1>3. CASE PurgeDueFields
    BY <1>0, <1>3, WithoutAt, StripParts, DestroyTold DEF PurgeDueFields
<1>4. ASSUME NEW p \in Personas, DropPersona(p), DropFieldsOf(p)
      PROVE  ToldInv'
    BY <1>0, <1>4, DropTable, StripPersonaParts, DestroyTold DEF DropPersona
<1>5. ASSUME NEW p \in Personas, NEW a \in PersonaActions, RecordPersonaEvent(p, a),
             UNCHANGED fieldVars
      PROVE  ToldInv'
    BY <1>5, RecordTold
<1>6. ASSUME OtherTransaction(NoteEvents, NoteActions), UNCHANGED fieldVars
      PROVE  ToldInv'
    BY <1>6, OtherTold
<1>7. CASE UNCHANGED <<log, fields>>
    BY <1>7 DEF ToldInv, Exists
<1> QED
    BY <1>1, <1>2, <1>3, <1>4, <1>5, <1>6, <1>7
       DEF Next, FieldOperation, Elsewhere, Tick, AddPersona, fieldVars, storeVars, vars

\* The newest event the log still holds about a row is true of it.  Of a destroyed row
\* this says nothing: the log may tell of it for as long as it keeps its events.
THEOREM NewestEventIsTrue == Spec => []LogAgreesWithRows
<1>1. Spec => [](TypeOK /\ ToldInv)
    BY InitType, NextType, InitTable, NextTable, InitLog, NextLog, InitTold, NextTold, PTL
       DEF Spec
<1>2. TypeOK /\ ToldInv => LogAgreesWithRows
    <2> SUFFICES ASSUME TypeOK, ToldInv, NEW s \in Slots, Exists(s), NEW e \in EventsAbout(s)
                 PROVE  \/ \E f \in EventsAbout(s) : f.sequence > e.sequence
                        \/ Live(s) /\ e.action # "field.forgotten"
                                   /\ e.revision = fields[s].revision
                        \/ Forgotten(s) /\ e.action = "field.forgotten"
                                        /\ e.due = fields[s].purgeAfter
        BY DEF LogAgreesWithRows
    <2>1. \A f : f \in EventsAbout(s) <=> f \in log.entries /\ About(f, s)
        BY DEF EventsAbout, About
    <2>2. \/ \E f \in log.entries : About(f, s) /\ f.sequence > e.sequence
          \/ Describes(e, fields[s])
        BY <2>1 DEF ToldInv, Told
    <2> QED
        BY <2>1, <2>2 DEF Describes, Live, LiveIn, Forgotten, Exists
<1> QED
    BY <1>1, <1>2, PTL

-----------------------------------------------------------------------------
(* The caps.  A write is allowed by the counts of the table it finds; the    *)
(* table it leaves has at most the written key more.                         *)

CapsInv == \A p \in Personas :
    IsFiniteSet(LiveOf(fields, p)) /\ Cardinality(LiveOf(fields, p)) <= MaxFields

LEMMA InitCaps == Init => CapsInv
<1> SUFFICES ASSUME Init, NEW p \in Personas
             PROVE  IsFiniteSet(LiveOf(fields, p)) /\ Cardinality(LiveOf(fields, p)) <= MaxFields
    BY DEF CapsInv
<1>1. LiveOf(fields, p) = {}
    BY DEF Init, FieldInit, LiveOf, LiveIn
<1> QED
    BY <1>1, FS_EmptySet, FieldAssumption

\* A persona none of whose fields comes to life stays within the cap.
LEMMA NoneRevived ==
    ASSUME CapsInv, NEW p \in Personas,
           \A k \in Keys : LiveIn(fields', <<p, k>>) => LiveIn(fields, <<p, k>>)
    PROVE  IsFiniteSet(LiveOf(fields', p)) /\ Cardinality(LiveOf(fields', p)) <= MaxFields
<1>1. LiveOf(fields', p) \subseteq LiveOf(fields, p)
    BY DEF LiveOf
<1> QED
    BY <1>1, FewerFit, FieldAssumption DEF CapsInv

LEMMA OneRevived ==
    ASSUME CapsInv, NEW p \in Personas, NEW w \in Keys, NEW base,
           LiveOf(base, p) \subseteq LiveOf(fields, p),
           Cardinality(LiveOf(base, p)) < MaxFields,
           \A k \in Keys : k # w /\ LiveIn(fields', <<p, k>>) => LiveIn(base, <<p, k>>)
    PROVE  IsFiniteSet(LiveOf(fields', p)) /\ Cardinality(LiveOf(fields', p)) <= MaxFields
<1>1. IsFiniteSet(LiveOf(base, p))
    BY FS_Subset DEF CapsInv
<1>2. LiveOf(fields', p) \subseteq LiveOf(base, p) \cup {w}
    BY DEF LiveOf
<1> QED
    BY <1>1, <1>2, OneMoreFits, FieldAssumption

\* The table _check_caps counts when a row past its date makes way for a new one.
LEMMA InsertBase ==
    ASSUME TypeOK, NEW s \in Slots, NEW base, NEW p \in Personas,
           base = Without(fields, IF PastDue(s) THEN {s} ELSE {})
    PROVE  /\ LiveOf(base, p) \subseteq LiveOf(fields, p)
           /\ \A t \in Slots : t # s => base[t] = fields[t]
<1>1. \A t \in Slots : base[t] = fields[t] \/ base[t] = NoRow
    BY WithoutAt
<1>2. \A t \in Slots : t # s => base[t] = fields[t]
    BY WithoutAt
<1> QED
    BY <1>1, <1>2 DEF LiveOf, LiveIn

LEMMA NextCaps == TypeOK /\ CapsInv /\ [Next]_vars => CapsInv'
<1> SUFFICES ASSUME TypeOK, CapsInv, [Next]_vars, NEW q \in Personas
             PROVE  /\ IsFiniteSet(LiveOf(fields', q))
                    /\ Cardinality(LiveOf(fields', q)) <= MaxFields
    BY DEF CapsInv
<1>1. ASSUME NEW p \in Personas, NEW k \in Keys, NEW value \in Values,
             NEW description \in Descriptions, NEW pinned \in BOOLEAN, NEW cap \in PinCaps,
             InsertField(p, k, value, description, pinned, cap)
      PROVE  /\ IsFiniteSet(LiveOf(fields', q))
             /\ Cardinality(LiveOf(fields', q)) <= MaxFields
    <2> DEFINE base == Without(fields, IF PastDue(<<p, k>>) THEN {<<p, k>>} ELSE {})
    <2>1. /\ <<p, k>> \in Slots
          /\ \A t \in Slots : t # <<p, k>> => fields'[t] = fields[t]
        BY <1>1, InsertTable
    <2>2. /\ CapsAllow(base, p, TRUE, pinned, cap)
          /\ base = Without(fields, IF PastDue(<<p, k>>) THEN {<<p, k>>} ELSE {})
        BY <1>1 DEF InsertField
    <2> HIDE DEF base
    <2>3. CASE q = p
        <3>1. /\ LiveOf(base, p) \subseteq LiveOf(fields, p)
              /\ \A t \in Slots : t # <<p, k>> => base[t] = fields[t]
            BY <2>1, <2>2, InsertBase
        <3>2. Cardinality(LiveOf(base, p)) < MaxFields
            BY <2>2 DEF CapsAllow
        <3>3. \A j \in Keys : j # k /\ LiveIn(fields', <<p, j>>) => LiveIn(base, <<p, j>>)
            BY <2>1, <3>1 DEF LiveIn
        <3> QED
            BY <2>3, <3>1, <3>2, <3>3, OneRevived
    <2>4. CASE q # p
        BY <2>1, <2>4, NoneRevived DEF LiveIn
    <2> QED
        BY <2>3, <2>4
<1>2. ASSUME NEW p \in Personas, NEW k \in Keys, NEW value \in Values,
             NEW description \in Descriptions, NEW pinned \in BOOLEAN, NEW cap \in PinCaps,
             NEW logValues \in BOOLEAN,
             ReviseField(p, k, value, description, pinned, cap, logValues)
      PROVE  /\ IsFiniteSet(LiveOf(fields', q))
             /\ Cardinality(LiveOf(fields', q)) <= MaxFields
    <2>1. /\ <<p, k>> \in Slots /\ fields[<<p, k>>] \in Row
          /\ \A t \in Slots : t # <<p, k>> => fields'[t] = fields[t]
        BY <1>2, ReviseTable
    <2>2. CapsAllow(fields, p, Revives(fields[<<p, k>>]), pinned /\ ~fields[<<p, k>>].pinned, cap)
        BY <1>2 DEF ReviseField
    <2>3. CASE q = p /\ fields[<<p, k>>].forgotten
        <3>1. Cardinality(LiveOf(fields, p)) < MaxFields
            BY <2>2, <2>3 DEF CapsAllow, Revives
        <3>2. \A j \in Keys : j # k /\ LiveIn(fields', <<p, j>>) => LiveIn(fields, <<p, j>>)
            BY <2>1 DEF LiveIn
        <3> QED
            BY <2>3, <3>1, <3>2, OneRevived
    <2>4. CASE ~(q = p /\ fields[<<p, k>>].forgotten)
        <3>1. \A j \in Keys : LiveIn(fields', <<q, j>>) => LiveIn(fields, <<q, j>>)
            BY <2>1, <2>4, FieldAssumption DEF LiveIn
        <3> QED
            BY <3>1, NoneRevived
    <2> QED
        BY <2>3, <2>4
<1>3. CASE \A s \in Slots : LiveIn(fields', s) => LiveIn(fields, s)
    <2>1. \A k \in Keys : <<q, k>> \in Slots
        OBVIOUS
    <2> QED
        BY <1>3, <2>1, NoneRevived
<1>4. ASSUME NEW p \in Personas, NEW k \in Keys, NEW policy \in Policies,
             ForgetField(p, k, policy)
      PROVE  \A s \in Slots : LiveIn(fields', s) => LiveIn(fields, s)
    <2>1. /\ fields[<<p, k>>] \in Row /\ ~fields[<<p, k>>].forgotten
          /\ \A t \in Slots : t # <<p, k>> => fields'[t] = fields[t]
        BY <1>4, ForgetTable
    <2> QED
        BY <2>1, FieldAssumption DEF LiveIn
<1>5. CASE PurgeDueFields
    BY <1>3, <1>5, WithoutAt DEF PurgeDueFields, LiveIn
<1>6. ASSUME NEW p \in Personas, DropPersona(p), DropFieldsOf(p)
      PROVE  \A s \in Slots : LiveIn(fields', s) => LiveIn(fields, s)
    BY <1>6, DropTable DEF LiveIn
<1>7. CASE UNCHANGED fields
    BY <1>3, <1>7 DEF LiveIn
<1> QED
    BY <1>1, <1>2, <1>3, <1>4, <1>5, <1>6, <1>7
       DEF Next, FieldOperation, SetField, Elsewhere, fieldVars, vars

\* However fields are written, revived and purged, no persona ever has more live
\* ones than the cap.
THEOREM FieldsCapped == Spec => []FieldsWithinCap
<1>1. Spec => []CapsInv
    BY InitType, NextType, InitCaps, NextCaps, PTL DEF Spec
<1>2. CapsInv => FieldsWithinCap
    BY DEF CapsInv, FieldsWithinCap
<1> QED
    BY <1>1, <1>2, PTL
-----------------------------------------------------------------------------
(* The cap on pins binds the write that pins, not the rows that are pinned: *)
(* a revival brings a pin back without a count.                             *)

NewPins(s) ==
    LiveIn(fields', s) /\ fields'[s].pinned /\ (Exists(s) /\ Survives(s) => ~fields[s].pinned)
        => Cardinality(PinnedOf(fields', s[1])) <= MaxPinned

\* A slot a step leaves alone gets no pin.
LEMMA NoNewPin == ASSUME NEW s \in Slots, fields'[s] = fields[s] PROVE NewPins(s)
BY DEF NewPins, Survives, Exists, LiveIn

\* The request's cap, which no request may put above the deployment's.
LEMMA OnePinned ==
    ASSUME CapsInv, NEW p \in Personas, NEW w \in Keys, NEW base, NEW cap \in PinCaps,
           LiveOf(base, p) \subseteq LiveOf(fields, p),
           Cardinality(PinnedOf(base, p)) < cap,
           \A k \in Keys : k # w => fields'[<<p, k>>] = base[<<p, k>>]
    PROVE  Cardinality(PinnedOf(fields', p)) <= MaxPinned
<1>1. IsFiniteSet(PinnedOf(base, p))
    <2>1. PinnedOf(base, p) \subseteq LiveOf(fields, p)
        BY DEF PinnedOf
    <2> QED
        BY <2>1, FS_Subset DEF CapsInv
<1>2. PinnedOf(fields', p) \subseteq PinnedOf(base, p) \cup {w}
    BY DEF PinnedOf, LiveOf, LiveIn
<1>3. cap \in Nat /\ cap <= MaxPinned /\ MaxPinned \in Nat
    BY FieldAssumption
<1>4. IsFiniteSet(PinnedOf(fields', p)) /\ Cardinality(PinnedOf(fields', p)) <= cap
    BY <1>1, <1>2, <1>3, OneMoreFits
<1> QED
    BY <1>3, <1>4, FS_CardinalityType

LEMMA EveryNewPin ==
    ASSUME TypeOK, CapsInv, [Next]_vars, NEW s \in Slots
    PROVE  NewPins(s)
<1>1. ASSUME NEW p \in Personas, NEW k \in Keys, NEW value \in Values,
             NEW description \in Descriptions, NEW pinned \in BOOLEAN, NEW cap \in PinCaps,
             InsertField(p, k, value, description, pinned, cap)
      PROVE  NewPins(s)
    <2> DEFINE base == Without(fields, IF PastDue(<<p, k>>) THEN {<<p, k>>} ELSE {})
    <2>1. /\ <<p, k>> \in Slots
          /\ fields'[<<p, k>>] = NewRow(value, description, pinned, fieldSeq + 1)
          /\ \A t \in Slots : t # <<p, k>> => fields'[t] = fields[t]
        BY <1>1, InsertTable
    <2>2. /\ CapsAllow(base, p, TRUE, pinned, cap)
          /\ base = Without(fields, IF PastDue(<<p, k>>) THEN {<<p, k>>} ELSE {})
        BY <1>1 DEF InsertField
    <2> HIDE DEF base
    <2>3. CASE s = <<p, k>> /\ pinned
        <3>1. /\ LiveOf(base, p) \subseteq LiveOf(fields, p)
              /\ \A t \in Slots : t # <<p, k>> => base[t] = fields[t]
            BY <2>1, <2>2, InsertBase
        <3>2. Cardinality(PinnedOf(base, p)) < cap
            BY <2>2, <2>3 DEF CapsAllow
        <3>3. \A j \in Keys : j # k => fields'[<<p, j>>] = base[<<p, j>>]
            BY <2>1, <3>1
        <3>4. Cardinality(PinnedOf(fields', p)) <= MaxPinned
            BY <3>1, <3>2, <3>3, OnePinned
        <3> QED
            BY <2>3, <3>4 DEF NewPins
    <2>4. CASE s = <<p, k>> /\ ~pinned
        BY <2>1, <2>4 DEF NewPins, NewRow
    <2>5. CASE s # <<p, k>>
        BY <2>1, <2>5, NoNewPin
    <2> QED
        BY <2>3, <2>4, <2>5
<1>2. ASSUME NEW p \in Personas, NEW k \in Keys, NEW value \in Values,
             NEW description \in Descriptions, NEW pinned \in BOOLEAN, NEW cap \in PinCaps,
             NEW logValues \in BOOLEAN,
             ReviseField(p, k, value, description, pinned, cap, logValues)
      PROVE  NewPins(s)
    <2>1. /\ <<p, k>> \in Slots /\ fields[<<p, k>>] \in Row
          /\ fields'[<<p, k>>] = RevisedRow(fields[<<p, k>>], value, description, pinned)
          /\ \A t \in Slots : t # <<p, k>> => fields'[t] = fields[t]
        BY <1>2, ReviseTable
    <2>2. CapsAllow(fields, p, Revives(fields[<<p, k>>]), pinned /\ ~fields[<<p, k>>].pinned, cap)
        BY <1>2 DEF ReviseField
    <2>3. /\ fields'[<<p, k>>].pinned = pinned
          /\ fields'[<<p, k>>] # NoRow /\ fields'[<<p, k>>].seq = fields[<<p, k>>].seq
        <3>1. RevisedRow(fields[<<p, k>>], value, description, pinned) \in Row
            BY <2>1, RevisedRowType
        <3> QED
            BY <2>1, <3>1, FieldAssumption DEF RevisedRow, Row
    <2>4. CASE s = <<p, k>> /\ pinned /\ ~fields[<<p, k>>].pinned
        <3>1. Cardinality(PinnedOf(fields, p)) < cap
            BY <2>2, <2>4 DEF CapsAllow
        <3>2. \A j \in Keys : j # k => fields'[<<p, j>>] = fields[<<p, j>>]
            BY <2>1
        <3>3. Cardinality(PinnedOf(fields', p)) <= MaxPinned
            BY <3>1, <3>2, OnePinned
        <3> QED
            BY <2>4, <3>3 DEF NewPins
    <2>5. CASE s = <<p, k>> /\ ~(pinned /\ ~fields[<<p, k>>].pinned)
        BY <2>1, <2>3, <2>5, FieldAssumption DEF NewPins, Exists, Survives
    <2>6. CASE s # <<p, k>>
        BY <2>1, <2>6, NoNewPin
    <2> QED
        BY <2>4, <2>5, <2>6
<1>3. ASSUME NEW p \in Personas, NEW k \in Keys, NEW policy \in Policies,
             ForgetField(p, k, policy)
      PROVE  NewPins(s)
    <2>1. /\ fields[<<p, k>>] \in Row
          /\ \/ fields'[<<p, k>>] = NoRow
             \/ fields'[<<p, k>>] = ForgottenRow(fields[<<p, k>>], PurgeAfter(policy, now))
          /\ \A t \in Slots : t # <<p, k>> => fields'[t] = fields[t]
        BY <1>3, ForgetTable
    <2>2. ForgottenRow(fields[<<p, k>>], PurgeAfter(policy, now)).forgotten
        BY <2>1, PurgeAfterType, ForgottenRowType
    <2> QED
        BY <2>1, <2>2, NoNewPin DEF NewPins, LiveIn
<1>4. CASE \A t \in Slots : fields'[t] \in {NoRow, fields[t]}
    BY <1>4, NoNewPin DEF NewPins, LiveIn
<1>5. CASE PurgeDueFields
    BY <1>4, <1>5, WithoutAt DEF PurgeDueFields
<1>6. ASSUME NEW p \in Personas, DropPersona(p), DropFieldsOf(p)
      PROVE  \A t \in Slots : fields'[t] \in {NoRow, fields[t]}
    BY <1>6, DropTable
<1>7. CASE UNCHANGED fields
    BY <1>7, NoNewPin
<1> QED
    BY <1>1, <1>2, <1>3, <1>4, <1>5, <1>6, <1>7
       DEF Next, FieldOperation, SetField, Elsewhere, fieldVars, vars

\* No write that pins a row leaves more pinned than the deployment's cap, whatever
\* cap its request brought.
THEOREM NewPinsCapped == Spec => NewPinsWithinCap
<1>1. TypeOK /\ CapsInv /\ [Next]_vars =>
          [\A s \in Slots :
              LiveIn(fields', s) /\ fields'[s].pinned
                  /\ (Exists(s) /\ Survives(s) => ~fields[s].pinned)
              => Cardinality(PinnedOf(fields', s[1])) <= MaxPinned]_vars
    BY EveryNewPin DEF NewPins
<1> QED
    BY <1>1, InitType, NextType, InitCaps, NextCaps, PTL DEF Spec, NewPinsWithinCap

-----------------------------------------------------------------------------
(* What a step may never do. *)

RowStep(s) ==
    /\ Forgotten(s) /\ ~Survives(s) => PastDue(s) \/ s[1] \notin personas'
    /\ PastDue(s) /\ Survives(s) => fields'[s] = fields[s]
    /\ Forgotten(s) /\ Survives(s) =>
          fields'[s].purgeAfter = fields[s].purgeAfter \/ ~fields'[s].forgotten

\* A slot a step leaves alone.
LEMMA SameRow == ASSUME NEW s \in Slots, fields'[s] = fields[s] PROVE RowStep(s)
BY DEF RowStep, Survives, Forgotten, Exists

LEMMA EveryRowStep ==
    ASSUME TypeOK, TableInv, [Next]_vars, NEW s \in Slots
    PROVE  RowStep(s)
<1>0. /\ fields \in [Slots -> Row \cup {NoRow}] /\ fieldSeq \in Nat /\ NoRow \notin Row
    BY FieldAssumption DEF TypeOK
<1>1. ASSUME NEW p \in Personas, NEW k \in Keys, NEW value \in Values,
             NEW description \in Descriptions, NEW pinned \in BOOLEAN, NEW cap \in PinCaps,
             InsertField(p, k, value, description, pinned, cap)
      PROVE  RowStep(s)
    <2> DEFINE w == <<p, k>>
    <2>1. /\ w \in Slots
          /\ fields[w] = NoRow \/ PastDue(w)
          /\ fields'[w] = NewRow(value, description, pinned, fieldSeq + 1)
          /\ \A t \in Slots : t # w => fields'[t] = fields[t]
        BY <1>1, InsertTable
    <2> HIDE DEF w
    <2>2. fields'[w].seq = fieldSeq + 1
        BY <2>1 DEF NewRow
    <2>3. CASE s = w
        <3>1. Exists(s) => fields[s].seq \in Nat /\ fields[s].seq <= fieldSeq
            BY <1>0 DEF TableInv, DocidsAreUnique, Exists, Row
        <3> QED
            BY <1>0, <2>1, <2>2, <2>3, <3>1 DEF RowStep, Survives, Forgotten, Exists, PastDue
    <2>4. CASE s # w
        BY <2>1, <2>4, SameRow
    <2> QED
        BY <2>3, <2>4
<1>2. ASSUME NEW p \in Personas, NEW k \in Keys, NEW value \in Values,
             NEW description \in Descriptions, NEW pinned \in BOOLEAN, NEW cap \in PinCaps,
             NEW logValues \in BOOLEAN,
             ReviseField(p, k, value, description, pinned, cap, logValues)
      PROVE  RowStep(s)
    <2> DEFINE w == <<p, k>>
    <2>1. /\ w \in Slots /\ fields[w] \in Row /\ ~PastDue(w)
          /\ RevisedRow(fields[w], value, description, pinned) \in Row
          /\ fields'[w] = RevisedRow(fields[w], value, description, pinned)
          /\ \A t \in Slots : t # w => fields'[t] = fields[t]
        BY <1>2, ReviseTable
    <2> HIDE DEF w
    <2>2. fields'[w].seq = fields[w].seq /\ ~fields'[w].forgotten
        BY <2>1 DEF RevisedRow, Row
    <2>3. CASE s = w
        BY <2>1, <2>2, <2>3, <1>0 DEF RowStep, Survives
    <2>4. CASE s # w
        BY <2>1, <2>4, SameRow
    <2> QED
        BY <2>3, <2>4
<1>3. ASSUME NEW p \in Personas, NEW k \in Keys, NEW policy \in Policies,
             ForgetField(p, k, policy)
      PROVE  RowStep(s)
    <2> DEFINE w == <<p, k>>
    <2>1. /\ w \in Slots /\ fields[w] \in Row /\ ~fields[w].forgotten
          /\ \A t \in Slots : t # w => fields'[t] = fields[t]
        BY <1>3, ForgetTable
    <2> HIDE DEF w
    <2>2. CASE s = w
        BY <2>1, <2>2 DEF RowStep, Forgotten, PastDue, Due, TableInv, ScheduledIsForgotten
    <2>3. CASE s # w
        BY <2>1, <2>3, SameRow
    <2> QED
        BY <2>2, <2>3
<1>4. CASE PurgeDueFields
    <2>1. PICK batch \in FieldBatches : fields' = Without(fields, batch)
        BY <1>4 DEF PurgeDueFields
    <2>2. CASE s \in batch
        <3>1. PastDue(s) /\ fields'[s] = NoRow
            BY <2>1, <2>2, WithoutAt DEF FieldBatches, DueFields
        <3> QED
            BY <3>1 DEF RowStep, Survives
    <2> QED
        BY <2>1, <2>2, WithoutAt, SameRow
<1>5. ASSUME NEW p \in Personas, DropPersona(p), DropFieldsOf(p)
      PROVE  RowStep(s)
    <2>1. CASE s[1] = p
        <3>1. fields'[s] = NoRow /\ s[1] \notin personas'
            BY <1>5, <2>1, DropTable DEF DropPersona
        <3> QED
            BY <3>1 DEF RowStep, Survives
    <2> QED
        BY <1>5, <2>1, DropTable, SameRow
<1>6. CASE UNCHANGED fieldVars
    BY <1>6, SameRow DEF fieldVars
<1> QED
    BY <1>1, <1>2, <1>3, <1>4, <1>5, <1>6
       DEF Next, FieldOperation, SetField, Elsewhere, vars

LEMMA RowSteps == Spec => [][\A s \in Slots : RowStep(s)]_vars
<1>1. TypeOK /\ TableInv /\ [Next]_vars => [\A s \in Slots : RowStep(s)]_vars
    BY EveryRowStep
<1> QED
    BY <1>1, InitType, NextType, InitTable, NextTable, PTL DEF Spec

\* No forgotten row is destroyed before its date, and a tombstone only with its
\* persona.
THEOREM NeverDestroyedEarly == Spec => DestroyedWhenDue
<1>1. [\A s \in Slots : RowStep(s)]_vars =>
          [\A s \in Slots : Forgotten(s) /\ ~Survives(s) => PastDue(s) \/ s[1] \notin personas']_vars
    BY DEF RowStep
<1> QED
    BY <1>1, RowSteps, PTL DEF DestroyedWhenDue

\* A row whose grace period has ended is never revived, however late the sweep.
THEOREM NeverRevivedLate == Spec => PastDueNeverReturns
<1>1. [\A s \in Slots : RowStep(s)]_vars =>
          [\A s \in Slots : PastDue(s) /\ Survives(s) => fields'[s] = fields[s]]_vars
    BY DEF RowStep
<1> QED
    BY <1>1, RowSteps, PTL DEF PastDueNeverReturns

\* Nothing reschedules a forgotten row.
THEOREM NeverRescheduled == Spec => ScheduleIsKept
<1>1. [\A s \in Slots : RowStep(s)]_vars =>
          [\A s \in Slots : Forgotten(s) /\ Survives(s) =>
              \/ fields'[s].purgeAfter = fields[s].purgeAfter
              \/ ~fields'[s].forgotten]_vars
    BY DEF RowStep
<1> QED
    BY <1>1, RowSteps, PTL DEF ScheduleIsKept

-----------------------------------------------------------------------------
(* FieldStore implements Lifecycle: each transaction is one step of the life *)
(* of the row it is about, or changes no life at all.                        *)

Lives == [s \in Slots |-> LifeOf(fields[s])]

LEMMA OneLife ==
    ASSUME NEW w \in Slots, \A t \in Slots : t # w => fields'[t] = fields[t]
    PROVE  Lives' = [Lives EXCEPT ![w] = LifeOf(fields'[w])]
<1>1. \A s \in Slots : Lives'[s] = [Lives EXCEPT ![w] = LifeOf(fields'[w])][s]
    BY DEF Lives
<1> QED
    BY <1>1 DEF Lives

LEMMA LifeOfRow ==
    ASSUME NEW row \in Row
    PROVE  LifeOf(row) = Life!Thing(row.seq, row.forgotten, row.purgeAfter)
BY FieldAssumption DEF LifeOf, Life!Thing

LEMMA LivesBegin == Init => Life!Init
BY DEF Init, StoreInit, FieldInit, Life!Init, Life!Absent, Life!Thing, Life!Places, LifeOf

LEMMA InsertLives ==
    ASSUME TypeOK, TableInv, NEW p \in Personas, NEW k \in Keys, NEW value \in Values,
           NEW description \in Descriptions, NEW pinned \in BOOLEAN, NEW cap \in PinCaps,
           InsertField(p, k, value, description, pinned, cap)
    PROVE  Life!Remember(<<p, k>>)
<1> DEFINE w == <<p, k>>
           row == NewRow(value, description, pinned, fieldSeq + 1)
<1>1. /\ w \in Slots
      /\ fields[w] = NoRow \/ PastDue(w)
      /\ row \in Row /\ fields'[w] = row
      /\ \A t \in Slots : t # w => fields'[t] = fields[t]
    BY InsertTable
<1>2. fieldSeq' = fieldSeq + 1 /\ now' = now
    BY DEF InsertField, NextSeq
<1>3. LifeOf(row) = Life!Thing(fieldSeq + 1, FALSE, Never)
    BY <1>1, LifeOfRow DEF NewRow
<1>4. fields[w] \in Row \cup {NoRow}
    BY <1>1 DEF TypeOK
<1> HIDE DEF w, row
<1>5. Lives' = [Lives EXCEPT ![w] = Life!Thing(fieldSeq + 1, FALSE, Never)]
    BY <1>1, <1>3, OneLife
<1>6. Lives[w] = Life!Absent \/ Life!Over(w)
    <2>1. CASE fields[w] = NoRow
        <3>1. LifeOf(fields[w]) = Life!Absent
            BY <2>1 DEF LifeOf, Life!Absent, Life!Thing
        <3> QED
            BY <1>1, <3>1 DEF Lives
    <2>2. CASE fields[w] # NoRow
        <3>1. fields[w] \in Row /\ PastDue(w)
            BY <1>1, <1>4, <2>2
        <3> QED
            BY <1>1, <3>1, FieldAssumption DEF PastDue, Due, Exists, Life!Over, LifeOf
    <2> QED
        BY <2>1, <2>2
<1> QED
    BY <1>2, <1>5, <1>6 DEF Life!Remember, Lives, w

LEMMA ReviseLives ==
    ASSUME TypeOK, NEW p \in Personas, NEW k \in Keys, NEW value \in Values,
           NEW description \in Descriptions, NEW pinned \in BOOLEAN, NEW cap \in PinCaps,
           NEW logValues \in BOOLEAN,
           ReviseField(p, k, value, description, pinned, cap, logValues)
    PROVE  Life!Revive(<<p, k>>)
<1> DEFINE w == <<p, k>>
           row == RevisedRow(fields[w], value, description, pinned)
<1>1. /\ w \in Slots /\ fields[w] \in Row /\ ~PastDue(w)
      /\ row \in Row /\ fields'[w] = row
      /\ \A t \in Slots : t # w => fields'[t] = fields[t]
    BY ReviseTable
<1>2. fieldSeq' = fieldSeq /\ now' = now
    BY DEF ReviseField
<1>3. row.seq = fields[w].seq /\ ~row.forgotten /\ row.forgotten \in BOOLEAN
      /\ row.purgeAfter = Never
    BY <1>1 DEF RevisedRow, Row
<1> HIDE DEF w, row
<1>4. Lives[w] = Life!Thing(fields[w].seq, fields[w].forgotten, fields[w].purgeAfter)
    BY <1>1, LifeOfRow DEF Lives
<1>5. LifeOf(row) = Life!Thing(Lives[w].life, FALSE, Never)
    <2>1. row.forgotten = FALSE
        BY <1>3
    <2>2. Lives[w].life = fields[w].seq
        BY <1>4 DEF Life!Thing
    <2> QED
        BY <1>1, <1>3, <2>1, <2>2, LifeOfRow
<1>6. Lives' = [Lives EXCEPT ![w] = Life!Thing(Lives[w].life, FALSE, Never)]
    BY <1>1, <1>5, OneLife
<1>7. Lives[w] # Life!Absent
    <2>1. Lives[w].life # 0
        BY <1>1, <1>4 DEF Life!Thing, Row
    <2> QED
        BY <2>1 DEF Life!Absent, Life!Thing
<1>8. ~Life!Over(w)
    BY <1>1, FieldAssumption DEF PastDue, Exists, Due, Life!Over, LifeOf
<1> QED
    BY <1>2, <1>6, <1>7, <1>8 DEF Life!Revive, Lives, w

LEMMA ForgetLives ==
    ASSUME TypeOK, NEW p \in Personas, NEW k \in Keys, NEW policy \in Policies,
           ForgetField(p, k, policy)
    PROVE  Life!Forget(<<p, k>>)
<1> DEFINE w == <<p, k>>
           due == PurgeAfter(policy, now)
           row == ForgottenRow(fields[w], PurgeAfter(policy, now))
<1>1. /\ w \in Slots /\ fields[w] \in Row /\ ~fields[w].forgotten
      /\ DestroysNow(policy) => fields'[w] = NoRow
      /\ ~DestroysNow(policy) => fields'[w] = row
      /\ \A t \in Slots : t # w => fields'[t] = fields[t]
    BY ForgetTable
<1>2. fieldSeq' = fieldSeq /\ now' = now
    BY DEF ForgetField
<1>3. due \in {Never} \cup {now + g : g \in GracePeriods}
    BY DEF PurgeAfter, Policies
<1>4. row \in Row /\ row.seq = fields[w].seq /\ row.forgotten = TRUE /\ row.purgeAfter = due
    BY <1>1, PurgeAfterType, ForgottenRowType
<1> HIDE DEF w, row, due
<1>5. Lives[w] = Life!Thing(fields[w].seq, fields[w].forgotten, fields[w].purgeAfter)
    BY <1>1, LifeOfRow DEF Lives
<1>6. Lives[w].life = fields[w].seq /\ ~Lives[w].forgotten
    BY <1>1, <1>5 DEF Life!Thing
<1>7. Lives' = [Lives EXCEPT ![w] = LifeOf(fields'[w])]
    BY <1>1, OneLife
<1>8. \/ LifeOf(fields'[w]) = Life!Absent
      \/ LifeOf(fields'[w]) = Life!Thing(Lives[w].life, TRUE, due)
    <2>1. CASE DestroysNow(policy)
        BY <1>1, <2>1 DEF LifeOf, Life!Absent, Life!Thing
    <2>2. CASE ~DestroysNow(policy)
        BY <1>1, <1>4, <1>6, <2>2, LifeOfRow
    <2> QED
        BY <2>1, <2>2
<1>9. Lives[w] # Life!Absent
    <2>1. Lives[w].life # 0
        BY <1>1, <1>6 DEF Row
    <2> QED
        BY <2>1 DEF Life!Absent, Life!Thing
<1>10. \E next \in {Life!Absent} \cup {Life!Thing(Lives[w].life, TRUE, d) :
                                   d \in {Never} \cup {now + g : g \in GracePeriods}} :
          Lives' = [Lives EXCEPT ![w] = next]
    BY <1>3, <1>7, <1>8
<1> QED
    BY <1>2, <1>6, <1>9, <1>10 DEF Life!Forget, Lives, w

LEMMA RemovedLives ==
    ASSUME NEW gone, \A t \in Slots : fields'[t] = IF t \in gone THEN NoRow ELSE fields[t],
           UNCHANGED <<now, fieldSeq>>
    PROVE  Life!Remove(gone)
BY DEF Life!Remove, Life!Places, Life!Absent, Life!Thing, LifeOf

LEMMA PurgeLives == ASSUME TypeOK, PurgeDueFields PROVE Life!DestroyDue
<1>1. PICK batch \in FieldBatches : fields' = Without(fields, batch)
    BY DEF PurgeDueFields
<1>2. UNCHANGED <<now, fieldSeq>>
    BY DEF PurgeDueFields
<1>3. Life!Remove(batch)
    BY <1>1, <1>2, WithoutAt, RemovedLives
<1>4. batch \subseteq {s \in Slots : Life!Over(s)}
    <2> SUFFICES ASSUME NEW s \in batch
                 PROVE  s \in Slots /\ Life!Over(s)
        OBVIOUS
    <2>1. s \in Slots /\ PastDue(s)
        BY DEF FieldBatches, DueFields
    <2> QED
        BY <2>1 DEF PastDue, Due, Exists, Life!Over, LifeOf
<1> QED
    BY <1>3, <1>4 DEF Life!DestroyDue, Life!Places

LEMMA DropLives ==
    ASSUME NEW p \in Personas, DropPersona(p), DropFieldsOf(p)
    PROVE  Life!RemoveOwner(p)
<1>1. \A t \in Slots : fields'[t] = IF t \in {p} \X Keys THEN NoRow ELSE fields[t]
    BY DropTable
<1>2. UNCHANGED <<now, fieldSeq>>
    BY DEF DropPersona, DropFieldsOf
<1> QED
    BY <1>1, <1>2, RemovedLives DEF Life!RemoveOwner

LEMMA LivesGoOn ==
    TypeOK /\ TableInv /\ [Next]_vars => [Life!Next]_<<now, Lives, fieldSeq>>
<1> SUFFICES ASSUME TypeOK, TableInv, [Next]_vars
             PROVE  Life!Next \/ UNCHANGED <<now, Lives, fieldSeq>>
    OBVIOUS
<1>1. ASSUME NEW p \in Personas, NEW k \in Keys, SetField(p, k)
      PROVE  Life!Next
    <2>1. <<p, k>> \in Life!Places
        BY DEF Life!Places
    <2>2. Life!Remember(<<p, k>>) \/ Life!Revive(<<p, k>>)
        BY <1>1, InsertLives, ReviseLives DEF SetField
    <2> QED
        BY <2>1, <2>2 DEF Life!Next
<1>2. ASSUME NEW p \in Personas, NEW k \in Keys, NEW policy \in Policies,
             ForgetField(p, k, policy)
      PROVE  Life!Next
    <2>1. <<p, k>> \in Life!Places
        BY DEF Life!Places
    <2>2. Life!Forget(<<p, k>>)
        BY <1>2, ForgetLives
    <2> QED
        BY <2>1, <2>2 DEF Life!Next
<1>3. CASE PurgeDueFields
    BY <1>3, PurgeLives DEF Life!Next
<1>4. ASSUME NEW p \in Personas, DropPersona(p), DropFieldsOf(p)
      PROVE  Life!Next
    BY <1>4, DropLives DEF Life!Next
<1>5. ASSUME Tick, UNCHANGED fieldVars
      PROVE  Life!Next
    BY <1>5 DEF Tick, fieldVars, Life!Next, Life!TimePasses
<1>6. CASE UNCHANGED <<now, fields, fieldSeq>>
    BY <1>6 DEF Lives
<1> QED
    BY <1>1, <1>2, <1>3, <1>4, <1>5, <1>6
       DEF Next, FieldOperation, Elsewhere, AddPersona, RecordPersonaEvent,
           OtherTransaction, fieldVars, storeVars, vars

\* The table of fields implements the life of a remembered thing.
THEOREM FieldsImplementLifecycle == Spec => ImplementsLifecycle
<1>1. TypeOK /\ TableInv /\ [Next]_vars =>
          [Life!Next]_<<now, [s \in Slots |-> LifeOf(fields[s])], fieldSeq>>
    BY LivesGoOn DEF Lives
<1> QED
    BY <1>1, LivesBegin, InitType, NextType, InitTable, NextTable, PTL
       DEF Spec, ImplementsLifecycle, Life!Spec
=============================================================================
