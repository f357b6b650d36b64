----------------------------- MODULE Memory_proofs -----------------------------
(***************************************************************************)
(* Theorems about Memory, for every set of personas, keys, ids and texts   *)
(* and every value of the caps and bounds.                                 *)
(***************************************************************************)
EXTENDS Memory, EventLog_proofs

-----------------------------------------------------------------------------
(* The sweep.  Whatever is left in the write-ahead log is left by a request  *)
(* that has yet to truncate, by a sweep still on its way to its checkpoint,  *)
(* or by something that went wrong.                                          *)

Counts == owing \in Nat /\ failures \in Nat /\ cancels \in Nat /\ restarts \in Nat

Undisturbed == owing = 0 /\ failures = 0 /\ cancels = 0 /\ restarts = 0

OnItsWay == (sweep = "notes" \/ sweep = "checkpoint") /\ purged

SweepInv == Counts /\ (residue /\ Undisturbed => OnItsWay)

LEMMA InitSweep == Init => SweepInv
<1> SUFFICES ASSUME Init PROVE SweepInv
    OBVIOUS
<1>1. Counts
    BY DEF Init, Counts
<1>2. ~residue
    BY DEF Init
<1> QED
    BY <1>1, <1>2 DEF SweepInv

\* What each kind of step does to what the invariant is about.
LEMMA SweepSteps ==
    ASSUME Counts, [Next]_vars
    PROVE  /\ Counts'
           /\ \/ ~Undisturbed'
              \/ ~residue'
              \/ (residue' => residue) /\ Undisturbed /\ (OnItsWay => OnItsWay')
              \/ OnItsWay'
<1>1. ASSUME Aftermath
      PROVE  /\ Counts'
             /\ ~Undisturbed' \/ ((residue' => residue) /\ Undisturbed /\ (OnItsWay => OnItsWay'))
    <2>1. UNCHANGED <<sweep, purged, failures, cancels, restarts>>
        BY <1>1 DEF Aftermath, sweepVars, mishaps
    <2>2. CASE Destroys
        <3>1. owing' = owing + 1
            BY <1>1, <2>2 DEF Aftermath
        <3> QED
            BY <2>1, <3>1 DEF Counts, Undisturbed
    <2>3. CASE ~Destroys
        <3>1. owing' = owing + 0
            BY <1>1, <2>3 DEF Aftermath
        <3>2. residue' => residue
            BY <1>1, <2>3 DEF Aftermath
        <3>3. owing' = owing
            BY <3>1 DEF Counts
        <3> QED
            BY <2>1, <3>2, <3>3 DEF Counts, Undisturbed, OnItsWay
    <2> QED
        BY <2>2, <2>3
<1>2. ASSUME UNCHANGED <<sweep, purged, residue, owing, failures, cancels, restarts>>
      PROVE  /\ Counts'
             /\ ~Undisturbed' \/ ((residue' => residue) /\ Undisturbed /\ (OnItsWay => OnItsWay'))
    BY <1>2 DEF Counts, Undisturbed, OnItsWay
<1>3. CASE DeletePersona
    <2>1. owing' = owing + 1 /\ UNCHANGED <<failures, cancels, restarts>>
        BY <1>3 DEF DeletePersona, mishaps
    <2> QED
        BY <2>1 DEF Counts, Undisturbed
<1>4. CASE RequestTruncates
    <2>1. /\ owing' = owing - 1 /\ owing > 0 /\ UNCHANGED <<failures, cancels, restarts>>
          /\ ~residue'
        BY <1>4 DEF RequestTruncates, mishaps
    <2> QED
        BY <2>1 DEF Counts
<1>5. CASE RequestCancelled
    <2>1. /\ owing' = owing - 1 /\ owing > 0 /\ cancels' = cancels + 1
          /\ UNCHANGED <<failures, restarts>>
        BY <1>5 DEF RequestCancelled
    <2> QED
        BY <2>1 DEF Counts, Undisturbed
<1>6. CASE SweepFields
    <2>1. /\ UNCHANGED <<owing, failures, cancels, restarts>>
          /\ sweep = "fields" /\ sweep' = "notes"
        BY <1>6 DEF SweepFields, mishaps
    <2>2. purged' = TRUE \/ residue' = residue
        BY <1>6 DEF SweepFields
    <2>3. CASE purged' = TRUE
        BY <2>1, <2>3 DEF Counts, OnItsWay
    <2>4. CASE residue' = residue
        <3>1. ~OnItsWay
            BY <2>1 DEF OnItsWay
        <3>2. Undisturbed' => Undisturbed
            BY <2>1 DEF Undisturbed
        <3>3. Counts'
            BY <2>1 DEF Counts
        <3> QED
            BY <2>4, <3>1, <3>2, <3>3
    <2> QED
        BY <2>2, <2>3, <2>4
<1>7. CASE SweepNotes
    <2>1. /\ UNCHANGED <<owing, failures, cancels, restarts>>
          /\ sweep' = IF purged' THEN "checkpoint" ELSE "asleep"
        BY <1>7 DEF SweepNotes, mishaps
    <2>2. purged' \/ ((residue' => residue) /\ (purged => purged'))
        BY <1>7 DEF SweepNotes, AnythingPurged
    <2>3. purged' => OnItsWay'
        BY <2>1 DEF OnItsWay
    <2>4. OnItsWay => purged
        BY DEF OnItsWay
    <2>5. Counts' /\ (Undisturbed' => Undisturbed)
        BY <2>1 DEF Counts, Undisturbed
    <2> QED
        BY <2>2, <2>3, <2>4, <2>5
<1>8. CASE SweepTruncates
    <2>1. ~residue' /\ UNCHANGED <<owing, failures, cancels, restarts>>
        BY <1>8 DEF SweepTruncates, mishaps
    <2> QED
        BY <2>1 DEF Counts
<1>9. CASE WakeUp
    <2>1. /\ UNCHANGED <<residue, owing, failures, cancels, restarts>>
          /\ sweep = "asleep"
        BY <1>9 DEF WakeUp, mishaps
    <2>2. ~OnItsWay
        BY <2>1 DEF OnItsWay
    <2> QED
        BY <2>1, <2>2 DEF Counts, Undisturbed
<1>10. CASE SweepFails
    <2>1. UNCHANGED <<owing, cancels, restarts>> /\ failures' = failures + 1
        BY <1>10 DEF SweepFails
    <2> QED
        BY <2>1 DEF Counts, Undisturbed
<1>11. CASE Restart
    <2>1. UNCHANGED <<failures, cancels>> /\ owing' = 0 /\ restarts' = restarts + 1
        BY <1>11 DEF Restart
    <2> QED
        BY <2>1 DEF Counts, Undisturbed
<1>12. CASE UNCHANGED vars \/ Elsewhere
    BY <1>2, <1>12 DEF Elsewhere, vars, sweepVars, mishaps
<1> QED
    BY <1>1, <1>3, <1>4, <1>5, <1>6, <1>7, <1>8, <1>9, <1>10, <1>11, <1>12
       DEF Next, Sweeping, FieldRequest, NoteRequest

LEMMA NextSweep == SweepInv /\ [Next]_vars => SweepInv'
BY SweepSteps DEF SweepInv

\* A sweep that nothing disturbed, and that has gone back to sleep, has left nothing
\* readable of what it destroyed.
THEOREM SweepLeavesNothing == Spec => []SweepFinishes
<1>1. SweepInv => SweepFinishes
    BY DEF SweepInv, SweepFinishes, Undisturbed, OnItsWay
<1> QED
    BY <1>1, InitSweep, NextSweep, PTL DEF Spec

-----------------------------------------------------------------------------
(* The two stores' operators are the project's, over one log.                *)

Actions == FieldActions \cup NoteActions
Texts == Values \cup Bodies
Entry == EntriesOf(Actions, Personas, Keys \cup NoteIds, Texts)
Log == LogsOf(Entry)
Body == EventsOf(Actions, Personas, Keys \cup NoteIds, Texts)

FieldTable == [F!Slots -> F!Row \cup {NoRow}]
NoteTable == [NoteIds -> N!Row \cup {NoNote}]

LEMMA FieldOperators ==
    /\ \A lg, ev : F!Appended(lg, ev) = Appended(lg, ev)
    /\ \A lg, targets, actions : F!StripValues(lg, targets, actions) = StripValues(lg, targets, actions)
    /\ F!FieldActions = FieldActions
BY DEF F!Appended, F!Trimmed, F!Numbered, Appended, Trimmed, Numbered, F!StripValues, StripValues,
       F!FieldActions, FieldActions

LEMMA NoteOperators ==
    /\ \A lg, ev : N!Appended(lg, ev) = Appended(lg, ev)
    /\ \A lg, targets, actions : N!StripValues(lg, targets, actions) = StripValues(lg, targets, actions)
    /\ N!NoteActions = NoteActions
BY DEF N!Appended, N!Trimmed, N!Numbered, Appended, Trimmed, Numbered, N!StripValues, StripValues,
       N!NoteActions, NoteActions

\* An event about p's q is an event of this log.
LEMMA EventType ==
    ASSUME NEW action \in Actions, NEW p \in Personas, NEW q \in Keys \cup NoteIds,
           NEW revision \in Nat, NEW due \in Nat \cup {Never}, NEW old \in Texts \cup {NoValue}
    PROVE  Event(action, p, q, revision, due, old) \in Body
BY DEF Event, Body, EventsOf

-----------------------------------------------------------------------------
(* One step of the log, whichever transaction takes it: the entries of "news" *)
(* are new, those of "hit" lose their value, and every other one is as it was *)
(* or trimmed away.                                                           *)

LogStep(news, hit) ==
    /\ log' \in Log /\ Window(log')
    /\ \A n \in news : n.sequence > log.last
    /\ \A e \in log'.entries :
          \/ \E n \in news : SameEvent(e, n) /\ e.oldValue \in {n.oldValue, NoValue}
          \/ \E f \in log.entries : /\ SameEvent(e, f)
                                    /\ f \in hit => e.oldValue = NoValue
                                    /\ f \notin hit => e = f

About(targets, actions) ==
    {e \in log.entries : <<e.persona, e.subject>> \in targets /\ e.action \in actions}

LEMMA HitOrNot ==
    ASSUME NEW targets, NEW actions, NEW e, NEW f \in log.entries, SameEvent(e, f),
           <<e.persona, e.subject>> \in targets /\ e.action \in actions => e.oldValue = NoValue,
           ~(<<e.persona, e.subject>> \in targets /\ e.action \in actions) => e = f
    PROVE  /\ f \in About(targets, actions) => e.oldValue = NoValue
           /\ f \notin About(targets, actions) => e = f
BY DEF About, SameEvent

LEMMA StripStep ==
    ASSUME log \in Log, Window(log), NEW targets, NEW actions,
           log' = StripValues(log, targets, actions)
    PROVE  LogStep({}, About(targets, actions))
<1>1. /\ Stripped(log', log) /\ log' \in Log
      /\ \A e \in log'.entries : \E f \in log.entries :
            /\ SameEvent(e, f)
            /\ <<e.persona, e.subject>> \in targets /\ e.action \in actions => e.oldValue = NoValue
            /\ ~(<<e.persona, e.subject>> \in targets /\ e.action \in actions) => e = f
    BY StripEntries, StripKeepsType DEF Log, Entry
<1>2. Window(log')
    BY <1>1, StripKeepsWindow
<1>3. \A e \in log'.entries : \E f \in log.entries :
            /\ SameEvent(e, f)
            /\ f \in About(targets, actions) => e.oldValue = NoValue
            /\ f \notin About(targets, actions) => e = f
    BY <1>1, HitOrNot
<1> QED
    BY <1>1, <1>2, <1>3 DEF LogStep

LEMMA StripPersonaStep ==
    ASSUME log \in Log, Window(log), NEW p, log' = StripPersonaValues(log, p)
    PROVE  LogStep({}, {e \in log.entries : e.persona = p})
<1>1. /\ Stripped(log', log) /\ log' \in Log
      /\ \A e \in log'.entries : \E f \in log.entries :
            /\ SameEvent(e, f)
            /\ e.persona = p => e.oldValue = NoValue
            /\ e.persona # p => e = f
    BY StripPersonaEntries, StripPersonaKeepsType DEF Log, Entry
<1>2. Window(log')
    BY <1>1, StripKeepsWindow
<1> QED
    BY <1>1, <1>2 DEF LogStep, SameEvent

LEMMA AppendedTypes ==
    ASSUME NEW lg \in Log, Window(lg), NEW ev \in Body
    PROVE  /\ Appended(lg, ev) \in Log /\ Window(Appended(lg, ev))
           /\ \A e \in Appended(lg, ev).entries : e \in lg.entries \/ e = Numbered(lg.last + 1, ev)
<1>1. Appended(lg, ev) \in Log /\ Window(Appended(lg, ev))
    BY AppendKeepsType, AppendKeepsWindow DEF Log, Entry, Body
<1>2. \A e \in Entry : e \in Appended(lg, ev).entries => e \in lg.entries \/ e = Numbered(lg.last + 1, ev)
    BY AppendedEntries DEF Log, Entry, Body
<1>3. Appended(lg, ev).entries \subseteq Entry
    BY <1>1 DEF Log, LogsOf
<1> QED
    BY <1>1, <1>2, <1>3

\* A strip before the append, as an insertion does.
LEMMA StripAppendStep ==
    ASSUME log \in Log, Window(log), NEW targets, NEW actions, NEW ev \in Body,
           log' = Appended(StripValues(log, targets, actions), ev)
    PROVE  LogStep({Numbered(log.last + 1, ev)}, About(targets, actions))
<1> DEFINE lg == StripValues(log, targets, actions)
           new == Numbered(log.last + 1, ev)
<1>1. /\ Stripped(lg, log) /\ lg \in Log
      /\ \A e \in lg.entries : \E f \in log.entries :
            /\ SameEvent(e, f)
            /\ <<e.persona, e.subject>> \in targets /\ e.action \in actions => e.oldValue = NoValue
            /\ ~(<<e.persona, e.subject>> \in targets /\ e.action \in actions) => e = f
    BY StripEntries, StripKeepsType DEF Log, Entry
<1>2. log' = Appended(lg, ev)
    OBVIOUS
<1>3. new.sequence = log.last + 1 /\ log.last \in Nat
    BY DEF Numbered, Log, LogsOf
<1> HIDE DEF lg
<1>4. Window(lg) /\ lg.last = log.last
    BY <1>1, StripKeepsWindow DEF Stripped
<1>5. /\ log' \in Log /\ Window(log')
      /\ \A e \in log'.entries : e \in lg.entries \/ e = new
    BY <1>1, <1>2, <1>4, AppendedTypes
<1> HIDE DEF new
<1>6. SameEvent(new, new) /\ new.oldValue \in {new.oldValue, NoValue}
    BY DEF SameEvent
<1>7. ASSUME NEW e \in log'.entries
      PROVE  \/ \E n \in {new} : SameEvent(e, n) /\ e.oldValue \in {n.oldValue, NoValue}
             \/ \E f \in log.entries : /\ SameEvent(e, f)
                                       /\ f \in About(targets, actions) => e.oldValue = NoValue
                                       /\ f \notin About(targets, actions) => e = f
    <2>1. CASE e = new
        BY <1>6, <2>1
    <2>2. CASE e \in lg.entries
        <3>1. PICK f \in log.entries :
                /\ SameEvent(e, f)
                /\ <<e.persona, e.subject>> \in targets /\ e.action \in actions => e.oldValue = NoValue
                /\ ~(<<e.persona, e.subject>> \in targets /\ e.action \in actions) => e = f
            BY <1>1, <2>2
        <3> QED
            BY <3>1, HitOrNot
    <2> QED
        BY <1>5, <2>1, <2>2
<1>8. \A n \in {new} : n.sequence > log.last
    BY <1>3
<1> QED
    BY <1>5, <1>7, <1>8 DEF LogStep, new

\* A strip after the append, as a forgetting does.
LEMMA AppendStripStep ==
    ASSUME log \in Log, Window(log), NEW targets, NEW actions, NEW ev \in Body,
           log' = StripValues(Appended(log, ev), targets, actions)
    PROVE  LogStep({Numbered(log.last + 1, ev)}, About(targets, actions))
<1> DEFINE lg == Appended(log, ev)
           new == Numbered(log.last + 1, ev)
<1>1. /\ lg \in Log /\ Window(lg)
      /\ \A e \in lg.entries : e \in log.entries \/ e = new
    BY AppendedTypes
<1>2. log' = StripValues(lg, targets, actions)
    OBVIOUS
<1>3. new.sequence = log.last + 1 /\ log.last \in Nat
    BY DEF Numbered, Log, LogsOf
<1> HIDE DEF lg, new
<1>4. /\ Stripped(log', lg) /\ log' \in Log
      /\ \A e \in log'.entries : \E f \in lg.entries :
            /\ SameEvent(e, f)
            /\ <<e.persona, e.subject>> \in targets /\ e.action \in actions => e.oldValue = NoValue
            /\ ~(<<e.persona, e.subject>> \in targets /\ e.action \in actions) => e = f
    BY <1>1, <1>2, StripEntries, StripKeepsType DEF Log, Entry
<1>5. Window(log')
    BY <1>1, <1>4, StripKeepsWindow
<1>6. ASSUME NEW e \in log'.entries
      PROVE  \/ SameEvent(e, new) /\ e.oldValue \in {new.oldValue, NoValue}
             \/ \E f \in log.entries : /\ SameEvent(e, f)
                                       /\ f \in About(targets, actions) => e.oldValue = NoValue
                                       /\ f \notin About(targets, actions) => e = f
    <2>1. PICK f \in lg.entries :
            /\ SameEvent(e, f)
            /\ <<e.persona, e.subject>> \in targets /\ e.action \in actions => e.oldValue = NoValue
            /\ ~(<<e.persona, e.subject>> \in targets /\ e.action \in actions) => e = f
        BY <1>4
    <2>2. CASE f = new
        BY <2>1, <2>2
    <2>3. CASE f \in log.entries
        BY <2>1, <2>3, HitOrNot
    <2> QED
        BY <1>1, <2>2, <2>3
<1>7. \A n \in {new} : n.sequence > log.last
    BY <1>3
<1> QED
    BY <1>4, <1>5, <1>6, <1>7 DEF LogStep, new

-----------------------------------------------------------------------------
(* What the log kept is of a row that is there, in the table its noun names. *)

Backed(e) ==
    \/ /\ e.action \in FieldActions /\ <<e.persona, e.subject>> \in F!Slots
       /\ F!Exists(<<e.persona, e.subject>>)
    \/ /\ e.action \in NoteActions /\ e.subject \in NoteIds
       /\ N!Exists(e.subject) /\ notes[e.subject].persona = e.persona

KeptInv == \A e \in log.entries : e.oldValue # NoValue => Backed(e)

TableInv ==
    /\ now \in Nat
    /\ fields \in FieldTable /\ fieldSeq \in Nat
    /\ \A s \in F!Slots : F!Exists(s) => fields[s].seq <= fieldSeq
    /\ notes \in NoteTable /\ noteSeq \in Nat
    /\ \A id \in NoteIds : N!Exists(id) => id \in issued

LogInv == log \in Log /\ Window(log)

MemoryInv == TableInv /\ LogInv /\ KeptInv

\* The body of StripsReachNoOtherRow.
NothingElseStripped ==
    \A e \in log.entries : e.oldValue # NoValue /\ RowSurvives(e) =>
        \A f \in log'.entries : f.sequence = e.sequence => f = e

LEMMA SameBacking ==
    ASSUME NEW e, NEW f, SameEvent(e, f)
    PROVE  Backed(e)' <=> Backed(f)'
BY DEF SameEvent, Backed

LEMMA KeptOn ==
    ASSUME KeptInv, NEW news, NEW hit, LogStep(news, hit),
           \A n \in news : n.oldValue # NoValue => Backed(n)',
           \A f \in log.entries : f.oldValue # NoValue /\ f \notin hit /\ Backed(f) => Backed(f)'
    PROVE  LogInv' /\ KeptInv'
<1>1. ASSUME NEW e \in log'.entries, e.oldValue # NoValue
      PROVE  Backed(e)'
    <2>1. CASE \E n \in news : SameEvent(e, n) /\ e.oldValue \in {n.oldValue, NoValue}
        BY <1>1, <2>1, SameBacking
    <2>2. CASE \E f \in log.entries : /\ SameEvent(e, f)
                                      /\ f \in hit => e.oldValue = NoValue
                                      /\ f \notin hit => e = f
        BY <1>1, <2>2 DEF KeptInv
    <2> QED
        BY <2>1, <2>2 DEF LogStep
<1> QED
    BY <1>1 DEF LogStep, LogInv, KeptInv

LEMMA ReachOn ==
    ASSUME LogInv, KeptInv, NEW news, NEW hit, LogStep(news, hit),
           \A f \in hit : f \in log.entries /\ f.oldValue # NoValue /\ Backed(f) => ~RowSurvives(f)
    PROVE  NothingElseStripped
<1> SUFFICES ASSUME NEW e \in log.entries, e.oldValue # NoValue, RowSurvives(e),
                    NEW f \in log'.entries, f.sequence = e.sequence
             PROVE  f = e
    BY DEF NothingElseStripped
<1>1. e \notin hit
    BY DEF KeptInv
<1>2. e.sequence \in Nat /\ log.last \in Nat /\ e.sequence <= log.last /\ Unambiguous(log)
    BY DEF LogInv, Log, LogsOf, Entry, EntriesOf, Window
<1>3. ~\E n \in news : SameEvent(f, n)
    <2> SUFFICES ASSUME NEW n \in news, SameEvent(f, n)
                 PROVE  FALSE
        OBVIOUS
    <2>1. n.sequence = e.sequence /\ n.sequence > log.last
        BY DEF SameEvent, LogStep
    <2> QED
        BY <1>2, <2>1
<1>4. PICK g \in log.entries : SameEvent(f, g) /\ (g \notin hit => f = g)
    BY <1>3 DEF LogStep
<1>5. g = e
    BY <1>2, <1>4 DEF SameEvent, Unambiguous
<1> QED
    BY <1>1, <1>4, <1>5

-----------------------------------------------------------------------------
(* A field's transactions. *)

FieldEffect(s, gone, new) ==
    /\ s \in F!Slots
    /\ \A t \in F!Slots : t # s => fields'[t] = fields[t]
    /\ fields' \in FieldTable /\ fieldSeq' \in Nat /\ fieldSeq <= fieldSeq' /\ now' = now
    /\ F!Exists(s)' => fields'[s].seq <= fieldSeq'
    /\ gone = {} \/ (gone = {s} /\ ~F!Survives(s))
    /\ gone = {} /\ F!Exists(s) => F!Exists(s)'
    /\ new.persona = s[1] /\ new.subject = s[2] /\ new.action \in FieldActions
    /\ new.oldValue # NoValue => F!Exists(s)'
    /\ LogStep({new}, About(gone, FieldActions))

LEMMA DisjointNouns == FieldActions \cap NoteActions = {}
BY DEF FieldActions, NoteActions

LEMMA FieldEffectKeeps ==
    ASSUME MemoryInv, NEW s, NEW gone, NEW new, FieldEffect(s, gone, new), UNCHANGED noteVars
    PROVE  MemoryInv' /\ NothingElseStripped
<1>1. UNCHANGED <<notes, noteSeq, issued>>
    BY DEF noteVars
<1>2. TableInv'
    <2>1. ASSUME NEW t \in F!Slots, F!Exists(t)'
          PROVE  fields'[t].seq <= fieldSeq'
        <3>1. CASE t = s
            BY <2>1, <3>1 DEF FieldEffect
        <3>2. CASE t # s
            <4>1. fields'[t] = fields[t] /\ fieldSeq <= fieldSeq' /\ fieldSeq \in Nat /\ fieldSeq' \in Nat
                BY <3>2 DEF FieldEffect, MemoryInv, TableInv
            <4>2. fields[t] \in F!Row /\ fields[t].seq <= fieldSeq
                BY <2>1, <4>1 DEF FieldTable, MemoryInv, TableInv, F!Exists
            <4>3. fields[t].seq \in Nat
                BY <4>2 DEF F!Row
            <4> QED
                BY <4>1, <4>2, <4>3
        <3> QED
            BY <3>1, <3>2
    <2>2. \A id \in NoteIds : N!Exists(id)' => id \in issued'
        BY <1>1 DEF MemoryInv, TableInv, N!Exists
    <2> QED
        BY <1>1, <2>1, <2>2 DEF FieldEffect, MemoryInv, TableInv
<1>3. new.oldValue # NoValue => Backed(new)'
    <2>1. <<new.persona, new.subject>> = s
        BY DEF FieldEffect, F!Slots
    <2> QED
        BY <2>1 DEF FieldEffect, Backed
<1>4. ASSUME NEW f \in log.entries, f \notin About(gone, FieldActions), Backed(f)
      PROVE  Backed(f)'
    <2>1. CASE f.action \in NoteActions
        <3>1. f.action \notin FieldActions
            BY <2>1, DisjointNouns
        <3> QED
            BY <1>1, <1>4, <3>1 DEF Backed, N!Exists
    <2>2. CASE f.action \in FieldActions
        <3>1. /\ <<f.persona, f.subject>> \in F!Slots /\ F!Exists(<<f.persona, f.subject>>)
              /\ <<f.persona, f.subject>> \notin gone
            BY <1>4, <2>2, DisjointNouns DEF Backed, About
        <3>2. F!Exists(<<f.persona, f.subject>>)'
            BY <3>1 DEF FieldEffect, F!Exists
        <3> QED
            BY <2>2, <3>1, <3>2 DEF Backed
    <2> QED
        BY <1>4, <2>1, <2>2 DEF Backed
<1>5. ASSUME NEW f \in About(gone, FieldActions)
      PROVE  ~RowSurvives(f)
    <2>1. f.action \in FieldActions /\ f.action \notin NoteActions /\ <<f.persona, f.subject>> = s
          /\ ~F!Survives(s)
        BY <1>5, DisjointNouns DEF About, FieldEffect
    <2> QED
        BY <2>1 DEF RowSurvives
<1>6. LogStep({new}, About(gone, FieldActions)) /\ LogInv /\ KeptInv
    BY DEF FieldEffect, MemoryInv
<1>7. LogInv' /\ KeptInv'
    BY <1>3, <1>4, <1>6, KeptOn
<1>8. NothingElseStripped
    BY <1>5, <1>6, ReachOn
<1> QED
    BY <1>2, <1>7, <1>8 DEF MemoryInv

-----------------------------------------------------------------------------

LEMMA FieldRows ==
    ASSUME MemoryInv
    PROVE  /\ NoRow \notin F!Row /\ fields \in FieldTable /\ fieldSeq \in Nat /\ now \in Nat
           /\ \A s \in F!Slots : F!Exists(s) => /\ fields[s] \in F!Row /\ fields[s].seq \in Nat
                                                /\ fields[s].seq <= fieldSeq
           /\ log \in Log /\ Window(log)
BY MemoryAssumption DEF MemoryInv, TableInv, LogInv, FieldTable, F!Exists, F!Row

LEMMA InsertEffect ==
    ASSUME MemoryInv, NEW p \in Personas, NEW k \in Keys, NEW value \in Values,
           NEW description \in Descriptions, NEW pinned \in BOOLEAN, NEW cap,
           F!InsertField(p, k, value, description, pinned, cap)
    PROVE  \E gone, new : FieldEffect(<<p, k>>, gone, new)
<1> DEFINE s == <<p, k>>
           gone == IF F!PastDue(s) THEN {s} ELSE {}
           row == F!NewRow(value, description, pinned, fieldSeq + 1)
           ev == Event("field.set", p, k, 1, Never, NoValue)
           new == Numbered(log.last + 1, ev)
<1>0. /\ NoRow \notin F!Row /\ fields \in FieldTable /\ fieldSeq \in Nat /\ s \in F!Slots
      /\ F!Exists(s) => fields[s].seq \in Nat /\ fields[s].seq <= fieldSeq
      /\ log \in Log /\ Window(log)
    BY FieldRows DEF F!Slots
<1>1. /\ fields' = [F!Without(fields, gone) EXCEPT ![s] = row]
      /\ fieldSeq' = fieldSeq + 1 /\ now' = now
    BY DEF F!InsertField, F!NextSeq
<1>2. log' = Appended(StripValues(log, gone, FieldActions), ev)
    BY FieldOperators DEF F!InsertField, F!FieldEvent, F!Event, Event
<1>3. ev \in Body
    BY EventType DEF Actions, FieldActions
<1>4. /\ new.persona = s[1] /\ new.subject = s[2] /\ new.action \in FieldActions
      /\ new.oldValue = NoValue
    BY DEF Numbered, Event, FieldActions
<1>5. row \in F!Row /\ row.seq = fieldSeq + 1
    BY <1>0 DEF F!NewRow, F!Row
<1>6. gone = {} \/ (gone = {s} /\ F!Exists(s))
    BY DEF F!PastDue
<1> HIDE DEF row, ev, gone, s
<1>7. LogStep({new}, About(gone, FieldActions))
    BY <1>0, <1>2, <1>3, StripAppendStep
<1> HIDE DEF new
<1>8. /\ fields' \in FieldTable /\ fields'[s] = row
      /\ \A t \in F!Slots : t # s => fields'[t] = fields[t]
    BY <1>0, <1>1, <1>5, <1>6 DEF F!Without, FieldTable
<1>9. FieldEffect(s, gone, new)
    BY <1>0, <1>1, <1>4, <1>5, <1>6, <1>7, <1>8 DEF FieldEffect, F!Survives, F!Exists
<1> QED
    BY <1>9 DEF s

LEMMA ReviseEffect ==
    ASSUME MemoryInv, NEW p \in Personas, NEW k \in Keys, NEW value \in Values,
           NEW description \in Descriptions, NEW pinned \in BOOLEAN, NEW cap,
           NEW logValues \in BOOLEAN,
           F!ReviseField(p, k, value, description, pinned, cap, logValues)
    PROVE  \E gone, new : FieldEffect(<<p, k>>, gone, new)
<1> DEFINE s == <<p, k>>
           old == fields[s]
           row == F!RevisedRow(old, value, description, pinned)
           kept == F!KeptValue(old, value, logValues)
           ev == Event(IF old.forgotten THEN "field.set" ELSE "field.revised", p, k,
                       row.revision, Never, kept)
           new == Numbered(log.last + 1, ev)
<1>0. /\ NoRow \notin F!Row /\ fields \in FieldTable /\ fieldSeq \in Nat /\ s \in F!Slots
      /\ log \in Log /\ Window(log)
    BY FieldRows DEF F!Slots
<1>1. /\ fields' = [fields EXCEPT ![s] = row] /\ fieldSeq' = fieldSeq /\ now' = now
      /\ F!Exists(s)
    BY DEF F!ReviseField, F!StartsAfresh
<1>2. log' = Appended(log, ev)
    BY FieldOperators DEF F!ReviseField, F!FieldEvent, F!Event, Event
<1>3. old \in F!Row /\ old.seq \in Nat /\ old.seq <= fieldSeq
    BY <1>0, <1>1, FieldRows
<1>4. row \in F!Row /\ row.seq = old.seq /\ row.revision \in Nat
    <2>1. old.revision + 1 \in Nat \ {0}
        BY <1>3 DEF F!Row
    <2> QED
        BY <1>3, <2>1 DEF F!RevisedRow, F!Row
<1>5. kept \in Texts \cup {NoValue}
    BY <1>3 DEF F!KeptValue, F!Row, Texts
<1> HIDE DEF row, kept
<1>6. ev \in Body
    BY <1>4, <1>5, EventType DEF Actions, FieldActions
<1>7. new.persona = s[1] /\ new.subject = s[2] /\ new.action \in FieldActions
    BY DEF Numbered, Event, FieldActions
<1> HIDE DEF ev, s
<1>8. LogStep({new}, About({}, FieldActions))
    <2>1. StripValues(log, {}, FieldActions) = log
        <3>1. log = [last |-> log.last, entries |-> log.entries]
            BY <1>0 DEF Log, LogsOf
        <3> QED
            BY <3>1 DEF StripValues
    <2> QED
        BY <1>0, <1>2, <1>6, <2>1, StripAppendStep
<1> HIDE DEF new
<1>9. /\ fields' \in FieldTable /\ fields'[s] = row
      /\ \A t \in F!Slots : t # s => fields'[t] = fields[t]
    BY <1>0, <1>1, <1>4 DEF FieldTable
<1>10. FieldEffect(s, {}, new)
    BY <1>0, <1>1, <1>3, <1>4, <1>7, <1>8, <1>9 DEF FieldEffect, F!Exists
<1> QED
    BY <1>10 DEF s

LEMMA ForgetEffect ==
    ASSUME MemoryInv, NEW p \in Personas, NEW k \in Keys, NEW policy \in F!Policies,
           F!ForgetField(p, k, policy)
    PROVE  \E gone, new : FieldEffect(<<p, k>>, gone, new)
<1> DEFINE s == <<p, k>>
           due == F!PurgeAfter(policy, now)
           gone == IF F!DestroysNow(policy) THEN {s} ELSE {}
           row == [fields[s] EXCEPT !.forgotten = TRUE, !.purgeAfter = due]
           ev == Event("field.forgotten", p, k, 0, due, NoValue)
           new == Numbered(log.last + 1, ev)
<1>0. /\ NoRow \notin F!Row /\ fields \in FieldTable /\ fieldSeq \in Nat /\ s \in F!Slots
      /\ log \in Log /\ Window(log) /\ now \in Nat
    BY FieldRows DEF F!Slots
<1>1. /\ fields' = F!Without([fields EXCEPT ![s] = row], gone) /\ fieldSeq' = fieldSeq
      /\ now' = now /\ F!Exists(s)
    BY DEF F!ForgetField, F!CanForget, F!Live, F!LiveIn, F!Exists
<1>2. log' = StripValues(Appended(log, ev), gone, FieldActions)
    BY FieldOperators DEF F!ForgetField, F!FieldEvent, F!Event, Event
<1>3. due \in Nat \cup {Never}
    <2>1. CASE policy.mode = "grace"
        <3>1. policy.graceDays \in Nat
            BY <2>1, GraceAssumption DEF F!Policies
        <3> QED
            BY <1>0, <2>1, <3>1 DEF F!PurgeAfter
    <2>2. CASE policy.mode # "grace"
        BY <2>2 DEF F!PurgeAfter
    <2> QED
        BY <2>1, <2>2
<1> HIDE DEF due
<1>4. fields[s] \in F!Row /\ fields[s].seq \in Nat /\ fields[s].seq <= fieldSeq
    BY <1>0, <1>1, FieldRows
<1>5. row \in F!Row /\ row.seq = fields[s].seq
    BY <1>3, <1>4 DEF F!Row
<1>6. ev \in Body
    BY <1>3, EventType DEF Actions, FieldActions
<1>7. /\ new.persona = s[1] /\ new.subject = s[2] /\ new.action \in FieldActions
      /\ new.oldValue = NoValue
    BY DEF Numbered, Event, FieldActions
<1>8. gone = {} \/ gone = {s}
    OBVIOUS
<1> HIDE DEF row, ev, gone, s
<1>9. LogStep({new}, About(gone, FieldActions))
    BY <1>0, <1>2, <1>6, AppendStripStep
<1> HIDE DEF new
<1>10. /\ fields' \in FieldTable
       /\ gone = {} => fields'[s] = row
       /\ gone = {s} => fields'[s] = NoRow
       /\ \A t \in F!Slots : t # s => fields'[t] = fields[t]
    <2> DEFINE base == [fields EXCEPT ![s] = row]
    <2>1. base \in FieldTable /\ base[s] = row /\ \A t \in F!Slots : t # s => base[t] = fields[t]
        BY <1>0, <1>5 DEF FieldTable
    <2>2. fields' = F!Without(base, gone)
        BY <1>1
    <2> HIDE DEF base
    <2> QED
        BY <1>0, <1>8, <2>1, <2>2 DEF F!Without, FieldTable
<1>11. FieldEffect(s, gone, new)
    <2>1. fields'[s] = row => fields'[s].seq <= fieldSeq' /\ F!Exists(s)'
        BY <1>0, <1>1, <1>4, <1>5 DEF F!Exists
    <2>2. gone = {s} => ~F!Survives(s) /\ ~F!Exists(s)'
        BY <1>10 DEF F!Survives, F!Exists
    <2>3. fieldSeq' \in Nat /\ fieldSeq <= fieldSeq'
        BY <1>0, <1>1
    <2> QED
        BY <1>0, <1>1, <1>7, <1>8, <1>9, <1>10, <2>1, <2>2, <2>3 DEF FieldEffect
<1> QED
    BY <1>11 DEF s

-----------------------------------------------------------------------------
(* A note's transactions. *)

NoteEffect(p, id, gone, new) ==
    /\ p \in Personas /\ id \in NoteIds
    /\ \A n \in NoteIds : n # id => notes'[n] = notes[n]
    /\ notes' \in NoteTable /\ noteSeq' \in Nat /\ now' = now
    /\ issued \subseteq issued' /\ (N!Exists(id)' => id \in issued')
    /\ N!Exists(id) => notes[id].persona = p
    /\ N!Exists(id)' => notes'[id].persona = p
    /\ gone = {} \/ (gone = {<<p, id>>} /\ notes'[id] = NoNote)
    /\ gone = {} /\ N!Exists(id) => N!Exists(id)'
    /\ new.persona = p /\ new.subject = id /\ new.action \in NoteActions
    /\ new.oldValue # NoValue => N!Exists(id)'
    /\ LogStep({new}, About(gone, NoteActions))

LEMMA NoteEffectKeeps ==
    ASSUME MemoryInv, NEW p, NEW id, NEW gone, NEW new, NoteEffect(p, id, gone, new),
           UNCHANGED fieldVars
    PROVE  MemoryInv' /\ NothingElseStripped
<1>1. UNCHANGED <<fields, fieldSeq>>
    BY DEF fieldVars
<1>2. TableInv'
    <2>1. \A n \in NoteIds : N!Exists(n)' => n \in issued'
        BY DEF NoteEffect, MemoryInv, TableInv, N!Exists
    <2>2. \A s \in F!Slots : F!Exists(s)' => fields'[s].seq <= fieldSeq'
        BY <1>1 DEF MemoryInv, TableInv, F!Exists
    <2> QED
        BY <1>1, <2>1, <2>2 DEF NoteEffect, MemoryInv, TableInv
<1>3. new.oldValue # NoValue => Backed(new)'
    BY DEF NoteEffect, Backed
<1>4. ASSUME NEW f \in log.entries, f \notin About(gone, NoteActions), Backed(f)
      PROVE  Backed(f)'
    <2>1. CASE f.action \in FieldActions
        <3>1. f.action \notin NoteActions
            BY <2>1, DisjointNouns
        <3> QED
            BY <1>1, <1>4, <3>1 DEF Backed, F!Exists
    <2>2. CASE f.action \in NoteActions
        <3>1. /\ f.subject \in NoteIds /\ N!Exists(f.subject)
              /\ notes[f.subject].persona = f.persona /\ <<f.persona, f.subject>> \notin gone
            BY <1>4, <2>2, DisjointNouns DEF Backed, About
        <3>2. CASE f.subject = id
            <4>1. gone = {}
                BY <3>1, <3>2 DEF NoteEffect
            <4> QED
                BY <2>2, <3>1, <3>2, <4>1 DEF NoteEffect, Backed
        <3>3. CASE f.subject # id
            BY <2>2, <3>1, <3>3 DEF NoteEffect, Backed, N!Exists
        <3> QED
            BY <3>2, <3>3
    <2> QED
        BY <1>4, <2>1, <2>2 DEF Backed
<1>5. ASSUME NEW f \in About(gone, NoteActions)
      PROVE  ~RowSurvives(f)
    <2>1. f.action \in NoteActions /\ f.action \notin FieldActions
          /\ <<f.persona, f.subject>> = <<p, id>> /\ notes'[id] = NoNote
        BY <1>5, DisjointNouns DEF About, NoteEffect
    <2>2. f.subject = id
        BY <2>1
    <2> QED
        BY <2>1, <2>2 DEF RowSurvives
<1>6. LogStep({new}, About(gone, NoteActions)) /\ LogInv /\ KeptInv
    BY DEF NoteEffect, MemoryInv
<1>7. LogInv' /\ KeptInv'
    BY <1>3, <1>4, <1>6, KeptOn
<1>8. NothingElseStripped
    BY <1>5, <1>6, ReachOn
<1> QED
    BY <1>2, <1>7, <1>8 DEF MemoryInv

LEMMA NoteRows ==
    ASSUME MemoryInv
    PROVE  /\ NoNote \notin N!Row /\ notes \in NoteTable /\ noteSeq \in Nat /\ now \in Nat
           /\ \A id \in NoteIds : N!Exists(id) => notes[id] \in N!Row /\ id \in issued
           /\ log \in Log /\ Window(log)
BY MemoryAssumption DEF MemoryInv, TableInv, LogInv, NoteTable, N!Exists

\* An append with no strip is the append with an empty one.
LEMMA AppendStep ==
    ASSUME log \in Log, Window(log), NEW actions, NEW ev \in Body, log' = Appended(log, ev)
    PROVE  LogStep({Numbered(log.last + 1, ev)}, About({}, actions))
<1>1. log = [last |-> log.last, entries |-> log.entries]
    BY DEF Log, LogsOf
<1>2. StripValues(log, {}, actions) = log
    BY <1>1 DEF StripValues
<1> QED
    BY <1>2, StripAppendStep

LEMMA WriteEffect ==
    ASSUME MemoryInv, NEW p \in Personas, NEW id \in NoteIds, N!WriteNote(p, id)
    PROVE  \E gone, new : NoteEffect(p, id, gone, new)
<1>0. /\ NoNote \notin N!Row /\ notes \in NoteTable /\ noteSeq \in Nat
      /\ \A n \in NoteIds : N!Exists(n) => n \in issued
      /\ log \in Log /\ Window(log)
    BY NoteRows
<1>1. PICK body \in Bodies, kind \in Kinds, pinned \in BOOLEAN, cap \in NotePinCaps :
            LET row == N!NewNote(p, body, kind, pinned, noteSeq + 1)
            IN  /\ id \notin issued
                /\ p \in personas
                /\ N!MayAdd(notes, p)
                /\ pinned => N!MayPin(notes, p, cap)
                /\ N!MayRecord
                /\ issued' = issued \cup {id}
                /\ noteSeq' = row.seq
                /\ notes' = [notes EXCEPT ![id] = row]
                /\ noteIndex' = N!Indexed(noteIndex, row.seq, row.body)
                /\ log' = N!Appended(log, N!NoteEvent("note.written", p, id, 1, Never, NoValue))
                /\ UNCHANGED <<now, personas>>
    BY DEF N!WriteNote
<1> DEFINE row == N!NewNote(p, body, kind, pinned, noteSeq + 1)
           ev == Event("note.written", p, id, 1, Never, NoValue)
           new == Numbered(log.last + 1, ev)
<1>2. log' = Appended(log, ev)
    BY <1>1, NoteOperators DEF N!NoteEvent, N!Event, Event
<1>3. ev \in Body
    BY EventType DEF Actions, NoteActions
<1>4. /\ new.persona = p /\ new.subject = id /\ new.action \in NoteActions
      /\ new.oldValue = NoValue
    BY DEF Numbered, Event, NoteActions
<1>5. row \in N!Row /\ row.persona = p /\ row.seq \in Nat
    BY <1>0 DEF N!NewNote, N!Row
<1>6. notes' = [notes EXCEPT ![id] = row] /\ noteSeq' = row.seq
    BY <1>1
<1> HIDE DEF row, ev
<1>7. LogStep({new}, About({}, NoteActions))
    BY <1>0, <1>2, <1>3, AppendStep
<1> HIDE DEF new
<1>8. /\ notes' \in NoteTable /\ notes'[id] = row
      /\ \A n \in NoteIds : n # id => notes'[n] = notes[n]
    BY <1>0, <1>5, <1>6 DEF NoteTable
<1>9. ~N!Exists(id)
    BY <1>0, <1>1
<1>10. NoteEffect(p, id, {}, new)
    BY <1>0, <1>1, <1>4, <1>5, <1>6, <1>7, <1>8, <1>9 DEF NoteEffect, N!Exists
<1> QED
    BY <1>10

LEMMA ReviseNoteEffect ==
    ASSUME MemoryInv, NEW p \in Personas, NEW id \in NoteIds, N!ReviseNote(p, id)
    PROVE  \E gone, new : NoteEffect(p, id, gone, new)
<1>0. /\ NoNote \notin N!Row /\ notes \in NoteTable /\ noteSeq \in Nat
      /\ \A n \in NoteIds : N!Exists(n) => notes[n] \in N!Row /\ n \in issued
      /\ log \in Log /\ Window(log)
    BY NoteRows
<1>1. PICK body \in Bodies, kind \in Kinds, pinned \in BOOLEAN, cap \in NotePinCaps,
           logValues \in BOOLEAN :
            LET old == notes[id]
                row == N!RevisedNote(old, body, kind, pinned)
            IN  /\ N!LiveFor(id, p)
                /\ ~N!NothingChanges(old, body, kind, pinned)
                /\ pinned /\ ~old.pinned => N!MayPin(notes, p, cap)
                /\ N!MayRecord
                /\ notes' = [notes EXCEPT ![id] = row]
                /\ noteIndex' = N!Indexed(N!Unindexed(noteIndex, {old.seq}), old.seq, row.body)
                /\ log' = N!Appended(log, N!NoteEvent("note.revised", p, id, row.revision, Never,
                                                     N!KeptBody(old, body, logValues)))
                /\ UNCHANGED <<now, personas, noteSeq, issued>>
    BY DEF N!ReviseNote
<1> DEFINE old == notes[id]
           row == N!RevisedNote(old, body, kind, pinned)
           kept == N!KeptBody(old, body, logValues)
           ev == Event("note.revised", p, id, row.revision, Never, kept)
           new == Numbered(log.last + 1, ev)
<1>2. log' = Appended(log, ev)
    BY <1>1, NoteOperators DEF N!NoteEvent, N!Event, Event
<1>3. N!Exists(id) /\ old \in N!Row /\ old.persona = p
    BY <1>0, <1>1 DEF N!LiveFor, N!Live, N!LiveIn, N!Exists
<1>4. row \in N!Row /\ row.persona = p /\ row.revision \in Nat
    <2>1. old.revision + 1 \in Nat \ {0}
        BY <1>3 DEF N!Row
    <2> QED
        BY <1>3, <2>1 DEF N!RevisedNote, N!Row
<1>5. kept \in Texts \cup {NoValue}
    BY <1>3 DEF N!KeptBody, N!Row, Texts
<1>6. notes' = [notes EXCEPT ![id] = row]
    BY <1>1
<1> HIDE DEF row, kept
<1>7. ev \in Body
    BY <1>4, <1>5, EventType DEF Actions, NoteActions
<1>8. new.persona = p /\ new.subject = id /\ new.action \in NoteActions
    BY DEF Numbered, Event, NoteActions
<1> HIDE DEF ev
<1>9. LogStep({new}, About({}, NoteActions))
    BY <1>0, <1>2, <1>7, AppendStep
<1> HIDE DEF new
<1>10. /\ notes' \in NoteTable /\ notes'[id] = row
       /\ \A n \in NoteIds : n # id => notes'[n] = notes[n]
    BY <1>0, <1>4, <1>6 DEF NoteTable
<1>11. NoteEffect(p, id, {}, new)
    BY <1>0, <1>1, <1>3, <1>4, <1>8, <1>9, <1>10 DEF NoteEffect, N!Exists
<1> QED
    BY <1>11

LEMMA ForgetNoteEffect ==
    ASSUME MemoryInv, NEW p \in Personas, NEW id \in NoteIds, NEW policy \in N!Policies,
           N!ForgetNote(p, id, policy)
    PROVE  \E gone, new : NoteEffect(p, id, gone, new)
<1> DEFINE due == N!PurgeAfter(policy, now)
           ids == IF N!DestroysNow(policy) THEN {id} ELSE {}
           gone == IF N!DestroysNow(policy) THEN {<<p, id>>} ELSE {}
           row == N!ForgottenNote(notes[id], due)
           ev == Event("note.forgotten", p, id, 0, due, NoValue)
           new == Numbered(log.last + 1, ev)
<1>0. /\ NoNote \notin N!Row /\ notes \in NoteTable /\ noteSeq \in Nat /\ now \in Nat
      /\ \A n \in NoteIds : N!Exists(n) => notes[n] \in N!Row /\ n \in issued
      /\ log \in Log /\ Window(log)
    BY NoteRows
<1>1. /\ notes' = N!Without([notes EXCEPT ![id] = row], ids)
      /\ N!LiveFor(id, p) /\ UNCHANGED <<now, noteSeq, issued>>
    BY DEF N!ForgetNote
<1>2. N!Exists(id) /\ notes[id] \in N!Row /\ notes[id].persona = p
    BY <1>0, <1>1 DEF N!LiveFor, N!Live, N!LiveIn, N!Exists
<1>3. N!Subjects(notes, ids) = gone
    BY <1>2 DEF N!Subjects, N!Exists
<1>4. log' = StripValues(Appended(log, ev), gone, NoteActions)
    <2>1. log' = N!StripValues(N!Appended(log, N!NoteEvent("note.forgotten", p, id, 0, due, NoValue)),
                              N!Subjects(notes, ids), N!NoteActions)
        BY DEF N!ForgetNote
    <2> QED
        BY <1>3, <2>1, NoteOperators DEF N!NoteEvent, N!Event, Event
<1>5. due \in Nat \cup {Never}
    <2>1. CASE policy.mode = "grace"
        <3>1. policy.graceDays \in Nat
            BY <2>1, GraceAssumption DEF N!Policies
        <3> QED
            BY <1>0, <2>1, <3>1 DEF N!PurgeAfter
    <2>2. CASE policy.mode # "grace"
        BY <2>2 DEF N!PurgeAfter
    <2> QED
        BY <2>1, <2>2
<1> HIDE DEF due
<1>6. row \in N!Row /\ row.persona = p
    BY <1>2, <1>5 DEF N!ForgottenNote, N!Row
<1>7. ev \in Body
    BY <1>5, EventType DEF Actions, NoteActions
<1>8. /\ new.persona = p /\ new.subject = id /\ new.action \in NoteActions
      /\ new.oldValue = NoValue
    BY DEF Numbered, Event, NoteActions
<1>9. (ids = {} /\ gone = {}) \/ (ids = {id} /\ gone = {<<p, id>>})
    OBVIOUS
<1> HIDE DEF row, ev, gone, ids
<1>10. LogStep({new}, About(gone, NoteActions))
    BY <1>0, <1>4, <1>7, AppendStripStep
<1> HIDE DEF new
<1>11. /\ notes' \in NoteTable
       /\ ids = {} => notes'[id] = row
       /\ ids = {id} => notes'[id] = NoNote
       /\ \A n \in NoteIds : n # id => notes'[n] = notes[n]
    <2> DEFINE base == [notes EXCEPT ![id] = row]
    <2>1. base \in NoteTable /\ base[id] = row /\ \A n \in NoteIds : n # id => base[n] = notes[n]
        BY <1>0, <1>6 DEF NoteTable
    <2>2. notes' = N!Without(base, ids)
        BY <1>1
    <2> HIDE DEF base
    <2> QED
        BY <1>9, <2>1, <2>2 DEF N!Without, NoteTable
<1>12. NoteEffect(p, id, gone, new)
    <2>1. notes'[id] = NoNote => ~N!Exists(id)'
        BY DEF N!Exists
    <2>2. notes'[id] = row => N!Exists(id)'
        BY <1>0, <1>6 DEF N!Exists
    <2>3. N!Exists(id)' => notes'[id].persona = p
        BY <1>6, <1>9, <1>11, <2>1
    <2>4. id \in issued'
        BY <1>0, <1>1, <1>2
    <2> QED
        BY <1>0, <1>1, <1>2, <1>8, <1>9, <1>10, <1>11, <2>1, <2>2, <2>3, <2>4 DEF NoteEffect
<1> QED
    BY <1>12

-----------------------------------------------------------------------------
(* Destruction: by the sweep, and with a persona.  What a destruction strips *)
(* and what it destroys are the same rows' values and rows.                  *)

Destroyed(goneFields, goneNotes, hit) ==
    /\ fields' = F!Without(fields, goneFields)
    /\ notes' = N!Without(notes, goneNotes)
    /\ now' = now /\ fieldSeq' = fieldSeq /\ noteSeq' = noteSeq /\ issued' = issued
    /\ hit \subseteq log.entries /\ LogStep({}, hit)
    /\ \A f \in log.entries : Backed(f) =>
          \/ f.action \in FieldActions /\ (f \in hit <=> <<f.persona, f.subject>> \in goneFields)
          \/ f.action \in NoteActions /\ (f \in hit <=> f.subject \in goneNotes)

LEMMA DestroyedKeeps ==
    ASSUME MemoryInv, NEW goneFields, NEW goneNotes, NEW hit,
           Destroyed(goneFields, goneNotes, hit)
    PROVE  MemoryInv' /\ NothingElseStripped
<1>0. fields \in FieldTable /\ notes \in NoteTable
    BY DEF MemoryInv, TableInv
<1>1. /\ fields' \in FieldTable
      /\ \A s \in F!Slots : /\ s \in goneFields => fields'[s] = NoRow
                            /\ s \notin goneFields => fields'[s] = fields[s]
    BY <1>0 DEF Destroyed, F!Without, FieldTable
<1>2. /\ notes' \in NoteTable
      /\ \A id \in NoteIds : /\ id \in goneNotes => notes'[id] = NoNote
                             /\ id \notin goneNotes => notes'[id] = notes[id]
    BY <1>0 DEF Destroyed, N!Without, NoteTable
<1>3. TableInv'
    <2>1. \A s \in F!Slots : F!Exists(s)' => F!Exists(s) /\ fields'[s] = fields[s]
        BY <1>1 DEF F!Exists
    <2>2. \A id \in NoteIds : N!Exists(id)' => N!Exists(id)
        BY <1>2 DEF N!Exists
    <2> QED
        BY <1>1, <1>2, <2>1, <2>2 DEF Destroyed, MemoryInv, TableInv
<1>4. ASSUME NEW f \in log.entries, f \notin hit, Backed(f)
      PROVE  Backed(f)'
    <2>1. CASE f.action \in FieldActions
        <3>1. f.action \notin NoteActions
            BY <2>1, DisjointNouns
        <3>2. <<f.persona, f.subject>> \in F!Slots /\ F!Exists(<<f.persona, f.subject>>)
            BY <1>4, <3>1 DEF Backed
        <3>3. <<f.persona, f.subject>> \notin goneFields
            BY <1>4, <3>1 DEF Destroyed
        <3> QED
            BY <1>1, <2>1, <3>2, <3>3 DEF Backed, F!Exists
    <2>2. CASE f.action \in NoteActions
        <3>1. f.action \notin FieldActions
            BY <2>2, DisjointNouns
        <3>2. f.subject \in NoteIds /\ N!Exists(f.subject) /\ notes[f.subject].persona = f.persona
            BY <1>4, <3>1 DEF Backed
        <3>3. f.subject \notin goneNotes
            BY <1>4, <3>1 DEF Destroyed
        <3> QED
            BY <1>2, <2>2, <3>2, <3>3 DEF Backed, N!Exists
    <2> QED
        BY <1>4, <2>1, <2>2 DEF Backed
<1>5. ASSUME NEW f \in hit, Backed(f)
      PROVE  ~RowSurvives(f)
    <2>1. f \in log.entries
        BY DEF Destroyed
    <2>2. CASE f.action \in FieldActions
        <3>1. f.action \notin NoteActions
            BY <2>2, DisjointNouns
        <3>2. <<f.persona, f.subject>> \in F!Slots
            BY <1>5, <3>1 DEF Backed
        <3>3. <<f.persona, f.subject>> \in goneFields
            BY <1>5, <2>1, <3>1 DEF Destroyed
        <3> QED
            BY <1>1, <3>1, <3>2, <3>3 DEF RowSurvives, F!Survives
    <2>3. CASE f.action \in NoteActions
        <3>1. f.action \notin FieldActions
            BY <2>3, DisjointNouns
        <3>2. f.subject \in NoteIds
            BY <1>5, <3>1 DEF Backed
        <3>3. f.subject \in goneNotes
            BY <1>5, <2>1, <3>1 DEF Destroyed
        <3> QED
            BY <1>2, <3>1, <3>2, <3>3 DEF RowSurvives
    <2> QED
        BY <1>5, <2>2, <2>3 DEF Backed
<1>6. LogStep({}, hit) /\ LogInv /\ KeptInv /\ hit \subseteq log.entries
    BY DEF Destroyed, MemoryInv
<1>7. LogInv' /\ KeptInv'
    BY <1>4, <1>6, KeptOn
<1>8. NothingElseStripped
    BY <1>5, <1>6, ReachOn
<1> QED
    BY <1>3, <1>7, <1>8 DEF MemoryInv

\* A table that loses nothing.
LEMMA NothingGone ==
    ASSUME MemoryInv
    PROVE  F!Without(fields, {}) = fields /\ N!Without(notes, {}) = notes
BY DEF MemoryInv, TableInv, FieldTable, NoteTable, F!Without, N!Without

LEMMA PurgeFieldsDestroys ==
    ASSUME MemoryInv, F!PurgeDueFields, UNCHANGED noteVars
    PROVE  \E goneFields, goneNotes, hit : Destroyed(goneFields, goneNotes, hit)
<1>1. PICK batch \in F!FieldBatches :
        /\ fields' = F!Without(fields, batch)
        /\ log' = F!StripValues(log, batch, F!FieldActions)
        /\ now' = now /\ fieldSeq' = fieldSeq
    BY DEF F!PurgeDueFields
<1>2. LogStep({}, About(batch, FieldActions))
    BY <1>1, FieldOperators, StripStep DEF MemoryInv, LogInv
<1>3. notes' = N!Without(notes, {}) /\ noteSeq' = noteSeq /\ issued' = issued
    BY NothingGone DEF noteVars
<1>4. \A f \in log.entries : Backed(f) =>
          \/ f.action \in FieldActions
                /\ (f \in About(batch, FieldActions) <=> <<f.persona, f.subject>> \in batch)
          \/ f.action \in NoteActions /\ (f \in About(batch, FieldActions) <=> f.subject \in {})
    BY DisjointNouns DEF About, Backed
<1>5. About(batch, FieldActions) \subseteq log.entries
    BY DEF About
<1>6. Destroyed(batch, {}, About(batch, FieldActions))
    BY <1>1, <1>2, <1>3, <1>4, <1>5 DEF Destroyed
<1> QED
    BY <1>6

LEMMA PurgeNotesDestroys ==
    ASSUME MemoryInv, NEW time, N!PurgeDueNotes(time), UNCHANGED fieldVars
    PROVE  \E goneFields, goneNotes, hit : Destroyed(goneFields, goneNotes, hit)
<1>1. PICK batch \in N!NoteBatches(time) :
        /\ notes' = N!Without(notes, batch)
        /\ log' = N!StripValues(log, N!Subjects(notes, batch), N!NoteActions)
        /\ now' = now /\ noteSeq' = noteSeq /\ issued' = issued
    BY DEF N!PurgeDueNotes
<1> DEFINE targets == N!Subjects(notes, batch)
<1>2. LogStep({}, About(targets, NoteActions))
    BY <1>1, NoteOperators, StripStep DEF MemoryInv, LogInv
<1>3. fields' = F!Without(fields, {}) /\ fieldSeq' = fieldSeq
    BY NothingGone DEF fieldVars
<1>4. ASSUME NEW f \in log.entries, f.subject \in NoteIds, N!Exists(f.subject),
             notes[f.subject].persona = f.persona
      PROVE  <<f.persona, f.subject>> \in targets <=> f.subject \in batch
    BY <1>4 DEF N!Subjects, N!Exists
<1>5. \A f \in log.entries : Backed(f) =>
          \/ f.action \in FieldActions
                /\ (f \in About(targets, NoteActions) <=> <<f.persona, f.subject>> \in {})
          \/ f.action \in NoteActions /\ (f \in About(targets, NoteActions) <=> f.subject \in batch)
    <2> HIDE DEF targets
    <2> QED
        BY <1>4, DisjointNouns DEF About, Backed
<1>6. About(targets, NoteActions) \subseteq log.entries
    BY DEF About
<1>7. Destroyed({}, batch, About(targets, NoteActions))
    BY <1>1, <1>2, <1>3, <1>5, <1>6 DEF Destroyed
<1> QED
    BY <1>7

LEMMA DeletionDestroys ==
    ASSUME MemoryInv, NEW p \in Personas, DropPersona(p), F!DropFieldsOf(p), N!DropNotesOf(p)
    PROVE  \E goneFields, goneNotes, hit : Destroyed(goneFields, goneNotes, hit)
<1> DEFINE hit == {e \in log.entries : e.persona = p}
<1>1. /\ fields' = F!Without(fields, {p} \X Keys) /\ fieldSeq' = fieldSeq
      /\ notes' = N!Without(notes, N!NotesOf(p)) /\ noteSeq' = noteSeq /\ issued' = issued
      /\ log' = StripPersonaValues(log, p) /\ now' = now
    BY DEF DropPersona, F!DropFieldsOf, N!DropNotesOf
<1>2. LogStep({}, hit)
    BY <1>1, StripPersonaStep DEF MemoryInv, LogInv
<1>3. ASSUME NEW f \in log.entries, Backed(f)
      PROVE  \/ f.action \in FieldActions /\ (f \in hit <=> <<f.persona, f.subject>> \in {p} \X Keys)
             \/ f.action \in NoteActions /\ (f \in hit <=> f.subject \in N!NotesOf(p))
    <2>1. CASE f.action \in FieldActions /\ <<f.persona, f.subject>> \in F!Slots
        BY <2>1 DEF F!Slots
    <2>2. CASE /\ f.action \in NoteActions /\ f.subject \in NoteIds
               /\ N!Exists(f.subject) /\ notes[f.subject].persona = f.persona
        BY <2>2 DEF N!NotesOf
    <2> QED
        BY <1>3, <2>1, <2>2 DEF Backed
<1>4. Destroyed({p} \X Keys, N!NotesOf(p), hit)
    BY <1>1, <1>2, <1>3 DEF Destroyed
<1> QED
    BY <1>4

-----------------------------------------------------------------------------

LEMMA InitMemory == Init => MemoryInv
<1> SUFFICES ASSUME Init PROVE MemoryInv
    OBVIOUS
<1>1. /\ now = 0 /\ log = EmptyLog
      /\ fields = [s \in F!Slots |-> NoRow] /\ fieldSeq = 0
      /\ notes = [id \in NoteIds |-> NoNote] /\ noteSeq = 0
    BY DEF Init, StoreInit, F!FieldInit, N!NoteInit
<1>2. TableInv
    BY <1>1 DEF TableInv, FieldTable, NoteTable, F!Exists, N!Exists
<1>3. LogInv
    BY <1>1, EmptyWindow DEF LogInv, Log, LogsOf, EmptyLog
<1>4. KeptInv
    BY <1>1 DEF KeptInv, EmptyLog
<1> QED
    BY <1>2, <1>3, <1>4 DEF MemoryInv

\* Steps that leave both tables and the log alone.
LEMMA IdleKeeps ==
    ASSUME MemoryInv, now' \in Nat, UNCHANGED <<log, fieldVars, noteVars>>
    PROVE  MemoryInv' /\ NothingElseStripped
<1>1. UNCHANGED <<log, fields, fieldSeq, notes, noteSeq, issued>>
    BY DEF fieldVars, noteVars
<1>2. TableInv'
    BY <1>1 DEF MemoryInv, TableInv, F!Exists, N!Exists
<1>3. LogInv' /\ KeptInv'
    BY <1>1 DEF MemoryInv, LogInv, KeptInv, Backed, F!Exists, N!Exists
<1>4. NothingElseStripped
    BY <1>1 DEF MemoryInv, LogInv, Window, Unambiguous, NothingElseStripped
<1> QED
    BY <1>2, <1>3, <1>4 DEF MemoryInv

LEMMA FieldRequestKeeps ==
    ASSUME MemoryInv, FieldRequest
    PROVE  MemoryInv' /\ NothingElseStripped
<1>1. PICK p \in Personas, k \in Keys :
        \/ F!SetField(p, k)
        \/ \E policy \in F!Policies : F!ForgetField(p, k, policy)
    BY DEF FieldRequest, F!Policies, Policies
<1>2. \E gone, new : FieldEffect(<<p, k>>, gone, new)
    <2>1. CASE F!SetField(p, k)
        BY <2>1, InsertEffect, ReviseEffect DEF F!SetField
    <2>2. CASE \E policy \in F!Policies : F!ForgetField(p, k, policy)
        BY <2>2, ForgetEffect
    <2> QED
        BY <1>1, <2>1, <2>2
<1> QED
    BY <1>2, FieldEffectKeeps DEF FieldRequest

LEMMA NoteRequestKeeps ==
    ASSUME MemoryInv, NoteRequest
    PROVE  MemoryInv' /\ NothingElseStripped
<1>1. PICK p \in Personas, id \in NoteIds :
        \/ N!WriteNote(p, id) \/ N!ReviseNote(p, id)
        \/ \E policy \in N!Policies : N!ForgetNote(p, id, policy)
    BY DEF NoteRequest, N!Policies, Policies
<1>2. \E gone, new : NoteEffect(p, id, gone, new)
    BY <1>1, WriteEffect, ReviseNoteEffect, ForgetNoteEffect
<1> QED
    BY <1>2, NoteEffectKeeps DEF NoteRequest

LEMMA NextMemory == MemoryInv /\ [Next]_vars => MemoryInv' /\ NothingElseStripped
<1> SUFFICES ASSUME MemoryInv, [Next]_vars PROVE MemoryInv' /\ NothingElseStripped
    OBVIOUS
<1>0. now \in Nat
    BY DEF MemoryInv, TableInv
<1>1. CASE FieldRequest
    BY <1>1, FieldRequestKeeps
<1>2. CASE NoteRequest
    BY <1>2, NoteRequestKeeps
<1>3. CASE DeletePersona
    BY <1>3, DeletionDestroys, DestroyedKeeps DEF DeletePersona, DropRowsOf
<1>4. CASE Elsewhere
    <2>1. now' \in Nat /\ UNCHANGED <<log, fieldVars, noteVars>>
        BY <1>0, <1>4 DEF Elsewhere, Tick, AddPersona
    <2> QED
        BY <2>1, IdleKeeps
<1>5. CASE SweepFields
    <2>1. CASE F!PurgeDueFields
        BY <1>5, <2>1, PurgeFieldsDestroys, DestroyedKeeps DEF SweepFields
    <2>2. CASE UNCHANGED <<storeVars, fieldVars>>
        BY <1>0, <1>5, <2>2, IdleKeeps DEF SweepFields, storeVars
    <2> QED
        BY <1>5, <2>1, <2>2 DEF SweepFields
<1>6. CASE SweepNotes
    <2>1. CASE N!PurgeDueNotes(sweptAt)
        BY <1>6, <2>1, PurgeNotesDestroys, DestroyedKeeps DEF SweepNotes
    <2>2. CASE UNCHANGED <<storeVars, noteVars>>
        BY <1>0, <1>6, <2>2, IdleKeeps DEF SweepNotes, storeVars
    <2> QED
        BY <1>6, <2>1, <2>2 DEF SweepNotes
<1>7. CASE UNCHANGED <<storeVars, fieldVars, noteVars>>
    BY <1>0, <1>7, IdleKeeps DEF storeVars
<1> QED
    BY <1>1, <1>2, <1>3, <1>4, <1>5, <1>6, <1>7
       DEF Next, Sweeping, RequestTruncates, RequestCancelled, SweepTruncates, WakeUp, SweepFails,
           Restart, vars

\* A value the log kept is somebody's: the row it was copied from is there, in the
\* table its noun names and with the persona of the event, whatever writes, forgettings,
\* deletions and sweeps have come between (events/sql_log.py strip_values and
\* strip_persona_values, called by every path that destroys a row).
THEOREM KeptValuesCorrect == Spec => []KeptValuesHaveRows
<1>1. MemoryInv => KeptValuesHaveRows
    BY DEF MemoryInv, KeptInv, KeptValuesHaveRows, Backed
<1>2. MemoryInv /\ [Next]_vars => MemoryInv'
    BY NextMemory
<1> QED
    BY <1>1, <1>2, InitMemory, PTL DEF Spec

\* Destroying rows takes nothing that the log kept about any other row, not even of
\* one whose key or id is the same text in the other table.
THEOREM StripsReachNoOther == Spec => StripsReachNoOtherRow
<1>1. MemoryInv /\ [Next]_vars => MemoryInv'
    BY NextMemory
<1>2. MemoryInv /\ [Next]_vars =>
        [\A e \in log.entries : e.oldValue # NoValue /\ RowSurvives(e) =>
            \A f \in log'.entries : f.sequence = e.sequence => f = e]_vars
    BY NextMemory DEF NothingElseStripped
<1> QED
    BY <1>1, <1>2, InitMemory, PTL DEF Spec, StripsReachNoOtherRow

-----------------------------------------------------------------------------
(* Each store keeps the promise of Lifecycle beside the other.  A step of one *)
(* store leaves the lives of the other alone.                                 *)

FieldLives == [s \in F!Slots |-> F!LifeOf(fields[s])]

LEMMA OneFieldLife ==
    ASSUME NEW w \in F!Slots, \A t \in F!Slots : t # w => fields'[t] = fields[t]
    PROVE  FieldLives' = [FieldLives EXCEPT ![w] = F!LifeOf(fields'[w])]
<1>1. \A s \in F!Slots : FieldLives'[s] = [FieldLives EXCEPT ![w] = F!LifeOf(fields'[w])][s]
    BY DEF FieldLives
<1> QED
    BY <1>1 DEF FieldLives

\* What a row's life is, where there is a row and where there is none.
LEMMA LifeOfField ==
    ASSUME MemoryInv, NEW s \in F!Slots
    PROVE  /\ ~F!Exists(s) => FieldLives[s] = F!Life!Absent
           /\ F!Exists(s) => /\ FieldLives[s] = F!Life!Thing(fields[s].seq, fields[s].forgotten,
                                                             fields[s].purgeAfter)
                             /\ FieldLives[s].life = fields[s].seq
                             /\ FieldLives[s].forgotten = fields[s].forgotten
                             /\ FieldLives[s] # F!Life!Absent
           /\ F!Life!Over(s) <=> F!PastDue(s)
<1>1. F!Exists(s) => fields[s] \in F!Row /\ fields[s].seq # 0
    BY FieldRows DEF F!Row
<1>2. F!Exists(s) => FieldLives[s] = F!Life!Thing(fields[s].seq, fields[s].forgotten,
                                                  fields[s].purgeAfter)
    BY DEF FieldLives, F!LifeOf, F!Life!Thing, F!Exists
<1>3. ~F!Exists(s) => FieldLives[s] = F!Life!Absent
    BY DEF FieldLives, F!LifeOf, F!Life!Absent, F!Life!Thing, F!Exists
<1>4. F!Exists(s) => FieldLives[s].life = fields[s].seq /\ FieldLives[s].forgotten = fields[s].forgotten
                     /\ FieldLives[s].due = fields[s].purgeAfter
    BY <1>2 DEF F!Life!Thing
<1>5. F!Exists(s) => FieldLives[s] # F!Life!Absent
    <2>1. F!Life!Absent.life = 0
        BY DEF F!Life!Absent, F!Life!Thing
    <2> QED
        BY <1>1, <1>4, <2>1
<1>6. F!Life!Over(s) <=> FieldLives[s].due # Never /\ FieldLives[s].due <= now
    BY DEF F!Life!Over, FieldLives
<1>7. ~F!Exists(s) => FieldLives[s].due = Never
    BY <1>3 DEF F!Life!Absent, F!Life!Thing
<1>8. F!Life!Over(s) <=> F!PastDue(s)
    BY <1>4, <1>6, <1>7 DEF F!PastDue, F!Due
<1> QED
    BY <1>2, <1>3, <1>4, <1>5, <1>8

LEMMA FieldsBegin == Init => F!Life!Init
BY DEF Init, StoreInit, F!FieldInit, F!Life!Init, F!Life!Absent, F!Life!Thing, F!Life!Places,
       F!LifeOf, F!Slots

LEMMA InsertFieldLives ==
    ASSUME MemoryInv, NEW p \in Personas, NEW k \in Keys, NEW value \in Values,
           NEW description \in Descriptions, NEW pinned \in BOOLEAN, NEW cap,
           F!InsertField(p, k, value, description, pinned, cap)
    PROVE  F!Life!Remember(<<p, k>>)
<1> DEFINE s == <<p, k>>
           gone == IF F!PastDue(s) THEN {s} ELSE {}
           row == F!NewRow(value, description, pinned, fieldSeq + 1)
<1>0. /\ fields \in FieldTable /\ fieldSeq \in Nat /\ s \in F!Slots /\ NoRow \notin F!Row
    BY FieldRows DEF F!Slots
<1>1. /\ fields' = [F!Without(fields, gone) EXCEPT ![s] = row]
      /\ fieldSeq' = fieldSeq + 1 /\ now' = now /\ (~F!Exists(s) \/ F!PastDue(s))
    BY DEF F!InsertField, F!NextSeq, F!StartsAfresh
<1>2. gone = {} \/ gone = {s}
    OBVIOUS
<1>3. row # NoRow /\ row.seq = fieldSeq + 1 /\ row.forgotten = FALSE /\ row.purgeAfter = Never
    <2>1. row \in F!Row
        BY <1>0 DEF F!NewRow, F!Row
    <2> QED
        BY <1>0, <2>1 DEF F!NewRow
<1> HIDE DEF gone, row, s
<1>4. fields'[s] = row /\ \A t \in F!Slots : t # s => fields'[t] = fields[t]
    BY <1>0, <1>1, <1>2 DEF F!Without, FieldTable
<1>5. F!LifeOf(fields'[s]) = F!Life!Thing(fieldSeq + 1, FALSE, Never)
    BY <1>3, <1>4 DEF F!LifeOf, F!Life!Thing
<1>6. FieldLives' = [FieldLives EXCEPT ![s] = F!Life!Thing(fieldSeq + 1, FALSE, Never)]
    BY <1>0, <1>4, <1>5, OneFieldLife
<1>7. FieldLives[s] = F!Life!Absent \/ F!Life!Over(s)
    BY <1>0, <1>1, LifeOfField
<1> QED
    BY <1>1, <1>6, <1>7 DEF F!Life!Remember, FieldLives, s

LEMMA ReviseFieldLives ==
    ASSUME MemoryInv, NEW p \in Personas, NEW k \in Keys, NEW value \in Values,
           NEW description \in Descriptions, NEW pinned \in BOOLEAN, NEW cap, NEW logValues,
           F!ReviseField(p, k, value, description, pinned, cap, logValues)
    PROVE  F!Life!Revive(<<p, k>>)
<1> DEFINE s == <<p, k>>
           row == F!RevisedRow(fields[s], value, description, pinned)
<1>0. /\ fields \in FieldTable /\ s \in F!Slots /\ NoRow \notin F!Row
    BY FieldRows DEF F!Slots
<1>1. /\ fields' = [fields EXCEPT ![s] = row]
      /\ fieldSeq' = fieldSeq /\ now' = now /\ F!Exists(s) /\ ~F!PastDue(s)
    BY DEF F!ReviseField, F!StartsAfresh
<1>2. fields[s] \in F!Row
    BY <1>0, <1>1, FieldRows
<1>3. row.seq = fields[s].seq /\ row.forgotten = FALSE /\ row.purgeAfter = Never /\ row # NoRow
    <2>1. fields[s].revision + 1 \in Nat \ {0}
        BY <1>2 DEF F!Row
    <2>2. /\ row \in F!Row /\ row.seq = fields[s].seq /\ row.forgotten = FALSE
          /\ row.purgeAfter = Never
        BY <1>2, <2>1 DEF F!RevisedRow, F!Row
    <2> QED
        BY <1>0, <2>2
<1> HIDE DEF row, s
<1>4. fields'[s] = row /\ \A t \in F!Slots : t # s => fields'[t] = fields[t]
    BY <1>0, <1>1 DEF FieldTable
<1>5. F!LifeOf(fields'[s]) = F!Life!Thing(fields[s].seq, FALSE, Never)
    BY <1>3, <1>4 DEF F!LifeOf, F!Life!Thing
<1>6. /\ FieldLives[s].life = fields[s].seq /\ FieldLives[s] # F!Life!Absent /\ ~F!Life!Over(s)
    BY <1>0, <1>1, LifeOfField
<1>7. FieldLives' = [FieldLives EXCEPT ![s] = F!Life!Thing(FieldLives[s].life, FALSE, Never)]
    BY <1>0, <1>4, <1>5, <1>6, OneFieldLife
<1> QED
    BY <1>1, <1>6, <1>7 DEF F!Life!Revive, FieldLives, s

LEMMA ForgetFieldLives ==
    ASSUME MemoryInv, NEW p \in Personas, NEW k \in Keys, NEW policy \in F!Policies,
           F!ForgetField(p, k, policy)
    PROVE  F!Life!Forget(<<p, k>>)
<1> DEFINE s == <<p, k>>
           due == F!PurgeAfter(policy, now)
           gone == IF F!DestroysNow(policy) THEN {s} ELSE {}
           row == [fields[s] EXCEPT !.forgotten = TRUE, !.purgeAfter = due]
<1>0. /\ fields \in FieldTable /\ s \in F!Slots /\ NoRow \notin F!Row /\ now \in Nat
    BY FieldRows DEF F!Slots
<1>1. /\ fields' = F!Without([fields EXCEPT ![s] = row], gone)
      /\ fieldSeq' = fieldSeq /\ now' = now /\ F!Exists(s) /\ ~fields[s].forgotten
    BY DEF F!ForgetField, F!CanForget, F!Live, F!LiveIn, F!Exists
<1>2. fields[s] \in F!Row
    BY <1>0, <1>1, FieldRows
<1>3. due \in {Never} \cup {now + g : g \in GracePeriods}
    BY DEF F!PurgeAfter, F!Policies
<1>4. due \in Nat \cup {Never}
    BY <1>0, <1>3, GraceAssumption
<1> HIDE DEF due
<1>5. /\ row \in F!Row /\ row.seq = fields[s].seq /\ row.forgotten = TRUE
      /\ row.purgeAfter = due
    BY <1>2, <1>4 DEF F!Row
<1>6. gone = {} \/ gone = {s}
    OBVIOUS
<1> HIDE DEF row, s, gone
<1>7. /\ fields'[s] = NoRow \/ fields'[s] = row
      /\ \A t \in F!Slots : t # s => fields'[t] = fields[t]
    <2> DEFINE base == [fields EXCEPT ![s] = row]
    <2>1. base \in FieldTable /\ base[s] = row /\ \A t \in F!Slots : t # s => base[t] = fields[t]
        BY <1>0, <1>5 DEF FieldTable
    <2>2. fields' = F!Without(base, gone)
        BY <1>1
    <2> HIDE DEF base
    <2> QED
        BY <1>0, <1>6, <2>1, <2>2 DEF F!Without, FieldTable
<1>8. /\ FieldLives[s].life = fields[s].seq /\ FieldLives[s] # F!Life!Absent
      /\ FieldLives[s].forgotten = fields[s].forgotten
    BY <1>0, <1>1, LifeOfField
<1>9. \/ F!LifeOf(fields'[s]) = F!Life!Absent
      \/ F!LifeOf(fields'[s]) = F!Life!Thing(FieldLives[s].life, TRUE, due)
    <2>1. CASE fields'[s] = NoRow
        BY <2>1 DEF F!LifeOf, F!Life!Absent, F!Life!Thing
    <2>2. CASE fields'[s] = row
        <3>1. row # NoRow
            BY <1>0, <1>5
        <3> QED
            BY <1>5, <1>8, <2>2, <3>1 DEF F!LifeOf, F!Life!Thing
    <2> QED
        BY <1>7, <2>1, <2>2
<1>10. FieldLives' = [FieldLives EXCEPT ![s] = F!LifeOf(fields'[s])]
    BY <1>0, <1>7, OneFieldLife
<1>11. \E next \in {F!Life!Absent} \cup {F!Life!Thing(FieldLives[s].life, TRUE, d) :
                                   d \in {Never} \cup {now + g : g \in GracePeriods}} :
          FieldLives' = [FieldLives EXCEPT ![s] = next]
    BY <1>3, <1>9, <1>10
<1>12. ~FieldLives[s].forgotten
    BY <1>1, <1>8
<1> QED
    BY <1>1, <1>8, <1>11, <1>12 DEF F!Life!Forget, FieldLives, s

LEMMA RemovedFields ==
    ASSUME NEW gone, fields' = F!Without(fields, gone), UNCHANGED <<now, fieldSeq>>
    PROVE  F!Life!Remove(gone)
<1>1. \A t \in F!Slots : fields'[t] = IF t \in gone THEN NoRow ELSE fields[t]
    BY DEF F!Without
<1> QED
    BY <1>1 DEF F!Life!Remove, F!Life!Places, F!Life!Absent, F!Life!Thing, F!LifeOf, F!Slots

LEMMA PurgeFieldLives == ASSUME MemoryInv, F!PurgeDueFields PROVE F!Life!DestroyDue
<1>1. PICK batch \in F!FieldBatches :
            fields' = F!Without(fields, batch) /\ UNCHANGED <<now, fieldSeq>>
    BY DEF F!PurgeDueFields
<1>2. F!Life!Remove(batch)
    BY <1>1, RemovedFields
<1>3. batch \subseteq {s \in F!Slots : F!PastDue(s)}
    BY DEF F!FieldBatches, F!DueFields
<1>4. batch \subseteq {s \in F!Slots : F!Life!Over(s)}
    BY <1>3, LifeOfField
<1> QED
    BY <1>2, <1>4 DEF F!Life!DestroyDue, F!Life!Places, F!Slots

\* Every step of the whole is a step of the fields' lives or leaves them alone.
LEMMA FieldsGoOn ==
    MemoryInv /\ [Next]_vars => [F!Life!Next]_<<now, FieldLives, fieldSeq>>
<1> SUFFICES ASSUME MemoryInv, [Next]_vars
             PROVE  F!Life!Next \/ UNCHANGED <<now, FieldLives, fieldSeq>>
    OBVIOUS
<1>1. CASE FieldRequest
    <2>1. PICK p \in Personas, k \in Keys :
            \/ F!SetField(p, k)
            \/ \E policy \in F!Policies : F!ForgetField(p, k, policy)
        BY <1>1 DEF FieldRequest, F!Policies, Policies
    <2>2. <<p, k>> \in F!Life!Places
        BY DEF F!Life!Places
    <2>3. F!Life!Remember(<<p, k>>) \/ F!Life!Revive(<<p, k>>) \/ F!Life!Forget(<<p, k>>)
        BY <2>1, InsertFieldLives, ReviseFieldLives, ForgetFieldLives DEF F!SetField
    <2> QED
        BY <2>2, <2>3 DEF F!Life!Next
<1>2. CASE DeletePersona
    <2>1. PICK p \in Personas : DropPersona(p) /\ F!DropFieldsOf(p)
        BY <1>2 DEF DeletePersona, DropRowsOf
    <2>2. fields' = F!Without(fields, {p} \X Keys) /\ UNCHANGED <<now, fieldSeq>>
        BY <2>1 DEF DropPersona, F!DropFieldsOf
    <2>3. F!Life!RemoveOwner(p)
        BY <2>2, RemovedFields DEF F!Life!RemoveOwner
    <2> QED
        BY <2>3 DEF F!Life!Next
<1>3. CASE SweepFields
    <2>1. CASE F!PurgeDueFields
        BY <2>1, PurgeFieldLives DEF F!Life!Next
    <2>2. CASE UNCHANGED <<storeVars, fieldVars>>
        BY <2>2 DEF FieldLives, storeVars, fieldVars
    <2> QED
        BY <1>3, <2>1, <2>2 DEF SweepFields
<1>4. ASSUME Tick, UNCHANGED fieldVars
      PROVE  F!Life!Next
    BY <1>4 DEF Tick, fieldVars, F!Life!Next, F!Life!TimePasses
<1>5. CASE UNCHANGED <<now, fields, fieldSeq>>
    BY <1>5 DEF FieldLives
<1>6. NoteRequest \/ SweepNotes => UNCHANGED <<now, fields, fieldSeq>>
    <2>1. \A p \in Personas, id \in NoteIds : N!WriteNote(p, id) \/ N!ReviseNote(p, id) => now' = now
        BY DEF N!WriteNote, N!ReviseNote
    <2>2. \A p \in Personas, id \in NoteIds, policy \in Policies :
              N!ForgetNote(p, id, policy) => now' = now
        BY DEF N!ForgetNote
    <2>3. N!PurgeDueNotes(sweptAt) => now' = now
        BY DEF N!PurgeDueNotes
    <2>4. NoteRequest => UNCHANGED <<now, fieldVars>>
        BY <2>1, <2>2 DEF NoteRequest
    <2>5. SweepNotes => UNCHANGED <<now, fieldVars>>
        BY <2>3 DEF SweepNotes, storeVars
    <2> QED
        BY <2>4, <2>5 DEF fieldVars
<1>7. CASE Elsewhere
    <2>1. CASE Tick
        BY <1>4, <1>7, <2>1 DEF Elsewhere
    <2>2. CASE \E p \in Personas : AddPersona(p)
        <3>1. UNCHANGED <<now, fields, fieldSeq>>
            BY <1>7, <2>2 DEF Elsewhere, AddPersona, fieldVars
        <3> QED
            BY <1>5, <3>1
    <2> QED
        BY <1>7, <2>1, <2>2 DEF Elsewhere
<1>8. CASE UNCHANGED <<storeVars, fieldVars>>
    BY <1>5, <1>8 DEF storeVars, fieldVars
<1> QED
    BY <1>1, <1>2, <1>3, <1>5, <1>6, <1>7, <1>8
       DEF Next, Sweeping, RequestTruncates, RequestCancelled, SweepTruncates, WakeUp, SweepFails,
           Restart, vars

-----------------------------------------------------------------------------
(* The notes.  What is due for them is due by the sweep's reading of the clock, *)
(* which is not ahead of it.                                                    *)

NoteLives == [s \in Personas \X NoteIds |-> N!LifeAt(s[1], s[2])]

LEMMA OneNoteLife ==
    ASSUME NEW p \in Personas, NEW id \in NoteIds,
           \A n \in NoteIds : n # id => notes'[n] = notes[n],
           notes[id] = NoNote \/ notes[id].persona = p,
           notes'[id] = NoNote \/ notes'[id].persona = p
    PROVE  NoteLives' = [NoteLives EXCEPT ![<<p, id>>] = N!LifeAt(p, id)']
<1> SUFFICES ASSUME NEW s \in Personas \X NoteIds
             PROVE  NoteLives'[s] = [NoteLives EXCEPT ![<<p, id>>] = N!LifeAt(p, id)'][s]
    BY DEF NoteLives
<1>1. PICK q \in Personas, n \in NoteIds : s = <<q, n>>
    OBVIOUS
<1>2. NoteLives'[s] = N!LifeAt(q, n)' /\ NoteLives[s] = N!LifeAt(q, n)
    BY <1>1 DEF NoteLives
<1>3. CASE s = <<p, id>>
    BY <1>1, <1>2, <1>3 DEF NoteLives
<1>4. CASE s # <<p, id>>
    <2>1. N!LifeAt(q, n)' = N!LifeAt(q, n)
        BY <1>1, <1>4 DEF N!LifeAt, N!Exists
    <2> QED
        BY <1>2, <1>4, <2>1 DEF NoteLives
<1> QED
    BY <1>3, <1>4

\* What a note's life is at its persona, and that no other persona has it.
LEMMA LifeOfNote ==
    ASSUME NEW p \in Personas, NEW id \in NoteIds
    PROVE  /\ ~(N!Exists(id) /\ notes[id].persona = p) => NoteLives[<<p, id>>] = N!Life!Absent
           /\ N!Exists(id) /\ notes[id].persona = p =>
                 /\ NoteLives[<<p, id>>].life = notes[id].seq
                 /\ NoteLives[<<p, id>>].forgotten = notes[id].forgotten
                 /\ NoteLives[<<p, id>>].due = notes[id].purgeAfter
<1>1. NoteLives[<<p, id>>] = N!LifeAt(p, id)
    BY DEF NoteLives
<1>2. CASE ~(N!Exists(id) /\ notes[id].persona = p)
    <2>1. N!LifeAt(p, id) = [life |-> 0, forgotten |-> FALSE, due |-> Never]
        BY <1>2 DEF N!LifeAt
    <2> QED
        BY <1>1, <1>2, <2>1 DEF N!Life!Absent, N!Life!Thing
<1>3. CASE N!Exists(id) /\ notes[id].persona = p
    <2>1. N!LifeAt(p, id) = [life |-> notes[id].seq, forgotten |-> notes[id].forgotten,
                             due |-> notes[id].purgeAfter]
        BY <1>3 DEF N!LifeAt
    <2> QED
        BY <1>1, <1>3, <2>1
<1> QED
    BY <1>2, <1>3

LEMMA NotesBegin == Init => N!Life!Init
BY DEF Init, StoreInit, N!NoteInit, N!Life!Init, N!Life!Absent, N!Life!Thing, N!Life!Places,
       N!LifeAt, N!Exists

LEMMA WriteNoteLives ==
    ASSUME MemoryInv, NEW p \in Personas, NEW id \in NoteIds, N!WriteNote(p, id)
    PROVE  N!Life!Remember(<<p, id>>)
<1>0. /\ NoNote \notin N!Row /\ notes \in NoteTable /\ noteSeq \in Nat
      /\ \A n \in NoteIds : N!Exists(n) => n \in issued
    BY NoteRows
<1>1. PICK body \in Bodies, kind \in Kinds, pinned \in BOOLEAN, cap \in NotePinCaps :
            LET row == N!NewNote(p, body, kind, pinned, noteSeq + 1)
            IN  /\ id \notin issued
                /\ p \in personas
                /\ N!MayAdd(notes, p)
                /\ pinned => N!MayPin(notes, p, cap)
                /\ N!MayRecord
                /\ issued' = issued \cup {id}
                /\ noteSeq' = row.seq
                /\ notes' = [notes EXCEPT ![id] = row]
                /\ noteIndex' = N!Indexed(noteIndex, row.seq, row.body)
                /\ log' = N!Appended(log, N!NoteEvent("note.written", p, id, 1, Never, NoValue))
                /\ UNCHANGED <<now, personas>>
    BY DEF N!WriteNote
<1> DEFINE row == N!NewNote(p, body, kind, pinned, noteSeq + 1)
<1>2. /\ row \in N!Row /\ row.persona = p /\ row.seq = noteSeq + 1
      /\ row.forgotten = FALSE /\ row.purgeAfter = Never
    BY <1>0 DEF N!NewNote, N!Row
<1>3. notes' = [notes EXCEPT ![id] = row] /\ noteSeq' = row.seq
    BY <1>1
<1> HIDE DEF row
<1>4. notes'[id] = row /\ \A n \in NoteIds : n # id => notes'[n] = notes[n]
    BY <1>0, <1>3 DEF NoteTable
<1>5. ~N!Exists(id) /\ notes[id] = NoNote
    BY <1>0, <1>1 DEF N!Exists
<1>6. NoteLives' = [NoteLives EXCEPT ![<<p, id>>] = N!LifeAt(p, id)']
    BY <1>2, <1>4, <1>5, OneNoteLife
<1>7. N!LifeAt(p, id)' = N!Life!Thing(noteSeq + 1, FALSE, Never)
    <2>1. row # NoNote
        BY <1>0, <1>2
    <2> QED
        BY <1>2, <1>4, <2>1 DEF N!LifeAt, N!Exists, N!Life!Thing
<1>8. NoteLives[<<p, id>>] = N!Life!Absent
    BY <1>5, LifeOfNote
<1>9. NoteLives' = [NoteLives EXCEPT ![<<p, id>>] = N!Life!Thing(noteSeq + 1, FALSE, Never)]
    BY <1>6, <1>7
<1> QED
    BY <1>1, <1>2, <1>3, <1>8, <1>9 DEF N!Life!Remember, NoteLives

\* A revision is no event of a note's life.
LEMMA ReviseNoteLives ==
    ASSUME MemoryInv, NEW p \in Personas, NEW id \in NoteIds, N!ReviseNote(p, id)
    PROVE  UNCHANGED <<now, NoteLives, noteSeq>>
<1>0. NoNote \notin N!Row /\ notes \in NoteTable
    BY NoteRows
<1>1. PICK body \in Bodies, kind \in Kinds, pinned \in BOOLEAN, cap \in NotePinCaps,
           logValues \in BOOLEAN :
            LET old == notes[id]
                row == N!RevisedNote(old, body, kind, pinned)
            IN  /\ N!LiveFor(id, p)
                /\ ~N!NothingChanges(old, body, kind, pinned)
                /\ pinned /\ ~old.pinned => N!MayPin(notes, p, cap)
                /\ N!MayRecord
                /\ notes' = [notes EXCEPT ![id] = row]
                /\ noteIndex' = N!Indexed(N!Unindexed(noteIndex, {old.seq}), old.seq, row.body)
                /\ log' = N!Appended(log, N!NoteEvent("note.revised", p, id, row.revision, Never,
                                                     N!KeptBody(old, body, logValues)))
                /\ UNCHANGED <<now, personas, noteSeq, issued>>
    BY DEF N!ReviseNote
<1> DEFINE row == N!RevisedNote(notes[id], body, kind, pinned)
<1>live. N!Exists(id) /\ notes[id].persona = p
    BY <1>1 DEF N!LiveFor, N!Live, N!LiveIn, N!Exists
<1>2. notes[id] \in N!Row
    BY <1>live, NoteRows
<1>3. /\ row \in N!Row /\ row.persona = p /\ row.seq = notes[id].seq
      /\ row.forgotten = notes[id].forgotten /\ row.purgeAfter = notes[id].purgeAfter
    <2>1. notes[id].revision + 1 \in Nat \ {0}
        BY <1>2 DEF N!Row
    <2> QED
        BY <1>live, <1>2, <2>1 DEF N!RevisedNote, N!Row
<1>4. notes' = [notes EXCEPT ![id] = row]
    BY <1>1
<1> HIDE DEF row
<1>5. notes'[id] = row /\ \A n \in NoteIds : n # id => notes'[n] = notes[n]
    BY <1>0, <1>4 DEF NoteTable
<1>6. NoteLives' = [NoteLives EXCEPT ![<<p, id>>] = N!LifeAt(p, id)']
    BY <1>live, <1>3, <1>5, OneNoteLife
<1>7. N!LifeAt(p, id)' = N!LifeAt(p, id)
    <2>1. row # NoNote
        BY <1>0, <1>3
    <2> QED
        BY <1>live, <1>3, <1>5, <2>1 DEF N!LifeAt, N!Exists
<1>8. NoteLives' = NoteLives
    <2>1. NoteLives[<<p, id>>] = N!LifeAt(p, id)
        BY DEF NoteLives
    <2>2. NoteLives' = [NoteLives EXCEPT ![<<p, id>>] = NoteLives[<<p, id>>]]
        BY <1>6, <1>7, <2>1
    <2> QED
        BY <2>2 DEF NoteLives
<1> QED
    BY <1>1, <1>8

LEMMA ForgetNoteLives ==
    ASSUME MemoryInv, NEW p \in Personas, NEW id \in NoteIds, NEW policy \in N!Policies,
           N!ForgetNote(p, id, policy)
    PROVE  N!Life!Forget(<<p, id>>)
<1> DEFINE due == N!PurgeAfter(policy, now)
           gone == IF N!DestroysNow(policy) THEN {id} ELSE {}
           row == N!ForgottenNote(notes[id], due)
<1>0. NoNote \notin N!Row /\ notes \in NoteTable /\ now \in Nat
    BY NoteRows
<1>1. /\ notes' = N!Without([notes EXCEPT ![id] = row], gone)
      /\ N!Exists(id) /\ notes[id].persona = p /\ ~notes[id].forgotten
      /\ UNCHANGED <<now, noteSeq>>
    BY DEF N!ForgetNote, N!LiveFor, N!Live, N!LiveIn, N!Exists
<1>2. notes[id] \in N!Row
    BY <1>1, NoteRows
<1>3. due \in {Never} \cup {now + g : g \in GracePeriods}
    BY DEF N!PurgeAfter, N!Policies
<1>4. due \in Nat \cup {Never}
    BY <1>0, <1>3, GraceAssumption
<1> HIDE DEF due
<1>5. /\ row \in N!Row /\ row.persona = p /\ row.seq = notes[id].seq /\ row.forgotten = TRUE
      /\ row.purgeAfter = due
    BY <1>1, <1>2, <1>4 DEF N!ForgottenNote, N!Row
<1>6. gone = {} \/ gone = {id}
    OBVIOUS
<1> HIDE DEF row, gone
<1>7. /\ notes'[id] = NoNote \/ notes'[id] = row
      /\ \A n \in NoteIds : n # id => notes'[n] = notes[n]
    <2> DEFINE base == [notes EXCEPT ![id] = row]
    <2>1. base \in NoteTable /\ base[id] = row /\ \A n \in NoteIds : n # id => base[n] = notes[n]
        BY <1>0, <1>5 DEF NoteTable
    <2>2. notes' = N!Without(base, gone)
        BY <1>1
    <2> HIDE DEF base
    <2> QED
        BY <1>0, <1>6, <2>1, <2>2 DEF N!Without, NoteTable
<1>8. /\ NoteLives[<<p, id>>].life = notes[id].seq
      /\ NoteLives[<<p, id>>].forgotten = notes[id].forgotten
    BY <1>1, LifeOfNote
<1>9. NoteLives[<<p, id>>] # N!Life!Absent
    <2>1. notes[id].seq # 0
        BY <1>2 DEF N!Row
    <2>2. N!Life!Absent.life = 0
        BY DEF N!Life!Absent, N!Life!Thing
    <2> QED
        BY <1>8, <2>1, <2>2
<1>10. \/ N!LifeAt(p, id)' = N!Life!Absent
       \/ N!LifeAt(p, id)' = N!Life!Thing(NoteLives[<<p, id>>].life, TRUE, due)
    <2>1. CASE notes'[id] = NoNote
        BY <2>1 DEF N!LifeAt, N!Exists, N!Life!Absent, N!Life!Thing
    <2>2. CASE notes'[id] = row
        <3>1. row # NoNote
            BY <1>0, <1>5
        <3> QED
            BY <1>5, <1>8, <2>2, <3>1 DEF N!LifeAt, N!Exists, N!Life!Thing
    <2> QED
        BY <1>7, <2>1, <2>2
<1>11. NoteLives' = [NoteLives EXCEPT ![<<p, id>>] = N!LifeAt(p, id)']
    BY <1>1, <1>5, <1>7, OneNoteLife
<1>12. \E next \in {N!Life!Absent} \cup {N!Life!Thing(NoteLives[<<p, id>>].life, TRUE, d) :
                                   d \in {Never} \cup {now + g : g \in GracePeriods}} :
          NoteLives' = [NoteLives EXCEPT ![<<p, id>>] = next]
    BY <1>3, <1>10, <1>11
<1>13. ~NoteLives[<<p, id>>].forgotten
    BY <1>1, <1>8
<1> QED
    BY <1>1, <1>9, <1>12, <1>13 DEF N!Life!Forget, NoteLives

\* Where notes are taken away, lives end, and no other changes.
LEMMA RemovedNotes ==
    ASSUME NEW gone, NEW places, notes' = N!Without(notes, gone), UNCHANGED <<now, noteSeq>>,
           \A p \in Personas, id \in NoteIds :
               N!Exists(id) /\ notes[id].persona = p => (id \in gone <=> <<p, id>> \in places)
    PROVE  N!Life!Remove(places)
<1>1. \A id \in NoteIds : notes'[id] = IF id \in gone THEN NoNote ELSE notes[id]
    BY DEF N!Without
<1>2. \A p \in Personas, id \in NoteIds :
          N!LifeAt(p, id)' = IF <<p, id>> \in places THEN N!Life!Absent ELSE N!LifeAt(p, id)
    BY <1>1 DEF N!LifeAt, N!Exists, N!Life!Absent, N!Life!Thing
<1>3. \A s \in Personas \X NoteIds :
          N!LifeAt(s[1], s[2])' = IF s \in places THEN N!Life!Absent ELSE N!LifeAt(s[1], s[2])
    BY <1>2
<1> QED
    BY <1>3 DEF N!Life!Remove, N!Life!Places

LEMMA PurgeNoteLives ==
    ASSUME MemoryInv, NEW time \in Nat, time <= now, N!PurgeDueNotes(time)
    PROVE  N!Life!DestroyDue
<1>1. PICK batch \in N!NoteBatches(time) :
            notes' = N!Without(notes, batch) /\ UNCHANGED <<now, noteSeq>>
    BY DEF N!PurgeDueNotes
<1> DEFINE places == {s \in Personas \X NoteIds : s[2] \in batch /\ notes[s[2]].persona = s[1]}
<1>2. \A id \in batch : id \in NoteIds /\ N!DueBy(id, time)
    BY DEF N!NoteBatches, N!DueNotes
<1>3. \A p \in Personas, id \in NoteIds :
          N!Exists(id) /\ notes[id].persona = p => (id \in batch <=> <<p, id>> \in places)
    OBVIOUS
<1>4. places \subseteq {s \in Personas \X NoteIds : N!Life!Over(s)}
    <2> SUFFICES ASSUME NEW p \in Personas, NEW id \in NoteIds, <<p, id>> \in places
                 PROVE  N!Life!Over(<<p, id>>)
        OBVIOUS
    <2>1. N!DueBy(id, time) /\ notes[id].persona = p
        BY <1>2
    <2>2. notes[id] \in N!Row /\ now \in Nat
        BY <2>1, NoteRows DEF N!DueBy
    <2>3. notes[id].purgeAfter \in Nat \cup {Never}
        BY <2>2 DEF N!Row
    <2>4. NoteLives[<<p, id>>].due = notes[id].purgeAfter
        BY <2>1, LifeOfNote DEF N!DueBy
    <2>5. NoteLives[<<p, id>>].due # Never /\ NoteLives[<<p, id>>].due <= now
        BY <2>1, <2>2, <2>3, <2>4 DEF N!DueBy
    <2> QED
        BY <2>5 DEF N!Life!Over, NoteLives
<1> HIDE DEF places
<1>5. N!Life!Remove(places)
    BY <1>1, <1>3, RemovedNotes
<1> QED
    BY <1>4, <1>5 DEF N!Life!DestroyDue, N!Life!Places

\* The sweep's reading of the clock is one it had.
ClockInv == sweptAt \in Nat /\ sweptAt <= now

LEMMA ClockKept == MemoryInv /\ ClockInv /\ [Next]_vars => ClockInv'
<1> SUFFICES ASSUME MemoryInv, ClockInv, [Next]_vars PROVE ClockInv'
    OBVIOUS
<1>1. now \in Nat
    BY NoteRows
<1>2. now' = now \/ now' = now + 1
    BY FieldsGoOn DEF F!Life!Next, F!Life!TimePasses, F!Life!Remember, F!Life!Revive, F!Life!Forget,
       F!Life!DestroyDue, F!Life!RemoveOwner, F!Life!Remove
<1>3. sweptAt' = sweptAt \/ sweptAt' = now
    BY DEF Next, FieldRequest, NoteRequest, DeletePersona, Elsewhere, RequestTruncates,
           RequestCancelled, Sweeping, SweepFields, SweepNotes, SweepTruncates, WakeUp, SweepFails,
           Restart, Aftermath, sweepVars, vars
<1> QED
    BY <1>1, <1>2, <1>3 DEF ClockInv

LEMMA NotesGoOn ==
    MemoryInv /\ ClockInv /\ [Next]_vars => [N!Life!Next]_<<now, NoteLives, noteSeq>>
<1> SUFFICES ASSUME MemoryInv, ClockInv, [Next]_vars
             PROVE  N!Life!Next \/ UNCHANGED <<now, NoteLives, noteSeq>>
    OBVIOUS
<1>1. CASE NoteRequest
    <2>1. PICK p \in Personas, id \in NoteIds :
            \/ N!WriteNote(p, id) \/ N!ReviseNote(p, id)
            \/ \E policy \in N!Policies : N!ForgetNote(p, id, policy)
        BY <1>1 DEF NoteRequest, N!Policies, Policies
    <2>2. <<p, id>> \in N!Life!Places
        BY DEF N!Life!Places
    <2>3. \/ N!Life!Remember(<<p, id>>) \/ N!Life!Forget(<<p, id>>)
          \/ UNCHANGED <<now, NoteLives, noteSeq>>
        BY <2>1, WriteNoteLives, ReviseNoteLives, ForgetNoteLives
    <2> QED
        BY <2>2, <2>3 DEF N!Life!Next
<1>2. CASE DeletePersona
    <2>1. PICK p \in Personas : DropPersona(p) /\ N!DropNotesOf(p)
        BY <1>2 DEF DeletePersona, DropRowsOf
    <2>2. notes' = N!Without(notes, N!NotesOf(p)) /\ UNCHANGED <<now, noteSeq>>
        BY <2>1 DEF DropPersona, N!DropNotesOf
    <2>3. \A q \in Personas, id \in NoteIds :
              N!Exists(id) /\ notes[id].persona = q =>
                  (id \in N!NotesOf(p) <=> <<q, id>> \in {p} \X NoteIds)
        BY DEF N!NotesOf
    <2>4. N!Life!RemoveOwner(p)
        BY <2>2, <2>3, RemovedNotes DEF N!Life!RemoveOwner
    <2> QED
        BY <2>4 DEF N!Life!Next
<1>3. CASE SweepNotes
    <2>1. CASE N!PurgeDueNotes(sweptAt)
        BY <2>1, PurgeNoteLives DEF ClockInv, N!Life!Next
    <2>2. CASE UNCHANGED <<storeVars, noteVars>>
        BY <2>2 DEF NoteLives, storeVars, noteVars, N!LifeAt, N!Exists
    <2> QED
        BY <1>3, <2>1, <2>2 DEF SweepNotes
<1>4. CASE UNCHANGED <<now, notes, noteSeq>>
    BY <1>4 DEF NoteLives, N!LifeAt, N!Exists
<1>5. FieldRequest \/ SweepFields => UNCHANGED <<now, notes, noteSeq>>
    <2>1. \A p \in Personas, k \in Keys : F!SetField(p, k) => now' = now
        <3>1. \A p \in Personas, k \in Keys, value \in Values, description \in Descriptions,
                 pinned \in BOOLEAN, cap \in FieldPinCaps :
                     F!InsertField(p, k, value, description, pinned, cap) => now' = now
            BY DEF F!InsertField
        <3>2. \A p \in Personas, k \in Keys, value \in Values, description \in Descriptions,
                 pinned \in BOOLEAN, cap \in FieldPinCaps, logValues \in BOOLEAN :
                     F!ReviseField(p, k, value, description, pinned, cap, logValues) => now' = now
            BY DEF F!ReviseField
        <3> QED
            BY <3>1, <3>2 DEF F!SetField
    <2>2. \A p \in Personas, k \in Keys, policy \in Policies : F!ForgetField(p, k, policy) => now' = now
        BY DEF F!ForgetField
    <2>3. F!PurgeDueFields => now' = now
        BY DEF F!PurgeDueFields
    <2>4. FieldRequest => UNCHANGED <<now, noteVars>>
        BY <2>1, <2>2 DEF FieldRequest
    <2>5. SweepFields => UNCHANGED <<now, noteVars>>
        BY <2>3 DEF SweepFields, storeVars
    <2> QED
        BY <2>4, <2>5 DEF noteVars
<1>6. CASE Elsewhere
    <2>1. CASE Tick
        BY <1>6, <2>1 DEF Elsewhere, Tick, noteVars, N!Life!Next, N!Life!TimePasses, N!LifeAt, N!Exists
    <2>2. CASE \E p \in Personas : AddPersona(p)
        <3>1. UNCHANGED <<now, notes, noteSeq>>
            BY <1>6, <2>2 DEF Elsewhere, AddPersona, noteVars
        <3> QED
            BY <1>4, <3>1
    <2> QED
        BY <1>6, <2>1, <2>2 DEF Elsewhere
<1>7. CASE UNCHANGED <<storeVars, noteVars>>
    BY <1>4, <1>7 DEF storeVars, noteVars
<1> QED
    BY <1>1, <1>2, <1>3, <1>4, <1>5, <1>6, <1>7
       DEF Next, Sweeping, RequestTruncates, RequestCancelled, SweepTruncates, WakeUp, SweepFails,
           Restart, vars

\* Beside the other store, the sweeping task with its failures, cancelled requests and
\* restarts, each store keeps what it promises alone: a row is destroyed when it is due,
\* when it is forgotten for good or with its persona, and never comes back past its date
\* (memory/sweeper.py, memory/fields.py and memory/notes.py purge_due).
THEOREM BothImplementLifecycle == Spec => StoresImplementLifecycle
<1>1. Init => MemoryInv /\ ClockInv
    <2>1. Init => ClockInv
        BY DEF Init, StoreInit, ClockInv
    <2> QED
        BY <2>1, InitMemory
<1>2. MemoryInv /\ ClockInv /\ [Next]_vars => MemoryInv' /\ ClockInv'
    BY NextMemory, ClockKept
<1>3. MemoryInv /\ [Next]_vars =>
          [F!Life!Next]_<<now, [s \in F!Slots |-> F!LifeOf(fields[s])], fieldSeq>>
    BY FieldsGoOn DEF FieldLives
<1>4. MemoryInv /\ ClockInv /\ [Next]_vars =>
          [N!Life!Next]_<<now, [s \in Personas \X NoteIds |-> N!LifeAt(s[1], s[2])], noteSeq>>
    BY NotesGoOn DEF NoteLives
<1> QED
    BY <1>1, <1>2, <1>3, <1>4, FieldsBegin, NotesBegin, PTL
       DEF Spec, StoresImplementLifecycle, F!ImplementsLifecycle, N!ImplementsLifecycle,
           F!Life!Spec, N!Life!Spec

-----------------------------------------------------------------------------
(* Beside the other, each store is the store of its own module.  Its own     *)
(* transactions are that module's; those of the other store are the ones     *)
(* that module expects of it on the log they share.                          *)

LEMMA SharedOperators ==
    /\ F!NoteActions = NoteActions /\ N!FieldActions = FieldActions
    /\ \A lg, p : /\ F!StripPersonaValues(lg, p) = StripPersonaValues(lg, p)
                  /\ N!StripPersonaValues(lg, p) = StripPersonaValues(lg, p)
BY DEF F!NoteActions, NoteActions, N!FieldActions, FieldActions, F!StripPersonaValues,
       N!StripPersonaValues, StripPersonaValues

LEMMA FieldEventIn ==
    ASSUME NEW p \in Personas, NEW k \in Keys
    PROVE  /\ \A due \in Dues : Event("field.forgotten", p, k, 0, due, NoValue) \in FieldEvents
           /\ Event("field.set", p, k, 1, Never, NoValue) \in FieldEvents
           /\ \A a \in {"field.set", "field.revised"}, n \in 2 .. MaxWrites,
                 old \in Values \cup {NoValue} : Event(a, p, k, n, Never, old) \in FieldEvents
BY DEF FieldEvents, Event

LEMMA NoteEventIn ==
    ASSUME NEW p \in Personas, NEW id \in NoteIds
    PROVE  /\ \A due \in Dues : Event("note.forgotten", p, id, 0, due, NoValue) \in NoteEvents
           /\ Event("note.written", p, id, 1, Never, NoValue) \in NoteEvents
           /\ \A n \in 2 .. MaxWrites, old \in Bodies \cup {NoValue} :
                 Event("note.revised", p, id, n, Never, old) \in NoteEvents
BY DEF NoteEvents, Event

\* What the modules of the two stores assume of their constants, and of the events
\* that the other may write, holds of the constants and the events here: the code
\* that Memory puts together meets what each store was checked and proved under.
THEOREM StoresAssumed ==
    /\ NoRow \notin F!Row /\ NoValue \notin Values
    /\ MaxFields \in Nat /\ MaxPinnedFields \in Nat /\ FieldPinCaps \subseteq 0..MaxPinnedFields
    /\ NoNote \notin N!Row /\ NoValue \notin Bodies
    /\ MaxNotes \in Nat /\ MaxPinnedNotes \in Nat /\ NotePinCaps \subseteq 0..MaxPinnedNotes
    /\ SweepBatch \in Nat \ {0}
    /\ NoteEvents \subseteq
           [action : NoteActions, persona : Personas, subject : F!NoteSubjects, revision : Nat,
            due : Nat \cup {Never}, oldValue : F!NoteValues]
    /\ FieldEvents \subseteq
           [action : FieldActions, persona : Personas, subject : N!FieldSubjects, revision : Nat,
            due : Nat \cup {Never}, oldValue : N!FieldValues]
<1>1. Dues \subseteq Nat \cup {Never}
    <2>1. \A t \in 0 .. MaxTime, g \in GracePeriods : t \in Nat /\ g \in Nat /\ t + g \in Nat
        BY BoundsAssumption, GraceAssumption
    <2> QED
        BY <2>1 DEF Dues
<1>2. ASSUME NEW e \in NoteEvents
      PROVE  /\ e \in [action : NoteActions, persona : Personas, subject : NoteIds, revision : Nat,
                       due : Nat \cup {Never}, oldValue : Bodies \cup {NoValue}]
             /\ e.subject \in F!NoteSubjects /\ e.oldValue \in F!NoteValues
    <2>1. e.subject \in F!NoteSubjects /\ e.oldValue \in F!NoteValues
        BY <1>2 DEF F!NoteSubjects, F!NoteValues
    <2>2. 2 .. MaxWrites \subseteq Nat
        BY BoundsAssumption
    <2>3. CASE e \in [action : {"note.revised"}, persona : Personas, subject : NoteIds,
                       revision : 2 .. MaxWrites, due : {Never}, oldValue : Bodies \cup {NoValue}]
        BY <2>1, <2>2, <2>3 DEF NoteActions
    <2>5. CASE e \in [action : {"note.written"}, persona : Personas, subject : NoteIds,
                       revision : {1}, due : {Never}, oldValue : {NoValue}]
        BY <2>1, <2>5 DEF NoteActions
    <2>4. CASE e \in [action : {"note.forgotten"}, persona : Personas, subject : NoteIds,
                       revision : {0}, due : Dues, oldValue : {NoValue}]
        <3>1. e.due \in Nat \cup {Never}
            BY <1>1, <2>4
        <3>2. e.revision = 0 /\ e.oldValue = NoValue
            BY <2>4
        <3> QED
            BY <2>1, <2>4, <3>1, <3>2 DEF NoteActions
    <2> QED
        BY <1>2, <2>3, <2>4, <2>5 DEF NoteEvents
<1>3. ASSUME NEW e \in FieldEvents
      PROVE  /\ e \in [action : FieldActions, persona : Personas, subject : Keys, revision : Nat,
                       due : Nat \cup {Never}, oldValue : Values \cup {NoValue}]
             /\ e.subject \in N!FieldSubjects /\ e.oldValue \in N!FieldValues
    <2>1. e.subject \in N!FieldSubjects /\ e.oldValue \in N!FieldValues
        BY <1>3 DEF N!FieldSubjects, N!FieldValues
    <2>2. 2 .. MaxWrites \subseteq Nat
        BY BoundsAssumption
    <2>3. CASE e \in [action : {"field.set", "field.revised"}, persona : Personas, subject : Keys,
                       revision : 2 .. MaxWrites, due : {Never}, oldValue : Values \cup {NoValue}]
        BY <2>1, <2>2, <2>3 DEF FieldActions
    <2>5. CASE e \in [action : {"field.set"}, persona : Personas, subject : Keys,
                       revision : {1}, due : {Never}, oldValue : {NoValue}]
        BY <2>1, <2>5 DEF FieldActions
    <2>4. CASE e \in [action : {"field.forgotten"}, persona : Personas, subject : Keys,
                       revision : {0}, due : Dues, oldValue : {NoValue}]
        <3>1. e.due \in Nat \cup {Never}
            BY <1>1, <2>4
        <3>2. e.revision = 0 /\ e.oldValue = NoValue
            BY <2>4
        <3> QED
            BY <2>1, <2>4, <3>1, <3>2 DEF FieldActions
    <2> QED
        BY <1>3, <2>3, <2>4, <2>5 DEF FieldEvents
<1> QED
    BY <1>2, <1>3, MemoryAssumption

-----------------------------------------------------------------------------
(* The bounds of the events: the clock stops at MaxTime, and a row has come  *)
(* no further than the log has events.                                       *)

BoundInv ==
    /\ now <= MaxTime
    /\ \A s \in F!Slots : F!Exists(s) => fields[s].revision <= log.last
    /\ \A id \in NoteIds : N!Exists(id) => notes[id].revision <= log.last

\* A request of the field store: one event, and values stripped of its row alone.
FieldWrite(p, k, ev, gone) ==
    /\ ev \in FieldEvents /\ ev.persona = p /\ ev.subject = k
    /\ gone \in SUBSET {<<p, k>>}
    /\ \/ log' = Appended(StripValues(log, gone, FieldActions), ev)
       \/ log' = StripValues(Appended(log, ev), gone, FieldActions)
    /\ log.last < MaxWrites
    /\ UNCHANGED <<now, personas>>
    /\ \A t \in F!Slots : t # <<p, k>> => fields'[t] = fields[t]
    /\ F!Exists(<<p, k>>)' => fields'[<<p, k>>].revision <= log.last + 1

\* A request of the note store.
NoteWrite(p, id, ev, gone) ==
    /\ ev \in NoteEvents /\ ev.persona = p /\ ev.subject = id
    /\ gone \in SUBSET {<<p, id>>}
    /\ \/ log' = Appended(StripValues(log, gone, NoteActions), ev)
       \/ log' = StripValues(Appended(log, ev), gone, NoteActions)
    /\ log.last < MaxWrites
    /\ UNCHANGED <<now, personas>>
    /\ \A n \in NoteIds : n # id => notes'[n] = notes[n]
    /\ N!Exists(id)' => notes'[id].revision <= log.last + 1

\* A date that either store gives a row.
LEMMA DatesAreDues ==
    ASSUME MemoryInv, BoundInv
    PROVE  /\ \A policy \in F!Policies : F!PurgeAfter(policy, now) \in Dues
           /\ \A policy \in N!Policies : N!PurgeAfter(policy, now) \in Dues
<1>1. now \in 0 .. MaxTime
    BY FieldRows, BoundsAssumption DEF BoundInv
<1>2. \A policy \in F!Policies : F!PurgeAfter(policy, now) \in Dues
    BY <1>1 DEF F!Policies, F!PurgeAfter, Dues
<1>3. \A policy \in N!Policies : N!PurgeAfter(policy, now) \in Dues
    BY <1>1 DEF N!Policies, N!PurgeAfter, Dues
<1> QED
    BY <1>2, <1>3

LEMMA StripOfNothing ==
    ASSUME NEW lg \in Log, NEW actions
    PROVE  StripValues(lg, {}, actions) = lg
<1>1. lg = [last |-> lg.last, entries |-> lg.entries]
    BY DEF Log, LogsOf
<1> QED
    BY <1>1 DEF StripValues

LEMMA InsertWrites ==
    ASSUME MemoryInv, NEW p \in Personas, NEW k \in Keys, NEW value \in Values,
           NEW description \in Descriptions, NEW pinned \in BOOLEAN, NEW cap,
           F!InsertField(p, k, value, description, pinned, cap)
    PROVE  \E ev, gone : FieldWrite(p, k, ev, gone)
<1> DEFINE s == <<p, k>>
           gone == IF F!PastDue(s) THEN {s} ELSE {}
           row == F!NewRow(value, description, pinned, fieldSeq + 1)
           ev == Event("field.set", p, k, 1, Never, NoValue)
<1>0. fields \in FieldTable /\ s \in F!Slots /\ log \in Log /\ log.last \in Nat
    BY FieldRows DEF F!Slots, Log, LogsOf
<1>1. /\ fields' = [F!Without(fields, gone) EXCEPT ![s] = row]
      /\ log.last < MaxWrites /\ UNCHANGED <<now, personas>>
    BY DEF F!InsertField, F!NextSeq, F!MayRecord
<1>2. log' = Appended(StripValues(log, gone, FieldActions), ev)
    BY FieldOperators DEF F!InsertField, F!FieldEvent, F!Event, Event
<1>3. ev \in FieldEvents /\ ev.persona = p /\ ev.subject = k
    BY FieldEventIn DEF Event
<1>4. row.revision = 1
    BY DEF F!NewRow
<1>5. gone \in SUBSET {s}
    OBVIOUS
<1> HIDE DEF row, ev, gone, s
<1>6. /\ fields'[s] = row
      /\ \A t \in F!Slots : t # s => fields'[t] = fields[t]
    BY <1>0, <1>1, <1>5 DEF F!Without, FieldTable
<1>7. fields'[s].revision <= log.last + 1
    BY <1>0, <1>4, <1>6
<1> QED
    BY <1>1, <1>2, <1>3, <1>5, <1>6, <1>7 DEF FieldWrite, s

LEMMA ReviseWrites ==
    ASSUME MemoryInv, BoundInv, NEW p \in Personas, NEW k \in Keys, NEW value \in Values,
           NEW description \in Descriptions, NEW pinned \in BOOLEAN, NEW cap,
           NEW logValues \in BOOLEAN,
           F!ReviseField(p, k, value, description, pinned, cap, logValues)
    PROVE  \E ev, gone : FieldWrite(p, k, ev, gone)
<1> DEFINE s == <<p, k>>
           old == fields[s]
           row == F!RevisedRow(old, value, description, pinned)
           kept == F!KeptValue(old, value, logValues)
           action == IF old.forgotten THEN "field.set" ELSE "field.revised"
           ev == Event(action, p, k, row.revision, Never, kept)
<1>0. fields \in FieldTable /\ s \in F!Slots /\ log \in Log /\ log.last \in Nat
    BY FieldRows DEF F!Slots, Log, LogsOf
<1>1. /\ fields' = [fields EXCEPT ![s] = row] /\ F!Exists(s)
      /\ log.last < MaxWrites /\ UNCHANGED <<now, personas>>
    BY DEF F!ReviseField, F!StartsAfresh, F!MayRecord
<1>2. log' = Appended(log, ev)
    BY FieldOperators DEF F!ReviseField, F!FieldEvent, F!Event, Event
<1>3. log' = Appended(StripValues(log, {}, FieldActions), ev)
    BY <1>0, <1>2, StripOfNothing
<1>4. old \in F!Row /\ old.revision <= log.last
    BY <1>0, <1>1, FieldRows DEF BoundInv
<1>5. old.revision \in Nat /\ old.revision >= 1 /\ row.revision = old.revision + 1
    BY <1>4 DEF F!RevisedRow, F!Row
<1>6. kept \in Values \cup {NoValue}
    BY <1>4 DEF F!KeptValue, F!Row
<1>7. action \in {"field.set", "field.revised"}
    OBVIOUS
<1> HIDE DEF row, kept, action, old
<1>8. row.revision \in 2 .. MaxWrites /\ row.revision <= log.last + 1
    BY <1>0, <1>1, <1>4, <1>5, BoundsAssumption
<1>9. ev \in FieldEvents
    BY <1>6, <1>7, <1>8, FieldEventIn
<1>10. ev.persona = p /\ ev.subject = k
    BY DEF Event
<1> HIDE DEF ev, s
<1>11. fields'[s] = row /\ \A t \in F!Slots : t # s => fields'[t] = fields[t]
    BY <1>0, <1>1 DEF FieldTable
<1>12. fields'[s].revision <= log.last + 1 /\ {} \in SUBSET {s}
    BY <1>8, <1>11
<1>13. FieldWrite(p, k, ev, {})
    BY <1>1, <1>3, <1>9, <1>10, <1>11, <1>12 DEF FieldWrite, s
<1> QED
    BY <1>13

LEMMA ForgetWrites ==
    ASSUME MemoryInv, BoundInv, NEW p \in Personas, NEW k \in Keys, NEW policy \in F!Policies,
           F!ForgetField(p, k, policy)
    PROVE  \E ev, gone : FieldWrite(p, k, ev, gone)
<1> DEFINE s == <<p, k>>
           due == F!PurgeAfter(policy, now)
           gone == IF F!DestroysNow(policy) THEN {s} ELSE {}
           row == [fields[s] EXCEPT !.forgotten = TRUE, !.purgeAfter = due]
           ev == Event("field.forgotten", p, k, 0, due, NoValue)
<1>0. fields \in FieldTable /\ s \in F!Slots /\ log \in Log /\ log.last \in Nat
    BY FieldRows DEF F!Slots, Log, LogsOf
<1>1. /\ fields' = F!Without([fields EXCEPT ![s] = row], gone) /\ F!Exists(s)
      /\ log.last < MaxWrites /\ UNCHANGED <<now, personas>>
    BY DEF F!ForgetField, F!CanForget, F!Live, F!LiveIn, F!Exists, F!MayRecord
<1>2. log' = StripValues(Appended(log, ev), gone, FieldActions)
    BY FieldOperators DEF F!ForgetField, F!FieldEvent, F!Event, Event
<1>3. due \in Dues
    BY DatesAreDues
<1> HIDE DEF due
<1>4. ev \in FieldEvents /\ ev.persona = p /\ ev.subject = k
    BY <1>3, FieldEventIn DEF Event
<1>5. gone \in SUBSET {s}
    OBVIOUS
<1>6. fields[s] \in F!Row /\ fields[s].revision <= log.last
    BY <1>0, <1>1, FieldRows DEF BoundInv
<1>7. row.revision = fields[s].revision /\ fields[s].revision \in Nat
    BY <1>6 DEF F!Row
<1> HIDE DEF row, ev, gone, s
<1>8. /\ fields'[s] = row \/ fields'[s] = NoRow
      /\ \A t \in F!Slots : t # s => fields'[t] = fields[t]
    <2> DEFINE base == [fields EXCEPT ![s] = row]
    <2>1. base[s] = row /\ \A t \in F!Slots : t # s => base[t] = fields[t]
        BY <1>0 DEF FieldTable
    <2>2. fields' = F!Without(base, gone)
        BY <1>1
    <2> HIDE DEF base
    <2> QED
        BY <1>0, <1>5, <2>1, <2>2 DEF F!Without
<1>9. F!Exists(s)' => fields'[s].revision <= log.last + 1
    BY <1>0, <1>6, <1>7, <1>8 DEF F!Exists
<1>10. FieldWrite(p, k, ev, gone)
    BY <1>1, <1>2, <1>4, <1>5, <1>8, <1>9 DEF FieldWrite, s
<1> QED
    BY <1>10

LEMMA WriteNoteWrites ==
    ASSUME MemoryInv, NEW p \in Personas, NEW id \in NoteIds, N!WriteNote(p, id)
    PROVE  \E ev, gone : NoteWrite(p, id, ev, gone)
<1>0. notes \in NoteTable /\ log \in Log /\ log.last \in Nat
    BY NoteRows DEF Log, LogsOf
<1>1. PICK body \in Bodies, kind \in Kinds, pinned \in BOOLEAN, cap \in NotePinCaps :
            LET row == N!NewNote(p, body, kind, pinned, noteSeq + 1)
            IN  /\ id \notin issued
                /\ p \in personas
                /\ N!MayAdd(notes, p)
                /\ pinned => N!MayPin(notes, p, cap)
                /\ N!MayRecord
                /\ issued' = issued \cup {id}
                /\ noteSeq' = row.seq
                /\ notes' = [notes EXCEPT ![id] = row]
                /\ noteIndex' = N!Indexed(noteIndex, row.seq, row.body)
                /\ log' = N!Appended(log, N!NoteEvent("note.written", p, id, 1, Never, NoValue))
                /\ UNCHANGED <<now, personas>>
    BY DEF N!WriteNote
<1> DEFINE row == N!NewNote(p, body, kind, pinned, noteSeq + 1)
           ev == Event("note.written", p, id, 1, Never, NoValue)
<1>2. log' = Appended(log, ev)
    BY <1>1, NoteOperators DEF N!NoteEvent, N!Event, Event
<1>3. log' = Appended(StripValues(log, {}, NoteActions), ev)
    BY <1>0, <1>2, StripOfNothing
<1>4. log.last < MaxWrites /\ UNCHANGED <<now, personas>>
    BY <1>1 DEF N!MayRecord
<1>5. ev \in NoteEvents /\ ev.persona = p /\ ev.subject = id
    BY NoteEventIn DEF Event
<1>6. row.revision = 1
    BY DEF N!NewNote
<1>7. notes' = [notes EXCEPT ![id] = row]
    BY <1>1
<1> HIDE DEF row, ev
<1>8. notes'[id] = row /\ \A n \in NoteIds : n # id => notes'[n] = notes[n]
    BY <1>0, <1>7 DEF NoteTable
<1>9. notes'[id].revision <= log.last + 1 /\ {} \in SUBSET {<<p, id>>}
    BY <1>0, <1>6, <1>8
<1>10. NoteWrite(p, id, ev, {})
    BY <1>3, <1>4, <1>5, <1>8, <1>9 DEF NoteWrite
<1> QED
    BY <1>10

LEMMA ReviseNoteWrites ==
    ASSUME MemoryInv, BoundInv, NEW p \in Personas, NEW id \in NoteIds, N!ReviseNote(p, id)
    PROVE  \E ev, gone : NoteWrite(p, id, ev, gone)
<1>0. /\ notes \in NoteTable /\ log \in Log /\ log.last \in Nat
      /\ \A n \in NoteIds : N!Exists(n) => notes[n] \in N!Row
    BY NoteRows DEF Log, LogsOf
<1>1. PICK body \in Bodies, kind \in Kinds, pinned \in BOOLEAN, cap \in NotePinCaps,
           logValues \in BOOLEAN :
            LET old == notes[id]
                row == N!RevisedNote(old, body, kind, pinned)
            IN  /\ N!LiveFor(id, p)
                /\ ~N!NothingChanges(old, body, kind, pinned)
                /\ pinned /\ ~old.pinned => N!MayPin(notes, p, cap)
                /\ N!MayRecord
                /\ notes' = [notes EXCEPT ![id] = row]
                /\ noteIndex' = N!Indexed(N!Unindexed(noteIndex, {old.seq}), old.seq, row.body)
                /\ log' = N!Appended(log, N!NoteEvent("note.revised", p, id, row.revision, Never,
                                                     N!KeptBody(old, body, logValues)))
                /\ UNCHANGED <<now, personas, noteSeq, issued>>
    BY DEF N!ReviseNote
<1> DEFINE old == notes[id]
           row == N!RevisedNote(old, body, kind, pinned)
           kept == N!KeptBody(old, body, logValues)
           ev == Event("note.revised", p, id, row.revision, Never, kept)
<1>2. log' = Appended(log, ev)
    BY <1>1, NoteOperators DEF N!NoteEvent, N!Event, Event
<1>3. log' = Appended(StripValues(log, {}, NoteActions), ev)
    BY <1>0, <1>2, StripOfNothing
<1>4. N!Exists(id) /\ old \in N!Row /\ old.revision <= log.last
    BY <1>0, <1>1 DEF N!LiveFor, N!Live, N!LiveIn, N!Exists, BoundInv
<1>5. old.revision \in Nat /\ old.revision >= 1 /\ row.revision = old.revision + 1
    BY <1>4 DEF N!RevisedNote, N!Row
<1>6. kept \in Bodies \cup {NoValue}
    BY <1>4 DEF N!KeptBody, N!Row
<1>7. log.last < MaxWrites /\ UNCHANGED <<now, personas>> /\ notes' = [notes EXCEPT ![id] = row]
    BY <1>1 DEF N!MayRecord
<1> HIDE DEF row, kept, old
<1>8. row.revision \in 2 .. MaxWrites /\ row.revision <= log.last + 1
    BY <1>0, <1>4, <1>5, <1>7, BoundsAssumption
<1>9. ev \in NoteEvents /\ ev.persona = p /\ ev.subject = id
    BY <1>6, <1>8, NoteEventIn DEF Event
<1> HIDE DEF ev
<1>10. notes'[id] = row /\ \A n \in NoteIds : n # id => notes'[n] = notes[n]
    BY <1>0, <1>7 DEF NoteTable
<1>11. notes'[id].revision <= log.last + 1 /\ {} \in SUBSET {<<p, id>>}
    BY <1>8, <1>10
<1>12. NoteWrite(p, id, ev, {})
    BY <1>3, <1>7, <1>9, <1>10, <1>11 DEF NoteWrite
<1> QED
    BY <1>12

LEMMA ForgetNoteWrites ==
    ASSUME MemoryInv, BoundInv, NEW p \in Personas, NEW id \in NoteIds, NEW policy \in N!Policies,
           N!ForgetNote(p, id, policy)
    PROVE  \E ev, gone : NoteWrite(p, id, ev, gone)
<1> DEFINE due == N!PurgeAfter(policy, now)
           ids == IF N!DestroysNow(policy) THEN {id} ELSE {}
           gone == N!Subjects(notes, ids)
           row == N!ForgottenNote(notes[id], due)
           ev == Event("note.forgotten", p, id, 0, due, NoValue)
<1>0. /\ notes \in NoteTable /\ log \in Log /\ log.last \in Nat
      /\ \A n \in NoteIds : N!Exists(n) => notes[n] \in N!Row
    BY NoteRows DEF Log, LogsOf
<1>1. /\ notes' = N!Without([notes EXCEPT ![id] = row], ids)
      /\ N!LiveFor(id, p) /\ log.last < MaxWrites /\ UNCHANGED <<now, personas>>
    BY DEF N!ForgetNote, N!MayRecord
<1>2. N!Exists(id) /\ notes[id] \in N!Row /\ notes[id].persona = p /\ notes[id].revision <= log.last
    BY <1>0, <1>1 DEF N!LiveFor, N!Live, N!LiveIn, N!Exists, BoundInv
<1>3. gone \in SUBSET {<<p, id>>}
    BY <1>2 DEF N!Subjects
<1>4. log' = StripValues(Appended(log, ev), gone, NoteActions)
    BY NoteOperators DEF N!ForgetNote, N!NoteEvent, N!Event, Event
<1>5. due \in Dues
    BY DatesAreDues
<1> HIDE DEF due
<1>6. ev \in NoteEvents /\ ev.persona = p /\ ev.subject = id
    BY <1>5, NoteEventIn DEF Event
<1>7. row.revision = notes[id].revision /\ notes[id].revision \in Nat
    BY <1>2 DEF N!ForgottenNote, N!Row
<1>8. ids = {} \/ ids = {id}
    OBVIOUS
<1> HIDE DEF row, ev, gone, ids
<1>9. /\ notes'[id] = row \/ notes'[id] = NoNote
      /\ \A n \in NoteIds : n # id => notes'[n] = notes[n]
    <2> DEFINE base == [notes EXCEPT ![id] = row]
    <2>1. base[id] = row /\ \A n \in NoteIds : n # id => base[n] = notes[n]
        BY <1>0 DEF NoteTable
    <2>2. notes' = N!Without(base, ids)
        BY <1>1
    <2> HIDE DEF base
    <2> QED
        BY <1>8, <2>1, <2>2 DEF N!Without
<1>10. N!Exists(id)' => notes'[id].revision <= log.last + 1
    BY <1>0, <1>2, <1>7, <1>9 DEF N!Exists
<1>11. NoteWrite(p, id, ev, gone)
    BY <1>1, <1>3, <1>4, <1>6, <1>9, <1>10 DEF NoteWrite
<1> QED
    BY <1>11

\* So much for what the requests are.
LEMMA FieldRequestWrites ==
    ASSUME MemoryInv, BoundInv, FieldRequest
    PROVE  \E p \in Personas, k \in Keys : \E ev, gone : FieldWrite(p, k, ev, gone)
<1>1. PICK p \in Personas, k \in Keys :
        \/ F!SetField(p, k)
        \/ \E policy \in F!Policies : F!ForgetField(p, k, policy)
    BY DEF FieldRequest, F!Policies, Policies
<1>2. \E ev, gone : FieldWrite(p, k, ev, gone)
    <2>1. CASE F!SetField(p, k)
        BY <2>1, InsertWrites, ReviseWrites DEF F!SetField
    <2>2. CASE \E policy \in F!Policies : F!ForgetField(p, k, policy)
        BY <2>2, ForgetWrites
    <2> QED
        BY <1>1, <2>1, <2>2
<1> QED
    BY <1>2

LEMMA NoteRequestWrites ==
    ASSUME MemoryInv, BoundInv, NoteRequest
    PROVE  \E p \in Personas, id \in NoteIds : \E ev, gone : NoteWrite(p, id, ev, gone)
<1>1. PICK p \in Personas, id \in NoteIds :
        \/ N!WriteNote(p, id) \/ N!ReviseNote(p, id)
        \/ \E policy \in N!Policies : N!ForgetNote(p, id, policy)
    BY DEF NoteRequest, N!Policies, Policies
<1> QED
    BY <1>1, WriteNoteWrites, ReviseNoteWrites, ForgetNoteWrites

\* What a batch strips, as the other store sees it.
LEMMA BatchStrips ==
    ASSUME MemoryInv
    PROVE  /\ \A batch \in SUBSET F!Slots :
                  batch \in SUBSET {<<e.persona, e.subject>> : e \in FieldEvents}
           /\ \A batch \in SUBSET NoteIds :
                  N!Subjects(notes, batch) \in SUBSET {<<e.persona, e.subject>> : e \in NoteEvents}
<1>1. Never \in Dues
    BY DEF Dues
<1>2. ASSUME NEW p \in Personas, NEW k \in Keys
      PROVE  <<p, k>> \in {<<e.persona, e.subject>> : e \in FieldEvents}
    <2> DEFINE e == Event("field.forgotten", p, k, 0, Never, NoValue)
    <2>1. e \in FieldEvents /\ e.persona = p /\ e.subject = k
        BY <1>1, FieldEventIn DEF Event
    <2> HIDE DEF e
    <2> QED
        BY <2>1
<1>3. ASSUME NEW p \in Personas, NEW id \in NoteIds
      PROVE  <<p, id>> \in {<<e.persona, e.subject>> : e \in NoteEvents}
    <2> DEFINE e == Event("note.forgotten", p, id, 0, Never, NoValue)
    <2>1. e \in NoteEvents /\ e.persona = p /\ e.subject = id
        BY <1>1, NoteEventIn DEF Event
    <2> HIDE DEF e
    <2> QED
        BY <2>1
<1>4. \A id \in NoteIds : notes[id] # NoNote => notes[id].persona \in Personas
    BY NoteRows DEF N!Exists, N!Row
<1> QED
    BY <1>2, <1>3, <1>4 DEF F!Slots, N!Subjects

\* How far the log comes in one step.
LEMMA LogLast ==
    ASSUME NEW lg \in Log, NEW ev, NEW targets, NEW actions, NEW p
    PROVE  /\ Appended(lg, ev).last = lg.last + 1
           /\ StripValues(lg, targets, actions).last = lg.last
           /\ StripPersonaValues(lg, p).last = lg.last
           /\ Appended(StripValues(lg, targets, actions), ev).last = lg.last + 1
           /\ StripValues(Appended(lg, ev), targets, actions).last = lg.last + 1
<1>1. \A x : Appended(x, ev).last = x.last + 1
    BY DEF Appended
<1>2. lg = [last |-> lg.last, entries |-> lg.entries]
    BY DEF Log, LogsOf
<1>3. /\ StripValues(lg, targets, actions).last = lg.last
      /\ StripPersonaValues(lg, p).last = lg.last
    BY <1>2 DEF StripValues, StripPersonaValues
<1>4. StripValues(Appended(lg, ev), targets, actions).last = Appended(lg, ev).last
    BY DEF Appended, StripValues
<1> QED
    BY <1>1, <1>3, <1>4

\* Steps that lose rows, at most, and record nothing.
LEMMA BoundOnLoss ==
    ASSUME MemoryInv, BoundInv, log'.last = log.last, now' <= MaxTime,
           \A s \in F!Slots : fields'[s] \in {fields[s], NoRow},
           \A id \in NoteIds : notes'[id] \in {notes[id], NoNote}
    PROVE  BoundInv'
BY DEF BoundInv, F!Exists, N!Exists

LEMMA WithoutRows ==
    /\ \A gone : \A s \in F!Slots : F!Without(fields, gone)[s] \in {fields[s], NoRow}
    /\ \A gone : \A id \in NoteIds : N!Without(notes, gone)[id] \in {notes[id], NoNote}
BY DEF F!Without, N!Without

LEMMA BoundInit == Init => BoundInv
BY BoundsAssumption DEF Init, StoreInit, F!FieldInit, N!NoteInit, BoundInv, F!Exists, N!Exists

LEMMA BoundKept == MemoryInv /\ BoundInv /\ [Next]_vars => BoundInv'
<1> SUFFICES ASSUME MemoryInv, BoundInv, [Next]_vars PROVE BoundInv'
    OBVIOUS
<1>0. log \in Log /\ log.last \in Nat /\ now \in Nat /\ now <= MaxTime
    BY FieldRows DEF Log, LogsOf, BoundInv
<1>a. /\ \A s \in F!Slots : F!Exists(s) => fields[s].revision \in Nat
      /\ \A id \in NoteIds : N!Exists(id) => notes[id].revision \in Nat
    BY FieldRows, NoteRows DEF F!Row, N!Row
<1>1. CASE FieldRequest
    <2>1. PICK p \in Personas, k \in Keys : \E ev, gone : FieldWrite(p, k, ev, gone)
        BY <1>1, FieldRequestWrites
    <2>2. PICK ev, gone : FieldWrite(p, k, ev, gone)
        BY <2>1
    <2>3. log'.last = log.last + 1 /\ now' = now
        BY <1>0, <2>2, LogLast DEF FieldWrite
    <2>4. notes' = notes
        BY <1>1 DEF FieldRequest, noteVars
    <2>5. ASSUME NEW s \in F!Slots, F!Exists(s)' PROVE fields'[s].revision <= log'.last
        <3>1. CASE s = <<p, k>>
            BY <2>2, <2>3, <2>5, <3>1 DEF FieldWrite
        <3>2. CASE s # <<p, k>>
            <4>1. fields'[s] = fields[s]
                BY <2>2, <3>2 DEF FieldWrite
            <4>2. F!Exists(s) /\ fields[s].revision <= log.last
                BY <2>5, <4>1 DEF F!Exists, BoundInv
            <4> QED
                BY <1>0, <1>a, <2>3, <4>1, <4>2
        <3> QED
            BY <3>1, <3>2
    <2>6. ASSUME NEW id \in NoteIds, N!Exists(id)' PROVE notes'[id].revision <= log'.last
        <3>1. N!Exists(id) /\ notes[id].revision <= log.last
            BY <2>4, <2>6 DEF N!Exists, BoundInv
        <3> QED
            BY <1>0, <1>a, <2>3, <2>4, <3>1
    <2> QED
        BY <1>0, <2>3, <2>5, <2>6 DEF BoundInv
<1>2. CASE NoteRequest
    <2>1. PICK p \in Personas, id \in NoteIds : \E ev, gone : NoteWrite(p, id, ev, gone)
        BY <1>2, NoteRequestWrites
    <2>2. PICK ev, gone : NoteWrite(p, id, ev, gone)
        BY <2>1
    <2>3. log'.last = log.last + 1 /\ now' = now
        BY <1>0, <2>2, LogLast DEF NoteWrite
    <2>4. fields' = fields
        BY <1>2 DEF NoteRequest, fieldVars
    <2>5. ASSUME NEW n \in NoteIds, N!Exists(n)' PROVE notes'[n].revision <= log'.last
        <3>1. CASE n = id
            BY <2>2, <2>3, <2>5, <3>1 DEF NoteWrite
        <3>2. CASE n # id
            <4>1. notes'[n] = notes[n]
                BY <2>2, <3>2 DEF NoteWrite
            <4>2. N!Exists(n) /\ notes[n].revision <= log.last
                BY <2>5, <4>1 DEF N!Exists, BoundInv
            <4> QED
                BY <1>0, <1>a, <2>3, <4>1, <4>2
        <3> QED
            BY <3>1, <3>2
    <2>6. ASSUME NEW s \in F!Slots, F!Exists(s)' PROVE fields'[s].revision <= log'.last
        <3>1. F!Exists(s) /\ fields[s].revision <= log.last
            BY <2>4, <2>6 DEF F!Exists, BoundInv
        <3> QED
            BY <1>0, <1>a, <2>3, <2>4, <3>1
    <2> QED
        BY <1>0, <2>3, <2>5, <2>6 DEF BoundInv
<1>3. CASE DeletePersona
    <2>1. PICK p \in Personas : DropPersona(p) /\ F!DropFieldsOf(p) /\ N!DropNotesOf(p)
        BY <1>3 DEF DeletePersona, DropRowsOf
    <2>2. /\ log' = StripPersonaValues(log, p) /\ now' = now
          /\ fields' = F!Without(fields, {p} \X Keys) /\ notes' = N!Without(notes, N!NotesOf(p))
        BY <2>1 DEF DropPersona, F!DropFieldsOf, N!DropNotesOf
    <2>3. log'.last = log.last
        BY <1>0, <2>2, LogLast
    <2> QED
        BY <1>0, <2>2, <2>3, WithoutRows, BoundOnLoss
<1>4. CASE SweepFields /\ F!PurgeDueFields
    <2>1. PICK batch \in F!FieldBatches :
            /\ fields' = F!Without(fields, batch)
            /\ log' = F!StripValues(log, batch, F!FieldActions)
            /\ now' = now
        BY <1>4 DEF F!PurgeDueFields
    <2>2. log'.last = log.last
        BY <1>0, <2>1, FieldOperators, LogLast
    <2>3. notes' = notes
        BY <1>4 DEF SweepFields, noteVars
    <2> QED
        BY <1>0, <2>1, <2>2, <2>3, WithoutRows, BoundOnLoss
<1>5. CASE SweepNotes /\ N!PurgeDueNotes(sweptAt)
    <2>1. PICK batch \in N!NoteBatches(sweptAt) :
            /\ notes' = N!Without(notes, batch)
            /\ log' = N!StripValues(log, N!Subjects(notes, batch), N!NoteActions)
            /\ now' = now
        BY <1>5 DEF N!PurgeDueNotes
    <2>2. log'.last = log.last
        BY <1>0, <2>1, NoteOperators, LogLast
    <2>3. fields' = fields
        BY <1>5 DEF SweepNotes, fieldVars
    <2> QED
        BY <1>0, <2>1, <2>2, <2>3, WithoutRows, BoundOnLoss
<1>6. CASE Elsewhere
    <2>1. log' = log /\ fields' = fields /\ notes' = notes
        BY <1>6 DEF Elsewhere, Tick, AddPersona, fieldVars, noteVars
    <2>2. now' <= MaxTime
        BY <1>0, <1>6, BoundsAssumption DEF Elsewhere, Tick, AddPersona
    <2> QED
        BY <2>1, <2>2, BoundOnLoss
<1>7. CASE UNCHANGED <<storeVars, fieldVars, noteVars>>
    BY <1>7 DEF storeVars, fieldVars, noteVars, BoundInv, F!Exists, N!Exists
<1> QED
    BY <1>1, <1>2, <1>3, <1>4, <1>5, <1>6, <1>7
       DEF Next, Sweeping, SweepFields, SweepNotes, RequestTruncates, RequestCancelled,
           SweepTruncates, WakeUp, SweepFails, Restart, vars

\* What one store's transactions are to the other's module.
LEMMA NoteWriteIsOther ==
    ASSUME NEW p, NEW id, NEW ev, NEW gone, NoteWrite(p, id, ev, gone)
    PROVE  F!OtherTransaction(NoteEvents, F!NoteActions)
<1>1. /\ ev \in NoteEvents /\ gone \in SUBSET {<<ev.persona, ev.subject>>}
      /\ UNCHANGED <<now, personas>> /\ F!MayRecord
    BY DEF NoteWrite, F!MayRecord
<1>2. \/ log' = F!Appended(F!StripValues(log, gone, F!NoteActions), ev)
      \/ log' = F!StripValues(F!Appended(log, ev), gone, F!NoteActions)
    BY FieldOperators, SharedOperators DEF NoteWrite
<1> QED
    BY <1>1, <1>2 DEF F!OtherTransaction

LEMMA FieldWriteIsOther ==
    ASSUME NEW p, NEW k, NEW ev, NEW gone, FieldWrite(p, k, ev, gone)
    PROVE  N!OtherTransaction(FieldEvents, N!FieldActions)
<1>1. /\ ev \in FieldEvents /\ gone \in SUBSET {<<ev.persona, ev.subject>>}
      /\ UNCHANGED <<now, personas>> /\ N!MayRecord
    BY DEF FieldWrite, N!MayRecord
<1>2. \/ log' = N!Appended(N!StripValues(log, gone, N!FieldActions), ev)
      \/ log' = N!StripValues(N!Appended(log, ev), gone, N!FieldActions)
    BY NoteOperators, SharedOperators DEF FieldWrite
<1> QED
    BY <1>1, <1>2 DEF N!OtherTransaction

LEMMA NotePurgeIsOther ==
    ASSUME MemoryInv, NEW time, N!PurgeDueNotes(time)
    PROVE  F!OtherTransaction(NoteEvents, F!NoteActions)
<1>1. PICK batch \in N!NoteBatches(time) :
        /\ log' = N!StripValues(log, N!Subjects(notes, batch), N!NoteActions)
        /\ UNCHANGED <<now, personas>>
    BY DEF N!PurgeDueNotes
<1>2. batch \in SUBSET NoteIds
    BY DEF N!NoteBatches, N!DueNotes
<1>3. N!Subjects(notes, batch) \in SUBSET {<<e.persona, e.subject>> : e \in NoteEvents}
    BY <1>2, BatchStrips
<1>4. log' = F!StripValues(log, N!Subjects(notes, batch), F!NoteActions)
    BY <1>1, NoteOperators, FieldOperators, SharedOperators
<1> QED
    BY <1>1, <1>3, <1>4 DEF F!OtherTransaction

LEMMA FieldPurgeIsOther ==
    ASSUME MemoryInv, F!PurgeDueFields
    PROVE  N!OtherTransaction(FieldEvents, N!FieldActions)
<1>1. PICK batch \in F!FieldBatches :
        /\ log' = F!StripValues(log, batch, F!FieldActions)
        /\ UNCHANGED <<now, personas>>
    BY DEF F!PurgeDueFields
<1>2. batch \in SUBSET F!Slots
    BY DEF F!FieldBatches, F!DueFields
<1>3. batch \in SUBSET {<<e.persona, e.subject>> : e \in FieldEvents}
    BY <1>2, BatchStrips
<1>4. log' = N!StripValues(log, batch, N!FieldActions)
    BY <1>1, NoteOperators, FieldOperators, SharedOperators
<1> QED
    BY <1>1, <1>3, <1>4 DEF N!OtherTransaction

\* The steps that both modules take from Store.
LEMMA SharedSteps ==
    /\ Tick => F!Tick /\ N!Tick
    /\ \A p : AddPersona(p) => F!AddPersona(p) /\ N!AddPersona(p)
    /\ \A p : DropPersona(p) => F!DropPersona(p) /\ N!DropPersona(p)
BY SharedOperators DEF Tick, F!Tick, N!Tick, AddPersona, F!AddPersona, N!AddPersona,
                       DropPersona, F!DropPersona, N!DropPersona

\* Every step of the whole is one of the field store or leaves it alone.
LEMMA FieldStoreGoesOn == MemoryInv /\ BoundInv /\ [Next]_vars => [F!Next]_(F!vars)
<1> SUFFICES ASSUME MemoryInv, BoundInv, [Next]_vars
             PROVE  F!Next \/ UNCHANGED F!vars
    OBVIOUS
<1>1. CASE FieldRequest
    <2>1. PICK p \in Personas, k \in Keys :
            \/ F!SetField(p, k)
            \/ \E policy \in F!Policies : F!ForgetField(p, k, policy)
        BY <1>1 DEF FieldRequest, F!Policies, Policies
    <2>2. F!FieldOperation
        BY <2>1 DEF F!FieldOperation
    <2> QED
        BY <2>2 DEF F!Next
<1>2. CASE NoteRequest
    <2>1. F!OtherTransaction(NoteEvents, F!NoteActions)
        BY <1>2, NoteRequestWrites, NoteWriteIsOther
    <2>2. UNCHANGED F!fieldVars
        BY <1>2 DEF NoteRequest, fieldVars, F!fieldVars
    <2> QED
        BY <2>1, <2>2 DEF F!Next, F!Elsewhere
<1>3. CASE DeletePersona
    <2>1. PICK p \in Personas : DropPersona(p) /\ F!DropFieldsOf(p)
        BY <1>3 DEF DeletePersona, DropRowsOf
    <2> QED
        BY <2>1, SharedSteps DEF F!Next
<1>4. CASE SweepFields /\ F!PurgeDueFields
    BY <1>4 DEF F!Next, F!FieldOperation
<1>5. CASE SweepNotes /\ N!PurgeDueNotes(sweptAt)
    <2>1. F!OtherTransaction(NoteEvents, F!NoteActions)
        BY <1>5, NotePurgeIsOther
    <2>2. UNCHANGED F!fieldVars
        BY <1>5 DEF SweepNotes, fieldVars, F!fieldVars
    <2> QED
        BY <2>1, <2>2 DEF F!Next, F!Elsewhere
<1>6. CASE Elsewhere
    <2>1. UNCHANGED F!fieldVars
        BY <1>6 DEF Elsewhere, fieldVars, F!fieldVars
    <2>2. F!Tick \/ \E p \in Personas : F!AddPersona(p)
        BY <1>6, SharedSteps DEF Elsewhere
    <2> QED
        BY <2>1, <2>2 DEF F!Next, F!Elsewhere
<1>7. CASE UNCHANGED <<storeVars, fieldVars>>
    BY <1>7 DEF storeVars, fieldVars, F!vars, F!storeVars, F!fieldVars
<1> QED
    BY <1>1, <1>2, <1>3, <1>4, <1>5, <1>6, <1>7
       DEF Next, Sweeping, SweepFields, SweepNotes, RequestTruncates, RequestCancelled,
           SweepTruncates, WakeUp, SweepFails, Restart, vars

\* And of the note store, whose purge goes by the sweep's reading of the clock.
LEMMA NoteStoreGoesOn == MemoryInv /\ BoundInv /\ ClockInv /\ [Next]_vars => [N!Next]_(N!vars)
<1> SUFFICES ASSUME MemoryInv, BoundInv, ClockInv, [Next]_vars
             PROVE  N!Next \/ UNCHANGED N!vars
    OBVIOUS
<1>1. CASE NoteRequest
    <2>1. PICK p \in Personas, id \in NoteIds :
            \/ N!WriteNote(p, id) \/ N!ReviseNote(p, id)
            \/ \E policy \in N!Policies : N!ForgetNote(p, id, policy)
        BY <1>1 DEF NoteRequest, N!Policies, Policies
    <2>2. N!NoteOperation
        BY <2>1 DEF N!NoteOperation
    <2> QED
        BY <2>2 DEF N!Next
<1>2. CASE FieldRequest
    <2>1. N!OtherTransaction(FieldEvents, N!FieldActions)
        BY <1>2, FieldRequestWrites, FieldWriteIsOther
    <2>2. UNCHANGED N!noteVars
        BY <1>2 DEF FieldRequest, noteVars, N!noteVars
    <2> QED
        BY <2>1, <2>2 DEF N!Next, N!Elsewhere
<1>3. CASE DeletePersona
    <2>1. PICK p \in Personas : DropPersona(p) /\ N!DropNotesOf(p)
        BY <1>3 DEF DeletePersona, DropRowsOf
    <2> QED
        BY <2>1, SharedSteps DEF N!Next
<1>4. CASE SweepNotes /\ N!PurgeDueNotes(sweptAt)
    <2>1. sweptAt \in 0 .. now
        BY NoteRows DEF ClockInv
    <2> QED
        BY <1>4, <2>1 DEF N!Next, N!NoteOperation
<1>5. CASE SweepFields /\ F!PurgeDueFields
    <2>1. N!OtherTransaction(FieldEvents, N!FieldActions)
        BY <1>5, FieldPurgeIsOther
    <2>2. UNCHANGED N!noteVars
        BY <1>5 DEF SweepFields, noteVars, N!noteVars
    <2> QED
        BY <2>1, <2>2 DEF N!Next, N!Elsewhere
<1>6. CASE Elsewhere
    <2>1. UNCHANGED N!noteVars
        BY <1>6 DEF Elsewhere, noteVars, N!noteVars
    <2>2. N!Tick \/ \E p \in Personas : N!AddPersona(p)
        BY <1>6, SharedSteps DEF Elsewhere
    <2> QED
        BY <2>1, <2>2 DEF N!Next, N!Elsewhere
<1>7. CASE UNCHANGED <<storeVars, noteVars>>
    BY <1>7 DEF storeVars, noteVars, N!vars, N!storeVars, N!noteVars
<1> QED
    BY <1>1, <1>2, <1>3, <1>4, <1>5, <1>6, <1>7
       DEF Next, Sweeping, SweepFields, SweepNotes, RequestTruncates, RequestCancelled,
           SweepTruncates, WakeUp, SweepFails, Restart, vars

\* Fields and notes share the personas table and one change log, which each of them
\* trims and strips, and one sweep with its failures, cancelled requests and restarts;
\* still each is exactly the store its own module specifies: every transaction of the
\* other is one that module allows for (events/sql_log.py append and strip_values, as
\* memory/fields.py, memory/notes.py and memory/sweeper.py call them).
THEOREM EachStoreIsItself == Spec => ImplementsBothStores
<1>1. Init => MemoryInv /\ BoundInv /\ ClockInv
    <2>1. Init => ClockInv
        BY DEF Init, StoreInit, ClockInv
    <2> QED
        BY <2>1, InitMemory, BoundInit
<1>2. MemoryInv /\ BoundInv /\ ClockInv /\ [Next]_vars => MemoryInv' /\ BoundInv' /\ ClockInv'
    BY NextMemory, BoundKept, ClockKept
<1>3. Init => F!Init /\ N!Init
    <2>1. F!EmptyLog = EmptyLog /\ N!EmptyLog = EmptyLog
        BY DEF F!EmptyLog, N!EmptyLog, EmptyLog
    <2> QED
        BY <2>1 DEF Init, StoreInit, F!Init, F!StoreInit, N!Init, N!StoreInit
<1> QED
    BY <1>1, <1>2, <1>3, FieldStoreGoesOn, NoteStoreGoesOn, PTL
       DEF Spec, ImplementsBothStores, F!Spec, N!Spec
=============================================================================
