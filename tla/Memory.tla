-------------------------------- MODULE Memory --------------------------------
(***************************************************************************)
(* A persona's whole memory and what destroys it: FieldStore and NoteStore *)
(* over one database and one log, the requests that use them, and the      *)
(* sweeping task (src/persona_api/memory/sweeper.py, core/container.py)    *)
(* with its three awaits, its failures, and the process's stops and starts.*)
(*                                                                         *)
(* What is destroyed is still readable in the write-ahead log until a      *)
(* truncating checkpoint, a call of its own after the commit.  "residue"   *)
(* says whether anything is.                                               *)
(***************************************************************************)
EXTENDS Store, FiniteSets

CONSTANTS Keys, Values, Descriptions, NoRow, MaxFields, MaxPinnedFields, FieldPinCaps,
          NoteIds, Bodies, Kinds, NoNote, MaxNotes, MaxPinnedNotes, NotePinCaps,
          SweepBatch,    \* SWEEP_BATCH
          MaxOwing,      \* bound: requests between their commit and their checkpoint
          MaxMishaps     \* bound: failed sweeps, cancelled requests and restarts

VARIABLES fields, fieldSeq, fieldIndex,
          notes, noteSeq, noteIndex, issued,
          sweep,         \* the await the sweeping task stands at
          sweptAt,       \* sweep_once's now
          purged,        \* whether this sweep has destroyed anything
          residue,       \* whether destroyed bytes are left in the write-ahead log
          owing,         \* requests that have destroyed something and not truncated yet
          failures, cancels, restarts

\* The events that each store writes: all that the other sees of it.
Dues == {Never} \cup {t + g : t \in 0 .. MaxTime, g \in GracePeriods}

FieldEvents ==
    [action : {"field.set"}, persona : Personas, subject : Keys,
     revision : {1}, due : {Never}, oldValue : {NoValue}]
        \cup [action : {"field.set", "field.revised"}, persona : Personas, subject : Keys,
              revision : 2 .. MaxWrites, due : {Never}, oldValue : Values \cup {NoValue}]
        \cup [action : {"field.forgotten"}, persona : Personas, subject : Keys,
              revision : {0}, due : Dues, oldValue : {NoValue}]

NoteEvents ==
    [action : {"note.written"}, persona : Personas, subject : NoteIds,
     revision : {1}, due : {Never}, oldValue : {NoValue}]
        \cup [action : {"note.revised"}, persona : Personas, subject : NoteIds,
              revision : 2 .. MaxWrites, due : {Never}, oldValue : Bodies \cup {NoValue}]
        \cup [action : {"note.forgotten"}, persona : Personas, subject : NoteIds,
              revision : {0}, due : Dues, oldValue : {NoValue}]

F == INSTANCE FieldStore WITH
        MaxPinned <- MaxPinnedFields, PinCaps <- FieldPinCaps, FieldBatch <- SweepBatch
N == INSTANCE NoteStore WITH
        MaxPinned <- MaxPinnedNotes, PinCaps <- NotePinCaps, NoteBatch <- SweepBatch

fieldVars == <<fields, fieldSeq, fieldIndex>>
noteVars == <<notes, noteSeq, noteIndex, issued>>
sweepVars == <<sweep, sweptAt, purged>>
mishaps == <<failures, cancels, restarts>>
vars == <<storeVars, fieldVars, noteVars, sweepVars, residue, owing, mishaps>>

ASSUME MemoryAssumption ==
    \* What the stores assume of their own NULLs.
    /\ NoRow \notin F!Row /\ NoNote \notin N!Row
    /\ NoValue \notin Values \cup Bodies
    \* And of their caps and of the sweeper's batch.
    /\ {MaxFields, MaxPinnedFields, MaxNotes, MaxPinnedNotes} \subseteq Nat
    /\ FieldPinCaps \subseteq 0..MaxPinnedFields /\ NotePinCaps \subseteq 0..MaxPinnedNotes
    /\ SweepBatch \in Nat \ {0}
    /\ MaxOwing \in Nat /\ MaxMishaps \in Nat

Steps == {"fields", "notes", "checkpoint", "asleep"}

Init ==
    /\ StoreInit /\ F!FieldInit /\ N!NoteInit
    /\ sweep = "fields" /\ sweptAt = 0 /\ purged = FALSE
    /\ residue = FALSE /\ owing = 0
    /\ failures = 0 /\ cancels = 0 /\ restarts = 0

MayMishap == failures + cancels + restarts < MaxMishaps

-----------------------------------------------------------------------------
(* Requests. *)

\* Rows that end with this step.
Destroys ==
    \/ \E s \in F!Slots : F!Exists(s) /\ ~F!Survives(s)
    \/ \E id \in NoteIds : N!Exists(id) /\ notes'[id] = NoNote

\* A request that destroyed something owes a checkpoint; others owe nothing.
Aftermath ==
    /\ residue' = (residue \/ Destroys)
    /\ owing' = owing + (IF Destroys THEN 1 ELSE 0)
    /\ owing' <= MaxOwing
    /\ UNCHANGED <<sweepVars, mishaps>>

FieldRequest ==
    /\ \E p \in Personas, k \in Keys :
          F!SetField(p, k) \/ \E policy \in Policies : F!ForgetField(p, k, policy)
    /\ UNCHANGED noteVars
    /\ Aftermath

NoteRequest ==
    /\ \E p \in Personas, id \in NoteIds :
          \/ N!WriteNote(p, id) \/ N!ReviseNote(p, id)
          \/ \E policy \in Policies : N!ForgetNote(p, id, policy)
    /\ UNCHANGED fieldVars
    /\ Aftermath

\* personas/store.py delete: one transaction over both tables.
MutDropRowsOf(p) == F!DropFieldsOf(p) /\ UNCHANGED noteVars
DropRowsOf(p) == F!DropFieldsOf(p) /\ N!DropNotesOf(p)

DeletePersona ==
    /\ \E p \in Personas : DropPersona(p) /\ DropRowsOf(p)
    /\ owing < MaxOwing
    /\ residue' = TRUE /\ owing' = owing + 1
    /\ UNCHANGED <<sweepVars, mishaps>>

\* Nobody's rows change: the clock, a new persona.
Elsewhere ==
    /\ Tick \/ \E p \in Personas : AddPersona(p)
    /\ UNCHANGED <<fieldVars, noteVars, sweepVars, residue, owing, mishaps>>

RequestTruncates ==
    /\ owing > 0
    /\ residue' = FALSE /\ owing' = owing - 1
    /\ UNCHANGED <<storeVars, fieldVars, noteVars, sweepVars, mishaps>>

RequestCancelled ==
    /\ owing > 0 /\ MayMishap
    /\ owing' = owing - 1 /\ cancels' = cancels + 1
    /\ UNCHANGED <<storeVars, fieldVars, noteVars, sweepVars, residue, failures, restarts>>

-----------------------------------------------------------------------------
(* The sweeping task: sweep, then wait.  Each await is a step. *)

SweepFields ==
    /\ sweep = "fields"
    /\ \/ /\ F!PurgeDueFields
          /\ purged' = TRUE /\ residue' = TRUE
       \/ /\ F!DueFields = {}
          /\ purged' = FALSE
          /\ UNCHANGED <<storeVars, fieldVars, residue>>
    /\ sweep' = "notes" /\ sweptAt' = now
    /\ UNCHANGED <<noteVars, owing, mishaps>>

\* Whether the sweep has anything to finish: what either table lost.
MutAnythingPurged(before, here) == here
AnythingPurged(before, here) == before \/ here

SweepNotes ==
    /\ sweep = "notes"
    /\ \/ /\ N!PurgeDueNotes(sweptAt)
          /\ purged' = AnythingPurged(purged, TRUE) /\ residue' = TRUE
       \/ /\ N!DueNotes(sweptAt) = {}
          /\ purged' = AnythingPurged(purged, FALSE)
          /\ UNCHANGED <<storeVars, noteVars, residue>>
    /\ sweep' = IF purged' THEN "checkpoint" ELSE "asleep"
    /\ UNCHANGED <<fieldVars, sweptAt, owing, mishaps>>

SweepTruncates ==
    /\ sweep = "checkpoint"
    /\ residue' = FALSE
    /\ sweep' = "asleep"
    /\ UNCHANGED <<storeVars, fieldVars, noteVars, sweptAt, purged, owing, mishaps>>

\* Any exception of the three calls: sweep_guarded logs it and the task waits.
MutAfterFailure == "stopped"
AfterFailure == "asleep"

SweepFails ==
    /\ sweep \in {"fields", "notes", "checkpoint"} /\ MayMishap
    /\ sweep' = AfterFailure /\ failures' = failures + 1
    /\ UNCHANGED <<storeVars, fieldVars, noteVars, sweptAt, purged, residue, owing, cancels, restarts>>

WakeUp ==
    /\ sweep = "asleep"
    /\ sweep' = "fields"
    /\ UNCHANGED <<storeVars, fieldVars, noteVars, sweptAt, purged, residue, owing, mishaps>>

\* The process ends and starts again, its first act a sweep.  A crash leaves the
\* write-ahead log as it is; an orderly shutdown closes the last connection,
\* which checkpoints and removes it.
Restart ==
    /\ MayMishap
    /\ residue' \in {residue, FALSE}
    /\ owing' = 0 /\ restarts' = restarts + 1
    /\ sweep' = "fields" /\ purged' = FALSE
    /\ UNCHANGED <<storeVars, fieldVars, noteVars, sweptAt, failures, cancels>>

-----------------------------------------------------------------------------

Sweeping == SweepFields \/ SweepNotes \/ SweepTruncates \/ WakeUp

Next ==
    \/ FieldRequest \/ NoteRequest \/ DeletePersona \/ Elsewhere
    \/ RequestTruncates \/ RequestCancelled
    \/ Sweeping \/ SweepFails \/ Restart

\* The task's loop never returns, its sleep ends, and the database's only thread
\* runs what is submitted to it in order: the task always gets its turn.
Fairness == WF_vars(Sweeping)

Spec == Init /\ [][Next]_vars /\ Fairness

-----------------------------------------------------------------------------

\* A value the log kept is somebody's: the row it was copied from, found by the
\* noun of the event as well as by its subject, still exists.  A field's key and
\* a note's id may be the same text.
KeptValuesHaveRows ==
    \A e \in log.entries : e.oldValue # NoValue =>
        \/ /\ e.action \in FieldActions
           /\ F!Exists(<<e.persona, e.subject>>)
        \/ /\ e.action \in NoteActions
           /\ N!Exists(e.subject) /\ notes[e.subject].persona = e.persona

RowSurvives(e) ==
    \/ e.action \in FieldActions /\ F!Survives(<<e.persona, e.subject>>)
    \/ e.action \in NoteActions /\ notes'[e.subject] # NoNote

\* Destroying one row takes nothing from another: as long as the row lives, the
\* log gives up a value it kept about it only by trimming the entry away.
StripsReachNoOtherRow ==
    [][\A e \in log.entries : e.oldValue # NoValue /\ RowSurvives(e) =>
          \A f \in log'.entries : f.sequence = e.sequence => f = e]_vars

\* Each store keeps beside the other, the sweep and every mishap what it promises
\* alone: no row is destroyed before its date unless its persona is, none comes back
\* after it, and nothing reschedules it, though the sweep reads the clock once for
\* both tables.
StoresImplementLifecycle == F!ImplementsLifecycle /\ N!ImplementsLifecycle

\* Beside the other store, the sweep and every mishap each store is the store that
\* its own module specifies, the other's transactions being those it expects on the
\* log they share: whatever holds of a store alone holds of both together.
ImplementsBothStores == F!Spec /\ N!Spec

\* When nothing went wrong on the way, a sweep that has gone back to sleep has
\* left nothing readable of what it destroyed: what is left is a request's to
\* truncate.
SweepFinishes ==
    sweep = "asleep" /\ failures = 0 /\ cancels = 0 /\ restarts = 0 /\ owing = 0 => ~residue

\* A row whose time is over is destroyed in the end, also when a backlog is
\* larger than a batch, when sweeps fail and when the process restarts.
DueIsDestroyed ==
    /\ \A s \in F!Slots : \A n \in 1..MaxWrites :
          (F!PastDue(s) /\ fields[s].seq = n) ~> ~(F!Exists(s) /\ fields[s].seq = n)
    /\ \A id \in NoteIds : N!PastDue(id) ~> ~N!Exists(id)

\* "surviving any failure, so the next tick can try again" (core/container.py):
\* a tick after a failed one, that gets through both tables and has nothing left
\* to do, leaves no destroyed text behind.  Requests that were cancelled, and
\* restarts, apart.
SweptMeansGone ==
    [][sweep = "notes" /\ sweep' = "asleep" /\ failures' = failures
         /\ cancels = 0 /\ restarts = 0 /\ owing = 0 => ~residue']_vars
=============================================================================
