# Persona API in TLA+

persona-api keeps what assistants know about a person: per *persona* (an account and a
profile) an identity card, structured *fields*, free-text *notes* and a *change log*. It is one
asyncio process over one SQLite file. These modules model what that process does to the file,
the configurations check the models with TLC, and the `*_proofs` modules prove with TLAPS, for every
value of the constants, the invariants and action properties that the configurations check.
`PROJECT.json` maps every definition to the lines it stands for.

Source paths below are relative to `src/src/persona_api/`.

## 1. The system

| Component | State | Operations |
| --- | --- | --- |
| Field store, `memory/fields.py` | `fields`, `fields_fts`, its docid counter | `set` (insert, revise, revive, replace a row past its date), `forget`, `purge_due`; reads |
| Note store, `memory/notes.py` | `notes`, `notes_fts`, its docid counter | `write`, `revise`, `forget`, `purge_due`; reads |
| Change log, `events/sql_log.py` | `events`, its AUTOINCREMENT | `append` and trim inside a caller's transaction, `record` in one of its own, `strip_values`, `strip_persona_values`, `recent` |
| Persona store and service, `personas/` | `personas` | `create`, `ensure`, `update`, `delete`, `get`; `identity`, `export`, `recall` |
| Routers, `api/routers/personas.py` | none | which calls a request awaits, in which order |
| Erasure policy, `domain/erasure.py` | `purge_after` columns | tombstone, grace, immediate |
| Sweeper, `memory/sweeper.py`, `core/container.py` | the background task | sweep: fields, notes, checkpoint; sleep; start and stop |
| Database, `storage/database.py` | connection, one thread, WAL file | `run`, `transact`, `checkpoint_truncate`, `close` |
| Preferences, `core/preferences.py` | none (a client of settings-api) | a person's caps, erasure mode, `log_values`, default persona |
| Migrator, `storage/migrator.py` | `schema_version` | apply pending scripts, one transaction each |
| Pagination, `memory/pagination.py`, `domain/cursors.py` | none | keyset pages and cursors |
| Search, `memory/search.py` | none | query rewriting |
| Domain values, credential refusal, token verification, configuration, schemas, errors, health | none | validation, parsing, wiring |

**How they interact.** A request awaits the service or a store; a store submits one callable to
the executor's only thread, where it runs between `BEGIN IMMEDIATE` and `COMMIT`. So a
transaction is indivisible, and everything else is not: a request of several awaits, the sweeping
task and other requests interleave at every await. Stores hand the log their own connection, so a
row and its event commit together; `PersonaService` records its events in transactions of their
own. A persona's deletion reaches fields and notes through a foreign key, and their index rows
through triggers.

**What is hard.** Requests of several transactions (`ensure` then `add` then `record` then `set`;
read-merge-write in a PATCH). Four records of one fact (row, index entry, words in the index's
segments, newest event and the values it kept), written by hand on every path. Destruction that
is only complete with a checkpoint after the commit, which a cancelled request or a failed sweep
never reaches. Grace periods racing with writes and with the sweep. Caps that count live rows,
where revival makes rows live. Pages read while rows move. A start that dies inside a migration and
is tried again, perhaps by another release; a stop while a request's or the sweep's callable is
still on the thread.

**What makes each part correct.**

- *Stores*: the index is exactly the live rows; destroyed rows leave no words, no kept values and
  no documents; a row leaves only when due or with its persona; the log's newest word about a row
  is true; caps hold.
- *Log*: it is exactly its newest `max_entries` entries, whoever writes; stripping reaches every
  entry about a destroyed row and none about another.
- *Service*: caps under concurrent creation; a row belongs to the persona that now has the name;
  the log tells as many creations and deletions as there were; an answered deletion is complete; a
  read of several calls mixes no persona with its predecessor.
- *Sweeper*: what is due is destroyed in the end; a sweep ends with its checkpoint.
- *Process*: the schema is that of the migrations the file records, whatever interrupted a start;
  the close is the last thing the thread does; an orderly stop ends and leaves nothing readable.
- *Pagination*: nothing twice, nothing skipped that stayed in its place.

## 2. The modules

```
EventLog     SearchIndex        pure: the log and an index as values
    \           /    \
    Store      /      \         personas, log, clock; erasure policies
     |   \    /        \
     |  FieldStore   NoteStore  one action per transaction
     |      |  \      /   \
     |      |  Lifecycle   |    what both implement
     |      |              |
     +---- Memory ---------+    both stores, requests, the sweeping task
PersonaService                  requests in flight, one action per await
Process                         start, migrations, the executor, stop, crash
Pagination                      a walk over pages
Preferences                     settings-api, and requests that ask it
*_proofs                        theorems about FieldStore, NoteStore, Memory, PersonaService,
                                Process, Preferences, Pagination; lemmas about EventLog
MC*                             instances for TLC
```

- **EventLog** is `SqlEventLog`: `Appended` inserts and trims, `StripValues` and
  `StripPersonaValues` take kept values away, always inside a caller's step. Ids, timestamps and
  provenance are left out; the detail of an event is the revision or the erasure date it names.
- **SearchIndex** is an FTS5 table: `entries` are what a search can match, `words` the docids whose
  words still stand in the segments on disk. `Unindexed` changes the first only, `Optimized` is
  `drop_deleted_terms`.
- **Store** has what every store touches, and `Policies`/`PurgeAfter` of `domain/erasure.py`. The
  clock reading that a transaction uses and its submission are one uninterrupted stretch of the
  event loop, and the executor is first in first out, so transactions run in the order of their
  readings; `now` may therefore be read inside the step. `OtherTransaction` is what a store sees of
  another's transaction: rows of its own are untouched, but the one log gains an event, is trimmed, and
  gives up values of the other's noun.
- **FieldStore** has one action per transaction: `SetField` (with `InsertField` and `ReviseField`,
  the two halves of `set`), `ForgetField`, `PurgeDueFields`, and `DropFieldsOf`, the cascade. A
  write that is refused, or that changes nothing, is no step. Every preference a request may
  carry (pin cap, erasure policy, `log_values`) is chosen freely. Its environment (`Elsewhere`) is the
  clock, personas, their events and the note store's transactions, whose events are the constant
  `NoteEvents`; NoteStore's constant `FieldEvents` is the counterpart. What a store promises about the log
  it promises beside the other.
- **NoteStore** is its sibling and differs as the code does: a fresh id per note, so no write
  falls on an existing row, and no revival. The sweep's clock reading is a parameter of
  `PurgeDueNotes`, because the sweep takes it before it purges the fields.
- **Lifecycle** is the abstract specification of both: a thing is remembered under a name with a
  *life* that is never used again; forgetting may give it a date; before that date it may be
  revived; at the date it may be destroyed, with its owner at any time, and otherwise never.
  `FieldStore!ImplementsLifecycle` and `NoteStore!ImplementsLifecycle` are the refinements
  (`INSTANCE Lifecycle WITH ...`), a row's docid being its life. `NoteStore!ForgottenForGood` says
  that notes use only the part without revival.
- **PersonaService** has requests as coroutines: `pc` is the await a request stands at, and each
  step is one call of the database. `Ensure`, `Find`, `Add`, `Record`, `Write`, `Update`,
  `Remove`, `Checkpoint` are those calls, `Cancel` a client that goes away (the callable it had
  submitted has run or has not). A read takes the card (`Find`) and then rows, in any number of
  calls (`Gather`), as `identity`, `export`, `recall` and the listings do; `seen` and `shown` are what
  it has. A field or note is a `fact`; `residue` is what was destroyed and can still be read in the
  write-ahead log.
- **Process** is one process after another over one file. A start opens the database, runs the
  pending scripts statement by statement (`BeginScript`, `RunStatement`, `RecordVersion`: `migrate` and
  `_apply`) and may be refused (`OpenRefused`, `StartRefused`), killed (`Crash`) or cut off from power
  (`LosePower`, which `synchronous = NORMAL` lets fall back to any commit since the last checkpoint:
  `durable`). `shipped` is the release, a set of migration numbers, so a later or an earlier release may
  start next. While it serves, requests, the sweeping task and the stop are three kinds of actor over
  the executor's `queue` and its one thread (`Take`, `Finish`, `Fail`). `Withdraw` is what cancelling an
  awaited `run_in_executor` does: the callable is taken back if the thread has not begun it, and runs
  on unheard if it has. `StopOrder`, `Finally` and `AfterRaise` are `Container.aclose`: sweep, clients,
  database, the last also when a client's close raises. A request is reduced to a write, or a
  destruction with its checkpoint; a sweep to its purges and its checkpoint.
- **Memory** composes FieldStore and NoteStore over one log with the sweeping task: `SweepFields`,
  `SweepNotes`, `SweepTruncates`, `WakeUp`, `SweepFails` (any exception in any of the three calls,
  which `sweep_guarded` logs), `Restart`, and requests that owe a checkpoint (`owing`) and pay it
  (`RequestTruncates`) or are cancelled. The two stores' keys and ids share values, as the log's
  `subject` column does. `FieldEvents` and `NoteEvents` are here what the two stores' actions really
  write. `ImplementsBothStores` says that each store, inside the composition, is the one its own module
  specifies (`F!Spec /\ N!Spec`), and `StoresImplementLifecycle` that each still refines `Lifecycle`.
- **Pagination** walks one of three listings, chosen at the start, while rows are written: fields
  ordered by last change, notes by creation, events by sequence. `there` and `rewritten` are
  history variables that the properties need.
- **Preferences** is `for_token` and the dependencies that call it. settings-api and its client are
  outside the repository: `account` and `recall` are what the person has *chosen*, each setting
  perhaps `Unchosen`, and `AccountOf` what settings-api *answers*, where an unchosen setting has its
  catalogue default and looks like a choice. `line` says whether settings-api answers, `cache` is
  what the client keeps, `Replies` what a call may bring (a fresh answer, a kept one, the catalogue's
  defaults, nothing, a refusal). `WholeNumber`, `Narrowed`, `ProfileName`,
  `Flag`, `Erasure`, `Applied` are the functions of the same names. A request has `todo`, the calls
  it has yet to make in the order FastAPI resolves its dependencies; `ResolveDefault` and `ReadCaps`
  are those calls. `past` is history, of choices and not of answers; `Said` is what the answers can
  have been. Of the two pin ceilings one is kept.

## 3. The runs

| Run | Instance | What it shows |
| --- | --- | --- |
| `fields` | 2 personas, 3 keys, 2 values, log of 2, a note revised in either persona, batch of 1, cap of 1, pin cap of 1, grace 0 and 1 | `IndexAgrees`, `DocidsAreUnique`, `WordsBelongToRows`, `KeptValuesBelongToRows`, `LogAgreesWithRows`, `FieldsWithinCap`, `LogIsTheNewest`, and what no step may do: `DestroyedWhenDue`, `PastDueNeverReturns`; `ImplementsLifecycle`, which also says that forgetting twice reschedules nothing |
| `fields_pinned` | 1 persona, 2 keys | `PinnedWithinCap` is violated |
| `notes` | 2 personas, 3 ids, 2 bodies, 1 kind, a field revised in either persona | `IndexAgrees`, `LogAgreesWithRows` (kept bodies included), `NotesWithinCaps`, `ForgottenForGood`, `ImplementsLifecycle` |
| `memory` | 1 persona, a field key and two note ids of which one is the same text, batch of 1, 1 mishap | `DueIsDestroyed` (liveness), `SweepFinishes`, `StripsReachNoOtherRow`, `KeptValuesHaveRows`, `ImplementsBothStores` |
| `memory_swept` | 1 field key, 1 note id | `SweptMeansGone` is violated |
| `requests` | 4 requests of every kind about 2 profiles, cap of 1 | `PersonasWithinCap`, `FactsBelongToTheirPersona`, `AnsweredMeansGone`, `LogBalances`, `NoPredecessorShown` |
| `requests_ensure`, `_patch` | 3 requests, 1 profile | one violated statement each |
| `pages` | 4 ids, 3 instants, 6 writes, pages of 1 and 2, log of 3 | `ShownOnce`, `WalkIsComplete`, `CursorsLeadOn` |
| `preferences` | 2 requests of four kinds, 2 profiles and 5 spellings, 6 sets of account-wide choices, of which one is empty, a page size that is chosen or not, 2 changes, catalogue mode grace | `NothingUnsaidIsDone`, `DefaultIsChosen`, `CapsAreTheirs` |
| `preferences_unchosen` | 1 request, 1 change, the same choices and catalogue | `NothingUnchosenIsDone` is violated |
| `process` | 1 request, migrations 1, 2 and 10 of which 2 has two statements, releases {1, 2} and {1, 2, 10}, 2 mishaps | `SchemaIsWhole`, `NothingRunsAfterTheClose`, `StopLeavesNothing`; `StartSucceeds` and `StopEnds` (liveness) |

**Why the bounds are enough.** Two personas and three keys suffice for a row to be confused with
one of the same key elsewhere. A cap of one live field can be exceeded within four recorded events
by each path that makes a row live: by a second insert, by a revival (insert, forget, insert another,
set the first again), and by the same sequence once the first is past its date and is replaced; a
cap of two would need five. The pinned cap is then never met in this run; `fields_pinned` meets it, and
that new pins keep it is proved (`NewPinsCapped`). Four recorded events also
let a log of two trim an entry about a row that still exists, by an event of the other store too; a batch of one makes every backlog
larger than a batch; two instants and grace periods of zero and one put rows before, at and after
their date. One mishap is enough for each violation that a failure can cause, and the liveness
property is checked with that mishap at every place. In `requests`, four requests let a set, a
deletion, a creation and a forget overlap. Rows sharing an instant are common in `pages`, three
rows more than a page holds are possible. In `preferences`, two changes fit one between each two of a
request's three calls, the second request fills the cache that the first meets, and the choices
include none at all, some, values of the wrong shape, days out of range and a value above a cap. In
`memory` a note has one body, so no revision of a note keeps a value there: that a note's kept value
goes with its note, and with nothing else, is what the run `notes` and the theorems `KeptValuesCorrect`
and `StripsReachNoOther` say. In `process`,
the migration numbers tell numerical from textual order, a script of two statements has an inside to
be interrupted in, and the second release comes before or after the first; one request is enough
because cancelled it leaves its callable on the thread and may arrive again behind it, with the sweep
and the stop for company; two mishaps let a start that already follows a failed one fail.
`MaxTime`, `MaxWrites`, `MaxMishaps`, `MaxOwing` and `MaxChanges` are
bounds of the models, not of the code; when they are used up, steps that would exceed them are
disabled and all others go on. `Pagination` may then stop, so its configuration switches
deadlock checking off; every other run checks it.

**Symmetry** is declared on the sets the specifications do not order, and in no run that checks
liveness.

**Fairness.** Two modules assume any. `Memory` assumes `WF_vars(Sweeping)`, weak fairness of the
sweeping task. The code justifies it: `_sweep_forever` never returns, `sweep_guarded` survives any
exception, the sleep is finite, and the database's single thread runs what is submitted in order, so
the task's next step always comes. Failed sweeps and restarts are not fair and are bounded by
`MaxMishaps`: a sweep that fails for ever destroys nothing, and no code could make it.
`Process` assumes weak fairness of the steps of a start, of the thread (it takes the queue in order
and every callable ends), of each request's and the sweeping task's resumption (the event loop
resumes what is ready) and of the steps of the stop, which the server begins once its requests are
done. Starting, arriving, cancelling, being asked to stop, failing and crashing are not fair: nobody
has to do them. `StartSucceeds` speaks of starts after the last mishap, `StopEnds` of every stop.

## 4. What the code does not keep

Each is the subject of a run, and of a finding in `PROJECT.json` with the quoted statement.

- `PinnedWithinCap`: reviving a forgotten field that was pinned does not count the pinned cap
  (`memory/fields.py:577`); the identity block may exceed it. `NewPinsWithinCap`, which is proved, is what does hold.
- `EnsureFindsOrCreates`: the loser of two first writes is answered 409 (`personas/service.py:176`).
- `OmittedPartsAreLeftAlone`: a PATCH writes back the parts it did not send, as it read them
  earlier (`api/routers/personas.py:308`).
- `SweptMeansGone`: a sweep that fails after its fields are committed is not made good by the next
  tick (`memory/sweeper.py:67`). `SweepFinishes` is what does hold.
- `NothingUnchosenIsDone`: what a person who has chosen nothing forgets is scheduled for destruction
  (`core/preferences.py:292`), because settings-api answers an unchosen mode with its catalogue
  default, and that is `grace`. `docs/adr/0009` states the rule (line 24) and, among its
  consequences, the condition on which it holds (line 117), which `docs/operations.md` asks the operator
  to check. `NothingUnsaidIsDone` is what does hold, and `NothingUnchosen` proves the rule under that
  condition. While the default is `grace`, an outage may also date what
  somebody forgets who chose a tombstone: a profile the client has kept no answer for gets the defaults.

Three statements are weaker than they sound, and no run is spent on them. A field changed between two
pages moves in front of the cursor and is left out of the walk (`memory/fields.py:279`), although
`list_fields` is described as "stable across concurrent writes": `WalkIsComplete` exempts it. What a deletion destroyed
stays readable in the write-ahead log when its client goes away between the commit and the checkpoint,
until the next checkpoint or the orderly stop (`AnsweredMeansGone` and `StopLeavesNothing` hold). And
the docstring of `storage/database.py` (line 28) says that the queued callable of a cancelled request
runs to completion: `asyncio` cancels the executor's future too, so it does if the thread has begun it,
and is withdrawn if not; `Withdraw` models both.

## 5. The proofs

Each theorem holds for every value of the constants that the named assumptions admit.

`FieldStore_proofs`, for any personas, keys, values, caps, batch, log size and bounds:

| Theorem | States |
| --- | --- |
| `TypeCorrect` | `Spec => []TypeOK` |
| `TableCorrect` | `Spec => [](RowsHavePersonas /\ DocidsAreUnique)` |
| `IndexCorrect`, `WordsCorrect` | `Spec => []IndexAgrees`, `Spec => []WordsBelongToRows` |
| `KeptValuesCorrect`, `LogCorrect` | `Spec => []KeptValuesBelongToRows`, `Spec => []LogIsTheNewest` |
| `NeverDestroyedEarly`, `NeverRevivedLate`, `NeverRescheduled` | `Spec => DestroyedWhenDue`, `PastDueNeverReturns`, `ScheduleIsKept` |
| `NewestEventIsTrue` | `Spec => []LogAgreesWithRows` |
| `FieldsCapped`, `NewPinsCapped` | `Spec => []FieldsWithinCap`, `Spec => NewPinsWithinCap` |
| `FieldsImplementLifecycle` | `Spec => ImplementsLifecycle` |

`NoteStore_proofs`, for any personas, ids, bodies, kinds, caps, batch, log size and bounds:

| Theorem | States |
| --- | --- |
| `TypeCorrect` | `Spec => []TypeOK` |
| `IndexCorrect` | `Spec => []IndexAgrees`, the words in the segments included |
| `NotesCapped` | `Spec => []NotesWithinCaps` |
| `NewestEventIsTrue` | `Spec => []LogAgreesWithRows`, the kept bodies included |
| `ForgottenStays` | `Spec => ForgottenForGood` |
| `NotesImplementLifecycle` | `Spec => ImplementsLifecycle` |

`Memory_proofs`, for both stores on one log, any number of mishaps and requests that owe a checkpoint:

| Theorem | States |
| --- | --- |
| `SweepLeavesNothing` | `Spec => []SweepFinishes` |
| `KeptValuesCorrect` | `Spec => []KeptValuesHaveRows` |
| `StripsReachNoOther` | `Spec => StripsReachNoOtherRow` |
| `BothImplementLifecycle` | `Spec => StoresImplementLifecycle` |
| `EachStoreIsItself` | `Spec => ImplementsBothStores` |
| `StoresAssumed` | the assumptions of FieldStore and NoteStore, of Memory's constants and events |

`PersonaService_proofs`, for any finite sets of profiles and requests, any texts, workload and cap:

| Theorem | States |
| --- | --- |
| `TypeCorrect` | `Spec => []TypeOK` |
| `CapHolds` | `Spec => []PersonasWithinCap` |
| `AnsweredIsGone` | `Spec => []AnsweredMeansGone` |
| `RowsAreTheirOwners` | `Spec => []FactsBelongToTheirPersona` |
| `ReadsShowNoPredecessor` | `Spec => []NoPredecessorShown` |
| `LogIsBalanced` | `Spec => []LogBalances` |

`Process_proofs`, for any releases of finitely many migrations, any number of statements and requests:

| Theorem | States |
| --- | --- |
| `SchemaStaysWhole` | `Spec => []SchemaIsWhole` |
| `ClosedLast` | `Spec => []NothingRunsAfterTheClose` |
| `OrderlyStop` | `Spec => []StopLeavesNothing` |

`Preferences_proofs`, for any requests, any choices, any number of changes and outages:

| Theorem | States |
| --- | --- |
| `DefaultCorrect` | `Spec => []DefaultIsChosen` |
| `NothingUnsaid` | `Spec => []NothingUnsaidIsDone` |
| `NothingUnchosen` | `CatalogueChoosesNothing => (Spec => []NothingUnchosenIsDone)` |
| `CapsCorrect` | `Spec => []CapsAreTheirs` |

`Pagination_proofs`, for each listing, any finite set of ids, any page sizes and writes:

| Theorem | States |
| --- | --- |
| `ShownOnceCorrect` | `Spec => []ShownOnce` |
| `WalkCorrect` | `Spec => []WalkIsComplete` |
| `CursorsLead` | `Spec => CursorsLeadOn` |

`EachStoreIsItself` and `StoresAssumed` are what makes the theorems about one store theorems about both:
Memory's behaviours, seen through `F` or `N`, are behaviours of FieldStore and of NoteStore under the
assumptions of these modules. That last step, from a theorem of a module to its instance, is the usual
reading of INSTANCE and is not machine-checked: the prover does not offer an instance's theorems as facts.

`EventLog_proofs` has no theorem of its own: it holds the lemmas about appending, trimming and
stripping that FieldStore, NoteStore and Memory share.

**Assumptions** are the named `ASSUME`s of the modules, which the runs evaluate. Constants that stand
for nothing (`NoPersona`, `NoJob`, `Nothing`, `Nobody`, `NoRow`, `NULL`s) are none of the things they
stand beside (`MarksAssumption` in Pagination, `MemoryAssumption`). What another store writes
(`NoteEvents`, `FieldEvents`) are events of that store's noun about personas, and nothing is assumed of
their subjects and texts; `StoresAssumed` shows that Memory's are such. Log size and batch are positive,
bounds and grace periods natural numbers; profiles, requests of the service, migrations and the ids of
a listing are finite; pin caps are no higher than the deployment's (`_narrow` in `core/preferences.py`
makes that so). Two of Preferences are about what lies around the code: `RequestsAssumption` says what
the routes ask, that `recall_everywhere` names no profile; `CatalogueAssumption` says that the
catalogue names no default persona ("the catalogue's own reasoning for its null",
`core/preferences.py`). Of the catalogue's other defaults nothing is assumed: the one theorem that
needs them, `NothingUnchosen`, has them as its hypothesis.

**The argument, field store.** Three inductive invariants, each used by the next.
`TableInv` adds to `RowsHavePersonas` and `DocidsAreUnique` that a row with a date is a forgotten
one: without it, purging what is due could not be known to leave live rows and their documents
alone. `IndexInv` joins `IndexAgrees` and `WordsBelongToRows`, because rewriting the segments
keeps the words of the remaining documents, which are rows' only because the index agrees with
the table; uniqueness of docids is what makes removing one document remove one row's.
`LogInv` joins `KeptValuesBelongToRows` with the window of sequence numbers that gives
`LogIsTheNewest`; of the events of notes the first says nothing, and it survives the other store's
transactions because these add, trim and strip but never make a kept value (`OtherWrites`). The action properties follow from one lemma, `EveryRowStep`, that lists what a
step may do to a single row, and the refinement from the same case analysis over `Next`: initial
states map to initial states, every step to a step of `Lifecycle` or a stutter.
`LogAgreesWithRows` is inductive in the form `ToldInv`: of the entries about a row, one that does not
describe it is followed by a newer one. The entry that a step appends is newer than all others
(`LogWindow`), trimming takes the oldest, and stripping changes no entry's sequence, action, revision
or date (`SameEvent`). The caps (`CapsInv`) add that the counted sets are finite; each action is reduced
to which rows become live (`OneRevived`, `NoneRevived`), and at most one does, after it was counted.

**Note store.** The same invariants with one more, `RowsAreIssued`: an id that has a row was handed
out, so a new note's id has no row, no document and no event yet. `ForgottenForGood` and the refinement
follow from what a step may do to a single note.

**Both stores, one log.** Every action of `Memory` is first shown to have one of few effects:
it appends one event about a row it writes, and may strip what belongs to rows it destroys (`LogStep`,
`FieldEffect`, `NoteEffect`, `Destroyed`). `KeptInv`, that a kept value is backed by a row of the
table its noun names, is inductive over those effects with the types of both tables and the log's
window; that a note id and a key may be the same text is why the noun must be part of it.
`SweepInv` adds to `SweepFinishes` where the sweep is: undisturbed, anything readable of
what was destroyed means that the task stands before its checkpoint and knows that it purged.
For the refinement each effect is a step of the one store's `Lifecycle` and a stutter of the other's.
Both parts need `TableInv`, which types the rows: a docid is never the 0 that marks an absent thing.
The notes' part needs `ClockInv` as well: the clock reading that the sweep took before it purged the
fields is not ahead of the clock when it purges the notes by it.

`EachStoreIsItself` is the same for the stores' whole specifications. A request is shown to record one
event about its row and to strip, before or after, that row at most (`FieldWrite`, `NoteWrite`), and a
batch to strip only rows that exist: to the other store, an `OtherTransaction`. That the event is one of
`FieldEvents` or `NoteEvents` needs `BoundInv`: no row's revision has come further than the log has events
(each revision recorded one), so a revision stays within `MaxWrites`, and `now` within `MaxTime`, so every
date is one of `Dues`.

**Requests in flight.** `TypeInv` adds `AtItsStep` to the types: which kinds of request may stand at
which await, that a patch at its write has read a card, that a read has rows only after its card.
`OwnerInv` adds to `FactsBelongToTheirPersona` that persona ids are handed out in order, so a new
persona has no rows yet. `SeenInv` adds to `NoPredecessorShown` that a card which was read is no newer
than the persona now at the profile. `BalanceInv` is what `LogBalances` looks like in flight: while
nobody was cancelled, the creations recorded and those still owed (a request between its insertion
and its record) are the deletions recorded and owed and one more if the persona exists; at rest
nothing is owed.

**The process.** `SchemaInv` adds to `SchemaIsWhole` that the statements written inside the open
transaction are a prefix of the script, so a script that ends has made all of it. `ProcessInv` has
four parts: `TypeInv`; `QueueInv`, at most one callable per actor, on the queue or the thread, and the
one it awaits, which is what makes the close alone once the sweep has been joined and the requests
are gone; `StandInv`, where each actor may stand in each phase; `ConnectionInv`, when the connection
is open and that an orderly stop has closed it.

**Preferences.** `Inv` relates a request's place to what is known by then. `PastInv` and
`CacheInv` say that the choices, the cache and so every reply are of the history; `RequestInv` says
that a request which no longer awaits its default has the profile of some choice in that history
(`ProfileKnown`), that one which no longer awaits its caps has caps of a profile it may mean
(`CapsKnown`), and that caps are always still to come after the default (`DefaultThenCaps`): the two
calls may be answered by different choices, each of them the person's. A reply's policy is that of one
member of `Said` (`PolicyOfReply`); where the catalogue chooses nothing, a member that destroys or keeps
anything is not the catalogue, and each setting that does so was chosen (`SaidIsChosen`).

**Pagination.** The cursor is a place, and every place has one order. `ShownInv` says of each row
shown that the cursor has passed it where it is now *and where it would be if it were written now*
(`Passed`, `FreshPlace`): a destroyed row may be written again, and a write only moves up.
`AheadInv` says of each row that was there throughout and was not rewritten that it is shown or still
ahead of the cursor. A page (`Page`) is the ordered rows after the cursor; `ReadsPage` derives that from
`ReadPage`, and the three properties are read off it.

**Only model-checked**: the liveness properties `DueIsDestroyed`, `StartSucceeds` and `StopEnds`, which
the prover cannot do, and what the violation runs show. Every invariant and every action property of
the passing runs has a theorem.
No module declares a RECURSIVE operator, and nothing is proved by induction over data.

## 6. What is not modelled

- A clock that steps back. `SystemClock` is the wall clock, and nothing in the code guards the
  order of two readings; `now` only grows here.
- Power loss, except for the schema (`Process`). `synchronous = NORMAL` may lose the last commits of
  rows too, which the code accepts and documents; `Restart` in `Memory` keeps every commit.
- Two processes on one file, as in a deployment that starts the new one before it stops the old.
- A second signal to the server, which ends it without an orderly stop: for the file, a crash.
- A second connection to the file (a backup). `wal_checkpoint(TRUNCATE)` then reports that it is
  busy in a row nobody reads.
- Tokenization, ranking, rendering of values to text, JSON, validation, credential patterns, token
  verification, HTTP parsing: values reach the models normalized and accepted.
- Search: the rewriting of a query is a string algorithm without state, and ranks are FTS5's.
- That counts, rows and card of one read agree with one another. Only that no deleted persona's row is
  shown under its successor is claimed, and holds (`NoPredecessorShown`).
- That the two calls a request makes about `@default` agree. They need not: each asks settings-api
  again, so a change of the default between them gives a request the page size of another persona
  than the one it acts on. `CapsAreTheirs` allows for that.
- The stores take every preference freely on every request, which is a superset of what Preferences
  answers; the two are not composed yet.

## 7. Plan

Built, in this order: EventLog, SearchIndex, Store, FieldStore, Lifecycle, FieldStore_proofs,
PersonaService, NoteStore, Memory, Pagination, Preferences, Process, PersonaService_proofs,
Process_proofs, EventLog_proofs, NoteStore_proofs, Memory_proofs, Preferences_proofs,
Pagination_proofs, and last the stores beside one another (`OtherTransaction`,
`ImplementsBothStores`). Next:

1. Preferences composed with forgetting, so that what a person chose is related to what became of
   the row.
2. The inner part of a cursor, so that one of another listing reaches the events endpoint
   (`events/sql_log.py:168`).
3. Search: the rewriting of a query over bounded inputs.
