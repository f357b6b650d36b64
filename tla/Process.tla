------------------------------- MODULE Process -------------------------------
(***************************************************************************)
(* The life of the process: the database opened and migrated              *)
(* (storage/migrator.py, core/container.py), the executor's queue while it *)
(* serves (storage/database.py), the orderly stop (core/container.py,      *)
(* api/app.py), and ends that are not orderly.                             *)
(*                                                                         *)
(* Three actors share the connection's one thread: requests, the sweeping  *)
(* task and the stop.  An actor submits a callable and awaits its answer;  *)
(* cancelling it takes the callable back if the thread has not begun it,   *)
(* and loses only the answer if it has.                                    *)
(***************************************************************************)
EXTENDS Integers, Sequences, FiniteSets

CONSTANTS Releases,     \* what versions of the package ship: sets of migration numbers
          Statements,   \* how many statements the script of each migration has
          Requests,
          Sweep,        \* the sweeping task
          Stop,         \* Container.aclose
          Nothing,      \* no callable, no script
          Nobody,       \* who awaits a callable whose actor was cancelled
          MaxMishaps    \* bound: failures, crashes and power losses

Shippable == UNION Releases
Actors == Requests \cup {Sweep, Stop}

VARIABLES disk,         \* the schema as committed: versions recorded, statements in effect
          durable,      \* the schemas a loss of power may fall back to
          residue,      \* whether destroyed bytes are left in the write-ahead log
          phase,
          shipped,      \* the release that runs
          script,       \* the migration being applied
          written,      \* the statements of it that have run
          connection,
          queue,        \* submitted callables, oldest first
          running,      \* the callable on the thread
          at,           \* the await each actor stands at
          answer,       \* what its callable brought
          purged,       \* whether this sweep has destroyed anything
          mishaps

schemaVars == <<disk, durable, script, written>>
threadVars == <<queue, running, connection>>
actorVars == <<at, answer, purged>>
vars == <<schemaVars, residue, phase, shipped, threadVars, actorVars, mishaps>>

Down == {"stopped", "refused", "dead"}
Up == {"serving", "draining", "stopping"}
Phases == Down \cup Up \cup {"opening", "migrating"}

\* What a callable does: a purge of the sweep, a write, a write that destroys
\* rows, a checkpoint, the close.
Work == {"purge", "write", "erase", "truncate", "close"}
Callable == [by : Actors \cup {Nobody}, does : Work]

ASSUME ProcessAssumption ==
    /\ Shippable \subseteq Nat /\ IsFiniteSet(Shippable)
    /\ Statements \in [Shippable -> Nat]
    /\ MaxMishaps \in Nat
    /\ Sweep # Stop /\ {Sweep, Stop} \cap Requests = {} /\ Nobody \notin Actors
    /\ Nothing \notin Callable /\ Nothing \notin Shippable

Idle == [a \in Actors |-> "idle"]
Unanswered == [a \in Actors |-> "none"]

Init ==
    /\ disk = [recorded |-> {}, made |-> {}] /\ durable = {disk}
    /\ residue = FALSE
    /\ phase = "stopped" /\ shipped = {}
    /\ script = Nothing /\ written = {}
    /\ connection = "closed" /\ queue = <<>> /\ running = Nothing
    /\ at = Idle /\ answer = Unanswered /\ purged = FALSE
    /\ mishaps = 0

Mishap == mishaps < MaxMishaps /\ mishaps' = mishaps + 1

-----------------------------------------------------------------------------
(* Starting.  Container.build is synchronous: it waits for each callable   *)
(* before it submits the next, so the queue plays no part yet.             *)

Start ==
    /\ phase \in Down
    /\ phase' = "opening" /\ shipped' \in Releases
    /\ UNCHANGED <<schemaVars, residue, threadVars, actorVars, mishaps>>

\* Database.__init__: _connect on the worker thread.
Open ==
    /\ phase = "opening"
    /\ phase' = "migrating" /\ connection' = "open"
    /\ UNCHANGED <<schemaVars, residue, shipped, queue, running, actorVars, mishaps>>

\* A pragma or a chmod fails, foreign keys stay off: _connect closes what it
\* opened, and the constructor gives its thread back.
OpenRefused ==
    /\ phase = "opening" /\ Mishap
    /\ phase' = "refused"
    /\ residue' \in {residue, FALSE}
    /\ UNCHANGED <<schemaVars, shipped, threadVars, actorVars>>

Pending == shipped \ disk.recorded

\* discover: ordered by the number.
MutNextScript(pending) == CHOOSE v \in pending : \A w \in pending : w <= v
NextScript(pending) == CHOOSE v \in pending : \A w \in pending : v <= w

BeginScript ==
    /\ phase = "migrating" /\ script = Nothing /\ Pending # {}
    /\ script' = NextScript(Pending) /\ written' = {}
    /\ UNCHANGED <<disk, durable, residue, phase, shipped, threadVars, actorVars, mishaps>>

Body(v) == {v} \X (1..Statements[v])
InEffect == disk.made \cup written
NextStatement == <<script, Cardinality(written) + 1>>

\* A script creates what is not there, on top of what the ones before it made.
Succeeds(statement) ==
    /\ statement \notin disk.made
    /\ \A v \in Shippable : v < script => Body(v) \subseteq disk.made

\* executescript commits what is open before it runs; the BEGIN IMMEDIATE
\* prepended to the script is what keeps its statements from being committed
\* one by one.
MutScriptIsOneTransaction == FALSE
ScriptIsOneTransaction == TRUE

Commit(schema) == disk' = schema /\ durable' = durable \cup {schema}

RunStatement ==
    /\ script # Nothing /\ Cardinality(written) < Statements[script]
    /\ Succeeds(NextStatement)
    /\ written' = written \cup {NextStatement}
    /\ IF ScriptIsOneTransaction
         THEN UNCHANGED <<disk, durable>>
         ELSE Commit([disk EXCEPT !.made = @ \cup {NextStatement}])
    /\ UNCHANGED <<script, residue, phase, shipped, threadVars, actorVars, mishaps>>

\* The version's row and the commit.
RecordVersion ==
    /\ script # Nothing /\ Cardinality(written) = Statements[script]
    /\ Commit([recorded |-> disk.recorded \cup {script}, made |-> InEffect])
    /\ script' = Nothing /\ written' = {}
    /\ UNCHANGED <<residue, phase, shipped, threadVars, actorVars, mishaps>>

\* Closing the last connection checkpoints the write-ahead log and removes it.
CloseConnection ==
    /\ connection' = "closed"
    /\ residue' = FALSE
    /\ durable' = {disk}

\* Anything Container.build raises once the database is open: the script's
\* transaction is rolled back and database.close runs.
StartRefused ==
    /\ phase = "migrating"
    /\ \/ Mishap
       \/ /\ script # Nothing /\ Cardinality(written) < Statements[script]
          /\ ~Succeeds(NextStatement)
          /\ mishaps' = mishaps
    /\ phase' = "refused"
    /\ script' = Nothing /\ written' = {}
    /\ CloseConnection
    /\ UNCHANGED <<disk, shipped, queue, running, actorVars>>

\* The schema is up to date, the rest of the container is built, and the
\* sweeping task begins with a sweep.
BeginServing ==
    /\ phase = "migrating" /\ script = Nothing /\ Pending = {}
    /\ phase' = "serving"
    /\ at' = [at EXCEPT ![Sweep] = "awake"]
    /\ UNCHANGED <<schemaVars, residue, shipped, threadVars, answer, purged, mishaps>>

-----------------------------------------------------------------------------
(* The executor. *)

\* The actor submits a callable and awaits it.
Submit(a, does, step) ==
    /\ queue' = Append(queue, [by |-> a, does |-> does])
    /\ at' = [at EXCEPT ![a] = step]
    /\ answer' = [answer EXCEPT ![a] = "none"]

\* The actor goes on without awaiting the database.
Proceed(a, step) ==
    /\ at' = [at EXCEPT ![a] = step]
    /\ answer' = [answer EXCEPT ![a] = "none"]
    /\ queue' = queue

Answered(a) == answer[a] # "none"

Take ==
    /\ running = Nothing /\ queue # <<>>
    /\ running' = Head(queue) /\ queue' = Tail(queue)
    /\ UNCHANGED <<schemaVars, residue, phase, shipped, connection, actorVars, mishaps>>

Reply(brought) ==
    answer' = [a \in Actors |-> IF running.by = a THEN brought ELSE answer[a]]

\* A purge may find nothing that is due; every other callable does its work.
Finish ==
    /\ running # Nothing
    /\ \/ /\ running.does \in {"purge", "erase"}
          /\ residue' = TRUE /\ Reply("destroyed")
          /\ UNCHANGED <<connection, durable>>
       \/ /\ running.does \in {"purge", "write"}
          /\ Reply("done")
          /\ UNCHANGED <<residue, connection, durable>>
       \/ /\ running.does = "truncate"
          /\ residue' = FALSE /\ durable' = {disk} /\ Reply("done")
          /\ UNCHANGED connection
       \/ /\ running.does = "close"
          /\ CloseConnection /\ Reply("done")
    /\ running' = Nothing
    /\ UNCHANGED <<disk, script, written, phase, shipped, queue, at, purged, mishaps>>

\* It raises and is rolled back.
Fail ==
    /\ running # Nothing /\ running.does # "close" /\ Mishap
    /\ running' = Nothing /\ Reply("failed")
    /\ UNCHANGED <<schemaVars, residue, phase, shipped, queue, connection, at, purged>>

\* Cancelling an actor takes back the callable it has queued; what runs already
\* runs on, and nobody hears its answer.
TakenBack(i) == SubSeq(queue, 1, i - 1) \o SubSeq(queue, i + 1, Len(queue))

Withdraw(a) ==
    /\ \/ \E i \in 1..Len(queue) : queue[i].by = a /\ queue' = TakenBack(i)
       \/ (\A i \in 1..Len(queue) : queue[i].by # a) /\ queue' = queue
    /\ running' = IF running # Nothing /\ running.by = a
                    THEN [running EXCEPT !.by = Nobody]
                    ELSE running

-----------------------------------------------------------------------------
(* Requests: one write, or one that destroys and then truncates. *)

Arrive(r) ==
    /\ phase = "serving" /\ at[r] = "idle"
    /\ Submit(r, "write", "write") \/ Submit(r, "erase", "erase")
    /\ UNCHANGED <<schemaVars, residue, phase, shipped, running, connection, purged, mishaps>>

Resume(r) ==
    /\ Answered(r)
    /\ IF at[r] = "erase" /\ answer[r] = "destroyed"
         THEN Submit(r, "truncate", "truncate")
         ELSE Proceed(r, "idle")
    /\ UNCHANGED <<schemaVars, residue, phase, shipped, running, connection, purged, mishaps>>

\* The client goes away.
Cancel(r) ==
    /\ at[r] # "idle"
    /\ Withdraw(r)
    /\ at' = [at EXCEPT ![r] = "idle"] /\ answer' = [answer EXCEPT ![r] = "none"]
    /\ UNCHANGED <<schemaVars, residue, phase, shipped, connection, purged, mishaps>>

-----------------------------------------------------------------------------
(* The sweeping task: fields, notes, a checkpoint if anything went, sleep. *)

SweepStep ==
    \/ /\ at[Sweep] \in {"awake", "asleep"}
       /\ Submit(Sweep, "purge", "fields") /\ purged' = FALSE
    \/ /\ Answered(Sweep) /\ at[Sweep] = "fields" /\ answer[Sweep] # "failed"
       /\ Submit(Sweep, "purge", "notes") /\ purged' = (answer[Sweep] = "destroyed")
    \/ /\ Answered(Sweep) /\ at[Sweep] = "notes" /\ answer[Sweep] # "failed"
       /\ purged' = (purged \/ answer[Sweep] = "destroyed")
       /\ IF purged' THEN Submit(Sweep, "truncate", "truncate") ELSE Proceed(Sweep, "asleep")
    \/ /\ Answered(Sweep)
       /\ (at[Sweep] = "truncate" \/ answer[Sweep] = "failed")
       /\ Proceed(Sweep, "asleep") /\ purged' = FALSE

\* sweep_guarded catches what is an Exception, and a cancellation is not one.
MutAfterCancel == "asleep"
AfterCancel == "ended"

SweepCancelled ==
    /\ at[Sweep] = "cancelled"
    /\ Proceed(Sweep, AfterCancel) /\ purged' = FALSE

SweepTask ==
    /\ SweepStep \/ SweepCancelled
    /\ UNCHANGED <<schemaVars, residue, phase, shipped, running, connection, mishaps>>

-----------------------------------------------------------------------------
(* Stopping.  The server takes no new requests, waits for those it has, and *)
(* ends the lifespan: app.stop, which is Container.aclose.                  *)

Signal ==
    /\ phase = "serving"
    /\ phase' = "draining"
    /\ UNCHANGED <<schemaVars, residue, shipped, threadVars, actorVars, mishaps>>

MutStopOrder == <<"database", "sweep", "clients">>
StopOrder == <<"sweep", "clients", "database">>

\* The steps that run although an earlier one raised.
MutFinally == {}
Finally == {"database"}

Place(step) == CHOOSE i \in 1..Len(StopOrder) : StopOrder[i] = step

NextStep(step) ==
    IF Place(step) = Len(StopOrder) THEN "ended" ELSE StopOrder[Place(step) + 1]

AfterRaise(step) ==
    IF NextStep(step) \in Finally THEN NextStep(step) ELSE "ended"

BeginStop ==
    /\ phase = "draining" /\ \A r \in Requests : at[r] = "idle"
    /\ phase' = "stopping"
    /\ Proceed(Stop, Head(StopOrder))
    /\ UNCHANGED <<schemaVars, residue, shipped, running, connection, purged, mishaps>>

\* task.cancel(), and the wait for the task to end.
StopSweep ==
    /\ at[Stop] = "sweep"
    /\ Withdraw(Sweep)
    /\ at' = [at EXCEPT ![Sweep] = "cancelled", ![Stop] = "joining"]
    /\ answer' = [answer EXCEPT ![Sweep] = "none"]

SweepStopped ==
    /\ at[Stop] = "joining" /\ at[Sweep] = "ended"
    /\ Proceed(Stop, NextStep("sweep"))
    /\ running' = running

\* preferences.aclose and jwks.aclose, either of which may raise.
StopClients ==
    /\ at[Stop] = "clients"
    /\ \/ Proceed(Stop, NextStep("clients")) /\ mishaps' = mishaps
       \/ Proceed(Stop, AfterRaise("clients")) /\ Mishap
    /\ running' = running

StopDatabase ==
    /\ at[Stop] = "database"
    /\ Submit(Stop, "close", "closing")
    /\ running' = running

DatabaseStopped ==
    /\ at[Stop] = "closing" /\ Answered(Stop)
    /\ Proceed(Stop, NextStep("database"))
    /\ running' = running

StopStep ==
    /\ \/ /\ StopSweep \/ SweepStopped \/ StopDatabase \/ DatabaseStopped
          /\ mishaps' = mishaps
       \/ StopClients
    /\ UNCHANGED <<schemaVars, residue, phase, shipped, connection, purged>>

\* The lifespan is over and the process ends; the thread is gone with what it
\* had left to do, which an orderly stop has made sure is nothing.
Exit ==
    /\ at[Stop] = "ended"
    /\ phase' = "stopped"
    /\ at' = Idle /\ answer' = Unanswered
    /\ UNCHANGED <<schemaVars, residue, shipped, threadVars, purged, mishaps>>

-----------------------------------------------------------------------------
(* Ends that are not orderly. *)

Dies ==
    /\ phase \notin Down
    /\ phase' = "dead"
    /\ script' = Nothing /\ written' = {}
    /\ connection' = "closed" /\ queue' = <<>> /\ running' = Nothing
    /\ at' = Idle /\ answer' = Unanswered /\ purged' = FALSE
    /\ UNCHANGED <<residue, shipped>>

\* What was committed is in the write-ahead log, and stays.
Crash == Dies /\ Mishap /\ UNCHANGED <<disk, durable>>

\* synchronous = NORMAL: the last commits since a checkpoint may be lost.
LosePower ==
    /\ Dies /\ Mishap
    /\ disk' \in durable /\ durable' = {disk'}

-----------------------------------------------------------------------------

Starting == Open \/ BeginScript \/ RunStatement \/ RecordVersion \/ BeginServing
Thread == Take \/ Finish
Refusal == OpenRefused \/ StartRefused

Next ==
    \/ Start \/ Starting \/ Refusal
    \/ Thread \/ Fail
    \/ \E r \in Requests : Arrive(r) \/ Resume(r) \/ Cancel(r)
    \/ SweepTask
    \/ Signal \/ BeginStop \/ StopStep \/ Exit
    \/ Crash \/ LosePower

\* The operating system runs the process; the thread takes what is queued in
\* order; the event loop resumes what is ready.
Fairness ==
    /\ WF_vars(Starting) /\ WF_vars(Thread)
    /\ \A r \in Requests : WF_vars(Resume(r))
    /\ WF_vars(SweepTask) /\ WF_vars(BeginStop) /\ WF_vars(StopStep) /\ WF_vars(Exit)

Spec == Init /\ [][Next]_vars /\ Fairness

-----------------------------------------------------------------------------

\* Whatever interrupts a start, and whichever release starts next, the file
\* holds exactly what the migrations it records have made, after a loss of power
\* too; and nothing is served before every migration of the release is there.
SchemaIsWhole ==
    /\ \A schema \in durable \cup {disk} :
          schema.made = UNION {Body(v) : v \in schema.recorded}
    /\ phase \in Up => shipped \subseteq disk.recorded

\* A process that meets no further trouble comes up, whatever an earlier one
\* left behind: no start stumbles over half a migration.
StartSucceeds == (phase = "opening" /\ mishaps = MaxMishaps) ~> phase = "serving"

\* The database is closed last: nothing runs on a closed connection and nothing
\* is submitted behind the close, also when the sweep is cancelled while its
\* callable runs.
NothingRunsAfterTheClose ==
    /\ running # Nothing => connection = "open"
    /\ \A i, j \in 1..Len(queue) : queue[i].does = "close" => j <= i
    /\ running # Nothing /\ running.does = "close" => queue = <<>>

\* A process that stopped when asked to, or refused to start once it had opened
\* the database, leaves no connection, no callable and no destroyed text in the
\* write-ahead log, also if closing its clients raised and whatever requests and
\* sweeps were cancelled on the way.
StopLeavesNothing ==
    /\ phase \in Down => connection = "closed" /\ queue = <<>> /\ running = Nothing
    /\ phase = "stopped" => ~residue

\* A process asked to stop stops.
StopEnds == phase = "draining" ~> phase \in Down
=============================================================================
