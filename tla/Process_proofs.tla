---------------------------- MODULE Process_proofs ----------------------------
(***************************************************************************)
(* Theorems about Process, for every set of releases, scripts of any       *)
(* length, any number of requests and any number of mishaps.               *)
(***************************************************************************)
EXTENDS Process, FiniteSetTheorems, SequenceTheorems, WellFoundedInduction, TLAPS

-----------------------------------------------------------------------------
(* The schema. *)

Schema == [recorded : SUBSET Shippable, made : SUBSET (Shippable \X Nat)]

Whole(schema) == schema.made = UNION {Body(v) : v \in schema.recorded}

\* What of a script has run is its first statements.
Prefix(v, n) == {v} \X (1..n)

SchemaInv ==
    /\ disk \in Schema /\ durable \subseteq Schema
    /\ Whole(disk) /\ \A schema \in durable : Whole(schema)
    /\ script = Nothing => written = {}
    /\ script # Nothing => /\ script \in Shippable /\ phase = "migrating"
                           /\ \E n \in Nat : written = Prefix(script, n)
    /\ shipped \subseteq Shippable
    /\ phase \in Up => shipped \subseteq disk.recorded

LEMMA PrefixSize ==
    ASSUME NEW v, NEW n \in Nat
    PROVE  Cardinality(Prefix(v, n)) = n
<1>1. IsFiniteSet({v}) /\ Cardinality({v}) = 1
    BY FS_Singleton
<1>2. IsFiniteSet(1..n) /\ Cardinality(1..n) = n
    BY FS_Interval
<1>3. Cardinality({v} \X (1..n)) = Cardinality({v}) * Cardinality(1..n)
    BY <1>1, <1>2, FS_Product
<1>4. Cardinality({v} \X (1..n)) = 1 * n
    BY <1>1, <1>2, <1>3
<1> QED
    BY <1>4 DEF Prefix

\* There is a first of the pending migrations.
LEMMA FirstPending ==
    ASSUME NEW pending \in SUBSET Nat, pending # {}
    PROVE  NextScript(pending) \in pending
<1> DEFINE less == {ss \in Nat \X Nat : ss[1] < ss[2]}
<1>1. IsWellFoundedOn(less, Nat)
    BY NatLessThanWellFounded DEF OpToRel
<1>2. PICK v \in pending : \A w \in pending : <<w, v>> \notin less
    <2> HIDE DEF less
    <2> QED
        BY <1>1, WFMin
<1>3. ASSUME NEW w \in pending PROVE v <= w
    <2>1. v \in Nat /\ w \in Nat /\ <<w, v>> \in Nat \X Nat
        OBVIOUS
    <2>2. ~(w < v)
        <3> DEFINE ss == <<w, v>>
        <3>1. ss \notin less /\ ss \in Nat \X Nat /\ ss[1] = w /\ ss[2] = v
            BY <1>2, <2>1
        <3> QED
            BY <3>1
    <2> QED
        BY <2>1, <2>2
<1> QED
    BY <1>3 DEF NextScript

LEMMA InitSchema == Init => SchemaInv
BY DEF Init, SchemaInv, Schema, Whole, Up

LEMMA BeginScriptSchema == ASSUME SchemaInv, BeginScript PROVE SchemaInv'
<1>1. Pending \in SUBSET Nat /\ Pending \subseteq Shippable
    BY ProcessAssumption DEF Pending, SchemaInv
<1>2. script' \in Shippable /\ written' = {}
    BY <1>1, FirstPending DEF BeginScript
<1>3. written' = Prefix(script', 0)
    BY <1>2 DEF Prefix
<1>4. phase' = "migrating" /\ UNCHANGED <<disk, durable, shipped>>
    BY DEF BeginScript
<1> QED
    BY <1>2, <1>3, <1>4, ProcessAssumption DEF SchemaInv, Up

LEMMA RunStatementSchema == ASSUME SchemaInv, RunStatement PROVE SchemaInv'
<1>1. PICK n \in Nat : written = Prefix(script, n)
    BY DEF RunStatement, SchemaInv
<1>2. NextStatement = <<script, n + 1>>
    BY <1>1, PrefixSize DEF NextStatement
<1>3. written' = Prefix(script, n + 1)
    BY <1>1, <1>2 DEF RunStatement, Prefix
<1>4. /\ script # Nothing /\ UNCHANGED <<disk, durable, script, phase, shipped>>
    BY DEF RunStatement, ScriptIsOneTransaction
<1> QED
    BY <1>3, <1>4 DEF SchemaInv

LEMMA RecordVersionSchema == ASSUME SchemaInv, RecordVersion PROVE SchemaInv'
<1>1. PICK n \in Nat : written = Prefix(script, n)
    BY DEF RecordVersion, SchemaInv
<1>2. script \in Shippable /\ phase = "migrating"
    BY DEF RecordVersion, SchemaInv
<1>3. written = Body(script)
    BY <1>1, PrefixSize DEF RecordVersion, Body, Prefix
<1> DEFINE new == [recorded |-> disk.recorded \cup {script}, made |-> disk.made \cup written]
<1>4. disk' = new /\ durable' = durable \cup {new}
    BY DEF RecordVersion, Commit, InEffect
<1>5. Statements[script] \in Nat
    BY <1>2, ProcessAssumption
<1>6. new \in Schema
    BY <1>2, <1>3, <1>5 DEF SchemaInv, Schema, Body
<1>7. Whole(new)
    <2>1. disk.made = UNION {Body(v) : v \in disk.recorded}
        BY DEF SchemaInv, Whole
    <2> QED
        BY <1>3, <2>1 DEF Whole
<1> HIDE DEF new
<1>8. script' = Nothing /\ written' = {} /\ UNCHANGED <<phase, shipped>>
    BY DEF RecordVersion
<1> QED
    BY <1>2, <1>4, <1>6, <1>7, <1>8 DEF SchemaInv, Up

\* A step that commits nothing: what may be lost by then is less, or the file
\* falls back to what was durable; a script is given up or goes on.
LEMMA OtherSchema ==
    ASSUME SchemaInv,
           \/ disk' = disk /\ durable' \subseteq durable \cup {disk}
           \/ disk' \in durable /\ durable' = {disk'},
           script' = Nothing /\ written' = {},
           shipped' = shipped \/ shipped' \in Releases,
           phase' \in Up => disk' = disk /\ shipped' \subseteq disk.recorded
    PROVE  SchemaInv'
<1>1. shipped' \subseteq Shippable
    BY DEF SchemaInv, Shippable
<1>2. /\ disk' \in Schema /\ Whole(disk)' /\ durable' \subseteq Schema
      /\ \A schema \in durable' : Whole(schema)
    BY DEF SchemaInv, Whole
<1> QED
    BY <1>1, <1>2 DEF SchemaInv, Whole

-----------------------------------------------------------------------------
(* Types. *)

RequestSteps == {"idle", "write", "erase", "truncate"}
SweepSteps == {"idle", "awake", "asleep", "fields", "notes", "truncate", "cancelled", "ended"}
StopSteps == {"idle", "sweep", "joining", "clients", "database", "closing", "ended"}
Answers == {"none", "done", "destroyed", "failed"}

Queued == [by : Actors, does : Work]

TypeInv ==
    /\ phase \in Phases /\ connection \in {"open", "closed"} /\ residue \in BOOLEAN
    /\ queue \in Seq(Queued) /\ running \in Callable \cup {Nothing}
    /\ at \in [Actors -> RequestSteps \cup SweepSteps \cup StopSteps]
    /\ answer \in [Actors -> Answers]

LEMMA IdleType ==
    /\ Idle \in [Actors -> RequestSteps \cup SweepSteps \cup StopSteps]
    /\ Unanswered \in [Actors -> Answers]
    /\ \A a \in Actors : Idle[a] = "idle" /\ Unanswered[a] = "none"
BY DEF Idle, Unanswered, RequestSteps, Answers

LEMMA InitType == Init => TypeInv
<1>1. <<>> \in Seq(Queued)
    OBVIOUS
<1> QED
    BY <1>1, IdleType DEF Init, TypeInv, Phases, Down

LEMMA SubmitType ==
    ASSUME TypeInv, NEW a \in Actors, NEW does \in Work,
           NEW step \in RequestSteps \cup SweepSteps \cup StopSteps, Submit(a, does, step)
    PROVE  /\ queue' \in Seq(Queued)
           /\ at' \in [Actors -> RequestSteps \cup SweepSteps \cup StopSteps]
           /\ answer' \in [Actors -> Answers]
<1>1. [by |-> a, does |-> does] \in Queued
    BY DEF Queued
<1> QED
    BY <1>1 DEF Submit, TypeInv, Answers

LEMMA ProceedType ==
    ASSUME TypeInv, NEW a \in Actors,
           NEW step \in RequestSteps \cup SweepSteps \cup StopSteps, Proceed(a, step)
    PROVE  /\ queue' \in Seq(Queued)
           /\ at' \in [Actors -> RequestSteps \cup SweepSteps \cup StopSteps]
           /\ answer' \in [Actors -> Answers]
BY DEF Proceed, TypeInv, Answers

\* What is taken back leaves the others in their order.
LEMMA TakenBackIs ==
    ASSUME TypeInv, NEW i \in 1..Len(queue)
    PROVE  /\ TakenBack(i) \in Seq(Queued) /\ Len(TakenBack(i)) = Len(queue) - 1
           /\ \A j \in 1..(Len(queue) - 1) :
                 TakenBack(i)[j] = IF j < i THEN queue[j] ELSE queue[j + 1]
<1> DEFINE front == SubSeq(queue, 1, i - 1)
           back == SubSeq(queue, i + 1, Len(queue))
<1>1. queue \in Seq(Queued) /\ Len(queue) \in Nat /\ i \in Nat /\ 1 <= i /\ i <= Len(queue)
    BY DEF TypeInv
<1>2. /\ front \in Seq(Queued) /\ Len(front) = i - 1
      /\ \A j \in 1..(i - 1) : front[j] = queue[j]
    <2>1. \A j \in 1..(i - 1) : queue[j] \in Queued
        BY <1>1, ElementOfSeq
    <2>2. /\ front \in Seq(Queued) /\ Len(front) = IF 1 <= i - 1 THEN i - 1 - 1 + 1 ELSE 0
          /\ \A j \in 1..(i - 1 - 1 + 1) : front[j] = queue[1 + j - 1]
        BY <1>1, <2>1, SubSeqProperties
    <2> HIDE DEF front
    <2> QED
        BY <1>1, <2>2
<1>3. /\ back \in Seq(Queued) /\ Len(back) = Len(queue) - i
      /\ \A j \in 1..(Len(queue) - i) : back[j] = queue[i + j]
    <2>1. \A j \in (i + 1)..Len(queue) : queue[j] \in Queued
        BY <1>1, ElementOfSeq
    <2>2. /\ back \in Seq(Queued)
          /\ Len(back) = IF i + 1 <= Len(queue) THEN Len(queue) - (i + 1) + 1 ELSE 0
          /\ \A j \in 1..(Len(queue) - (i + 1) + 1) : back[j] = queue[(i + 1) + j - 1]
        BY <1>1, <2>1, SubSeqProperties
    <2> HIDE DEF back
    <2> QED
        BY <1>1, <2>2
<1> HIDE DEF front, back
<1>4. /\ front \o back \in Seq(Queued) /\ Len(front \o back) = Len(queue) - 1
      /\ \A j \in 1..(Len(queue) - 1) :
            (front \o back)[j] = IF j <= i - 1 THEN front[j] ELSE back[j - (i - 1)]
    <2>1. /\ front \o back \in Seq(Queued) /\ Len(front \o back) = Len(front) + Len(back)
          /\ \A j \in 1..Len(front) + Len(back) :
                (front \o back)[j] = IF j <= Len(front) THEN front[j] ELSE back[j - Len(front)]
        BY <1>2, <1>3, ConcatProperties
    <2> QED
        BY <1>1, <1>2, <1>3, <2>1
<1>5. \A j \in 1..(Len(queue) - 1) :
          (front \o back)[j] = IF j < i THEN queue[j] ELSE queue[j + 1]
    <2> SUFFICES ASSUME NEW j \in 1..(Len(queue) - 1)
                 PROVE  (front \o back)[j] = IF j < i THEN queue[j] ELSE queue[j + 1]
        OBVIOUS
    <2>1. CASE j < i
        BY <1>1, <1>2, <1>4, <2>1
    <2>2. CASE ~(j < i)
        <3>1. j - (i - 1) \in 1..(Len(queue) - i) /\ i + (j - (i - 1)) = j + 1
            BY <1>1, <2>2
        <3>2. (front \o back)[j] = back[j - (i - 1)]
            <4>1. ~(j <= i - 1)
                BY <1>1, <2>2
            <4> QED
                BY <1>4, <4>1
        <3>3. back[j - (i - 1)] = queue[i + (j - (i - 1))]
            BY <1>3, <3>1
        <3> QED
            BY <1>1, <2>2, <3>1, <3>2, <3>3
    <2> QED
        BY <2>1, <2>2
<1> QED
    BY <1>4, <1>5 DEF TakenBack, front, back

LEMMA WithdrawType ==
    ASSUME TypeInv, NEW a \in Actors, Withdraw(a)
    PROVE  queue' \in Seq(Queued) /\ running' \in Callable \cup {Nothing}
<1>1. queue' \in Seq(Queued)
    BY TakenBackIs DEF Withdraw, TypeInv
<1>2. running' \in Callable \cup {Nothing}
    <2>1. running # Nothing => [running EXCEPT !.by = Nobody] \in Callable
        BY DEF TypeInv, Callable
    <2> QED
        BY <2>1 DEF Withdraw, TypeInv
<1> QED
    BY <1>1, <1>2

LEMMA StopOrderIs ==
    /\ Head(StopOrder) = "sweep"
    /\ NextStep("sweep") = "clients" /\ NextStep("clients") = "database"
    /\ NextStep("database") = "ended" /\ AfterRaise("clients") = "database"
<1>1. Len(StopOrder) = 3 /\ Head(StopOrder) = "sweep"
      /\ StopOrder[1] = "sweep" /\ StopOrder[2] = "clients" /\ StopOrder[3] = "database"
    BY DEF StopOrder
<1>2. Place("sweep") = 1 /\ Place("clients") = 2 /\ Place("database") = 3
    BY <1>1 DEF Place
<1>3. NextStep("sweep") = "clients" /\ NextStep("clients") = "database"
      /\ NextStep("database") = "ended"
    BY <1>1, <1>2 DEF NextStep
<1> QED
    BY <1>1, <1>3 DEF AfterRaise, Finally

-----------------------------------------------------------------------------
(* Each actor has at most one callable, the one it awaits. *)

Awaiting == {"write", "erase", "truncate", "fields", "notes", "closing"}
Waits(a) == at[a] \in Awaiting /\ answer[a] = "none"
WaitsNext(a) == at'[a] \in Awaiting /\ answer'[a] = "none"

QueueInv ==
    /\ \A i \in 1..Len(queue) :
          Waits(queue[i].by) /\ (queue[i].does = "close" <=> queue[i].by = Stop)
    /\ \A i, j \in 1..Len(queue) : queue[i].by = queue[j].by => i = j
    /\ running # Nothing =>
          /\ running.does = "close" <=> running.by = Stop
          /\ running.by \in Actors =>
                Waits(running.by) /\ \A i \in 1..Len(queue) : queue[i].by # running.by

\* The actor a has no callable.
Free(a) ==
    /\ \A i \in 1..Len(queue) : queue[i].by # a
    /\ running # Nothing => running.by # a

LEMMA NotWaiting == ASSUME QueueInv, NEW a \in Actors, ~Waits(a) PROVE Free(a)
BY DEF QueueInv, Free

LEMMA SubmitQueue ==
    ASSUME TypeInv, QueueInv, NEW a \in Actors, NEW does \in Work, NEW step \in Awaiting,
           does = "close" <=> a = Stop, ~Waits(a), Submit(a, does, step), running' = running
    PROVE  QueueInv'
<1> DEFINE c == [by |-> a, does |-> does]
<1>1. c \in Queued /\ c.by = a /\ c.does = does
    BY DEF Queued
<1>2. Free(a)
    BY NotWaiting
<1> HIDE DEF c
<1>3. /\ Len(queue) \in Nat /\ Len(queue') = Len(queue) + 1
      /\ \A i \in 1..Len(queue) : queue'[i] = queue[i] /\ queue[i].by \in Actors
      /\ queue'[Len(queue) + 1] = c
    <2>1. queue \in Seq(Queued) /\ queue' = Append(queue, c)
        BY DEF TypeInv, Submit, c
    <2>2. \A i \in 1..Len(queue) : queue[i] \in Queued
        BY <2>1, ElementOfSeq
    <2>3. /\ Len(queue') = Len(queue) + 1 /\ queue'[Len(queue) + 1] = c
          /\ \A i \in 1..Len(queue) : queue'[i] = queue[i]
        BY <1>1, <2>1, AppendProperties
    <2>4. Len(queue) \in Nat
        BY <2>1, LenProperties
    <2>5. \A i \in 1..Len(queue) : queue[i].by \in Actors
        BY <2>2 DEF Queued
    <2> QED
        BY <2>3, <2>4, <2>5
<1>4. WaitsNext(a) /\ \A b \in Actors : b # a => (WaitsNext(b) <=> Waits(b))
    BY DEF Submit, TypeInv, Waits, WaitsNext
<1>5. \A i \in 1..Len(queue') : i \in 1..Len(queue) \/ i = Len(queue) + 1
    BY <1>3
<1>6. ASSUME NEW i \in 1..Len(queue')
      PROVE  WaitsNext(queue'[i].by) /\ (queue'[i].does = "close" <=> queue'[i].by = Stop)
    <2>1. CASE i \in 1..Len(queue)
        BY <1>2, <1>3, <1>4, <2>1 DEF QueueInv, Free
    <2>2. CASE i = Len(queue) + 1
        BY <1>1, <1>3, <1>4, <2>2
    <2> QED
        BY <1>5, <2>1, <2>2
<1>7. \A i, j \in 1..Len(queue') : queue'[i].by = queue'[j].by => i = j
    <2>1. \A i \in 1..Len(queue) : queue'[i].by = queue[i].by /\ queue[i].by # a
        BY <1>2, <1>3 DEF Free
    <2>2. queue'[Len(queue) + 1].by = a
        BY <1>1, <1>3
    <2>3. \A i, j \in 1..Len(queue) : queue[i].by = queue[j].by => i = j
        BY DEF QueueInv
    <2> QED
        BY <1>5, <2>1, <2>2, <2>3
<1>8. running' # Nothing => (running'.does = "close" <=> running'.by = Stop)
    BY DEF QueueInv
<1>9. ASSUME running' # Nothing, running'.by \in Actors
      PROVE  WaitsNext(running'.by) /\ \A i \in 1..Len(queue') : queue'[i].by # running'.by
    <2>1. running.by # a /\ Waits(running.by)
        BY <1>2, <1>9 DEF Free, QueueInv
    <2>2. \A i \in 1..Len(queue) : queue'[i].by # running.by
        BY <1>3, <1>9 DEF QueueInv
    <2>3. queue'[Len(queue) + 1].by # running.by
        BY <1>1, <1>3, <2>1
    <2> QED
        BY <1>4, <1>5, <1>9, <2>1, <2>2, <2>3
<1> QED
    BY <1>6, <1>7, <1>8, <1>9 DEF QueueInv, Waits, WaitsNext

\* A step that only shortens the queue and after which who waited still waits.
LEMMA ShorterQueue ==
    ASSUME TypeInv, QueueInv,
           \A i \in 1..Len(queue') : queue'[i] \in Queued,
           NEW place \in [1..Len(queue') -> 1..Len(queue)],
           \A i \in 1..Len(queue') : queue'[i] = queue[place[i]],
           \A i, j \in 1..Len(queue') : place[i] = place[j] => i = j,
           \A i \in 1..Len(queue') : WaitsNext(queue'[i].by),
           running' # Nothing =>
               /\ running'.does = "close" <=> running'.by = Stop
               /\ running'.by \in Actors =>
                     /\ WaitsNext(running'.by)
                     /\ \A i \in 1..Len(queue') : queue'[i].by # running'.by
    PROVE  QueueInv'
<1>1. \A i \in 1..Len(queue') : queue'[i].does = "close" <=> queue'[i].by = Stop
    BY DEF QueueInv
<1>2. \A i, j \in 1..Len(queue') : queue'[i].by = queue'[j].by => i = j
    <2> SUFFICES ASSUME NEW i \in 1..Len(queue'), NEW j \in 1..Len(queue'),
                        queue'[i].by = queue'[j].by
                 PROVE  i = j
        OBVIOUS
    <2>1. place[i] = place[j]
        BY DEF QueueInv
    <2> QED
        BY <2>1
<1> QED
    BY <1>1, <1>2 DEF QueueInv, Waits, WaitsNext

LEMMA QueuedByActors ==
    ASSUME TypeInv
    PROVE  \A i \in 1..Len(queue) : queue[i] \in Queued /\ queue[i].by \in Actors
<1>1. queue \in Seq(Queued)
    BY DEF TypeInv
<1>2. \A i \in 1..Len(queue) : queue[i] \in Queued
    BY <1>1, ElementOfSeq
<1> QED
    BY <1>2 DEF Queued

LEMMA ProceedQueue ==
    ASSUME TypeInv, QueueInv, NEW a \in Actors, ~Waits(a), NEW step, Proceed(a, step),
           running' = running
    PROVE  QueueInv'
<1>1. \A b \in Actors : b # a => (WaitsNext(b) <=> Waits(b))
    BY DEF Proceed, TypeInv, Waits, WaitsNext
<1>2. Free(a) /\ queue' = queue
    BY NotWaiting DEF Proceed
<1>3. \A i \in 1..Len(queue) : queue[i].by \in Actors
    BY QueuedByActors
<1>4. \A i \in 1..Len(queue) : WaitsNext(queue[i].by)
    BY <1>1, <1>2, <1>3 DEF QueueInv, Free
<1>5. running # Nothing /\ running.by \in Actors => WaitsNext(running.by)
    BY <1>1, <1>2 DEF QueueInv, Free
<1> QED
    BY <1>2, <1>4, <1>5 DEF QueueInv, Waits, WaitsNext

LEMMA WithdrawQueue ==
    ASSUME TypeInv, QueueInv, NEW a \in Actors, a # Stop, Withdraw(a),
           \A b \in Actors : b # a /\ Waits(b) => WaitsNext(b)
    PROVE  QueueInv'
<1>1. /\ Len(queue) \in Nat /\ queue' \in Seq(Queued)
      /\ \A i \in 1..Len(queue) : queue[i].by \in Actors
    BY WithdrawType, LenProperties, QueuedByActors DEF TypeInv
<1>2. \A i \in 1..Len(queue) : queue[i].by # a => WaitsNext(queue[i].by)
    BY <1>1 DEF QueueInv
<1>3. \A i \in 1..Len(queue') : queue'[i] \in Queued
    BY <1>1, ElementOfSeq
<1>4. /\ running' # Nothing => (running'.does = "close" <=> running'.by = Stop)
      /\ running' # Nothing /\ running'.by \in Actors =>
            running' = running /\ WaitsNext(running.by)
    <2>1. CASE running # Nothing /\ running.by = a
        <3>1. running'.by = Nobody /\ running'.does = running.does
            BY <2>1 DEF Withdraw, TypeInv, Callable
        <3>2. running.does # "close" /\ Nobody # Stop /\ Nobody \notin Actors
            BY <2>1, ProcessAssumption DEF QueueInv, Actors
        <3> QED
            BY <3>1, <3>2
    <2>2. CASE ~(running # Nothing /\ running.by = a)
        BY <2>2 DEF Withdraw, QueueInv
    <2> QED
        BY <2>1, <2>2
<1>5. CASE \E i \in 1..Len(queue) : queue[i].by = a /\ queue' = TakenBack(i)
    <2>1. PICK i \in 1..Len(queue) : queue[i].by = a /\ queue' = TakenBack(i)
        BY <1>5
    <2>2. /\ Len(queue') = Len(queue) - 1
          /\ \A j \in 1..(Len(queue) - 1) : queue'[j] = IF j < i THEN queue[j] ELSE queue[j + 1]
        BY <2>1, TakenBackIs
    <2> DEFINE place == [j \in 1..Len(queue') |-> IF j < i THEN j ELSE j + 1]
    <2>3. /\ place \in [1..Len(queue') -> 1..Len(queue)]
          /\ \A j \in 1..Len(queue') : queue'[j] = queue[place[j]] /\ place[j] # i
          /\ \A j, k \in 1..Len(queue') : place[j] = place[k] => j = k
        BY <1>1, <2>2
    <2> HIDE DEF place
    <2>4. \A j \in 1..Len(queue') : queue'[j].by # a
        BY <2>1, <2>3 DEF QueueInv
    <2>5. \A j \in 1..Len(queue') : WaitsNext(queue'[j].by)
        BY <1>2, <2>3, <2>4
    <2>6. running' # Nothing /\ running'.by \in Actors =>
              \A j \in 1..Len(queue') : queue'[j].by # running'.by
        BY <1>4, <2>3 DEF QueueInv
    <2> QED
        BY <1>3, <1>4, <2>3, <2>5, <2>6, ShorterQueue
<1>6. CASE (\A i \in 1..Len(queue) : queue[i].by # a) /\ queue' = queue
    BY <1>2, <1>4, <1>6 DEF QueueInv, Waits, WaitsNext
<1> QED
    BY <1>5, <1>6 DEF Withdraw

LEMMA TakeQueue == ASSUME TypeInv, QueueInv, Take PROVE QueueInv'
<1>1. /\ running = Nothing /\ queue # <<>> /\ running' = queue[1] /\ queue' = Tail(queue)
      /\ UNCHANGED <<at, answer>>
    BY DEF Take, actorVars, TypeInv
<1>2. queue \in Seq(Queued) /\ Len(queue) \in Nat /\ Len(queue) # 0
    BY <1>1, LenProperties, EmptySeq DEF TypeInv
<1>3. Len(queue') = Len(queue) - 1 /\ \A i \in 1..(Len(queue) - 1) : queue'[i] = queue[i + 1]
    BY <1>1, <1>2, HeadTailProperties
<1>4. 1 \in 1..Len(queue) /\ \A i \in 1..Len(queue) : queue[i] \in Queued
    BY <1>2, ElementOfSeq
<1> DEFINE place == [i \in 1..Len(queue') |-> i + 1]
<1>5. /\ place \in [1..Len(queue') -> 1..Len(queue)]
      /\ \A i \in 1..Len(queue') : queue'[i] = queue[place[i]] /\ place[i] # 1
      /\ \A i, j \in 1..Len(queue') : place[i] = place[j] => i = j
    BY <1>2, <1>3
<1> HIDE DEF place
<1>6. \A i \in 1..Len(queue) : WaitsNext(queue[i].by)
    BY <1>1 DEF QueueInv, Waits, WaitsNext
<1>7. \A i \in 1..Len(queue') : queue'[i] \in Queued /\ WaitsNext(queue'[i].by)
    BY <1>4, <1>5, <1>6
<1>8. /\ running'.does = "close" <=> running'.by = Stop
      /\ WaitsNext(running'.by)
      /\ \A i \in 1..Len(queue') : queue'[i].by # running'.by
    BY <1>1, <1>4, <1>5, <1>6 DEF QueueInv
<1> QED
    BY <1>5, <1>7, <1>8, ShorterQueue

\* The thread has done with a callable, and at most its actor has been answered.
LEMMA AnsweredQueue ==
    ASSUME TypeInv, QueueInv, running # Nothing, running' = Nothing, queue' = queue, at' = at,
           NEW brought, Reply(brought)
    PROVE  QueueInv'
<1>1. \A b \in Actors : b # running.by /\ Waits(b) => WaitsNext(b)
    BY DEF Reply, Waits, WaitsNext
<1>2. \A i \in 1..Len(queue) : queue[i].by \in Actors /\ queue[i].by # running.by
    <2>1. \A i \in 1..Len(queue) : queue[i].by \in Actors
        BY QueuedByActors
    <2> QED
        BY <2>1 DEF QueueInv
<1> QED
    BY <1>1, <1>2 DEF QueueInv, Waits, WaitsNext

-----------------------------------------------------------------------------
(* Where the actors and the connection stand in each phase. *)

\* The steps of the stop after the sweeping task has ended.
Late == {"clients", "database", "closing", "ended"}

StandInv ==
    /\ \A r \in Requests : at[r] \in RequestSteps
    /\ at[Sweep] \in SweepSteps /\ at[Stop] \in StopSteps
    /\ \A a \in Actors : answer[a] # "none" => at[a] \in Awaiting
    /\ phase \notin Up => /\ queue = <<>> /\ running = Nothing
                          /\ \A a \in Actors : at[a] = "idle"
    /\ phase \in {"serving", "draining"} => at[Stop] = "idle"
    /\ phase = "stopping" => \A r \in Requests : at[r] = "idle"
    /\ at[Stop] = "joining" => at[Sweep] \in {"cancelled", "ended"}
    /\ at[Stop] \in Late => at[Sweep] = "ended"

ConnectionInv ==
    /\ phase \in Down \cup {"opening"} => connection = "closed"
    /\ phase = "migrating" => connection = "open"
    /\ phase \in Up /\ at[Stop] \notin {"closing", "ended"} => connection = "open"
    /\ at[Stop] = "ended" \/ answer[Stop] # "none" => connection = "closed"
    /\ phase \in Up /\ connection = "closed" => queue = <<>> /\ running = Nothing /\ ~residue
    /\ phase = "stopped" => ~residue

ProcessInv == TypeInv /\ QueueInv /\ StandInv /\ ConnectionInv

LEMMA ActorsDiffer ==
    /\ Sweep \in Actors /\ Stop \in Actors /\ Sweep # Stop
    /\ \A r \in Requests : r \in Actors /\ r # Sweep /\ r # Stop
    /\ \A a \in Actors : a \in Requests \/ a = Sweep \/ a = Stop
BY ProcessAssumption DEF Actors

\* Only a process that stops has a stop under way.
LEMMA StopOnlyThen == ASSUME ProcessInv, at[Stop] # "idle" PROVE phase = "stopping"
BY ActorsDiffer DEF ProcessInv, TypeInv, StandInv, Phases, Up, Down

LEMMA InitProcess == Init => ProcessInv
<1> SUFFICES ASSUME Init PROVE ProcessInv
    OBVIOUS
<1>1. TypeInv /\ Len(queue) = 0 /\ running = Nothing
    BY InitType DEF Init
<1>2. QueueInv
    BY <1>1 DEF QueueInv
<1>3. StandInv /\ ConnectionInv
    BY IdleType, ActorsDiffer
       DEF Init, StandInv, ConnectionInv, Up, Down, Late, RequestSteps, SweepSteps, StopSteps
<1> QED
    BY <1>1, <1>2, <1>3 DEF ProcessInv

\* While it starts and when it is down, a process has nothing queued.
LEMMA QuietStep ==
    ASSUME ProcessInv, phase \notin Up, UNCHANGED <<queue, running, at, answer>>,
           phase' \in Phases, residue' \in BOOLEAN,
           \/ phase' \in {"opening", "refused"} /\ connection' = "closed"
           \/ phase' = "migrating" /\ connection' = "open"
    PROVE  ProcessInv'
<1>1. TypeInv'
    BY DEF ProcessInv, TypeInv
<1>2. QueueInv'
    BY DEF ProcessInv, QueueInv, Waits
<1>3. StandInv' /\ ConnectionInv'
    BY ActorsDiffer DEF ProcessInv, StandInv, ConnectionInv, Up, Down, Late, Awaiting
<1> QED
    BY <1>1, <1>2, <1>3 DEF ProcessInv

LEMMA StartingProcess ==
    ASSUME ProcessInv,
           Start \/ Open \/ BeginScript \/ RunStatement \/ RecordVersion \/ Refusal,
           SchemaInv
    PROVE  ProcessInv'
<1>1. UNCHANGED <<queue, running, at, answer>> /\ phase \notin Up
    BY DEF Start, Open, BeginScript, RunStatement, RecordVersion, Refusal, OpenRefused,
           StartRefused, CloseConnection, threadVars, actorVars, Up, Down, SchemaInv
<1>2. /\ phase' \in {"opening", "refused", "migrating"} /\ residue' \in BOOLEAN
      /\ phase' = "migrating" => connection' = "open"
      /\ phase' # "migrating" => connection' = "closed"
    BY DEF ProcessInv, TypeInv, ConnectionInv, SchemaInv, Start, Open, BeginScript, RunStatement,
           RecordVersion, Refusal, OpenRefused, StartRefused, CloseConnection, threadVars, Down
<1>3. phase' \in Phases
    BY <1>2 DEF Phases, Down
<1> QED
    BY <1>1, <1>2, <1>3, QuietStep

LEMMA BeginServingProcess == ASSUME ProcessInv, BeginServing PROVE ProcessInv'
<1>1. /\ phase = "migrating" /\ phase' = "serving" /\ at' = [at EXCEPT ![Sweep] = "awake"]
      /\ UNCHANGED <<queue, running, connection, residue, answer>>
    BY DEF BeginServing, threadVars
<1>2. queue = <<>> /\ running = Nothing /\ connection = "open"
    BY <1>1 DEF ProcessInv, StandInv, ConnectionInv, Up
<1>3. TypeInv'
    BY <1>1 DEF ProcessInv, TypeInv, Phases, Up, SweepSteps
<1>4. QueueInv'
    BY <1>1, <1>2 DEF QueueInv
<1>5. StandInv' /\ ConnectionInv'
    BY <1>1, <1>2, ActorsDiffer
       DEF ProcessInv, TypeInv, StandInv, ConnectionInv, Up, Down, Late, Awaiting, SweepSteps
<1> QED
    BY <1>3, <1>4, <1>5 DEF ProcessInv

LEMMA TakeProcess == ASSUME ProcessInv, Take PROVE ProcessInv'
<1>1. /\ running = Nothing /\ queue # <<>> /\ running' = Head(queue) /\ queue' = Tail(queue)
      /\ UNCHANGED <<phase, connection, residue, at, answer>>
    BY DEF Take, actorVars
<1>2. phase \in Up /\ connection = "open"
    BY <1>1 DEF ProcessInv, TypeInv, StandInv, ConnectionInv
<1>3. Head(queue) \in Queued /\ Tail(queue) \in Seq(Queued)
    BY <1>1, HeadTailProperties DEF ProcessInv, TypeInv
<1>4. TypeInv'
    BY <1>1, <1>3 DEF ProcessInv, TypeInv, Queued, Callable
<1>5. QueueInv'
    BY TakeQueue DEF ProcessInv
<1>6. StandInv' /\ ConnectionInv'
    BY <1>1, <1>2 DEF ProcessInv, StandInv, ConnectionInv, Up, Down
<1> QED
    BY <1>4, <1>5, <1>6 DEF ProcessInv

\* When the close is next, or under way, nobody else has anything queued.
LEMMA CloseIsAlone ==
    ASSUME ProcessInv, at[Stop] \in {"database", "closing"},
           NEW i \in 1..Len(queue)
    PROVE  queue[i].by = Stop
<1>1. queue[i].by \in Actors /\ Waits(queue[i].by)
    BY QueuedByActors DEF ProcessInv, QueueInv
<1>2. phase = "stopping"
    BY StopOnlyThen
<1>3. at[Sweep] = "ended" /\ \A r \in Requests : at[r] = "idle"
    BY <1>2 DEF ProcessInv, StandInv, Late
<1> QED
    BY <1>1, <1>3, ActorsDiffer DEF Waits, Awaiting

LEMMA ReplyType ==
    ASSUME TypeInv, NEW brought \in Answers, Reply(brought)
    PROVE  /\ answer' \in [Actors -> Answers]
           /\ \A a \in Actors : answer'[a] = IF running.by = a THEN brought ELSE answer[a]
BY DEF TypeInv, Reply

LEMMA FinishProcess == ASSUME ProcessInv, Finish \/ Fail PROVE ProcessInv'
<1>1. /\ running # Nothing /\ running' = Nothing
      /\ UNCHANGED <<phase, queue, at>>
    BY DEF Finish, Fail
<1>2. phase \in Up /\ connection = "open" /\ running \in Callable
    BY <1>1 DEF ProcessInv, TypeInv, StandInv, ConnectionInv
<1>3. PICK brought \in Answers : Reply(brought)
    BY DEF Finish, Fail, Answers
<1>4. /\ answer' \in [Actors -> Answers]
      /\ \A a \in Actors : answer'[a] = IF running.by = a THEN brought ELSE answer[a]
    BY <1>3, ReplyType DEF ProcessInv
<1>5. connection' \in {"open", "closed"} /\ residue' \in BOOLEAN
    BY <1>2 DEF Finish, Fail, CloseConnection, ProcessInv, TypeInv
<1>6. TypeInv'
    BY <1>1, <1>4, <1>5 DEF ProcessInv, TypeInv
<1>7. QueueInv'
    BY <1>1, <1>3, AnsweredQueue DEF ProcessInv
<1>8. StandInv'
    <2>1. \A a \in Actors : running.by = a => at[a] \in Awaiting
        BY <1>1 DEF ProcessInv, QueueInv, Waits
    <2> QED
        BY <1>1, <1>2, <1>4, <2>1, ActorsDiffer DEF ProcessInv, StandInv
<1>9. ConnectionInv'
    <2>1. CASE running.does = "close"
        <3>1. running.by = Stop /\ Waits(Stop)
            BY <1>1, <2>1, ActorsDiffer DEF ProcessInv, QueueInv
        <3>2. at[Stop] = "closing"
            BY <3>1 DEF ProcessInv, StandInv, Waits, Awaiting, StopSteps
        <3>3. \A i \in 1..Len(queue) : FALSE
            BY <1>1, <3>1, <3>2, CloseIsAlone, ActorsDiffer DEF ProcessInv, QueueInv
        <3>4. queue = <<>>
            <4>1. Len(queue) \in Nat /\ queue \in Seq(Queued)
                BY LenProperties DEF ProcessInv, TypeInv
            <4>2. Len(queue) = 0
                BY <3>3, <4>1
            <4> QED
                BY <4>1, <4>2, EmptySeq
        <3>5. connection' = "closed" /\ ~residue'
            BY <2>1 DEF Finish, Fail, CloseConnection
        <3>6. phase = "stopping"
            BY <3>2, StopOnlyThen
        <3> QED
            BY <1>1, <3>2, <3>4, <3>5, <3>6 DEF ConnectionInv, Up, Down
    <2>2. CASE running.does # "close"
        <3>1. running.by # Stop /\ connection' = connection
            BY <1>1, <2>2 DEF Finish, Fail, ProcessInv, QueueInv
        <3>2. answer'[Stop] = answer[Stop]
            BY <1>4, <3>1, ActorsDiffer
        <3> QED
            BY <1>1, <1>2, <3>1, <3>2 DEF ProcessInv, ConnectionInv, Up, Down
    <2> QED
        BY <2>1, <2>2
<1> QED
    BY <1>6, <1>7, <1>8, <1>9 DEF ProcessInv

-----------------------------------------------------------------------------
(* Requests. *)

\* A request's own step while the process serves or drains.
LEMMA RequestStands ==
    ASSUME ProcessInv, NEW r \in Requests, NEW step \in RequestSteps,
           phase \in {"serving", "draining"}, UNCHANGED <<phase, connection, residue>>,
           at' = [at EXCEPT ![r] = step], answer' = [answer EXCEPT ![r] = "none"]
    PROVE  StandInv' /\ ConnectionInv'
<1>1. at[Stop] = "idle" /\ connection = "open"
    BY DEF ProcessInv, StandInv, ConnectionInv, Up
<1>2. /\ at'[r] = step /\ \A a \in Actors : a # r => at'[a] = at[a]
      /\ answer'[r] = "none" /\ \A a \in Actors : a # r => answer'[a] = answer[a]
    BY ActorsDiffer DEF ProcessInv, TypeInv
<1> QED
    BY <1>1, <1>2, ActorsDiffer DEF ProcessInv, StandInv, ConnectionInv, Up, Down, Late

LEMMA ArriveProcess == ASSUME ProcessInv, NEW r \in Requests, Arrive(r) PROVE ProcessInv'
<1>1. /\ phase = "serving" /\ at[r] = "idle"
      /\ UNCHANGED <<phase, connection, residue, running>>
    BY DEF Arrive
<1>2. PICK does \in {"write", "erase"} : Submit(r, does, does)
    BY DEF Arrive
<1>3. /\ does \in Work /\ does \in RequestSteps /\ does \in Awaiting /\ does # "close"
      /\ r \in Actors /\ r # Stop /\ ~Waits(r)
    BY <1>1, ActorsDiffer DEF Work, RequestSteps, Awaiting, Waits
<1>4. TypeInv'
    BY <1>1, <1>2, <1>3, SubmitType DEF ProcessInv, TypeInv
<1>5. QueueInv'
    BY <1>1, <1>2, <1>3, SubmitQueue DEF ProcessInv
<1>6. StandInv' /\ ConnectionInv'
    BY <1>1, <1>2, <1>3, RequestStands DEF Submit
<1> QED
    BY <1>4, <1>5, <1>6 DEF ProcessInv

LEMMA ResumeProcess == ASSUME ProcessInv, NEW r \in Requests, Resume(r) PROVE ProcessInv'
<1>1. /\ answer[r] # "none" /\ r \in Actors /\ r # Stop /\ ~Waits(r)
      /\ UNCHANGED <<phase, connection, residue, running>>
    BY ActorsDiffer DEF Resume, Answered, Waits
<1>2. at[r] # "idle"
    BY <1>1 DEF ProcessInv, StandInv, Awaiting
<1>3. phase \in {"serving", "draining"}
    BY <1>1, <1>2, ActorsDiffer DEF ProcessInv, TypeInv, StandInv, Phases, Up
<1>4. CASE Submit(r, "truncate", "truncate")
    <2>1. "truncate" \in Work /\ "truncate" \in RequestSteps /\ "truncate" \in Awaiting
        BY DEF Work, RequestSteps, Awaiting
    <2>2. TypeInv'
        BY <1>1, <1>4, <2>1, SubmitType DEF ProcessInv, TypeInv
    <2>3. QueueInv'
        BY <1>1, <1>4, <2>1, SubmitQueue DEF ProcessInv
    <2>4. StandInv' /\ ConnectionInv'
        BY <1>1, <1>3, <1>4, <2>1, RequestStands DEF Submit
    <2> QED
        BY <2>2, <2>3, <2>4 DEF ProcessInv
<1>5. CASE Proceed(r, "idle")
    <2>1. "idle" \in RequestSteps
        BY DEF RequestSteps
    <2>2. TypeInv'
        BY <1>1, <1>5, <2>1, ProceedType DEF ProcessInv, TypeInv
    <2>3. QueueInv'
        BY <1>1, <1>5, ProceedQueue DEF ProcessInv
    <2>4. StandInv' /\ ConnectionInv'
        BY <1>1, <1>3, <1>5, <2>1, RequestStands DEF Proceed
    <2> QED
        BY <2>2, <2>3, <2>4 DEF ProcessInv
<1> QED
    BY <1>4, <1>5 DEF Resume

LEMMA CancelProcess == ASSUME ProcessInv, NEW r \in Requests, Cancel(r) PROVE ProcessInv'
<1>1. /\ at[r] # "idle" /\ r \in Actors /\ r # Stop /\ Withdraw(r)
      /\ at' = [at EXCEPT ![r] = "idle"] /\ answer' = [answer EXCEPT ![r] = "none"]
      /\ UNCHANGED <<phase, connection, residue>>
    BY ActorsDiffer DEF Cancel
<1>2. phase \in {"serving", "draining"}
    BY <1>1, ActorsDiffer DEF ProcessInv, TypeInv, StandInv, Phases, Up
<1>3. "idle" \in RequestSteps
    BY DEF RequestSteps
<1>4. TypeInv'
    BY <1>1, <1>3, WithdrawType DEF ProcessInv, TypeInv, Answers
<1>5. \A b \in Actors : b # r /\ Waits(b) => WaitsNext(b)
    BY <1>1 DEF ProcessInv, TypeInv, Waits, WaitsNext
<1>6. QueueInv'
    BY <1>1, <1>5, WithdrawQueue DEF ProcessInv
<1>7. StandInv' /\ ConnectionInv'
    BY <1>1, <1>2, <1>3, RequestStands
<1> QED
    BY <1>4, <1>6, <1>7 DEF ProcessInv

-----------------------------------------------------------------------------
(* The sweeping task. *)

\* A step of the task, which it takes until the stop has cancelled it.
LEMMA SweepStands ==
    ASSUME ProcessInv, NEW step \in SweepSteps,
           at[Sweep] \notin {"idle", "cancelled", "ended"} \/ step = "ended",
           at[Sweep] \notin {"idle", "ended"},
           UNCHANGED <<phase, connection, residue, running>>,
           at' = [at EXCEPT ![Sweep] = step], answer' = [answer EXCEPT ![Sweep] = "none"]
    PROVE  StandInv' /\ ConnectionInv'
<1>1. /\ at'[Sweep] = step /\ \A a \in Actors : a # Sweep => at'[a] = at[a]
      /\ answer'[Sweep] = "none" /\ \A a \in Actors : a # Sweep => answer'[a] = answer[a]
    BY ActorsDiffer DEF ProcessInv, TypeInv
<1>2. phase \in Up
    BY ActorsDiffer DEF ProcessInv, StandInv
<1>3. at[Stop] \notin Late
    BY DEF ProcessInv, StandInv
<1>4. StandInv'
    BY <1>1, <1>2, <1>3, ActorsDiffer DEF ProcessInv, StandInv
<1>5. connection = "open" /\ at'[Stop] = at[Stop] /\ answer'[Stop] = answer[Stop]
    BY <1>1, <1>2, <1>3, ActorsDiffer DEF ProcessInv, ConnectionInv, Late
<1>6. ConnectionInv'
    BY <1>2, <1>5 DEF ProcessInv, ConnectionInv, Up, Down
<1> QED
    BY <1>4, <1>6

LEMMA SweepSubmits ==
    ASSUME ProcessInv, NEW does \in {"purge", "truncate"},
           NEW step \in {"fields", "notes", "truncate"},
           at[Sweep] \notin {"idle", "cancelled", "ended"}, ~Waits(Sweep),
           Submit(Sweep, does, step), UNCHANGED <<phase, connection, residue, running>>
    PROVE  ProcessInv'
<1>1. /\ does \in Work /\ does # "close" /\ step \in Awaiting /\ step \in SweepSteps
      /\ Sweep \in Actors /\ Sweep # Stop
    BY ActorsDiffer DEF Work, Awaiting, SweepSteps
<1>2. TypeInv'
    BY <1>1, SubmitType DEF ProcessInv, TypeInv
<1>3. QueueInv'
    BY <1>1, SubmitQueue DEF ProcessInv
<1>4. StandInv' /\ ConnectionInv'
    BY <1>1, SweepStands DEF Submit
<1> QED
    BY <1>2, <1>3, <1>4 DEF ProcessInv

LEMMA SweepProceeds ==
    ASSUME ProcessInv, NEW step \in {"asleep", "ended"},
           at[Sweep] \notin {"idle", "cancelled", "ended"} \/ step = "ended",
           at[Sweep] \notin {"idle", "ended"}, ~Waits(Sweep),
           Proceed(Sweep, step), UNCHANGED <<phase, connection, residue, running>>
    PROVE  ProcessInv'
<1>1. step \in SweepSteps /\ Sweep \in Actors
    BY ActorsDiffer DEF SweepSteps
<1>2. TypeInv'
    BY <1>1, ProceedType DEF ProcessInv, TypeInv
<1>3. QueueInv'
    BY <1>1, ProceedQueue DEF ProcessInv
<1>4. StandInv' /\ ConnectionInv'
    BY <1>1, SweepStands DEF Proceed
<1> QED
    BY <1>2, <1>3, <1>4 DEF ProcessInv

LEMMA SweepProcess == ASSUME ProcessInv, SweepTask PROVE ProcessInv'
<1>1. UNCHANGED <<phase, connection, residue, running>>
    BY DEF SweepTask
<1>2. Answered(Sweep) => at[Sweep] \in Awaiting /\ ~Waits(Sweep)
    BY ActorsDiffer DEF Answered, Waits, ProcessInv, StandInv
<1>3. CASE SweepCancelled
    <2>1. at[Sweep] = "cancelled" /\ Proceed(Sweep, "ended") /\ ~Waits(Sweep)
        BY <1>3 DEF SweepCancelled, AfterCancel, Waits, Awaiting
    <2> QED
        BY <1>1, <2>1, SweepProceeds
<1>4. CASE SweepStep
    <2>1. at[Sweep] \notin {"idle", "cancelled", "ended"} /\ ~Waits(Sweep)
        BY <1>2, <1>4 DEF SweepStep, Awaiting, Waits
    <2>2. \/ Submit(Sweep, "purge", "fields") \/ Submit(Sweep, "purge", "notes")
          \/ Submit(Sweep, "truncate", "truncate") \/ Proceed(Sweep, "asleep")
        BY <1>4 DEF SweepStep
    <2> QED
        BY <1>1, <2>1, <2>2, SweepSubmits, SweepProceeds
<1> QED
    BY <1>3, <1>4 DEF SweepTask

-----------------------------------------------------------------------------
(* The stop. *)

\* What the stop's own steps keep, whoever else has moved.
LEMMA StopStands ==
    ASSUME ProcessInv, phase' = "stopping", \A r \in Requests : at[r] = "idle",
           NEW step \in StopSteps \ {"idle"}, at' = [at EXCEPT ![Stop] = step],
           answer' = [answer EXCEPT ![Stop] = "none"],
           step = "joining" => at[Sweep] \in {"cancelled", "ended"},
           step \in Late => at[Sweep] = "ended"
    PROVE  StandInv' /\ at'[Stop] = step /\ answer'[Stop] = "none"
<1>1. /\ at'[Stop] = step /\ \A a \in Actors : a # Stop => at'[a] = at[a]
      /\ answer'[Stop] = "none" /\ \A a \in Actors : a # Stop => answer'[a] = answer[a]
    BY ActorsDiffer DEF ProcessInv, TypeInv
<1> QED
    BY <1>1, ActorsDiffer DEF ProcessInv, StandInv, Up

LEMMA BeginStopProcess == ASSUME ProcessInv, BeginStop PROVE ProcessInv'
<1>1. /\ phase = "draining" /\ phase' = "stopping" /\ \A r \in Requests : at[r] = "idle"
      /\ Proceed(Stop, "sweep") /\ UNCHANGED <<connection, residue, running>>
    BY StopOrderIs DEF BeginStop
<1>2. /\ at[Stop] = "idle" /\ ~Waits(Stop) /\ Stop \in Actors /\ "sweep" \in StopSteps \ {"idle"}
      /\ "sweep" \notin Late /\ connection = "open"
    BY <1>1, ActorsDiffer
       DEF ProcessInv, StandInv, ConnectionInv, Waits, Awaiting, StopSteps, Late, Up
<1>3. TypeInv'
    BY <1>1, <1>2, ProceedType DEF ProcessInv, TypeInv, Phases, Up
<1>4. QueueInv'
    BY <1>1, <1>2, ProceedQueue DEF ProcessInv
<1>5. StandInv' /\ at'[Stop] = "sweep" /\ answer'[Stop] = "none"
    BY <1>1, <1>2, StopStands DEF Proceed
<1>6. ConnectionInv'
    BY <1>1, <1>2, <1>5 DEF ConnectionInv, Up, Down
<1> QED
    BY <1>3, <1>4, <1>5, <1>6 DEF ProcessInv

LEMMA StopSweepProcess ==
    ASSUME ProcessInv, StopSweep, UNCHANGED <<phase, connection, residue>>
    PROVE  ProcessInv'
<1>1. /\ at[Stop] = "sweep" /\ Withdraw(Sweep)
      /\ at' = [at EXCEPT ![Sweep] = "cancelled", ![Stop] = "joining"]
      /\ answer' = [answer EXCEPT ![Sweep] = "none"]
    BY DEF StopSweep
<1>2. phase = "stopping" /\ connection = "open" /\ Sweep \in Actors /\ Sweep # Stop
    BY <1>1, StopOnlyThen, ActorsDiffer DEF ProcessInv, ConnectionInv, Up
<1>3. TypeInv'
    BY <1>1, <1>2, WithdrawType DEF ProcessInv, TypeInv, SweepSteps, StopSteps, Answers
<1>4. /\ at'[Sweep] = "cancelled" /\ at'[Stop] = "joining"
      /\ answer'[Sweep] = "none" /\ answer'[Stop] = answer[Stop]
      /\ \A r \in Requests : at'[r] = at[r] /\ answer'[r] = answer[r]
    BY <1>1, ActorsDiffer DEF ProcessInv, TypeInv
<1>5. ~Waits(Stop)
    BY <1>1 DEF Waits, Awaiting
<1>6. \A b \in Actors : b # Sweep /\ Waits(b) => WaitsNext(b)
    BY <1>4, <1>5, ActorsDiffer DEF Waits, WaitsNext
<1>7. QueueInv'
    BY <1>1, <1>2, <1>6, WithdrawQueue DEF ProcessInv
<1>8. answer[Stop] = "none"
    BY <1>1, ActorsDiffer DEF ProcessInv, TypeInv, StandInv, Awaiting
<1>9. StandInv'
    BY <1>2, <1>4, <1>8, ActorsDiffer
       DEF ProcessInv, StandInv, Up, Late, SweepSteps, StopSteps
<1>10. ConnectionInv'
    BY <1>2, <1>4, <1>8 DEF ConnectionInv, Up, Down
<1> QED
    BY <1>3, <1>7, <1>9, <1>10 DEF ProcessInv

LEMMA StopGoesOn ==
    ASSUME ProcessInv, UNCHANGED <<phase, connection, residue, running>>, phase = "stopping",
           at[Sweep] = "ended", ~Waits(Stop),
           NEW step \in {"clients", "database", "ended"}, Proceed(Stop, step),
           step = "ended" <=> at[Stop] = "closing" /\ answer[Stop] # "none",
           at[Stop] # "ended"
    PROVE  ProcessInv'
<1>1. step \in StopSteps \ {"idle"} /\ Stop \in Actors /\ queue' = queue
    BY ActorsDiffer DEF StopSteps, Proceed
<1>2. \A r \in Requests : at[r] = "idle"
    BY DEF ProcessInv, StandInv
<1>3. TypeInv'
    BY <1>1, ProceedType DEF ProcessInv, TypeInv
<1>4. QueueInv'
    BY <1>1, ProceedQueue DEF ProcessInv
<1>5. StandInv' /\ at'[Stop] = step /\ answer'[Stop] = "none"
    BY <1>1, <1>2, StopStands DEF Proceed
<1>6. IF step = "ended" THEN connection = "closed" ELSE connection = "open"
    <2>1. CASE step = "ended"
        BY <2>1 DEF ProcessInv, ConnectionInv
    <2>2. CASE step # "ended"
        <3>1. at[Stop] # "closing"
            BY <2>2, ActorsDiffer DEF ProcessInv, TypeInv, Answers, Waits, Awaiting
        <3> QED
            BY <2>2, <3>1 DEF ProcessInv, ConnectionInv, Up
    <2> QED
        BY <2>1, <2>2
<1>7. ConnectionInv'
    BY <1>1, <1>5, <1>6 DEF ProcessInv, ConnectionInv, Up, Down
<1> QED
    BY <1>3, <1>4, <1>5, <1>7 DEF ProcessInv

LEMMA StopDatabaseProcess ==
    ASSUME ProcessInv, StopDatabase, UNCHANGED <<phase, connection, residue, running>>
    PROVE  ProcessInv'
<1>1. at[Stop] = "database" /\ Submit(Stop, "close", "closing")
    BY DEF StopDatabase
<1>2. /\ phase = "stopping" /\ connection = "open" /\ at[Sweep] = "ended"
      /\ \A r \in Requests : at[r] = "idle"
    BY <1>1, StopOnlyThen DEF ProcessInv, StandInv, ConnectionInv, Up, Late
<1>3. /\ ~Waits(Stop) /\ Stop \in Actors /\ "close" \in Work /\ "closing" \in Awaiting
      /\ "closing" \in StopSteps \ {"idle"}
    BY <1>1, ActorsDiffer DEF Waits, Awaiting, Work, StopSteps
<1>4. TypeInv'
    BY <1>1, <1>3, SubmitType DEF ProcessInv, TypeInv
<1>5. QueueInv'
    BY <1>1, <1>3, SubmitQueue DEF ProcessInv
<1>6. StandInv' /\ at'[Stop] = "closing" /\ answer'[Stop] = "none"
    BY <1>1, <1>2, <1>3, StopStands DEF Submit
<1>7. ConnectionInv'
    BY <1>2, <1>6 DEF ConnectionInv, Up, Down
<1> QED
    BY <1>4, <1>5, <1>6, <1>7 DEF ProcessInv

LEMMA StopProcess == ASSUME ProcessInv, StopStep PROVE ProcessInv'
<1>1. UNCHANGED <<phase, connection, residue>>
    BY DEF StopStep
<1>2. CASE StopSweep
    BY <1>1, <1>2, StopSweepProcess
<1>3. CASE SweepStopped
    <2>1. /\ at[Stop] = "joining" /\ at[Sweep] = "ended" /\ Proceed(Stop, "clients")
          /\ running' = running /\ ~Waits(Stop)
        BY <1>3, StopOrderIs DEF SweepStopped, Waits, Awaiting
    <2> QED
        BY <1>1, <2>1, StopOnlyThen, StopGoesOn
<1>4. CASE StopClients
    <2>1. /\ at[Stop] = "clients" /\ Proceed(Stop, "database")
          /\ running' = running /\ ~Waits(Stop)
        BY <1>4, StopOrderIs DEF StopClients, Waits, Awaiting
    <2>2. at[Sweep] = "ended"
        BY <2>1 DEF ProcessInv, StandInv, Late
    <2> QED
        BY <1>1, <2>1, <2>2, StopOnlyThen, StopGoesOn
<1>5. CASE StopDatabase
    <2>1. running' = running
        BY <1>5 DEF StopDatabase
    <2> QED
        BY <1>1, <1>5, <2>1, StopDatabaseProcess
<1>6. CASE DatabaseStopped
    <2>1. /\ at[Stop] = "closing" /\ answer[Stop] # "none" /\ Proceed(Stop, "ended")
          /\ running' = running /\ ~Waits(Stop)
        BY <1>6, StopOrderIs DEF DatabaseStopped, Answered, Waits
    <2>2. at[Sweep] = "ended"
        BY <2>1 DEF ProcessInv, StandInv, Late
    <2> QED
        BY <1>1, <2>1, <2>2, StopOnlyThen, StopGoesOn
<1> QED
    BY <1>2, <1>3, <1>4, <1>5, <1>6 DEF StopStep

\* An end of the process, at which nothing is queued any more and nobody awaits.
LEMMA EndProcess ==
    ASSUME ProcessInv, phase' \in Down, connection' = "closed", queue' = <<>>,
           running' = Nothing, at' = Idle, answer' = Unanswered, residue' = residue,
           phase' = "stopped" => ~residue
    PROVE  ProcessInv'
<1>1. <<>> \in Seq(Queued) /\ Len(<<>>) = 0
    BY EmptySeq
<1>2. TypeInv'
    BY <1>1, IdleType DEF ProcessInv, TypeInv, Phases
<1>3. QueueInv'
    BY <1>1 DEF QueueInv
<1>4. StandInv' /\ ConnectionInv'
    BY IdleType, ActorsDiffer
       DEF StandInv, ConnectionInv, Up, Down, Late, RequestSteps, SweepSteps, StopSteps
<1> QED
    BY <1>2, <1>3, <1>4 DEF ProcessInv

LEMMA ExitProcess == ASSUME ProcessInv, Exit PROVE ProcessInv'
<1>1. /\ at[Stop] = "ended" /\ phase' = "stopped" /\ at' = Idle /\ answer' = Unanswered
      /\ UNCHANGED <<residue, queue, running, connection>>
    BY DEF Exit, threadVars
<1>2. phase \in Up
    BY <1>1, StopOnlyThen DEF Up
<1>3. connection = "closed" /\ queue = <<>> /\ running = Nothing /\ ~residue
    BY <1>1, <1>2 DEF ProcessInv, ConnectionInv
<1>4. phase' \in Down
    BY <1>1 DEF Down
<1> QED
    BY <1>1, <1>3, <1>4, EndProcess

LEMMA DiesProcess == ASSUME ProcessInv, Crash \/ LosePower PROVE ProcessInv'
<1>1. Dies
    BY DEF Crash, LosePower
<1>2. phase' = "dead" /\ "dead" \in Down
    BY <1>1 DEF Dies, Down
<1> QED
    BY <1>1, <1>2, EndProcess DEF Dies

LEMMA NextProcess == ProcessInv /\ SchemaInv /\ [Next]_vars => ProcessInv'
<1> SUFFICES ASSUME ProcessInv, SchemaInv, [Next]_vars PROVE ProcessInv'
    OBVIOUS
<1>1. CASE UNCHANGED <<phase, connection, residue, queue, running, at, answer>>
    BY <1>1 DEF ProcessInv, TypeInv, QueueInv, Waits, StandInv, ConnectionInv
<1>2. CASE Signal
    <2>1. /\ phase = "serving" /\ phase' = "draining"
          /\ UNCHANGED <<connection, residue, queue, running, at, answer>>
        BY <1>2 DEF Signal, threadVars, actorVars
    <2> QED
        BY <2>1 DEF ProcessInv, TypeInv, QueueInv, Waits, StandInv, ConnectionInv, Phases, Up, Down
<1> QED
    BY <1>1, <1>2, StartingProcess, BeginServingProcess, TakeProcess, FinishProcess, ArriveProcess,
       ResumeProcess, CancelProcess, SweepProcess, BeginStopProcess, StopProcess, ExitProcess,
       DiesProcess
       DEF Next, Starting, Thread, vars, threadVars, actorVars

-----------------------------------------------------------------------------
(* The theorems. *)

LEMMA NextSchema == ProcessInv /\ SchemaInv /\ [Next]_vars => SchemaInv'
<1> SUFFICES ASSUME ProcessInv, SchemaInv, [Next]_vars PROVE SchemaInv'
    OBVIOUS
<1>1. CASE UNCHANGED <<schemaVars, phase, shipped>>
    BY <1>1 DEF SchemaInv, schemaVars, Whole
<1>2. CASE Start
    <2>1. phase \in Down /\ script = Nothing
        BY <1>2 DEF Start, SchemaInv, Down
    <2> QED
        BY <1>2, <2>1, OtherSchema DEF Start, schemaVars, SchemaInv, Up
<1>3. CASE Open \/ OpenRefused
    <2>1. phase = "opening" /\ script = Nothing
        BY <1>3 DEF Open, OpenRefused, SchemaInv
    <2> QED
        BY <1>3, <2>1, OtherSchema DEF Open, OpenRefused, schemaVars, SchemaInv, Up
<1>4. CASE StartRefused
    BY <1>4, OtherSchema DEF StartRefused, CloseConnection, Up
<1>5. CASE BeginServing
    <2>1. script = Nothing /\ written = {} /\ shipped \subseteq disk.recorded
        BY <1>5 DEF BeginServing, SchemaInv, Pending
    <2> QED
        BY <1>5, <2>1, OtherSchema DEF BeginServing, schemaVars
<1>6. CASE Finish
    <2>1. /\ UNCHANGED <<disk, script, written, phase, shipped>>
          /\ durable' \in {durable, {disk}}
        BY <1>6 DEF Finish, CloseConnection
    <2> QED
        BY <2>1 DEF SchemaInv, Whole
<1>7. CASE Signal \/ BeginStop \/ Exit
    <2>1. UNCHANGED <<schemaVars, shipped>>
        BY <1>7 DEF Signal, BeginStop, Exit
    <2>2. CASE Exit
        <3>1. phase = "stopping" /\ phase' = "stopped"
            BY <2>2, StopOnlyThen DEF Exit
        <3>2. script = Nothing
            BY <3>1 DEF SchemaInv
        <3> QED
            BY <2>1, <3>1, <3>2, OtherSchema DEF schemaVars, SchemaInv, Up
    <2>3. CASE Signal \/ BeginStop
        <3>1. phase \in Up /\ phase # "migrating"
            BY <2>3 DEF Signal, BeginStop, Up
        <3> QED
            BY <2>1, <3>1 DEF schemaVars, SchemaInv, Whole
    <2> QED
        BY <1>7, <2>2, <2>3
<1>8. CASE Crash \/ LosePower
    BY <1>8, OtherSchema DEF Crash, LosePower, Dies, Up
<1> QED
    BY <1>1, <1>2, <1>3, <1>4, <1>5, <1>6, <1>7, <1>8, BeginScriptSchema, RunStatementSchema,
       RecordVersionSchema
       DEF Next, Starting, Refusal, Thread, Take, Fail, Arrive, Resume, Cancel, SweepTask, StopStep,
           vars, schemaVars

LEMMA ProcessHolds == Spec => [](ProcessInv /\ SchemaInv)
BY InitProcess, InitSchema, NextProcess, NextSchema, PTL DEF Spec

\* Whatever interrupts a start, a power loss included, and whichever release
\* starts next, the file holds what the migrations it records have made, and
\* nothing is served before those of the release are there.
THEOREM SchemaStaysWhole == Spec => []SchemaIsWhole
<1>1. SchemaInv => SchemaIsWhole
    BY DEF SchemaInv, SchemaIsWhole, Whole
<1> QED
    BY <1>1, ProcessHolds, PTL

\* The close is the last thing the thread is given, and nothing runs on a closed
\* connection, whatever was cancelled, failed or crashed before.
THEOREM ClosedLast == Spec => []NothingRunsAfterTheClose
<1>1. ProcessInv => NothingRunsAfterTheClose
    <2> SUFFICES ASSUME ProcessInv PROVE NothingRunsAfterTheClose
        OBVIOUS
    <2>1. running # Nothing => connection = "open"
        BY DEF ProcessInv, TypeInv, StandInv, ConnectionInv
    <2>2. ASSUME NEW i \in 1..Len(queue), NEW j \in 1..Len(queue), queue[i].does = "close"
          PROVE  j <= i
        <3>1. queue[i].by = Stop /\ Waits(Stop)
            BY <2>2 DEF ProcessInv, QueueInv
        <3>2. at[Stop] = "closing"
            BY <3>1 DEF ProcessInv, StandInv, Waits, Awaiting, StopSteps
        <3>3. queue[j].by = Stop
            BY <3>2, CloseIsAlone
        <3>4. i = j
            BY <3>1, <3>3 DEF ProcessInv, QueueInv
        <3> QED
            BY <3>4
    <2>3. ASSUME running # Nothing, running.does = "close"
          PROVE  queue = <<>>
        <3>1. running.by = Stop /\ Waits(Stop)
            BY <2>3, ActorsDiffer DEF ProcessInv, QueueInv
        <3>2. at[Stop] = "closing"
            BY <3>1 DEF ProcessInv, StandInv, Waits, Awaiting, StopSteps
        <3>3. \A i \in 1..Len(queue) : FALSE
            BY <2>3, <3>1, <3>2, CloseIsAlone, ActorsDiffer DEF ProcessInv, QueueInv
        <3>4. Len(queue) \in Nat /\ queue \in Seq(Queued)
            BY LenProperties DEF ProcessInv, TypeInv
        <3>5. Len(queue) = 0
            BY <3>3, <3>4
        <3> QED
            BY <3>4, <3>5, EmptySeq
    <2> QED
        BY <2>1, <2>2, <2>3 DEF NothingRunsAfterTheClose
<1> QED
    BY <1>1, ProcessHolds, PTL

\* An orderly stop, and a start that was refused, leave no connection and no
\* callable, and an orderly stop no destroyed text in the write-ahead log.
THEOREM OrderlyStop == Spec => []StopLeavesNothing
<1>1. ProcessInv => StopLeavesNothing
    BY DEF ProcessInv, StandInv, ConnectionInv, StopLeavesNothing, Up, Down
<1> QED
    BY <1>1, ProcessHolds, PTL
=============================================================================
