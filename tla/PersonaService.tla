---------------------------- MODULE PersonaService ----------------------------
(***************************************************************************)
(* Requests about the personas of one account, in flight together          *)
(* (src/persona_api/personas/service.py and api/routers/personas.py).      *)
(*                                                                         *)
(* A request is a coroutine: it runs until it awaits the database and goes *)
(* on with what the database answered.  The database runs one callable at  *)
(* a time, so each await is one step here, and between two steps of one    *)
(* request any step of another may fall.  A client that goes away cancels  *)
(* its request at an await: the callable already submitted runs or does    *)
(* not, and nothing after it does, which is what Cancel between two steps  *)
(* amounts to.  A crash of the process is every request cancelled at once. *)
(*                                                                         *)
(* What one transaction does to fields and notes is FieldStore's business; *)
(* here a row of either is a fact, named by the request that wrote it.     *)
(***************************************************************************)
EXTENDS Integers, Sequences, FiniteSets

CONSTANTS Profiles,     \* normalized profile names
          Requests,
          Texts,        \* what a part of a card may say
          Empty,        \* the NULL of a card's columns
          NoPersona,    \* what the table holds at a profile it has no row for
          NoJob,
          Workload,     \* what requests may ask
          MaxPersonas   \* Settings.max_personas_per_account

VARIABLES personas,     \* the personas table
          lastId,       \* persona ids are fresh: they are counted
          facts,        \* rows of the fields and notes tables
          residue,      \* destroyed facts that are still readable on disk
          events,       \* persona events, oldest first
          job,          \* what each request asks
          seen,         \* the persona a request read before it acted
          shown,        \* the rows a read has collected
          pc            \* the await each request stands at, or how it ended

vars == <<personas, lastId, facts, residue, events, job, seen, shown, pc>>

\* Of the three parts of a card two are enough: the code treats them alike.
Parts == {"display_name", "pronouns"}
Card == [Parts -> Texts \cup {Empty}]
EmptyCard == [part \in Parts |-> Empty]
Persona == [id : Nat \ {0}, card : Card]
Fact == [writer : Requests, profile : Profiles, persona : Nat \ {0}]

\* A body that sends the parts in "changes": an omitted part is no key of it, an
\* explicit null is Empty (exclude_unset).
Changes == UNION {[parts -> Texts \cup {Empty}] : parts \in SUBSET Parts}

Jobs ==
    [op : {"create"}, profile : Profiles, card : Card]
        \cup [op : {"set", "delete", "read"}, profile : Profiles]
        \cup [op : {"patch"}, profile : Profiles, changes : Changes]
        \cup [op : {"forget"}, profile : Profiles, writer : Requests]

ASSUME ServiceAssumption ==
    /\ MaxPersonas \in Nat /\ IsFiniteSet(Profiles) /\ IsFiniteSet(Requests)
    /\ Empty \notin Texts /\ NoPersona \notin Persona /\ NoJob \notin Jobs
    /\ Workload \subseteq Jobs

Awaits == {"ensure", "find", "gather", "add", "record", "write", "update", "remove", "checkpoint"}

\* 200, 204 and 201; 404; 409; 422 and 429, a cap or a value that looks like a
\* credential; the foreign key's error, which nobody catches; and a client that
\* went away.
Outcomes == {"answered", "missing", "exists", "refused", "failed", "cancelled"}

InFlight(r) == pc[r] \in Awaits

Event(r) ==
    [action |-> CASE job[r].op \in {"create", "set"} -> "persona.created"
                  [] job[r].op = "patch" -> "persona.updated"
                  [] job[r].op = "delete" -> "persona.deleted",
     profile |-> job[r].profile]

Init ==
    /\ personas = [p \in Profiles |-> NoPersona]
    /\ lastId = 0
    /\ facts = {} /\ residue = {} /\ events = <<>>
    /\ job = [r \in Requests |-> NoJob]
    /\ seen = [r \in Requests |-> NoPersona]
    /\ shown = [r \in Requests |-> {}]
    /\ pc = [r \in Requests |-> "new"]

Goto(r, step) == pc' = [pc EXCEPT ![r] = step]

-----------------------------------------------------------------------------
(* The steps.  Each is one call of the database. *)

\* A read takes the card first and the rows after it, each in a call of its own.
MutReadOrder == <<"gather", "find">>
ReadOrder == <<"find", "gather">>

AfterReading(step) == IF step = ReadOrder[1] THEN ReadOrder[2] ELSE "answered"

FirstStep(op) ==
    CASE op = "create" -> "add"
      [] op = "set" -> "ensure"
      [] op \in {"patch", "forget"} -> "find"
      [] op = "delete" -> "remove"
      [] op = "read" -> ReadOrder[1]

Receive(r, j) ==
    /\ pc[r] = "new"
    /\ job' = [job EXCEPT ![r] = j]
    /\ Goto(r, FirstStep(j.op))
    /\ UNCHANGED <<personas, lastId, facts, residue, events, seen, shown>>

\* The read of ensure.
Ensure(r) ==
    /\ pc[r] = "ensure"
    /\ Goto(r, IF personas[job[r].profile] = NoPersona THEN "add" ELSE "write")
    /\ UNCHANGED <<personas, lastId, facts, residue, events, job, seen, shown>>

AfterFinding(op) ==
    CASE op = "read" -> AfterReading("find")
      [] op = "patch" -> "update"
      [] op = "forget" -> "remove"

\* get, before a patch or a forget, and for the card of a read.
Find(r) ==
    /\ pc[r] = "find"
    /\ seen' = [seen EXCEPT ![r] = personas[job[r].profile]]
    /\ Goto(r, IF personas[job[r].profile] = NoPersona THEN "missing" ELSE AfterFinding(job[r].op))
    /\ UNCHANGED <<personas, lastId, facts, residue, events, job, shown>>

\* The rows of identity, export, recall and the listings: one call or several of
\* the stores, by the name of the profile, whoever's it is by then.
Gather(r) ==
    /\ pc[r] = "gather"
    /\ shown' = [shown EXCEPT ![r] = @ \cup {f \in facts : f.profile = job[r].profile}]
    /\ Goto(r, "gather") \/ Goto(r, AfterReading("gather"))
    /\ UNCHANGED <<personas, lastId, facts, residue, events, job, seen>>

Held(table) == {p \in Profiles : table[p] # NoPersona}

\* The two checks of PersonaStore.add, inside the transaction that inserts.
Taken(table, p) == table[p] # NoPersona

MutFull(table) == Cardinality(Held(table)) > MaxPersonas
Full(table) == Cardinality(Held(table)) >= MaxPersonas

NewCard(j) == IF j.op = "create" THEN j.card ELSE EmptyCard

Add(r) ==
    LET p == job[r].profile
    IN  /\ pc[r] = "add"
        /\ \/ /\ Taken(personas, p)
              /\ Goto(r, "exists")
              /\ UNCHANGED <<personas, lastId>>
           \/ /\ ~Taken(personas, p) /\ Full(personas)
              /\ Goto(r, "refused")
              /\ UNCHANGED <<personas, lastId>>
           \/ /\ ~Taken(personas, p) /\ ~Full(personas)
              /\ personas' = [personas EXCEPT ![p] = [id |-> lastId + 1, card |-> NewCard(job[r])]]
              /\ lastId' = lastId + 1
              /\ Goto(r, "record")
        /\ UNCHANGED <<facts, residue, events, job, seen, shown>>

\* EventLog.record: the event of the change this request has made, in a
\* transaction of its own; a set goes on to its write.
MutRecord(r) ==
    /\ pc[r] = "record"
    /\ Goto(r, IF job[r].op = "set" THEN "write" ELSE "answered")
    /\ events' = IF job[r].op = "set" THEN events ELSE Append(events, Event(r))
    /\ UNCHANGED <<personas, lastId, facts, residue, job, seen, shown>>

Record(r) ==
    /\ pc[r] = "record"
    /\ events' = Append(events, Event(r))
    /\ Goto(r, IF job[r].op = "set" THEN "write" ELSE "answered")
    /\ UNCHANGED <<personas, lastId, facts, residue, job, seen, shown>>

\* FieldStore.set or NoteStore.write: refused for its value or at a cap, stopped
\* by the foreign key when the persona is gone.
Write(r) ==
    LET p == job[r].profile
    IN  /\ pc[r] = "write"
        /\ \/ /\ personas[p] = NoPersona
              /\ Goto(r, "failed") /\ facts' = facts
           \/ /\ Goto(r, "refused") /\ facts' = facts
           \/ /\ personas[p] # NoPersona
              /\ facts' = facts \cup {[writer |-> r, profile |-> p, persona |-> personas[p].id]}
              /\ Goto(r, "answered")
        /\ UNCHANGED <<personas, lastId, residue, events, job, seen, shown>>

\* The merge of update_persona: what was sent, over the card as it was read.
MutMerged(card, changes) == changes

Merged(card, changes) ==
    [part \in Parts |-> IF part \in DOMAIN changes THEN changes[part] ELSE card[part]]

\* PersonaStore.update: the row at the primary key keeps its id.
Updated(table, p, card) == [table EXCEPT ![p].card = card]

Update(r) ==
    LET p == job[r].profile
    IN  /\ pc[r] = "update"
        /\ \/ /\ personas[p] = NoPersona
              /\ Goto(r, "missing") /\ personas' = personas
           \/ /\ personas[p] # NoPersona
              /\ personas' = Updated(personas, p, Merged(seen[r].card, job[r].changes))
              /\ Goto(r, "record")
        /\ UNCHANGED <<lastId, facts, residue, events, job, seen, shown>>

\* The rows a deletion takes with it: the cascade of the foreign key, or the one
\* row a forget destroys at once (a person who chose immediate erasure).
MutDoomed(r) ==
    {f \in facts : f.profile = job[r].profile /\ job[r].op = "forget" /\ f.writer = job[r].writer}

Doomed(r) ==
    {f \in facts : /\ f.profile = job[r].profile
                   /\ job[r].op = "forget" => f.writer = job[r].writer}

Destroy(r) ==
    /\ facts' = facts \ Doomed(r)
    /\ residue' = residue \cup {[fact |-> f, by |-> r] : f \in Doomed(r)}

\* PersonaStore.delete, or the transaction of forget.
Remove(r) ==
    LET p == job[r].profile
    IN  /\ pc[r] = "remove"
        /\ \/ /\ job[r].op = "delete" /\ personas[p] # NoPersona
              /\ personas' = [personas EXCEPT ![p] = NoPersona]
              /\ Destroy(r) /\ Goto(r, "checkpoint")
           \/ /\ job[r].op = "forget" /\ Doomed(r) # {}
              /\ Destroy(r) /\ Goto(r, "checkpoint")
              /\ personas' = personas
           \/ /\ IF job[r].op = "delete" THEN personas[p] = NoPersona ELSE Doomed(r) = {}
              /\ Goto(r, "missing")
              /\ UNCHANGED <<personas, facts, residue>>
        /\ UNCHANGED <<lastId, events, job, seen, shown>>

\* Database.checkpoint_truncate takes everybody's destroyed bytes, not only this
\* request's.
MutTruncated(left) == left
Truncated(left) == {}

Checkpoint(r) ==
    /\ pc[r] = "checkpoint"
    /\ residue' = Truncated(residue)
    /\ Goto(r, IF job[r].op = "delete" THEN "record" ELSE "answered")
    /\ UNCHANGED <<personas, lastId, facts, events, job, seen, shown>>

Cancel(r) ==
    /\ InFlight(r)
    /\ Goto(r, "cancelled")
    /\ UNCHANGED <<personas, lastId, facts, residue, events, job, seen, shown>>

Done == (\A r \in Requests : pc[r] \in Outcomes) /\ UNCHANGED vars

Next ==
    \/ \E r \in Requests :
          \/ \E j \in Workload : Receive(r, j)
          \/ Ensure(r) \/ Find(r) \/ Gather(r) \/ Add(r) \/ Record(r) \/ Write(r) \/ Update(r)
          \/ Remove(r) \/ Checkpoint(r) \/ Cancel(r)
    \/ Done

Spec == Init /\ [][Next]_vars

-----------------------------------------------------------------------------
(* What the service promises. *)

TypeOK ==
    /\ personas \in [Profiles -> Persona \cup {NoPersona}]
    /\ lastId \in Nat
    /\ facts \subseteq Fact
    /\ residue \subseteq [fact : Fact, by : Requests]
    /\ events \in Seq([action : {"persona.created", "persona.updated", "persona.deleted"},
                       profile : Profiles])
    /\ job \in [Requests -> Jobs \cup {NoJob}]
    /\ seen \in [Requests -> Persona \cup {NoPersona}]
    /\ shown \in [Requests -> SUBSET Fact]
    /\ pc \in [Requests -> {"new"} \cup Awaits \cup Outcomes]
    /\ \A r \in Requests : pc[r] = "new" <=> job[r] = NoJob

\* However many creates and first writes arrive together, the account never
\* holds more personas than its cap.
PersonasWithinCap == Cardinality(Held(personas)) <= MaxPersonas

\* Every row belongs to the persona now at its profile, and none to one deleted
\* earlier under that name: a write that raced a deletion reaches the next
\* persona or nobody, and a deleted persona's rows never reappear in another.
FactsBelongToTheirPersona ==
    \A f \in facts :
        /\ personas[f.profile] # NoPersona
        /\ personas[f.profile].id = f.persona

\* A deletion or a forget that was answered has left nothing readable on disk:
\* only a request still on its way to its checkpoint, or cancelled before it,
\* accounts for what is left.
AnsweredMeansGone == \A x \in residue : pc[x.by] \in {"checkpoint", "cancelled"}

\* A read shows no row older than the card it shows it under: if the persona was
\* deleted and made again meanwhile, its new rows may appear under the old card,
\* but nothing of a deleted persona appears under its successor's.
NoPredecessorShown ==
    \A r \in Requests : seen[r] # NoPersona =>
        \A f \in shown[r] : f.persona >= seen[r].id

Quiet == \A r \in Requests : ~InFlight(r)
NobodyLeft == \A r \in Requests : pc[r] # "cancelled"

EventsOf(action, p) == {i \in DOMAIN events : events[i] = [action |-> action, profile |-> p]}

\* Once every request has run to its end, the log has told of as many creations
\* and deletions as happened: a persona exists exactly when one more creation
\* than deletion was recorded, also when a write created it on the way.
LogBalances ==
    Quiet /\ NobodyLeft =>
        \A p \in Profiles :
            Cardinality(EventsOf("persona.created", p)) =
                Cardinality(EventsOf("persona.deleted", p))
                    + (IF personas[p] = NoPersona THEN 0 ELSE 1)

-----------------------------------------------------------------------------
(* What the documentation says and the code does not keep. *)

\* ensure: "Return this account's persona for a profile, creating it if there is
\* none" (service.py).  A write is never told that the persona exists already.
EnsureFindsOrCreates == \A r \in Requests : job[r] # NoJob /\ pc[r] = "exists" => job[r].op # "set"

\* "Changes only the card fields you send ... omitting it leaves it alone"
\* (update_persona).  A patch changes no part it was not sent.
OmittedPartsAreLeftAlone ==
    [][\A r \in Requests : pc[r] = "update" /\ pc'[r] = "record" =>
          \A part \in Parts \ DOMAIN job[r].changes :
              personas'[job[r].profile].card[part] = personas[job[r].profile].card[part]]_vars
=============================================================================
