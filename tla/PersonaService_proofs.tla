------------------------- MODULE PersonaService_proofs -------------------------
(***************************************************************************)
(* Theorems about PersonaService, for every set of profiles, requests and  *)
(* texts, every workload and every cap.                                    *)
(***************************************************************************)
EXTENDS PersonaService, FiniteSetTheorems, TLAPS

Told == [action : {"persona.created", "persona.updated", "persona.deleted"}, profile : Profiles]

-----------------------------------------------------------------------------
(* What a request asks, and where that takes it. *)

LEMMA JobType ==
    ASSUME NEW j \in Jobs
    PROVE  /\ j.op \in {"create", "set", "delete", "read", "patch", "forget"}
           /\ j.profile \in Profiles
           /\ j.op = "create" => j.card \in Card
           /\ j.op = "patch" => j.changes \in Changes
BY DEF Jobs

\* The requests that may stand at each await.
OpsAt(step) ==
    CASE step \in {"ensure", "write"} -> {"set"}
      [] step = "find" -> {"patch", "forget", "read"}
      [] step = "gather" -> {"read"}
      [] step = "add" -> {"create", "set"}
      [] step = "update" -> {"patch"}
      [] step = "remove" -> {"delete", "forget"}
      [] step = "checkpoint" -> {"delete", "forget"}
      [] step = "record" -> {"create", "set", "patch", "delete"}

LEMMA OpsType == \A step \in Awaits : OpsAt(step) \subseteq
                    {"create", "set", "delete", "read", "patch", "forget"}
BY DEF OpsAt, Awaits

\* A request stands where its kind of request goes; a patch has read a card; a
\* read has rows only after its card.
AtItsStep(r) ==
    /\ pc[r] \in Awaits => job[r].op \in OpsAt(pc[r])
    /\ pc[r] = "update" => seen[r] # NoPersona
    /\ shown[r] # {} => pc[r] \in {"gather", "answered", "cancelled"}

TypeInv == TypeOK /\ \A r \in Requests : AtItsStep(r)

LEMMA FirstStepType ==
    ASSUME NEW j \in Jobs
    PROVE  /\ FirstStep(j.op) \in Awaits \ {"update", "record", "checkpoint"}
           /\ j.op \in OpsAt(FirstStep(j.op))
<1>1. j.op \in {"create", "set", "delete", "read", "patch", "forget"}
    BY JobType
<1>2. ReadOrder[1] = "find"
    BY DEF ReadOrder
<1> QED
    BY <1>1, <1>2 DEF FirstStep, OpsAt, Awaits

LEMMA InitType == Init => TypeInv
<1> SUFFICES ASSUME Init PROVE TypeInv
    OBVIOUS
<1>1. TypeOK
    BY DEF Init, TypeOK
<1>2. \A r \in Requests : AtItsStep(r)
    BY DEF Init, AtItsStep, Awaits
<1> QED
    BY <1>1, <1>2 DEF TypeInv

-----------------------------------------------------------------------------
(* Every variable keeps its type. *)

\* A step of r that goes to "step" and leaves what r asks alone keeps everyone at
\* their step, if r may stand there.
LEMMA StepsKept ==
    ASSUME TypeInv, NEW r \in Requests, NEW step, Goto(r, step), job' = job,
           \A q \in Requests \ {r} : seen'[q] = seen[q] /\ shown'[q] = shown[q],
           step \in Awaits => job[r].op \in OpsAt(step),
           step = "update" => seen'[r] # NoPersona,
           shown'[r] # {} => step \in {"gather", "answered", "cancelled"}
    PROVE  \A q \in Requests : AtItsStep(q)'
<1> SUFFICES ASSUME NEW q \in Requests PROVE AtItsStep(q)'
    OBVIOUS
<1>1. pc' = [pc EXCEPT ![r] = step] /\ pc \in [Requests -> {"new"} \cup Awaits \cup Outcomes]
    BY DEF Goto, TypeInv, TypeOK
<1>2. CASE q = r
    BY <1>1, <1>2 DEF AtItsStep
<1>3. CASE q # r
    BY <1>1, <1>3 DEF AtItsStep, TypeInv
<1> QED
    BY <1>2, <1>3

\* Where a step may lead, and who has asked by then.
LEMMA GotoType ==
    ASSUME TypeOK, NEW r \in Requests, NEW step \in Awaits \cup Outcomes, Goto(r, step),
           pc[r] # "new", job' = job
    PROVE  /\ pc' \in [Requests -> {"new"} \cup Awaits \cup Outcomes]
           /\ \A q \in Requests : pc'[q] = "new" <=> job'[q] = NoJob
<1>1. "new" \notin Awaits \cup Outcomes
    BY DEF Awaits, Outcomes
<1> QED
    BY <1>1 DEF Goto, TypeOK

\* The request at an await asks something.
LEMMA Asked ==
    ASSUME TypeInv, NEW r \in Requests, pc[r] \in Awaits
    PROVE  /\ job[r] \in Jobs /\ job[r].profile \in Profiles
           /\ job[r].op \in OpsAt(pc[r]) /\ pc[r] # "new"
<1>1. pc[r] # "new" /\ job[r] \in Jobs
    BY DEF Awaits, TypeInv, TypeOK
<1> QED
    BY <1>1, JobType DEF TypeInv, AtItsStep

LEMMA ReceiveType ==
    ASSUME TypeInv, NEW r \in Requests, NEW j \in Workload, Receive(r, j)
    PROVE  TypeInv'
<1>1. j \in Jobs /\ j # NoJob
    BY ServiceAssumption
<1>2. FirstStep(j.op) \in Awaits \ {"update"} /\ j.op \in OpsAt(FirstStep(j.op))
    BY <1>1, FirstStepType
<1> DEFINE step == FirstStep(j.op)
<1>3. /\ pc' = [pc EXCEPT ![r] = step] /\ job' = [job EXCEPT ![r] = j]
      /\ UNCHANGED <<personas, lastId, facts, residue, events, seen, shown>>
    BY DEF Receive, Goto
<1>4. pc[r] = "new" /\ "new" \notin Awaits
    BY DEF Receive, Awaits
<1>5. TypeOK'
    BY <1>1, <1>2, <1>3, <1>4 DEF TypeInv, TypeOK
<1>6. \A q \in Requests : AtItsStep(q)'
    <2> HIDE DEF step
    <2> SUFFICES ASSUME NEW q \in Requests PROVE AtItsStep(q)'
        OBVIOUS
    <2>1. pc \in [Requests -> {"new"} \cup Awaits \cup Outcomes] /\ job \in [Requests -> Jobs \cup {NoJob}]
        BY DEF TypeInv, TypeOK
    <2>2. CASE q = r
        <3>1. pc'[q] = step /\ job'[q] = j /\ shown'[q] = {}
            BY <1>3, <1>4, <2>1, <2>2 DEF TypeInv, AtItsStep
        <3> QED
            BY <1>2, <3>1 DEF AtItsStep, step
    <2>3. CASE q # r
        BY <1>3, <2>1, <2>3 DEF AtItsStep, TypeInv
    <2> QED
        BY <2>2, <2>3
<1> QED
    BY <1>5, <1>6 DEF TypeInv

LEMMA EnsureType == ASSUME TypeInv, NEW r \in Requests, Ensure(r) PROVE TypeInv'
<1>1. /\ pc[r] = "ensure" /\ "ensure" \in Awaits
      /\ UNCHANGED <<personas, lastId, facts, residue, events, job, seen, shown>>
    BY DEF Ensure, Awaits
<1>2. PICK step \in {"add", "write"} : Goto(r, step)
    BY DEF Ensure
<1>3. job[r].op = "set"
    BY <1>1, Asked DEF OpsAt
<1>4. step \in Awaits /\ job[r].op \in OpsAt(step) /\ shown[r] = {}
    BY <1>1, <1>3 DEF Awaits, OpsAt, TypeInv, AtItsStep
<1>5. TypeOK'
    BY <1>1, <1>2, <1>4, GotoType DEF TypeInv, TypeOK
<1>6. \A q \in Requests : AtItsStep(q)'
    BY <1>1, <1>2, <1>4, StepsKept
<1> QED
    BY <1>5, <1>6 DEF TypeInv

LEMMA FindType == ASSUME TypeInv, NEW r \in Requests, Find(r) PROVE TypeInv'
<1> DEFINE p == job[r].profile
<1>1. /\ pc[r] = "find" /\ "find" \in Awaits
      /\ seen' = [seen EXCEPT ![r] = personas[p]]
      /\ UNCHANGED <<personas, lastId, facts, residue, events, job, shown>>
    BY DEF Find, Awaits
<1>2. /\ job[r].op \in {"patch", "forget", "read"} /\ p \in Profiles /\ pc[r] # "new"
      /\ shown[r] = {}
    BY <1>1, Asked DEF OpsAt, TypeInv, AtItsStep
<1>3. AfterReading("find") = "gather"
    BY DEF AfterReading, ReadOrder
<1>4. PICK step \in {"missing", "gather", "update", "remove"} :
          /\ Goto(r, step)
          /\ step = "update" => job[r].op = "patch" /\ personas[p] # NoPersona
          /\ step = "gather" => job[r].op = "read"
          /\ step = "remove" => job[r].op = "forget"
    <2>1. CASE personas[p] = NoPersona
        BY <2>1 DEF Find
    <2>2. CASE personas[p] # NoPersona
        BY <1>2, <1>3, <2>2 DEF Find, AfterFinding
    <2> QED
        BY <2>1, <2>2
<1>5. step \in Awaits \cup Outcomes /\ (step \in Awaits => job[r].op \in OpsAt(step))
    BY <1>4 DEF Awaits, Outcomes, OpsAt
<1>6. seen \in [Requests -> Persona \cup {NoPersona}] /\ personas[p] \in Persona \cup {NoPersona}
    BY <1>2 DEF TypeInv, TypeOK
<1> HIDE DEF p
<1>7. TypeOK'
    BY <1>1, <1>2, <1>4, <1>5, <1>6, GotoType DEF TypeInv, TypeOK
<1>8. \A q \in Requests : AtItsStep(q)'
    BY <1>1, <1>2, <1>4, <1>5, <1>6, StepsKept
<1> QED
    BY <1>7, <1>8 DEF TypeInv

LEMMA GatherType == ASSUME TypeInv, NEW r \in Requests, Gather(r) PROVE TypeInv'
<1> DEFINE rows == {f \in facts : f.profile = job[r].profile}
<1>1. /\ pc[r] = "gather" /\ "gather" \in Awaits
      /\ shown' = [shown EXCEPT ![r] = @ \cup rows]
      /\ UNCHANGED <<personas, lastId, facts, residue, events, job, seen>>
    BY DEF Gather, Awaits
<1>2. job[r].op = "read" /\ pc[r] # "new"
    BY <1>1, Asked DEF OpsAt
<1>3. AfterReading("gather") = "answered"
    BY DEF AfterReading, ReadOrder
<1>4. PICK step \in {"gather", "answered"} : Goto(r, step)
    BY <1>3 DEF Gather
<1>5. /\ step \in Awaits \cup Outcomes /\ (step \in Awaits => job[r].op \in OpsAt(step))
      /\ step # "update" /\ step \in {"gather", "answered", "cancelled"}
    BY <1>2, <1>4 DEF Awaits, Outcomes, OpsAt
<1>6. shown \in [Requests -> SUBSET Fact] /\ rows \subseteq Fact
    BY DEF TypeInv, TypeOK
<1> HIDE DEF rows
<1>7. TypeOK'
    BY <1>1, <1>2, <1>4, <1>5, <1>6, GotoType DEF TypeInv, TypeOK
<1>8. \A q \in Requests : AtItsStep(q)'
    BY <1>1, <1>4, <1>5, <1>6, StepsKept
<1> QED
    BY <1>7, <1>8 DEF TypeInv

LEMMA AddedRow ==
    ASSUME TypeInv, NEW r \in Requests, pc[r] = "add"
    PROVE  [id |-> lastId + 1, card |-> NewCard(job[r])] \in Persona \ {NoPersona}
<1>1. job[r] \in Jobs /\ job[r].op \in {"create", "set"}
    BY Asked DEF Awaits, OpsAt
<1>2. NewCard(job[r]) \in Card
    BY <1>1, JobType DEF NewCard, EmptyCard, Card
<1>3. lastId + 1 \in Nat \ {0}
    BY DEF TypeInv, TypeOK
<1> QED
    BY <1>2, <1>3, ServiceAssumption DEF Persona

LEMMA AddType == ASSUME TypeInv, NEW r \in Requests, Add(r) PROVE TypeInv'
<1> DEFINE p == job[r].profile
           row == [id |-> lastId + 1, card |-> NewCard(job[r])]
<1>1. /\ pc[r] = "add" /\ "add" \in Awaits
      /\ UNCHANGED <<facts, residue, events, job, seen, shown>>
    BY DEF Add, Awaits
<1>2. /\ job[r] \in Jobs /\ job[r].op \in {"create", "set"} /\ p \in Profiles
      /\ pc[r] # "new" /\ shown[r] = {}
    BY <1>1, Asked DEF OpsAt, TypeInv, AtItsStep
<1>3. row \in Persona /\ lastId + 1 \in Nat
    BY <1>1, AddedRow DEF TypeInv, TypeOK
<1>4. PICK step \in {"exists", "refused", "record"} : Goto(r, step)
    BY DEF Add
<1>5. /\ step \in Awaits \cup Outcomes /\ (step \in Awaits => job[r].op \in OpsAt(step))
      /\ step # "update"
    BY <1>2, <1>4 DEF Awaits, Outcomes, OpsAt
<1>6. /\ personas' \in [Profiles -> Persona \cup {NoPersona}]
      /\ lastId' \in Nat
    <2>1. \/ UNCHANGED <<personas, lastId>>
          \/ personas' = [personas EXCEPT ![p] = row] /\ lastId' = lastId + 1
        BY DEF Add
    <2> HIDE DEF row
    <2> QED
        BY <1>2, <1>3, <2>1 DEF TypeInv, TypeOK
<1> HIDE DEF p, row
<1>7. TypeOK'
    BY <1>1, <1>2, <1>4, <1>5, <1>6, GotoType DEF TypeInv, TypeOK
<1>8. \A q \in Requests : AtItsStep(q)'
    BY <1>1, <1>2, <1>4, <1>5, StepsKept
<1> QED
    BY <1>7, <1>8 DEF TypeInv

LEMMA RecordType == ASSUME TypeInv, NEW r \in Requests, Record(r) PROVE TypeInv'
<1>1. /\ pc[r] = "record" /\ "record" \in Awaits
      /\ events' = Append(events, Event(r))
      /\ UNCHANGED <<personas, lastId, facts, residue, job, seen, shown>>
    BY DEF Record, Awaits
<1>2. /\ job[r].op \in {"create", "set", "patch", "delete"} /\ job[r].profile \in Profiles
      /\ pc[r] # "new" /\ shown[r] = {}
    BY <1>1, Asked DEF OpsAt, TypeInv, AtItsStep
<1>3. PICK step \in {"write", "answered"} : Goto(r, step) /\ (step = "write" => job[r].op = "set")
    BY DEF Record
<1>4. /\ step \in Awaits \cup Outcomes /\ (step \in Awaits => job[r].op \in OpsAt(step))
      /\ step # "update"
    BY <1>3 DEF Awaits, Outcomes, OpsAt
<1>5. Event(r) \in Told
    BY <1>2 DEF Event, Told
<1>6. events' \in Seq(Told)
    BY <1>1, <1>5 DEF TypeInv, TypeOK, Told
<1>7. TypeOK'
    BY <1>1, <1>2, <1>3, <1>4, <1>6, GotoType DEF TypeInv, TypeOK, Told
<1>8. \A q \in Requests : AtItsStep(q)'
    BY <1>1, <1>2, <1>3, <1>4, StepsKept
<1> QED
    BY <1>7, <1>8 DEF TypeInv

LEMMA WriteType == ASSUME TypeInv, NEW r \in Requests, Write(r) PROVE TypeInv'
<1> DEFINE p == job[r].profile
           row == [writer |-> r, profile |-> p, persona |-> personas[p].id]
<1>1. /\ pc[r] = "write" /\ "write" \in Awaits
      /\ UNCHANGED <<personas, lastId, residue, events, job, seen, shown>>
    BY DEF Write, Awaits
<1>2. p \in Profiles /\ pc[r] # "new" /\ shown[r] = {}
    BY <1>1, Asked DEF TypeInv, AtItsStep
<1>3. PICK step \in {"failed", "refused", "answered"} : Goto(r, step)
    BY DEF Write
<1>4. step \in Outcomes /\ step \notin Awaits
    BY <1>3 DEF Awaits, Outcomes
<1>5. facts' \subseteq Fact
    <2>1. CASE facts' = facts
        BY <2>1 DEF TypeInv, TypeOK
    <2>2. CASE personas[p] # NoPersona /\ facts' = facts \cup {row}
        <3>1. personas[p].id \in Nat \ {0}
            BY <1>2, <2>2 DEF TypeInv, TypeOK, Persona
        <3> QED
            BY <1>2, <2>2, <3>1 DEF TypeInv, TypeOK, Fact
    <2> QED
        BY <2>1, <2>2 DEF Write
<1> HIDE DEF p, row
<1>6. TypeOK'
    BY <1>1, <1>2, <1>3, <1>4, <1>5, GotoType DEF TypeInv, TypeOK
<1>7. \A q \in Requests : AtItsStep(q)'
    BY <1>1, <1>2, <1>3, <1>4, StepsKept DEF Awaits
<1> QED
    BY <1>6, <1>7 DEF TypeInv

LEMMA MergedType ==
    ASSUME NEW card \in Card, NEW changes \in Changes
    PROVE  Merged(card, changes) \in Card
BY DEF Merged, Card, Changes

LEMMA UpdateType == ASSUME TypeInv, NEW r \in Requests, Update(r) PROVE TypeInv'
<1> DEFINE p == job[r].profile
           card == Merged(seen[r].card, job[r].changes)
<1>1. /\ pc[r] = "update" /\ "update" \in Awaits
      /\ UNCHANGED <<lastId, facts, residue, events, job, seen, shown>>
    BY DEF Update, Awaits
<1>2. /\ job[r] \in Jobs /\ job[r].op = "patch" /\ p \in Profiles
      /\ pc[r] # "new" /\ shown[r] = {} /\ seen[r] # NoPersona
    BY <1>1, Asked DEF OpsAt, TypeInv, AtItsStep
<1>3. PICK step \in {"missing", "record"} : Goto(r, step)
    BY DEF Update
<1>4. /\ step \in Awaits \cup Outcomes /\ (step \in Awaits => job[r].op \in OpsAt(step))
      /\ step # "update"
    BY <1>2, <1>3 DEF Awaits, Outcomes, OpsAt
<1>5. card \in Card
    <2>1. seen[r].card \in Card
        BY <1>2 DEF TypeInv, TypeOK, Persona
    <2>2. job[r].changes \in Changes
        BY <1>2, JobType
    <2> QED
        BY <2>1, <2>2, MergedType
<1> HIDE DEF p, card
<1>6. personas' \in [Profiles -> Persona \cup {NoPersona}]
    <2>1. \/ personas' = personas
          \/ personas[p] # NoPersona /\ personas' = [personas EXCEPT ![p].card = card]
        BY DEF Update, Updated, p, card
    <2>2. personas[p] # NoPersona => [personas[p] EXCEPT !.card = card] \in Persona
        BY <1>2, <1>5 DEF TypeInv, TypeOK, Persona
    <2> QED
        BY <1>2, <2>1, <2>2 DEF TypeInv, TypeOK
<1>7. TypeOK'
    BY <1>1, <1>2, <1>3, <1>4, <1>6, GotoType DEF TypeInv, TypeOK
<1>8. \A q \in Requests : AtItsStep(q)'
    BY <1>1, <1>2, <1>3, <1>4, StepsKept
<1> QED
    BY <1>7, <1>8 DEF TypeInv

LEMMA RemoveType == ASSUME TypeInv, NEW r \in Requests, Remove(r) PROVE TypeInv'
<1> DEFINE p == job[r].profile
           left == {[fact |-> f, by |-> r] : f \in Doomed(r)}
<1>1. /\ pc[r] = "remove" /\ "remove" \in Awaits
      /\ UNCHANGED <<lastId, events, job, seen, shown>>
    BY DEF Remove, Awaits
<1>2. /\ job[r].op \in {"delete", "forget"} /\ p \in Profiles
      /\ pc[r] # "new" /\ shown[r] = {}
    BY <1>1, Asked DEF OpsAt, TypeInv, AtItsStep
<1>3. PICK step \in {"checkpoint", "missing"} : Goto(r, step)
    BY DEF Remove
<1>4. /\ step \in Awaits \cup Outcomes /\ (step \in Awaits => job[r].op \in OpsAt(step))
      /\ step # "update"
    BY <1>2, <1>3 DEF Awaits, Outcomes, OpsAt
<1>5. /\ personas' \in [Profiles -> Persona \cup {NoPersona}]
      /\ facts' \subseteq Fact /\ residue' \subseteq [fact : Fact, by : Requests]
    <2>1. left \subseteq [fact : Fact, by : Requests]
        BY DEF Doomed, TypeInv, TypeOK
    <2>2. \/ personas' = personas
          \/ personas' = [personas EXCEPT ![p] = NoPersona]
        BY DEF Remove
    <2>3. \/ facts' = facts /\ residue' = residue
          \/ facts' = facts \ Doomed(r) /\ residue' = residue \cup left
        BY DEF Remove, Destroy
    <2> HIDE DEF left
    <2> QED
        BY <1>2, <2>1, <2>2, <2>3 DEF TypeInv, TypeOK
<1> HIDE DEF p, left
<1>6. TypeOK'
    BY <1>1, <1>2, <1>3, <1>4, <1>5, GotoType DEF TypeInv, TypeOK
<1>7. \A q \in Requests : AtItsStep(q)'
    BY <1>1, <1>2, <1>3, <1>4, StepsKept
<1> QED
    BY <1>6, <1>7 DEF TypeInv

LEMMA CheckpointType == ASSUME TypeInv, NEW r \in Requests, Checkpoint(r) PROVE TypeInv'
<1>1. /\ pc[r] = "checkpoint" /\ "checkpoint" \in Awaits
      /\ residue' = {}
      /\ UNCHANGED <<personas, lastId, facts, events, job, seen, shown>>
    BY DEF Checkpoint, Truncated, Awaits
<1>2. pc[r] # "new" /\ shown[r] = {}
    BY <1>1, Asked DEF TypeInv, AtItsStep
<1>3. PICK step \in {"record", "answered"} :
          Goto(r, step) /\ (step = "record" => job[r].op = "delete")
    BY DEF Checkpoint
<1>4. /\ step \in Awaits \cup Outcomes /\ (step \in Awaits => job[r].op \in OpsAt(step))
      /\ step # "update"
    BY <1>3 DEF Awaits, Outcomes, OpsAt
<1>5. TypeOK'
    BY <1>1, <1>2, <1>3, <1>4, GotoType DEF TypeInv, TypeOK
<1>6. \A q \in Requests : AtItsStep(q)'
    BY <1>1, <1>2, <1>3, <1>4, StepsKept
<1> QED
    BY <1>5, <1>6 DEF TypeInv

LEMMA CancelType == ASSUME TypeInv, NEW r \in Requests, Cancel(r) PROVE TypeInv'
<1>1. /\ pc[r] \in Awaits /\ Goto(r, "cancelled")
      /\ UNCHANGED <<personas, lastId, facts, residue, events, job, seen, shown>>
    BY DEF Cancel, InFlight
<1>2. pc[r] # "new" /\ "cancelled" \in Outcomes /\ "cancelled" \notin Awaits
    BY <1>1, Asked DEF Awaits, Outcomes
<1>3. TypeOK'
    BY <1>1, <1>2, GotoType DEF TypeInv, TypeOK
<1>4. \A q \in Requests : AtItsStep(q)'
    BY <1>1, <1>2, StepsKept DEF Awaits
<1> QED
    BY <1>3, <1>4 DEF TypeInv

LEMMA NextType == TypeInv /\ [Next]_vars => TypeInv'
<1> SUFFICES ASSUME TypeInv, [Next]_vars PROVE TypeInv'
    OBVIOUS
<1>1. CASE UNCHANGED vars
    BY <1>1 DEF vars, TypeInv, TypeOK, AtItsStep
<1> QED
    BY <1>1, ReceiveType, EnsureType, FindType, GatherType, AddType, RecordType, WriteType,
       UpdateType, RemoveType, CheckpointType, CancelType DEF Next, Done

\* Every reachable state of the service is well typed, whatever is asked.
THEOREM TypeCorrect == Spec => []TypeOK
<1>1. TypeInv => TypeOK
    BY DEF TypeInv
<1> QED
    BY <1>1, InitType, NextType, PTL DEF Spec

-----------------------------------------------------------------------------
(* The cap. *)

Capped == Cardinality(Held(personas)) <= MaxPersonas

LEMMA HeldFinite == \A table : IsFiniteSet(Held(table)) /\ Cardinality(Held(table)) \in Nat
<1>1. \A table : Held(table) \in SUBSET Profiles
    BY DEF Held
<1> QED
    BY <1>1, ServiceAssumption, FS_Subset, FS_CardinalityType

LEMMA FewerHeld ==
    ASSUME Capped, Held(personas') \subseteq Held(personas)
    PROVE  Capped'
<1>1. Cardinality(Held(personas')) <= Cardinality(Held(personas))
    BY HeldFinite, FS_Subset
<1> QED
    BY <1>1, HeldFinite, ServiceAssumption DEF Capped

LEMMA NextCapped == TypeInv /\ Capped /\ [Next]_vars => Capped'
<1> SUFFICES ASSUME TypeInv, Capped, [Next]_vars PROVE Capped'
    OBVIOUS
<1>1. CASE personas' = personas
    BY <1>1 DEF Capped
<1>2. ASSUME NEW r \in Requests, Add(r), personas' # personas
      PROVE  Capped'
    <2> DEFINE p == job[r].profile
    <2>1. /\ ~Full(personas)
          /\ personas' = [personas EXCEPT ![p] = [id |-> lastId + 1, card |-> NewCard(job[r])]]
        BY <1>2 DEF Add
    <2>2. personas \in [Profiles -> Persona \cup {NoPersona}]
        BY DEF TypeInv, TypeOK
    <2>3. Held(personas') \subseteq Held(personas) \cup {p}
        BY <2>1, <2>2 DEF Held
    <2>4. Cardinality(Held(personas')) <= Cardinality(Held(personas) \cup {p})
        BY <2>3, HeldFinite, FS_AddElement, FS_Subset
    <2>5. Cardinality(Held(personas) \cup {p}) <= Cardinality(Held(personas)) + 1
        <3> HIDE DEF p
        <3>1. IsFiniteSet(Held(personas)) /\ Cardinality(Held(personas)) \in Nat
            BY HeldFinite
        <3> QED
            BY <3>1, FS_AddElement
    <2>6. Cardinality(Held(personas)) < MaxPersonas
        BY <2>1, HeldFinite, ServiceAssumption DEF Full
    <2>7. /\ Cardinality(Held(personas)) \in Nat /\ Cardinality(Held(personas')) \in Nat
          /\ Cardinality(Held(personas) \cup {p}) \in Nat
        BY HeldFinite, FS_AddElement, FS_CardinalityType
    <2> HIDE DEF p
    <2> QED
        BY <2>4, <2>5, <2>6, <2>7, ServiceAssumption DEF Capped
<1>3. ASSUME NEW r \in Requests, Update(r), personas' # personas
      PROVE  Capped'
    <2> DEFINE p == job[r].profile
               card == Merged(seen[r].card, job[r].changes)
    <2>1. personas[p] # NoPersona /\ personas' = [personas EXCEPT ![p].card = card]
        BY <1>3 DEF Update, Updated
    <2>2. \A q \in Profiles : q # p => personas'[q] = personas[q]
        BY <2>1 DEF TypeInv, TypeOK
    <2>3. Held(personas') \subseteq Held(personas)
        BY <2>1, <2>2 DEF Held
    <2> QED
        BY <2>3, FewerHeld
<1>4. ASSUME NEW r \in Requests, Remove(r), personas' # personas
      PROVE  Capped'
    <2>1. personas' = [personas EXCEPT ![job[r].profile] = NoPersona]
        BY <1>4 DEF Remove
    <2>2. Held(personas') \subseteq Held(personas)
        BY <2>1 DEF Held, TypeInv, TypeOK
    <2> QED
        BY <2>2, FewerHeld
<1> QED
    BY <1>1, <1>2, <1>3, <1>4
       DEF Next, Done, vars, Receive, Ensure, Find, Gather, Record, Write, Checkpoint, Cancel

\* However many creations and first writes are in flight, the account never holds
\* more personas than its cap: the check and the insertion are one transaction.
THEOREM CapHolds == Spec => []PersonasWithinCap
<1>1. Init => Capped
    <2> SUFFICES ASSUME Init PROVE Capped
        OBVIOUS
    <2>1. Held(personas) = {}
        BY DEF Init, Held
    <2> QED
        BY <2>1, FS_EmptySet, ServiceAssumption DEF Capped
<1>2. Capped => PersonasWithinCap
    BY DEF Capped, PersonasWithinCap
<1> QED
    BY <1>1, <1>2, InitType, NextType, NextCapped, PTL DEF Spec

-----------------------------------------------------------------------------
(* An answered deletion is complete. *)

LEMMA NextGone == TypeInv /\ AnsweredMeansGone /\ [Next]_vars => AnsweredMeansGone'
<1> SUFFICES ASSUME TypeInv, AnsweredMeansGone, [Next]_vars,
                    NEW x \in residue'
             PROVE  pc'[x.by] \in {"checkpoint", "cancelled"}
    BY DEF AnsweredMeansGone
<1>1. pc \in [Requests -> {"new"} \cup Awaits \cup Outcomes]
    BY DEF TypeInv, TypeOK
<1>2. ASSUME NEW r \in Requests, NEW step, pc' = [pc EXCEPT ![r] = step],
             residue' = residue, pc[r] \notin {"checkpoint", "cancelled"}
      PROVE  pc'[x.by] \in {"checkpoint", "cancelled"}
    BY <1>1, <1>2 DEF AnsweredMeansGone, TypeInv, TypeOK
<1>3. ASSUME NEW r \in Requests, NEW j \in Workload, Receive(r, j)
      PROVE  pc'[x.by] \in {"checkpoint", "cancelled"}
    BY <1>2, <1>3 DEF Receive, Goto
<1>4. ASSUME NEW r \in Requests,
             \/ Ensure(r) \/ Find(r) \/ Gather(r) \/ Add(r) \/ Record(r) \/ Write(r) \/ Update(r)
      PROVE  pc'[x.by] \in {"checkpoint", "cancelled"}
    BY <1>2, <1>4 DEF Ensure, Find, Gather, Add, Record, Write, Update, Goto
<1>5. ASSUME NEW r \in Requests, Remove(r)
      PROVE  pc'[x.by] \in {"checkpoint", "cancelled"}
    <2>1. CASE residue' = residue
        BY <1>2, <1>5, <2>1 DEF Remove, Goto
    <2>2. CASE residue' # residue
        <3>1. /\ pc[r] = "remove" /\ pc' = [pc EXCEPT ![r] = "checkpoint"]
              /\ residue' = residue \cup {[fact |-> f, by |-> r] : f \in Doomed(r)}
            BY <1>5, <2>2 DEF Remove, Destroy, Goto
        <3>2. x \in residue \/ x.by = r
            BY <3>1
        <3> QED
            BY <1>1, <3>1, <3>2 DEF AnsweredMeansGone, TypeInv, TypeOK
    <2> QED
        BY <2>1, <2>2
<1>6. ASSUME NEW r \in Requests, Checkpoint(r)
      PROVE  FALSE
    BY <1>6 DEF Checkpoint, Truncated
<1>7. ASSUME NEW r \in Requests, Cancel(r)
      PROVE  pc'[x.by] \in {"checkpoint", "cancelled"}
    BY <1>1, <1>7 DEF Cancel, Goto, AnsweredMeansGone, TypeInv, TypeOK
<1>8. CASE UNCHANGED vars
    BY <1>8 DEF vars, AnsweredMeansGone
<1> QED
    BY <1>3, <1>4, <1>5, <1>6, <1>7, <1>8 DEF Next, Done

\* What an answered deletion or forget destroyed is no longer readable on disk.
THEOREM AnsweredIsGone == Spec => []AnsweredMeansGone
<1>1. Init => AnsweredMeansGone
    BY DEF Init, AnsweredMeansGone
<1> QED
    BY <1>1, InitType, NextType, NextGone, PTL DEF Spec

-----------------------------------------------------------------------------
(* Whose the rows are. *)

\* The personas of two moments: the same ones with the same ids, fewer, or one
\* more whose id is new.
PersonaStep ==
    /\ lastId' \in {lastId, lastId + 1}
    /\ \A p \in Profiles : personas'[p] # NoPersona =>
          \/ personas[p] # NoPersona /\ personas'[p].id = personas[p].id
          \/ /\ personas[p] = NoPersona
             /\ personas'[p].id = lastId + 1 /\ lastId' = lastId + 1

LEMMA EveryPersonaStep == TypeInv /\ [Next]_vars => PersonaStep
<1> SUFFICES ASSUME TypeInv, [Next]_vars PROVE PersonaStep
    OBVIOUS
<1>1. personas \in [Profiles -> Persona \cup {NoPersona}]
    BY DEF TypeInv, TypeOK
<1>2. CASE UNCHANGED <<personas, lastId>>
    BY <1>2 DEF PersonaStep
<1>3. ASSUME NEW r \in Requests, Add(r), ~UNCHANGED <<personas, lastId>>
      PROVE  PersonaStep
    <2> DEFINE p == job[r].profile
               row == [id |-> lastId + 1, card |-> NewCard(job[r])]
    <2>1. /\ personas[p] = NoPersona
          /\ personas' = [personas EXCEPT ![p] = row] /\ lastId' = lastId + 1
        BY <1>3 DEF Add, Taken
    <2>2. row.id = lastId + 1
        OBVIOUS
    <2> HIDE DEF p, row
    <2> QED
        BY <1>1, <2>1, <2>2 DEF PersonaStep
<1>4. ASSUME NEW r \in Requests, Update(r), ~UNCHANGED <<personas, lastId>>
      PROVE  PersonaStep
    <2> DEFINE p == job[r].profile
               card == Merged(seen[r].card, job[r].changes)
    <2>1. /\ personas[p] # NoPersona /\ lastId' = lastId
          /\ personas' = [personas EXCEPT ![p].card = card]
        BY <1>4 DEF Update, Updated
    <2> HIDE DEF p, card
    <2>2. \A q \in Profiles : q # p => personas'[q] = personas[q]
        BY <1>1, <2>1
    <2>3. p \in Profiles => personas'[p].id = personas[p].id
        BY <1>1, <2>1 DEF Persona
    <2> QED
        BY <2>1, <2>2, <2>3 DEF PersonaStep
<1>5. ASSUME NEW r \in Requests, Remove(r), ~UNCHANGED <<personas, lastId>>
      PROVE  PersonaStep
    <2>1. lastId' = lastId /\ personas' = [personas EXCEPT ![job[r].profile] = NoPersona]
        BY <1>5 DEF Remove
    <2> QED
        BY <1>1, <2>1 DEF PersonaStep
<1> QED
    BY <1>2, <1>3, <1>4, <1>5
       DEF Next, Done, vars, Receive, Ensure, Find, Gather, Record, Write, Checkpoint, Cancel

LEMMA UpdateKeeps ==
    ASSUME TypeInv, NEW r \in Requests, Update(r), NEW p \in Profiles
    PROVE  personas'[p] = NoPersona <=> personas[p] = NoPersona
<1>1. personas \in [Profiles -> Persona \cup {NoPersona}] /\ pc[r] = "update"
    BY DEF TypeInv, TypeOK, Update
<1>2. CASE personas' = personas
    BY <1>2
<1>3. CASE personas' # personas
    <2> DEFINE q == job[r].profile
               card == Merged(seen[r].card, job[r].changes)
    <2>1. personas[q] # NoPersona /\ personas' = [personas EXCEPT ![q].card = card]
        BY <1>3 DEF Update, Updated
    <2>2. q \in Profiles /\ job[r] \in Jobs /\ job[r].op = "patch" /\ seen[r] # NoPersona
        BY <1>1, Asked DEF Awaits, OpsAt, TypeInv, AtItsStep
    <2>3. card \in Card
        <3>1. seen[r].card \in Card
            BY <2>2 DEF TypeInv, TypeOK, Persona
        <3>2. job[r].changes \in Changes
            BY <2>2, JobType
        <3> QED
            BY <3>1, <3>2, MergedType
    <2> HIDE DEF q, card
    <2>4. personas'[q] = [personas[q] EXCEPT !.card = card] /\ personas[q] \in Persona
        BY <1>1, <2>1, <2>2
    <2>5. personas'[q] # NoPersona
        <3>1. personas'[q] \in Persona
            BY <2>3, <2>4 DEF Persona
        <3> QED
            BY <3>1, ServiceAssumption
    <2> QED
        BY <1>1, <2>1, <2>5
<1> QED
    BY <1>2, <1>3

\* A new row is its persona's, and a deletion leaves none of the persona's rows.
FactStep ==
    /\ \A f \in facts' : \/ f \in facts
                         \/ /\ personas' = personas
                            /\ personas[f.profile] # NoPersona
                            /\ f.persona = personas[f.profile].id
    /\ \A f \in facts' : personas'[f.profile] = NoPersona => personas[f.profile] = NoPersona

LEMMA EveryFactStep == TypeInv /\ [Next]_vars => FactStep
<1> SUFFICES ASSUME TypeInv, [Next]_vars PROVE FactStep
    OBVIOUS
<1>1. personas \in [Profiles -> Persona \cup {NoPersona}] /\ facts \subseteq Fact
    BY DEF TypeInv, TypeOK
<1>2. CASE UNCHANGED <<personas, facts>>
    BY <1>2 DEF FactStep
<1>3. ASSUME NEW r \in Requests, Add(r) \/ Update(r)
      PROVE  FactStep
    <2>1. facts' = facts
        BY <1>3 DEF Add, Update
    <2>2. \A p \in Profiles : personas'[p] = NoPersona => personas[p] = NoPersona
        <3>1. CASE personas' = personas
            BY <3>1
        <3>2. CASE Add(r) /\ personas' # personas
            <4> DEFINE row == [id |-> lastId + 1, card |-> NewCard(job[r])]
            <4>1. pc[r] = "add" /\ personas' = [personas EXCEPT ![job[r].profile] = row]
                BY <3>2 DEF Add
            <4>2. row # NoPersona
                BY <4>1, AddedRow
            <4> HIDE DEF row
            <4> QED
                BY <1>1, <4>1, <4>2
        <3>3. CASE Update(r)
            BY <3>3, UpdateKeeps
        <3> QED
            BY <1>3, <3>1, <3>2, <3>3
    <2>3. \A f \in facts : f.profile \in Profiles
        BY <1>1 DEF Fact
    <2> QED
        BY <2>1, <2>2, <2>3 DEF FactStep
<1>4. ASSUME NEW r \in Requests, Write(r)
      PROVE  FactStep
    <2> DEFINE p == job[r].profile
               row == [writer |-> r, profile |-> p, persona |-> personas[p].id]
    <2>1. /\ personas' = personas
          /\ \/ facts' = facts
             \/ personas[p] # NoPersona /\ facts' = facts \cup {row}
        BY <1>4 DEF Write
    <2> QED
        BY <2>1 DEF FactStep
<1>5. ASSUME NEW r \in Requests, Remove(r), ~UNCHANGED <<personas, facts>>
      PROVE  FactStep
    <2>1. facts' = facts \ Doomed(r)
        BY <1>5 DEF Remove, Destroy
    <2>2. CASE personas' = personas
        BY <2>1, <2>2 DEF FactStep
    <2>3. CASE personas' # personas
        <3>1. /\ job[r].op = "delete"
              /\ personas' = [personas EXCEPT ![job[r].profile] = NoPersona]
            BY <1>5, <2>3 DEF Remove
        <3>2. Doomed(r) = {f \in facts : f.profile = job[r].profile}
            BY <3>1 DEF Doomed
        <3>3. \A f \in facts : f.profile \in Profiles
            BY <1>1 DEF Fact
        <3> QED
            BY <1>1, <2>1, <3>1, <3>2, <3>3 DEF FactStep
    <2> QED
        BY <2>2, <2>3
<1> QED
    BY <1>2, <1>3, <1>4, <1>5
       DEF Next, Done, vars, Receive, Ensure, Find, Gather, Record, Checkpoint, Cancel

\* Ids are handed out once, in order; a row has the id of the persona at its
\* profile, and so no row is older than its persona.
OwnerInv ==
    /\ \A p \in Profiles : personas[p] # NoPersona => personas[p].id <= lastId
    /\ FactsBelongToTheirPersona

LEMMA NextOwner == TypeInv /\ OwnerInv /\ [Next]_vars => OwnerInv'
<1> SUFFICES ASSUME TypeInv, OwnerInv, [Next]_vars PROVE OwnerInv'
    OBVIOUS
<1>1. PersonaStep /\ FactStep /\ TypeInv'
    BY EveryPersonaStep, EveryFactStep, NextType
<1>2. /\ lastId \in Nat /\ facts \subseteq Fact /\ facts' \subseteq Fact
      /\ \A p \in Profiles : personas[p] # NoPersona => personas[p].id \in Nat
    BY <1>1 DEF TypeInv, TypeOK, Persona
<1>3. \A p \in Profiles : personas'[p] # NoPersona => personas'[p].id <= lastId'
    BY <1>1, <1>2 DEF PersonaStep, OwnerInv
<1>4. ASSUME NEW f \in facts'
      PROVE  personas'[f.profile] # NoPersona /\ personas'[f.profile].id = f.persona
    <2>1. f.profile \in Profiles
        BY <1>2 DEF Fact
    <2>2. personas[f.profile] # NoPersona /\ personas[f.profile].id = f.persona
        BY <1>1 DEF FactStep, OwnerInv, FactsBelongToTheirPersona
    <2>3. personas'[f.profile] # NoPersona
        BY <1>1, <2>2 DEF FactStep
    <2> QED
        BY <1>1, <2>1, <2>2, <2>3 DEF PersonaStep
<1> QED
    BY <1>3, <1>4 DEF OwnerInv, FactsBelongToTheirPersona

LEMMA InitOwner == Init => OwnerInv
BY DEF Init, OwnerInv, FactsBelongToTheirPersona

\* A row is the persona's that is now at its profile, however writes, deletions
\* and creations of the same name interleave.
THEOREM RowsAreTheirOwners == Spec => []FactsBelongToTheirPersona
<1>1. OwnerInv => FactsBelongToTheirPersona
    BY DEF OwnerInv
<1> QED
    BY <1>1, InitType, NextType, InitOwner, NextOwner, PTL DEF Spec

-----------------------------------------------------------------------------
(* What a read shows. *)

\* The persona a request has read is no younger than the one now at its profile,
\* nor than any that will be.
SeenInv ==
    /\ \A r \in Requests : seen[r] # NoPersona =>
          /\ pc[r] # "new" /\ seen[r].id <= lastId
          /\ personas[job[r].profile] # NoPersona =>
                seen[r].id <= personas[job[r].profile].id
    /\ NoPredecessorShown

\* A step that reads for nobody.
ReadsNothing == UNCHANGED <<seen, shown>> /\ PersonaStep

LEMMA SeenKept ==
    ASSUME TypeInv, OwnerInv, SeenInv, ReadsNothing, TypeInv',
           \A r \in Requests : pc[r] # "new" => job'[r] = job[r] /\ pc'[r] # "new"
    PROVE  SeenInv'
<1>1. NoPredecessorShown'
    BY DEF SeenInv, NoPredecessorShown, ReadsNothing
<1>2. ASSUME NEW r \in Requests, seen'[r] # NoPersona
      PROVE  /\ pc'[r] # "new" /\ seen'[r].id <= lastId'
             /\ personas'[job'[r].profile] # NoPersona =>
                   seen'[r].id <= personas'[job'[r].profile].id
    <2> DEFINE p == job[r].profile
    <2>1. /\ seen[r] # NoPersona /\ seen'[r] = seen[r] /\ job'[r] = job[r]
          /\ pc[r] # "new" /\ pc'[r] # "new" /\ seen[r].id <= lastId
          /\ personas[p] # NoPersona => seen[r].id <= personas[p].id
        BY <1>2 DEF SeenInv, ReadsNothing
    <2>2. job[r] \in Jobs
        BY <2>1 DEF TypeInv, TypeOK
    <2>3. p \in Profiles /\ seen[r].id \in Nat /\ lastId \in Nat
        BY <2>1, <2>2, JobType DEF TypeInv, TypeOK, Persona
    <2> HIDE DEF p
    <2>4. seen[r].id <= lastId'
        BY <2>1, <2>3 DEF ReadsNothing, PersonaStep
    <2>5. personas'[p] # NoPersona => seen[r].id <= personas'[p].id
        BY <2>1, <2>3 DEF ReadsNothing, PersonaStep
    <2> QED
        BY <2>1, <2>4, <2>5 DEF p
<1> QED
    BY <1>1, <1>2 DEF SeenInv

\* Nobody asks a second thing.
LEMMA JobsStay ==
    TypeInv /\ [Next]_vars =>
        \A r \in Requests : pc[r] # "new" => job'[r] = job[r] /\ pc'[r] # "new"
<1> SUFFICES ASSUME TypeInv, [Next]_vars, NEW r \in Requests, pc[r] # "new"
             PROVE  job'[r] = job[r] /\ pc'[r] # "new"
    OBVIOUS
<1>1. job'[r] = job[r]
    BY DEF Next, Done, vars, TypeInv, TypeOK, Receive, Ensure, Find, Gather, Add, Record, Write,
           Update, Remove, Checkpoint, Cancel
<1>2. TypeInv'
    BY NextType
<1> QED
    BY <1>1, <1>2 DEF TypeInv, TypeOK

LEMMA NextSeen == TypeInv /\ OwnerInv /\ SeenInv /\ [Next]_vars => SeenInv'
<1> SUFFICES ASSUME TypeInv, OwnerInv, SeenInv, [Next]_vars PROVE SeenInv'
    OBVIOUS
<1>1. TypeInv' /\ PersonaStep
    BY NextType, EveryPersonaStep
<1>2. CASE UNCHANGED <<seen, shown>>
    BY <1>1, <1>2, JobsStay, SeenKept DEF ReadsNothing
<1>3. ASSUME NEW r \in Requests, Find(r)
      PROVE  SeenInv'
    <2> DEFINE p == job[r].profile
    <2>1. /\ pc[r] = "find" /\ seen' = [seen EXCEPT ![r] = personas[p]]
          /\ UNCHANGED <<personas, lastId, job, shown>>
        BY <1>3 DEF Find
    <2>2. p \in Profiles /\ shown[r] = {} /\ pc[r] # "new" /\ pc'[r] # "new"
        BY <2>1, Asked, JobsStay DEF Awaits, TypeInv, AtItsStep
    <2>3. seen'[r] = personas[p] /\ \A q \in Requests : q # r => seen'[q] = seen[q]
        BY <2>1 DEF TypeInv, TypeOK
    <2>4. personas[p] # NoPersona => personas[p].id \in Nat /\ personas[p].id <= lastId
        BY <2>2 DEF OwnerInv, TypeInv, TypeOK, Persona
    <2>5. \A q \in Requests : pc[q] # "new" => pc'[q] # "new"
        BY JobsStay
    <2>6. ASSUME NEW q \in Requests, seen'[q] # NoPersona
          PROVE  /\ pc'[q] # "new" /\ seen'[q].id <= lastId'
                 /\ personas'[job'[q].profile] # NoPersona =>
                       seen'[q].id <= personas'[job'[q].profile].id
        <3>1. CASE q = r
            BY <2>1, <2>2, <2>3, <2>4, <2>6, <3>1
        <3>2. CASE q # r
            BY <2>1, <2>3, <2>5, <2>6, <3>2 DEF SeenInv
        <3> QED
            BY <3>1, <3>2
    <2>7. NoPredecessorShown'
        BY <2>1, <2>2, <2>3 DEF SeenInv, NoPredecessorShown
    <2> QED
        BY <2>6, <2>7 DEF SeenInv
<1>4. ASSUME NEW r \in Requests, Gather(r)
      PROVE  SeenInv'
    <2> DEFINE rows == {f \in facts : f.profile = job[r].profile}
    <2>1. /\ shown' = [shown EXCEPT ![r] = @ \cup rows]
          /\ UNCHANGED <<personas, lastId, job, seen>>
        BY <1>4 DEF Gather
    <2>2. \A q \in Requests : pc[q] # "new" => pc'[q] # "new"
        BY JobsStay
    <2>3. seen[r] # NoPersona => \A f \in rows : f.persona >= seen[r].id
        <3> SUFFICES ASSUME seen[r] # NoPersona, NEW f \in rows
                     PROVE  f.persona >= seen[r].id
            OBVIOUS
        <3>1. /\ personas[job[r].profile] # NoPersona
              /\ personas[job[r].profile].id = f.persona
            BY DEF OwnerInv, FactsBelongToTheirPersona
        <3>2. seen[r].id <= f.persona
            BY <3>1 DEF SeenInv
        <3>3. f.persona \in Nat /\ seen[r].id \in Nat
            BY DEF TypeInv, TypeOK, Fact, Persona
        <3> QED
            BY <3>2, <3>3
    <2>4. shown'[r] = shown[r] \cup rows /\ \A q \in Requests : q # r => shown'[q] = shown[q]
        <3> HIDE DEF rows
        <3> QED
            BY <2>1 DEF TypeInv, TypeOK
    <2> HIDE DEF rows
    <2>5. NoPredecessorShown'
        BY <2>1, <2>3, <2>4 DEF SeenInv, NoPredecessorShown
    <2> QED
        BY <2>1, <2>2, <2>5 DEF SeenInv
<1> QED
    BY <1>2, <1>3, <1>4
       DEF Next, Done, vars, Receive, Ensure, Add, Record, Write, Update, Remove, Checkpoint, Cancel

LEMMA InitSeen == Init => SeenInv
BY DEF Init, SeenInv, NoPredecessorShown

\* No read shows a row of a deleted persona under its successor's card, whatever
\* is deleted and made again between its calls.
THEOREM ReadsShowNoPredecessor == Spec => []NoPredecessorShown
<1>1. SeenInv => NoPredecessorShown
    BY DEF SeenInv
<1> QED
    BY <1>1, InitType, NextType, InitOwner, NextOwner, InitSeen, NextSeen, PTL DEF Spec

-----------------------------------------------------------------------------
(* The log tells as many creations and deletions as there were. *)

\* The requests that have made a persona at p, or deleted one, and are yet to say
\* so in the log.
Owed(ops, steps, p) ==
    {r \in Requests : job[r] # NoJob /\ job[r].op \in ops /\ job[r].profile = p /\ pc[r] \in steps}

CreationsOwed(p) == Owed({"create", "set"}, {"record"}, p)
DeletionsOwed(p) == Owed({"delete"}, {"checkpoint", "record"}, p)

Creations(p) ==
    Cardinality(EventsOf("persona.created", p)) + Cardinality(CreationsOwed(p))
Deletions(p) ==
    Cardinality(EventsOf("persona.deleted", p)) + Cardinality(DeletionsOwed(p))

Balanced(p) == Creations(p) = Deletions(p) + (IF personas[p] = NoPersona THEN 0 ELSE 1)

BalanceInv == NobodyLeft => \A p \in Profiles : Balanced(p)

LEMMA OwedFinite ==
    ASSUME NEW ops, NEW steps, NEW p
    PROVE  IsFiniteSet(Owed(ops, steps, p)) /\ Cardinality(Owed(ops, steps, p)) \in Nat
<1>1. Owed(ops, steps, p) \in SUBSET Requests
    BY DEF Owed
<1> QED
    BY <1>1, ServiceAssumption, FS_Subset, FS_CardinalityType

LEMMA EventsFinite ==
    ASSUME TypeInv, NEW action, NEW p
    PROVE  IsFiniteSet(EventsOf(action, p)) /\ Cardinality(EventsOf(action, p)) \in Nat
<1>1. Len(events) \in Nat /\ DOMAIN events = 1..Len(events)
    BY DEF TypeInv, TypeOK
<1>2. IsFiniteSet(1..Len(events))
    BY <1>1, FS_Interval
<1>3. EventsOf(action, p) \in SUBSET (1..Len(events))
    BY <1>1 DEF EventsOf
<1> QED
    BY <1>2, <1>3, FS_Subset, FS_CardinalityType

\* One more event of its own kind and profile, and of no other.
LEMMA OneMoreEvent ==
    ASSUME TypeInv, NEW ev \in Told, events' = Append(events, ev), NEW action, NEW p
    PROVE  Cardinality(EventsOf(action, p)') =
              Cardinality(EventsOf(action, p))
                  + (IF ev = [action |-> action, profile |-> p] THEN 1 ELSE 0)
<1> DEFINE n == Len(events) + 1
           told == [action |-> action, profile |-> p]
<1>1. /\ events \in Seq(Told) /\ Len(events) \in Nat /\ DOMAIN events = 1..Len(events)
      /\ events' \in Seq(Told) /\ Len(events') = n /\ DOMAIN events' = 1..n
      /\ events'[n] = ev /\ \A i \in 1..Len(events) : events'[i] = events[i]
    BY DEF TypeInv, TypeOK, Told
<1>2. n \notin EventsOf(action, p) /\ IsFiniteSet(EventsOf(action, p))
      /\ Cardinality(EventsOf(action, p)) \in Nat
    BY <1>1, EventsFinite DEF EventsOf
<1>3. CASE ev = told
    <2>1. EventsOf(action, p)' = EventsOf(action, p) \cup {n}
        BY <1>1, <1>3 DEF EventsOf
    <2> QED
        BY <1>2, <1>3, <2>1, FS_AddElement
<1>4. CASE ev # told
    <2>1. EventsOf(action, p)' = EventsOf(action, p)
        BY <1>1, <1>4 DEF EventsOf
    <2> QED
        BY <1>2, <1>4, <2>1
<1> QED
    BY <1>3, <1>4

\* A request that moves joins, leaves or stays; nobody else does either.
LEMMA OwedMoves ==
    ASSUME TypeInv, NEW r \in Requests, NEW step, Goto(r, step), job' = job, job[r] # NoJob,
           NEW ops, NEW steps, NEW p
    PROVE  Cardinality(Owed(ops, steps, p)') =
              Cardinality(Owed(ops, steps, p))
                  + (IF job[r].op \in ops /\ job[r].profile = p
                     THEN (IF step \in steps THEN 1 ELSE 0) - (IF pc[r] \in steps THEN 1 ELSE 0)
                     ELSE 0)
<1>1. pc \in [Requests -> {"new"} \cup Awaits \cup Outcomes] /\ pc' = [pc EXCEPT ![r] = step]
    BY DEF TypeInv, TypeOK, Goto
<1>2. \A q \in Requests : q # r => (q \in Owed(ops, steps, p)' <=> q \in Owed(ops, steps, p))
    BY <1>1 DEF Owed
<1>3. /\ r \in Owed(ops, steps, p)' <=> job[r].op \in ops /\ job[r].profile = p /\ step \in steps
      /\ r \in Owed(ops, steps, p) <=> job[r].op \in ops /\ job[r].profile = p /\ pc[r] \in steps
    BY <1>1 DEF Owed
<1>4. Owed(ops, steps, p) \subseteq Requests /\ Owed(ops, steps, p)' \subseteq Requests
    BY DEF Owed
<1>5. IsFiniteSet(Owed(ops, steps, p)) /\ Cardinality(Owed(ops, steps, p)) \in Nat
    BY OwedFinite
<1> DEFINE owed == Owed(ops, steps, p)
           next == Owed(ops, steps, p)'
<1> HIDE DEF owed, next
<1>6. CASE r \in owed <=> r \in next
    <2>1. owed = next
        BY <1>2, <1>4, <1>6 DEF owed, next
    <2> QED
        BY <1>3, <1>5, <1>6, <2>1 DEF owed, next
<1>7. CASE r \in next /\ r \notin owed
    <2>1. next = owed \cup {r}
        BY <1>2, <1>4, <1>7 DEF owed, next
    <2>2. Cardinality(next) = Cardinality(owed) + 1
        BY <1>5, <1>7, <2>1, FS_AddElement DEF owed
    <2> QED
        BY <1>3, <1>7, <2>2 DEF owed, next
<1>8. CASE r \notin next /\ r \in owed
    <2>1. next = owed \ {r}
        BY <1>2, <1>4, <1>8 DEF owed, next
    <2>2. IsFiniteSet(owed)
        BY <1>5 DEF owed
    <2>3. Cardinality(next) = Cardinality(owed) - 1
        BY <1>8, <2>1, <2>2, FS_RemoveElement
    <2> QED
        BY <1>3, <1>5, <1>8, <2>3 DEF owed, next
<1> QED
    BY <1>6, <1>7, <1>8

\* By how much the step of r to "step" changes what is owed at p.
Change(r, step, ops, steps, p) ==
    IF job[r].op \in ops /\ job[r].profile = p
    THEN (IF step \in steps THEN 1 ELSE 0) - (IF pc[r] \in steps THEN 1 ELSE 0)
    ELSE 0

CreationsChange(r, step, p) == Change(r, step, {"create", "set"}, {"record"}, p)
DeletionsChange(r, step, p) == Change(r, step, {"delete"}, {"checkpoint", "record"}, p)

Present(p) == IF personas[p] = NoPersona THEN 0 ELSE 1

LEMMA BalanceMoves ==
    ASSUME TypeInv, TypeInv', NEW r \in Requests, NEW step, Goto(r, step), job' = job,
           job[r] # NoJob, NEW p \in Profiles, Balanced(p),
           NEW made \in {0, 1}, NEW gone \in {0, 1},
           Cardinality(EventsOf("persona.created", p)') =
               Cardinality(EventsOf("persona.created", p)) + made,
           Cardinality(EventsOf("persona.deleted", p)') =
               Cardinality(EventsOf("persona.deleted", p)) + gone,
           made + CreationsChange(r, step, p) =
               gone + DeletionsChange(r, step, p) + (Present(p)' - Present(p))
    PROVE  Balanced(p)'
<1>1. /\ Cardinality(CreationsOwed(p)') =
             Cardinality(CreationsOwed(p)) + CreationsChange(r, step, p)
      /\ Cardinality(DeletionsOwed(p)') =
             Cardinality(DeletionsOwed(p)) + DeletionsChange(r, step, p)
    BY OwedMoves DEF CreationsOwed, DeletionsOwed, CreationsChange, DeletionsChange, Change
<1>2. /\ Cardinality(CreationsOwed(p)) \in Nat /\ Cardinality(DeletionsOwed(p)) \in Nat
      /\ Cardinality(EventsOf("persona.created", p)) \in Nat
      /\ Cardinality(EventsOf("persona.deleted", p)) \in Nat
    BY OwedFinite, EventsFinite DEF CreationsOwed, DeletionsOwed
<1>3. /\ CreationsChange(r, step, p) \in Int /\ DeletionsChange(r, step, p) \in Int
      /\ Present(p) \in Int /\ Present(p)' \in Int
    BY DEF CreationsChange, DeletionsChange, Change, Present
<1>4. Creations(p) = Deletions(p) + Present(p)
    BY DEF Balanced, Present
<1>5. Creations(p)' = Creations(p) + made + CreationsChange(r, step, p)
    BY <1>1, <1>2, <1>3 DEF Creations
<1>6. Deletions(p)' = Deletions(p) + gone + DeletionsChange(r, step, p)
    BY <1>1, <1>2, <1>3 DEF Deletions
<1>7. Creations(p) \in Int /\ Deletions(p) \in Int
    BY <1>2 DEF Creations, Deletions
<1>8. Creations(p)' = Deletions(p)' + Present(p)'
    <2> HIDE DEF Creations, Deletions, Present
    <2> QED
        BY <1>3, <1>4, <1>5, <1>6, <1>7
<1> QED
    BY <1>8 DEF Balanced, Present

\* A step that records nothing.
LEMMA SilentBalance ==
    ASSUME TypeInv, TypeInv', NEW r \in Requests, NEW step, Goto(r, step), job' = job,
           job[r] # NoJob, NEW p \in Profiles, Balanced(p), events' = events,
           CreationsChange(r, step, p) = DeletionsChange(r, step, p) + (Present(p)' - Present(p))
    PROVE  Balanced(p)'
<1>1. /\ EventsOf("persona.created", p)' = EventsOf("persona.created", p)
      /\ EventsOf("persona.deleted", p)' = EventsOf("persona.deleted", p)
    BY DEF EventsOf
<1>2. /\ Cardinality(EventsOf("persona.created", p)) \in Nat
      /\ Cardinality(EventsOf("persona.deleted", p)) \in Nat
    BY EventsFinite
<1>3. CreationsChange(r, step, p) \in Int /\ DeletionsChange(r, step, p) \in Int
      /\ Present(p) \in Int /\ Present(p)' \in Int
    BY DEF CreationsChange, DeletionsChange, Change, Present
<1>4. 0 + CreationsChange(r, step, p) =
          0 + DeletionsChange(r, step, p) + (Present(p)' - Present(p))
    BY <1>3
<1>5. /\ Cardinality(EventsOf("persona.created", p)') = Cardinality(EventsOf("persona.created", p)) + 0
      /\ Cardinality(EventsOf("persona.deleted", p)') = Cardinality(EventsOf("persona.deleted", p)) + 0
    BY <1>1, <1>2
<1> QED
    BY <1>4, <1>5, BalanceMoves

LEMMA AskedSomething ==
    ASSUME TypeInv, NEW r \in Requests, pc[r] \in Awaits
    PROVE  job[r] \in Jobs /\ job[r] # NoJob /\ job[r].op \in OpsAt(pc[r])
BY Asked, ServiceAssumption

\* A step between two awaits at which nothing is owed.
LEMMA IdleBalance ==
    ASSUME TypeInv, TypeInv', NEW r \in Requests, NEW step, Goto(r, step), job' = job,
           pc[r] \in Awaits \ {"record", "checkpoint"}, step \notin {"record", "checkpoint"},
           NEW p \in Profiles, Balanced(p), events' = events,
           personas'[p] = NoPersona <=> personas[p] = NoPersona
    PROVE  Balanced(p)'
<1>1. job[r] # NoJob
    BY AskedSomething
<1>2. /\ CreationsChange(r, step, p) = 0 /\ DeletionsChange(r, step, p) = 0
      /\ Present(p)' = Present(p) /\ Present(p) \in Int
    BY DEF CreationsChange, DeletionsChange, Change, Present
<1>3. CreationsChange(r, step, p) = DeletionsChange(r, step, p) + (Present(p)' - Present(p))
    BY <1>2
<1> QED
    BY <1>1, <1>3, SilentBalance

LEMMA ReceiveBalance ==
    ASSUME TypeInv, NEW r \in Requests, NEW j \in Workload, Receive(r, j),
           NEW p \in Profiles, Balanced(p)
    PROVE  Balanced(p)'
<1>1. FirstStep(j.op) \notin {"record", "checkpoint"}
    BY FirstStepType, ServiceAssumption
<1>2. /\ pc[r] = "new" /\ job[r] = NoJob
      /\ pc' = [pc EXCEPT ![r] = FirstStep(j.op)] /\ job' = [job EXCEPT ![r] = j]
      /\ UNCHANGED <<personas, events>>
    BY DEF Receive, Goto, TypeInv, TypeOK
<1>3. pc \in [Requests -> {"new"} \cup Awaits \cup Outcomes] /\ job \in [Requests -> Jobs \cup {NoJob}]
    BY DEF TypeInv, TypeOK
<1>4. CreationsOwed(p)' = CreationsOwed(p) /\ DeletionsOwed(p)' = DeletionsOwed(p)
    BY <1>1, <1>2, <1>3 DEF CreationsOwed, DeletionsOwed, Owed
<1>5. \A action : EventsOf(action, p)' = EventsOf(action, p)
    BY <1>2 DEF EventsOf
<1> QED
    BY <1>2, <1>4, <1>5 DEF Balanced, Creations, Deletions

LEMMA AddBalance ==
    ASSUME TypeInv, NEW r \in Requests, Add(r), NEW p \in Profiles, Balanced(p), TypeInv'
    PROVE  Balanced(p)'
<1> DEFINE row == [id |-> lastId + 1, card |-> NewCard(job[r])]
<1>1. pc[r] = "add" /\ pc[r] \in Awaits /\ job' = job /\ events' = events
    BY DEF Add, Awaits
<1>2. /\ job[r] # NoJob /\ job[r].op \in {"create", "set"} /\ job[r].profile \in Profiles
    BY <1>1, Asked, AskedSomething DEF OpsAt
<1>3. CASE ~Taken(personas, job[r].profile) /\ ~Full(personas)
    <2>1. /\ personas[job[r].profile] = NoPersona
          /\ personas' = [personas EXCEPT ![job[r].profile] = row]
          /\ Goto(r, "record")
        BY <1>3 DEF Add, Taken
    <2>2. row # NoPersona
        BY <1>1, AddedRow
    <2> HIDE DEF row
    <2>3. Present(p)' - Present(p) = IF job[r].profile = p THEN 1 ELSE 0
        BY <1>2, <2>1, <2>2 DEF Present, TypeInv, TypeOK
    <2>4. /\ CreationsChange(r, "record", p) = IF job[r].profile = p THEN 1 ELSE 0
          /\ DeletionsChange(r, "record", p) = 0
        BY <1>1, <1>2 DEF CreationsChange, DeletionsChange, Change
    <2>5. CreationsChange(r, "record", p) =
              DeletionsChange(r, "record", p) + (Present(p)' - Present(p))
        BY <2>3, <2>4
    <2> QED
        BY <1>1, <1>2, <2>1, <2>5, SilentBalance
<1>4. CASE ~(~Taken(personas, job[r].profile) /\ ~Full(personas))
    <2>1. PICK step \in {"exists", "refused"} : Goto(r, step)
        BY <1>4 DEF Add
    <2>2. personas' = personas
        BY <1>4 DEF Add
    <2> QED
        BY <1>1, <2>1, <2>2, IdleBalance
<1> QED
    BY <1>3, <1>4

LEMMA UpdateBalance ==
    ASSUME TypeInv, NEW r \in Requests, Update(r), NEW p \in Profiles, Balanced(p), TypeInv'
    PROVE  Balanced(p)'
<1>1. pc[r] = "update" /\ pc[r] \in Awaits /\ job' = job /\ events' = events
    BY DEF Update, Awaits
<1>2. job[r] # NoJob /\ job[r].op = "patch"
    BY <1>1, AskedSomething DEF OpsAt
<1>3. PICK step \in {"missing", "record"} : Goto(r, step)
    BY DEF Update
<1>4. /\ Present(p)' = Present(p) /\ Present(p) \in Int
      /\ CreationsChange(r, step, p) = 0 /\ DeletionsChange(r, step, p) = 0
    BY <1>2, UpdateKeeps DEF Present, CreationsChange, DeletionsChange, Change
<1>5. CreationsChange(r, step, p) = DeletionsChange(r, step, p) + (Present(p)' - Present(p))
    BY <1>4
<1> QED
    BY <1>1, <1>2, <1>3, <1>5, SilentBalance

LEMMA RemoveBalance ==
    ASSUME TypeInv, NEW r \in Requests, Remove(r), NEW p \in Profiles, Balanced(p), TypeInv'
    PROVE  Balanced(p)'
<1>1. pc[r] = "remove" /\ pc[r] \in Awaits /\ job' = job /\ events' = events
    BY DEF Remove, Awaits
<1>2. /\ job[r] # NoJob /\ job[r].op \in {"delete", "forget"} /\ job[r].profile \in Profiles
    BY <1>1, Asked, AskedSomething DEF OpsAt
<1>3. CASE job[r].op = "delete" /\ personas[job[r].profile] # NoPersona
    <2>1. /\ personas' = [personas EXCEPT ![job[r].profile] = NoPersona]
          /\ Goto(r, "checkpoint")
        BY <1>3 DEF Remove
    <2>2. Present(p)' - Present(p) = IF job[r].profile = p THEN -1 ELSE 0
        BY <1>2, <1>3, <2>1 DEF Present, TypeInv, TypeOK
    <2>3. /\ CreationsChange(r, "checkpoint", p) = 0
          /\ DeletionsChange(r, "checkpoint", p) = IF job[r].profile = p THEN 1 ELSE 0
        BY <1>1, <1>3 DEF CreationsChange, DeletionsChange, Change
    <2>4. CreationsChange(r, "checkpoint", p) =
              DeletionsChange(r, "checkpoint", p) + (Present(p)' - Present(p))
        BY <2>2, <2>3
    <2> QED
        BY <1>1, <1>2, <2>1, <2>4, SilentBalance
<1>4. CASE job[r].op = "forget"
    <2>1. PICK step \in {"missing", "checkpoint"} : Goto(r, step)
        BY DEF Remove
    <2>2. personas' = personas
        BY <1>4 DEF Remove
    <2>3. /\ Present(p)' = Present(p) /\ Present(p) \in Int
          /\ CreationsChange(r, step, p) = 0 /\ DeletionsChange(r, step, p) = 0
        BY <1>4, <2>2 DEF Present, CreationsChange, DeletionsChange, Change
    <2>4. CreationsChange(r, step, p) = DeletionsChange(r, step, p) + (Present(p)' - Present(p))
        BY <2>3
    <2> QED
        BY <1>1, <1>2, <2>1, <2>4, SilentBalance
<1>5. CASE job[r].op = "delete" /\ personas[job[r].profile] = NoPersona
    <2>1. Goto(r, "missing") /\ personas' = personas
        BY <1>5 DEF Remove
    <2> QED
        BY <1>1, <2>1, IdleBalance
<1> QED
    BY <1>2, <1>3, <1>4, <1>5

LEMMA CheckpointBalance ==
    ASSUME TypeInv, NEW r \in Requests, Checkpoint(r), NEW p \in Profiles, Balanced(p), TypeInv'
    PROVE  Balanced(p)'
<1>1. /\ pc[r] = "checkpoint" /\ pc[r] \in Awaits /\ job' = job /\ events' = events
      /\ personas' = personas
    BY DEF Checkpoint, Awaits
<1>2. job[r] # NoJob /\ job[r].op \in {"delete", "forget"}
    BY <1>1, AskedSomething DEF OpsAt
<1>3. PICK step \in {"record", "answered"} :
          Goto(r, step) /\ (step = "record" <=> job[r].op = "delete")
    BY DEF Checkpoint
<1>4. /\ Present(p)' = Present(p) /\ Present(p) \in Int
      /\ CreationsChange(r, step, p) = 0 /\ DeletionsChange(r, step, p) = 0
    BY <1>1, <1>2, <1>3 DEF Present, CreationsChange, DeletionsChange, Change
<1>5. CreationsChange(r, step, p) = DeletionsChange(r, step, p) + (Present(p)' - Present(p))
    BY <1>4
<1> QED
    BY <1>1, <1>2, <1>3, <1>5, SilentBalance

LEMMA RecordBalance ==
    ASSUME TypeInv, NEW r \in Requests, Record(r), NEW p \in Profiles, Balanced(p), TypeInv'
    PROVE  Balanced(p)'
<1>1. /\ pc[r] = "record" /\ pc[r] \in Awaits /\ job' = job /\ personas' = personas
      /\ events' = Append(events, Event(r))
    BY DEF Record, Awaits
<1>2. /\ job[r] # NoJob /\ job[r].profile \in Profiles
      /\ job[r].op \in {"create", "set", "patch", "delete"}
    BY <1>1, Asked, AskedSomething DEF OpsAt
<1>3. PICK step \in {"write", "answered"} : Goto(r, step)
    BY DEF Record
<1> DEFINE made == IF job[r].op \in {"create", "set"} /\ job[r].profile = p THEN 1 ELSE 0
           gone == IF job[r].op = "delete" /\ job[r].profile = p THEN 1 ELSE 0
<1>4. /\ Event(r) \in Told
      /\ Event(r) = [action |-> "persona.created", profile |-> p] <=> made = 1
      /\ Event(r) = [action |-> "persona.deleted", profile |-> p] <=> gone = 1
    BY <1>2 DEF Event, Told
<1>5. made \in {0, 1} /\ gone \in {0, 1}
    OBVIOUS
<1>6. /\ CreationsChange(r, step, p) = 0 - made
      /\ DeletionsChange(r, step, p) = 0 - gone
      /\ Present(p)' = Present(p) /\ Present(p) \in Int
    BY <1>1, <1>2, <1>3 DEF CreationsChange, DeletionsChange, Change, Present
<1> HIDE DEF made, gone
<1>7. /\ Cardinality(EventsOf("persona.created", p)') =
             Cardinality(EventsOf("persona.created", p)) + made
      /\ Cardinality(EventsOf("persona.deleted", p)') =
             Cardinality(EventsOf("persona.deleted", p)) + gone
    BY <1>1, <1>4, <1>5, OneMoreEvent
<1>8. made + CreationsChange(r, step, p) =
          gone + DeletionsChange(r, step, p) + (Present(p)' - Present(p))
    BY <1>5, <1>6
<1> QED
    BY <1>1, <1>2, <1>3, <1>5, <1>7, <1>8, BalanceMoves

LEMMA OtherBalance ==
    ASSUME TypeInv, NEW r \in Requests, Ensure(r) \/ Find(r) \/ Gather(r) \/ Write(r),
           NEW p \in Profiles, Balanced(p), TypeInv'
    PROVE  Balanced(p)'
<1>1. /\ pc[r] \in Awaits \ {"record", "checkpoint"} /\ job' = job /\ events' = events
      /\ personas' = personas
    BY DEF Ensure, Find, Gather, Write, Awaits
<1>2. PICK step : Goto(r, step) /\ step \notin {"record", "checkpoint"}
    <2>1. CASE Ensure(r)
        BY <2>1 DEF Ensure
    <2>2. CASE Gather(r)
        BY <2>2 DEF Gather, AfterReading, ReadOrder
    <2>3. CASE Write(r)
        BY <2>3 DEF Write
    <2>4. CASE Find(r)
        <3>1. pc[r] = "find"
            BY <2>4 DEF Find
        <3>2. job[r].op \in {"patch", "forget", "read"}
            BY <3>1, AskedSomething DEF Awaits, OpsAt
        <3>3. AfterFinding(job[r].op) \in {"gather", "update", "remove"}
            BY <3>2 DEF AfterFinding, AfterReading, ReadOrder
        <3> QED
            BY <2>4, <3>3 DEF Find
    <2> QED
        BY <2>1, <2>2, <2>3, <2>4
<1> QED
    BY <1>1, <1>2, IdleBalance

LEMMA NextBalance == TypeInv /\ BalanceInv /\ [Next]_vars => BalanceInv'
<1> SUFFICES ASSUME TypeInv, BalanceInv, [Next]_vars, NobodyLeft', NEW p \in Profiles
             PROVE  Balanced(p)'
    BY DEF BalanceInv
<1>1. TypeInv'
    BY NextType
<1>2. \A r \in Requests : ~Cancel(r)
    BY DEF Cancel, Goto, NobodyLeft, TypeInv, TypeOK
<1>3. ASSUME NEW r \in Requests
      PROVE  pc[r] # "cancelled"
    <2> SUFFICES ASSUME pc[r] = "cancelled" PROVE FALSE
        OBVIOUS
    <2>1. pc'[r] = "cancelled"
        BY <1>2 DEF Next, Done, vars, TypeInv, TypeOK, Goto, Receive, Ensure, Find, Gather, Add,
               Record, Write, Update, Remove, Checkpoint
    <2> QED
        BY <2>1 DEF NobodyLeft
<1>4. Balanced(p)
    BY <1>3 DEF BalanceInv, NobodyLeft
<1>5. CASE UNCHANGED vars
    BY <1>4, <1>5 DEF vars, Balanced, Creations, Deletions, CreationsOwed, DeletionsOwed, Owed,
                      EventsOf
<1> QED
    BY <1>1, <1>2, <1>4, <1>5, ReceiveBalance, AddBalance, UpdateBalance, RemoveBalance,
       CheckpointBalance, RecordBalance, OtherBalance DEF Next, Done

LEMMA InitBalance == Init => BalanceInv
<1> SUFFICES ASSUME Init, NEW p \in Profiles PROVE Balanced(p)
    BY DEF BalanceInv
<1>1. CreationsOwed(p) = {} /\ DeletionsOwed(p) = {}
    BY DEF Init, CreationsOwed, DeletionsOwed, Owed
<1>2. \A action : EventsOf(action, p) = {}
    BY DEF Init, EventsOf
<1>3. personas[p] = NoPersona
    BY DEF Init
<1> QED
    BY <1>1, <1>2, <1>3, FS_EmptySet DEF Balanced, Creations, Deletions

\* Once every request has run to its end, a persona exists exactly when the log
\* tells of one more creation than deletions.
THEOREM LogIsBalanced == Spec => []LogBalances
<1>1. TypeInv /\ BalanceInv => LogBalances
    <2> SUFFICES ASSUME TypeInv, BalanceInv, Quiet, NobodyLeft, NEW p \in Profiles
                 PROVE  Cardinality(EventsOf("persona.created", p)) =
                            Cardinality(EventsOf("persona.deleted", p))
                                + (IF personas[p] = NoPersona THEN 0 ELSE 1)
        BY DEF LogBalances
    <2>1. CreationsOwed(p) = {} /\ DeletionsOwed(p) = {}
        BY DEF Quiet, InFlight, Awaits, CreationsOwed, DeletionsOwed, Owed
    <2>2. /\ Cardinality(EventsOf("persona.created", p)) \in Nat
          /\ Cardinality(EventsOf("persona.deleted", p)) \in Nat
        BY EventsFinite
    <2>3. /\ Creations(p) = Cardinality(EventsOf("persona.created", p))
          /\ Deletions(p) = Cardinality(EventsOf("persona.deleted", p))
        <3>1. Cardinality(CreationsOwed(p)) = 0 /\ Cardinality(DeletionsOwed(p)) = 0
            BY <2>1, FS_EmptySet
        <3> QED
            BY <2>2, <3>1 DEF Creations, Deletions
    <2> QED
        BY <2>3 DEF BalanceInv, Balanced
<1> QED
    BY <1>1, InitType, NextType, InitBalance, NextBalance, PTL DEF Spec
=============================================================================
