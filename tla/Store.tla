--------------------------------- MODULE Store ---------------------------------
(***************************************************************************)
(* The parts of the one SQLite database that every store touches: the      *)
(* personas table, the change log and the clock.                           *)
(*                                                                         *)
(* A persona stands for its primary key, the pair (account, profile).  One *)
(* step of a store is one transaction: storage/database.py runs every      *)
(* transaction on a single thread, between BEGIN IMMEDIATE and COMMIT, so   *)
(* none interleaves with another.  "now" is the clock a transaction was    *)
(* submitted with; submission and the clock reading happen in one          *)
(* uninterrupted stretch of the event loop and the executor is first in    *)
(* first out, so transactions run in the order of their clock readings.    *)
(***************************************************************************)
EXTENDS EventLog

CONSTANTS Personas,     \* (account, profile) pairs that can be asked for
          GracePeriods, \* the grace_days a person may have chosen
          MaxTime,      \* bound: the clock stops here
          MaxWrites     \* bound: this many events are ever recorded

ASSUME BoundsAssumption == MaxTime \in Nat /\ MaxWrites \in Nat
ASSUME GraceAssumption == GracePeriods \subseteq Nat

VARIABLES now,          \* the injected clock
          personas,     \* the personas table
          log           \* the events table

\* domain/erasure.py: a person's choice, as it applies to the row being forgotten.
Policies ==
    [mode : {"tombstone", "immediate"}, graceDays : {0}]
        \cup [mode : {"grace"}, graceDays : GracePeriods]

DestroysNow(policy) == policy.mode = "immediate"

PurgeAfter(policy, time) ==
    IF policy.mode = "grace" THEN time + policy.graceDays ELSE Never

storeVars == <<now, personas, log>>

StoreInit == now = 0 /\ personas = {} /\ log = EmptyLog

MayRecord == log.last < MaxWrites

Tick == now < MaxTime /\ now' = now + 1 /\ UNCHANGED <<personas, log>>

\* personas/store.py add: the row, no event (PersonaService records that in a
\* transaction of its own).
AddPersona(p) ==
    p \notin personas /\ personas' = personas \cup {p} /\ UNCHANGED <<now, log>>

\* The part of personas/store.py delete that this module's tables see.
DropPersona(p) ==
    /\ p \in personas
    /\ personas' = personas \ {p}
    /\ log' = StripPersonaValues(log, p)
    /\ now' = now

\* events/sql_log.py record: an event in a transaction of its own.  Only
\* PersonaService uses it, and only for persona events, so the subject is the
\* persona and no value is kept.
RecordPersonaEvent(p, action) ==
    /\ MayRecord
    /\ log' = Appended(log, Event(action, p, p, 0, Never, NoValue))
    /\ UNCHANGED <<now, personas>>

\* A transaction of another store over the same events table, as a store that
\* owns none of its rows sees it.  It strips values only from events of its own
\* noun: when it destroys rows in a batch, or the one row that it also records
\* an event about, before that (a row written anew) or after it (one forgotten).
OtherTransaction(events, actions) ==
    /\ UNCHANGED <<now, personas>>
    /\ \/ \E gone \in SUBSET {<<e.persona, e.subject>> : e \in events} :
              log' = StripValues(log, gone, actions)
       \/ /\ MayRecord
          /\ \E e \in events : \E gone \in SUBSET {<<e.persona, e.subject>>} :
                \/ log' = Appended(StripValues(log, gone, actions), e)
                \/ log' = StripValues(Appended(log, e), gone, actions)
=============================================================================
