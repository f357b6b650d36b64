------------------------------- MODULE Lifecycle -------------------------------
(***************************************************************************)
(* What becomes of a remembered thing, whichever store holds it: the       *)
(* promise of domain/erasure.py and docs/adr/0009, without tables, indexes,*)
(* caps or logs.  A thing lives at a slot, an owner and a name; it may be   *)
(* forgotten for good or for a while, comes back only while it may, and is *)
(* destroyed when its time is over, when forgetting it says so, or with    *)
(* its owner.  FieldStore implements this specification.                   *)
(***************************************************************************)
EXTENDS Integers

CONSTANTS Owners, Names,
          Never,         \* the due date of what is not to be destroyed
          GracePeriods   \* the delays a person may have chosen

VARIABLES time,
          things,        \* at each slot, a thing or Absent
          lives          \* how many lives have begun; each thing has its own

Places == Owners \X Names

Thing(life, forgotten, due) == [life |-> life, forgotten |-> forgotten, due |-> due]

Absent == Thing(0, FALSE, Never)

Over(s) == things[s].due # Never /\ things[s].due <= time

TimePasses == time' = time + 1 /\ UNCHANGED <<things, lives>>

\* A new life begins where there is none, or none that may go on.
Remember(s) ==
    /\ things[s] = Absent \/ Over(s)
    /\ lives' = lives + 1
    /\ things' = [things EXCEPT ![s] = Thing(lives + 1, FALSE, Never)]
    /\ time' = time

\* The same life goes on.
Revive(s) ==
    /\ things[s] # Absent /\ ~Over(s)
    /\ things' = [things EXCEPT ![s] = Thing(things[s].life, FALSE, Never)]
    /\ UNCHANGED <<time, lives>>

\* Only what lives is forgotten, so nobody can put its end off or bring it on.
Forget(s) ==
    /\ things[s] # Absent /\ ~things[s].forgotten
    /\ \E next \in {Absent} \cup {Thing(things[s].life, TRUE, due) :
                                  due \in {Never} \cup {time + g : g \in GracePeriods}} :
          things' = [things EXCEPT ![s] = next]
    /\ UNCHANGED <<time, lives>>

Remove(gone) ==
    /\ things' = [s \in Places |-> IF s \in gone THEN Absent ELSE things[s]]
    /\ UNCHANGED <<time, lives>>

DestroyDue == \E gone \in SUBSET {s \in Places : Over(s)} : Remove(gone)

RemoveOwner(o) == Remove({o} \X Names)

Init == time = 0 /\ things = [s \in Places |-> Absent] /\ lives = 0

Next ==
    \/ TimePasses
    \/ \E s \in Places : Remember(s) \/ Revive(s) \/ Forget(s)
    \/ DestroyDue
    \/ \E o \in Owners : RemoveOwner(o)

Spec == Init /\ [][Next]_<<time, things, lives>>
=============================================================================
