---------------------------- MODULE EventLog_proofs ----------------------------
(***************************************************************************)
(* Facts about the operators that every store's transactions are built     *)
(* from: the change log, the search index and the counts behind a cap.     *)
(* They are stated for the entries of any store (which actions, personas,  *)
(* subjects and values it has), and the stores' proofs cite them by name.   *)
(***************************************************************************)
EXTENDS EventLog, SearchIndex, FiniteSets, FiniteSetTheorems, TLAPS

-----------------------------------------------------------------------------
(* The log's types. *)

EventsOf(actions, owners, subjects, values) ==
    [action : actions, persona : owners, subject : subjects, revision : Nat,
     due : Nat \cup {Never}, oldValue : values \cup {NoValue}]

EntriesOf(actions, owners, subjects, values) ==
    [sequence : Nat, action : actions, persona : owners, subject : subjects,
     revision : Nat, due : Nat \cup {Never}, oldValue : values \cup {NoValue}]

LogsOf(entries) == [last : Nat, entries : SUBSET entries]

LEMMA NumberedType ==
    ASSUME NEW A, NEW P, NEW S, NEW V, NEW n \in Nat, NEW ev \in EventsOf(A, P, S, V)
    PROVE  Numbered(n, ev) \in EntriesOf(A, P, S, V)
BY DEF Numbered, EventsOf, EntriesOf

LEMMA AppendKeepsType ==
    ASSUME NEW A, NEW P, NEW S, NEW V,
           NEW lg \in LogsOf(EntriesOf(A, P, S, V)), NEW ev \in EventsOf(A, P, S, V)
    PROVE  Appended(lg, ev) \in LogsOf(EntriesOf(A, P, S, V))
<1>1. lg.last + 1 \in Nat
    BY DEF LogsOf
<1>2. Numbered(lg.last + 1, ev) \in EntriesOf(A, P, S, V)
    BY <1>1, NumberedType
<1>3. Trimmed(lg.entries \cup {Numbered(lg.last + 1, ev)}, lg.last + 1)
          \subseteq EntriesOf(A, P, S, V)
    BY <1>2 DEF Trimmed, LogsOf
<1> QED
    BY <1>1, <1>3 DEF Appended, LogsOf

LEMMA StripKeepsType ==
    ASSUME NEW A, NEW P, NEW S, NEW V, NEW lg \in LogsOf(EntriesOf(A, P, S, V)),
           NEW targets, NEW actions
    PROVE  StripValues(lg, targets, actions) \in LogsOf(EntriesOf(A, P, S, V))
<1>1. \A e \in lg.entries : [e EXCEPT !.oldValue = NoValue] \in EntriesOf(A, P, S, V)
    BY DEF LogsOf, EntriesOf
<1> QED
    BY <1>1 DEF StripValues, LogsOf

LEMMA StripPersonaKeepsType ==
    ASSUME NEW A, NEW P, NEW S, NEW V, NEW lg \in LogsOf(EntriesOf(A, P, S, V)), NEW p
    PROVE  StripPersonaValues(lg, p) \in LogsOf(EntriesOf(A, P, S, V))
<1>1. \A e \in lg.entries : [e EXCEPT !.oldValue = NoValue] \in EntriesOf(A, P, S, V)
    BY DEF LogsOf, EntriesOf
<1> QED
    BY <1>1 DEF StripPersonaValues, LogsOf

-----------------------------------------------------------------------------
(* What an append adds and trims. *)

LEMMA AppendedEntries ==
    ASSUME NEW A, NEW P, NEW S, NEW V,
           NEW lg \in LogsOf(EntriesOf(A, P, S, V)), NEW ev \in EventsOf(A, P, S, V)
    PROVE  /\ Appended(lg, ev).last = lg.last + 1
           /\ Numbered(lg.last + 1, ev) \in EntriesOf(A, P, S, V)
           /\ \A e \in EntriesOf(A, P, S, V) : e \in Appended(lg, ev).entries <=>
                  /\ e \in lg.entries \/ e = Numbered(lg.last + 1, ev)
                  /\ ~(e.sequence <= lg.last + 1 - MaxEntries)
<1> DEFINE all == lg.entries \cup {Numbered(lg.last + 1, ev)}
<1>1. /\ Appended(lg, ev).last = lg.last + 1
      /\ Appended(lg, ev).entries = Trimmed(all, lg.last + 1)
    <2>1. Appended(lg, ev) = [last |-> lg.last + 1, entries |-> Trimmed(all, lg.last + 1)]
        BY DEF Appended
    <2> QED
        BY <2>1
<1>2. \A e : e \in all <=> e \in lg.entries \/ e = Numbered(lg.last + 1, ev)
    OBVIOUS
<1>3. Numbered(lg.last + 1, ev) \in EntriesOf(A, P, S, V)
    <2>1. lg.last + 1 \in Nat
        BY DEF LogsOf
    <2> QED
        BY <2>1, NumberedType
<1> HIDE DEF all
<1>4. \A e \in EntriesOf(A, P, S, V) : e \in Trimmed(all, lg.last + 1) <=>
                e \in all /\ ~(e.sequence <= lg.last + 1 - MaxEntries)
    BY MaxEntriesAssumption DEF Trimmed, EntriesOf, LogsOf
<1> QED
    BY <1>1, <1>2, <1>3, <1>4

-----------------------------------------------------------------------------
(* What a strip leaves. *)

\* One entry, whether or not its value has been stripped.
SameEvent(e, f) ==
    /\ e.sequence = f.sequence /\ e.action = f.action /\ e.persona = f.persona
    /\ e.subject = f.subject /\ e.revision = f.revision /\ e.due = f.due

Unambiguous(lg) == \A e, f \in lg.entries : e.sequence = f.sequence => e = f

\* lg2 is lg1 with some of its values gone.
Stripped(lg2, lg1) ==
    /\ Unambiguous(lg1) => Unambiguous(lg2)
    /\ lg2.last = lg1.last
    /\ \A e \in lg2.entries : \E f \in lg1.entries :
          SameEvent(e, f) /\ e.oldValue \in {f.oldValue, NoValue}
    /\ \A f \in lg1.entries : \E e \in lg2.entries : SameEvent(e, f)

LEMMA NothingStripped == ASSUME NEW lg PROVE Stripped(lg, lg)
BY DEF Stripped, SameEvent

Blanked(e, chosen) == IF e \in chosen THEN [e EXCEPT !.oldValue = NoValue] ELSE e

LEMMA BlankedEntry ==
    ASSUME NEW A, NEW P, NEW S, NEW V, NEW e \in EntriesOf(A, P, S, V), NEW chosen
    PROVE  /\ SameEvent(Blanked(e, chosen), e)
           /\ Blanked(e, chosen).oldValue \in {e.oldValue, NoValue}
           /\ e \in chosen => Blanked(e, chosen).oldValue = NoValue
           /\ e \notin chosen => Blanked(e, chosen) = e
BY DEF SameEvent, EntriesOf, Blanked

\* Both strips map each entry to itself or to itself without its value.
LEMMA StripImage ==
    ASSUME NEW lg, NEW lg2, NEW chosen,
           \A e \in lg.entries : /\ SameEvent(Blanked(e, chosen), e)
                                 /\ Blanked(e, chosen).oldValue \in {e.oldValue, NoValue},
           lg2.last = lg.last,
           lg2.entries = {Blanked(e, chosen) : e \in lg.entries}
    PROVE  Stripped(lg2, lg)
<1> DEFINE image(e) == Blanked(e, chosen)
<1>1. lg2.entries = {image(e) : e \in lg.entries}
    OBVIOUS
<1>2. \A e \in lg.entries :
          SameEvent(image(e), e) /\ image(e).oldValue \in {e.oldValue, NoValue}
    OBVIOUS
<1> HIDE DEF image
<1>3. ASSUME Unambiguous(lg)
      PROVE  Unambiguous(lg2)
    <2> SUFFICES ASSUME NEW e \in lg.entries, NEW f \in lg.entries,
                        image(e).sequence = image(f).sequence
                 PROVE  image(e) = image(f)
        BY <1>1 DEF Unambiguous
    <2>1. e.sequence = f.sequence
        BY <1>2 DEF SameEvent
    <2>2. e = f
        BY <1>3, <2>1 DEF Unambiguous
    <2> QED
        BY <2>2
<1> QED
    BY <1>1, <1>2, <1>3 DEF Stripped

LEMMA StripEntries ==
    ASSUME NEW A, NEW P, NEW S, NEW V, NEW lg \in LogsOf(EntriesOf(A, P, S, V)),
           NEW targets, NEW actions
    PROVE  /\ Stripped(StripValues(lg, targets, actions), lg)
           /\ \A e \in StripValues(lg, targets, actions).entries : \E f \in lg.entries :
                 /\ SameEvent(e, f)
                 /\ <<e.persona, e.subject>> \in targets /\ e.action \in actions
                        => e.oldValue = NoValue
                 /\ ~(<<e.persona, e.subject>> \in targets /\ e.action \in actions) => e = f
<1> DEFINE chosen == {e \in lg.entries : <<e.persona, e.subject>> \in targets /\ e.action \in actions}
           lg2 == StripValues(lg, targets, actions)
<1>1. /\ lg2.entries = {Blanked(e, chosen) : e \in lg.entries}
      /\ lg2.last = lg.last
    BY DEF StripValues, LogsOf, Blanked
<1>2. \A e \in lg.entries : /\ SameEvent(Blanked(e, chosen), e)
                            /\ Blanked(e, chosen).oldValue \in {e.oldValue, NoValue}
                            /\ e \in chosen => Blanked(e, chosen).oldValue = NoValue
                            /\ e \notin chosen => Blanked(e, chosen) = e
    <2> HIDE DEF chosen
    <2> SUFFICES ASSUME NEW e \in lg.entries
                 PROVE  /\ SameEvent(Blanked(e, chosen), e)
                        /\ Blanked(e, chosen).oldValue \in {e.oldValue, NoValue}
                        /\ e \in chosen => Blanked(e, chosen).oldValue = NoValue
                        /\ e \notin chosen => Blanked(e, chosen) = e
        OBVIOUS
    <2>1. e \in EntriesOf(A, P, S, V)
        BY DEF LogsOf
    <2> QED
        BY <2>1, BlankedEntry
<1>3. Stripped(lg2, lg)
    <2> HIDE DEF chosen, lg2
    <2> QED
        BY <1>1, <1>2, StripImage
<1>4. \A e \in lg.entries : e \in chosen <=> <<e.persona, e.subject>> \in targets /\ e.action \in actions
    OBVIOUS
<1> HIDE DEF chosen, lg2
<1>5. \A e \in lg2.entries : \E f \in lg.entries :
            /\ SameEvent(e, f)
            /\ f \in chosen => e.oldValue = NoValue
            /\ f \notin chosen => e = f
    BY <1>1, <1>2
<1> QED
    BY <1>3, <1>4, <1>5 DEF lg2, SameEvent

LEMMA StripPersonaEntries ==
    ASSUME NEW A, NEW P, NEW S, NEW V, NEW lg \in LogsOf(EntriesOf(A, P, S, V)), NEW p
    PROVE  /\ Stripped(StripPersonaValues(lg, p), lg)
           /\ \A e \in StripPersonaValues(lg, p).entries : \E f \in lg.entries :
                 /\ SameEvent(e, f)
                 /\ e.persona = p => e.oldValue = NoValue
                 /\ e.persona # p => e = f
<1> DEFINE chosen == {e \in lg.entries : e.persona = p}
           lg2 == StripPersonaValues(lg, p)
<1>1. /\ lg2.entries = {Blanked(e, chosen) : e \in lg.entries}
      /\ lg2.last = lg.last
    BY DEF StripPersonaValues, LogsOf, Blanked
<1>2. \A e \in lg.entries : /\ SameEvent(Blanked(e, chosen), e)
                            /\ Blanked(e, chosen).oldValue \in {e.oldValue, NoValue}
                            /\ e \in chosen => Blanked(e, chosen).oldValue = NoValue
                            /\ e \notin chosen => Blanked(e, chosen) = e
    <2> HIDE DEF chosen
    <2> SUFFICES ASSUME NEW e \in lg.entries
                 PROVE  /\ SameEvent(Blanked(e, chosen), e)
                        /\ Blanked(e, chosen).oldValue \in {e.oldValue, NoValue}
                        /\ e \in chosen => Blanked(e, chosen).oldValue = NoValue
                        /\ e \notin chosen => Blanked(e, chosen) = e
        OBVIOUS
    <2>1. e \in EntriesOf(A, P, S, V)
        BY DEF LogsOf
    <2> QED
        BY <2>1, BlankedEntry
<1>3. Stripped(lg2, lg)
    <2> HIDE DEF chosen, lg2
    <2> QED
        BY <1>1, <1>2, StripImage
<1>4. \A e \in lg.entries : e \in chosen <=> e.persona = p
    OBVIOUS
<1> HIDE DEF chosen, lg2
<1>5. \A e \in lg2.entries : \E f \in lg.entries :
            /\ SameEvent(e, f)
            /\ f \in chosen => e.oldValue = NoValue
            /\ f \notin chosen => e = f
    BY <1>1, <1>2
<1> QED
    BY <1>3, <1>4, <1>5 DEF lg2, SameEvent

-----------------------------------------------------------------------------
(* The log's window. *)

\* The log holds every entry after the bound, once, and no other.
Window(lg) ==
    /\ \A e \in lg.entries : /\ lg.last - MaxEntries < e.sequence
                             /\ e.sequence <= lg.last /\ e.sequence > 0
    /\ \A n \in 1..lg.last : n > lg.last - MaxEntries =>
          \E e \in lg.entries : e.sequence = n
    /\ Unambiguous(lg)

LEMMA EmptyWindow == Window(EmptyLog)
BY DEF EmptyLog, Window, Unambiguous

LEMMA StripKeepsWindow ==
    ASSUME NEW lg1, NEW lg2, Window(lg1), Stripped(lg2, lg1)
    PROVE  Window(lg2)
BY DEF Stripped, SameEvent, Window

LEMMA AppendKeepsWindow ==
    ASSUME NEW A, NEW P, NEW S, NEW V, NEW lg \in LogsOf(EntriesOf(A, P, S, V)),
           NEW ev \in EventsOf(A, P, S, V), Window(lg)
    PROVE  Window(Appended(lg, ev))
<1> DEFINE new == Numbered(lg.last + 1, ev)
           next == Appended(lg, ev)
           E == EntriesOf(A, P, S, V)
<1>1. /\ lg.last \in Nat /\ Unambiguous(lg) /\ lg.entries \subseteq E
      /\ \A e \in lg.entries : /\ e.sequence \in Nat /\ e.sequence <= lg.last
                               /\ lg.last - MaxEntries < e.sequence /\ e.sequence > 0
      /\ \A n \in 1..lg.last : n > lg.last - MaxEntries =>
            \E e \in lg.entries : e.sequence = n
    BY DEF Window, LogsOf, EntriesOf
<1>2. new.sequence = lg.last + 1
    BY DEF Numbered
<1>3. /\ next.last = lg.last + 1 /\ new \in E /\ next.entries \subseteq E
      /\ \A e \in E : e \in next.entries <=>
             (e \in lg.entries \/ e = new) /\ ~(e.sequence <= lg.last + 1 - MaxEntries)
    <2>1. next \in LogsOf(E)
        BY AppendKeepsType
    <2>2. next.entries \subseteq E
        <3> HIDE DEF next, E
        <3> QED BY <2>1 DEF LogsOf
    <2> QED
        BY <2>2, AppendedEntries
<1> HIDE DEF new, next, E
<1>4. \A e \in next.entries : /\ next.last - MaxEntries < e.sequence
                              /\ e.sequence <= next.last /\ e.sequence > 0
    BY <1>1, <1>2, <1>3, MaxEntriesAssumption
<1>5. ASSUME NEW n \in 1..next.last, n > next.last - MaxEntries
      PROVE  \E e \in next.entries : e.sequence = n
    <2>1. CASE n = lg.last + 1
        BY <1>1, <1>2, <1>3, <2>1, MaxEntriesAssumption
    <2>2. CASE n # lg.last + 1
        <3>1. PICK e \in lg.entries : e.sequence = n
            BY <1>1, <1>3, <1>5, <2>2, MaxEntriesAssumption
        <3> QED
            BY <1>1, <1>3, <1>5, <3>1, MaxEntriesAssumption
    <2> QED
        BY <2>1, <2>2
<1>6. Unambiguous(next)
    BY <1>1, <1>2, <1>3 DEF Unambiguous
<1> QED
    BY <1>4, <1>5, <1>6 DEF Window, next

-----------------------------------------------------------------------------
(* From one log to the next. *)

\* lg2 is lg1 after one more event, "new": trimmed from its old end, and perhaps
\* with values stripped.
Follows(lg2, lg1, new) ==
    /\ \A e \in lg2.entries : SameEvent(e, new) \/ \E f \in lg1.entries : SameEvent(e, f)
    /\ \E e \in lg2.entries : SameEvent(e, new)
    /\ \A f \in lg1.entries : new.sequence > f.sequence
    /\ \A e \in lg2.entries, f \in lg1.entries :
          f.sequence > e.sequence => \E g \in lg2.entries : SameEvent(g, f)

LEMMA AppendFollows ==
    ASSUME NEW A, NEW P, NEW S, NEW V,
           NEW lg1 \in LogsOf(EntriesOf(A, P, S, V)), NEW lg \in LogsOf(EntriesOf(A, P, S, V)),
           NEW ev \in EventsOf(A, P, S, V), Window(lg1), Stripped(lg, lg1)
    PROVE  Follows(Appended(lg, ev), lg1, Numbered(lg1.last + 1, ev))
<1> DEFINE new == Numbered(lg.last + 1, ev)
           next == Appended(lg, ev)
           E == EntriesOf(A, P, S, V)
<1>1. /\ lg.last \in Nat /\ lg.last = lg1.last
      /\ lg.entries \subseteq E /\ lg1.entries \subseteq E
      /\ \A e \in E : e.sequence \in Nat
      /\ \A f \in lg1.entries : f.sequence <= lg.last
    BY DEF Window, LogsOf, EntriesOf, Stripped
<1>2. new.sequence = lg.last + 1
    BY DEF Numbered
<1>3. /\ new \in E /\ next.entries \subseteq E
      /\ \A e \in E : e \in next.entries <=>
             (e \in lg.entries \/ e = new) /\ ~(e.sequence <= lg.last + 1 - MaxEntries)
    <2>1. next \in LogsOf(E)
        BY AppendKeepsType
    <2>2. next.entries \subseteq E
        <3> HIDE DEF next, E
        <3> QED BY <2>1 DEF LogsOf
    <2> QED
        BY <2>2, AppendedEntries
<1>4. /\ \A e \in lg.entries : \E f \in lg1.entries : SameEvent(e, f)
      /\ \A f \in lg1.entries : \E e \in lg.entries : SameEvent(e, f)
    BY DEF Stripped
<1> HIDE DEF new, next, E
<1>5. \A e \in next.entries : SameEvent(e, new) \/ \E f \in lg1.entries : SameEvent(e, f)
    BY <1>3, <1>4 DEF SameEvent
<1>6. \E e \in next.entries : SameEvent(e, new)
    <2>1. new \in next.entries
        BY <1>1, <1>2, <1>3, MaxEntriesAssumption
    <2> QED
        BY <2>1 DEF SameEvent
<1>7. \A f \in lg1.entries : new.sequence > f.sequence
    BY <1>1, <1>2
<1>8. ASSUME NEW e \in next.entries, NEW f \in lg1.entries, f.sequence > e.sequence
      PROVE  \E g \in next.entries : SameEvent(g, f)
    <2>1. PICK g \in lg.entries : SameEvent(g, f)
        BY <1>4
    <2>2. g.sequence = f.sequence
        BY <2>1 DEF SameEvent
    <2>3. ~(e.sequence <= lg.last + 1 - MaxEntries) /\ e.sequence \in Nat /\ g.sequence \in Nat
        BY <1>1, <1>3
    <2>4. ~(g.sequence <= lg.last + 1 - MaxEntries)
        BY <1>1, <1>8, <2>2, <2>3, MaxEntriesAssumption
    <2> QED
        BY <1>1, <1>3, <2>1, <2>4
<1>9. Follows(next, lg1, new)
    BY <1>5, <1>6, <1>7, <1>8 DEF Follows
<1> QED
    BY <1>1, <1>9 DEF next, new

LEMMA StripFollows ==
    ASSUME NEW lg1, NEW lg, NEW lg2, NEW new, Follows(lg, lg1, new), Stripped(lg2, lg)
    PROVE  Follows(lg2, lg1, new)
<1>1. /\ \A e \in lg2.entries : \E f \in lg.entries : SameEvent(e, f)
      /\ \A f \in lg.entries : \E e \in lg2.entries : SameEvent(e, f)
    BY DEF Stripped
<1>2. \A e, f, g : SameEvent(e, f) /\ SameEvent(f, g) => SameEvent(e, g)
    BY DEF SameEvent
<1>3. \A e, f : SameEvent(e, f) => e.sequence = f.sequence
    BY DEF SameEvent
<1>4. \A e \in lg2.entries, f \in lg1.entries :
          f.sequence > e.sequence => \E g \in lg2.entries : SameEvent(g, f)
    BY <1>1, <1>2, <1>3 DEF Follows
<1> QED
    BY <1>1, <1>2, <1>4 DEF Follows

\* An entry of the next log that carries a value is the new event, or an entry of
\* the old log as it was.
LEMMA KeptEntries ==
    ASSUME NEW A, NEW P, NEW S, NEW V,
           NEW lg1 \in LogsOf(EntriesOf(A, P, S, V)), NEW lg \in LogsOf(EntriesOf(A, P, S, V)),
           NEW ev \in EventsOf(A, P, S, V), Stripped(lg, lg1),
           NEW e \in Appended(lg, ev).entries
    PROVE  \/ e = Numbered(lg1.last + 1, ev)
           \/ e \in lg.entries /\ \E f \in lg1.entries :
                  SameEvent(e, f) /\ e.oldValue \in {f.oldValue, NoValue}
<1> DEFINE E == EntriesOf(A, P, S, V)
<1>1. e \in E
    <2>1. Appended(lg, ev) \in LogsOf(E)
        BY AppendKeepsType
    <2> HIDE DEF E
    <2> QED
        BY <2>1 DEF LogsOf
<1>2. e \in lg.entries \/ e = Numbered(lg.last + 1, ev)
    BY <1>1, AppendedEntries
<1> QED
    BY <1>2 DEF Stripped

\* The transaction of another store that writes one event and strips values of its
\* own noun, before or after, loses no entry of any other noun and adds none.
LEMMA OtherWrites ==
    ASSUME NEW A, NEW P, NEW S, NEW V,
           NEW lg1 \in LogsOf(EntriesOf(A, P, S, V)), Window(lg1),
           NEW ev \in EventsOf(A, P, S, V), NEW targets, NEW actions, ev.action \in actions,
           NEW lg2, \/ lg2 = Appended(StripValues(lg1, targets, actions), ev)
                    \/ lg2 = StripValues(Appended(lg1, ev), targets, actions)
    PROVE  /\ lg2 \in LogsOf(EntriesOf(A, P, S, V))
           /\ Window(lg2)
           /\ Follows(lg2, lg1, Numbered(lg1.last + 1, ev))
           /\ \A e \in lg2.entries : e.action \notin actions =>
                 \E f \in lg1.entries :
                     SameEvent(e, f) /\ e.oldValue \in {f.oldValue, NoValue}
<1> DEFINE L == LogsOf(EntriesOf(A, P, S, V))
           new == Numbered(lg1.last + 1, ev)
<1>1. new.action \in actions
    BY DEF Numbered
<1>2. CASE lg2 = Appended(StripValues(lg1, targets, actions), ev)
    <2> DEFINE lg == StripValues(lg1, targets, actions)
    <2>1. lg \in L /\ Stripped(lg, lg1)
        BY StripKeepsType, StripEntries
    <2> HIDE DEF lg
    <2>2. lg2 = Appended(lg, ev)
        BY <1>2 DEF lg
    <2>3. lg2 \in L /\ Window(lg2)
        BY <2>1, <2>2, StripKeepsWindow, AppendKeepsType, AppendKeepsWindow
    <2>4. Follows(lg2, lg1, new)
        BY <2>1, <2>2, AppendFollows
    <2>5. \A e \in lg2.entries : e = new \/ \E f \in lg1.entries :
              SameEvent(e, f) /\ e.oldValue \in {f.oldValue, NoValue}
        BY <2>1, <2>2, KeptEntries
    <2> QED
        BY <1>1, <2>3, <2>4, <2>5
<1>3. CASE lg2 = StripValues(Appended(lg1, ev), targets, actions)
    <2> DEFINE lg == Appended(lg1, ev)
    <2>1. lg \in L /\ Window(lg) /\ Stripped(lg1, lg1)
        BY AppendKeepsType, AppendKeepsWindow, NothingStripped
    <2>2. Follows(lg, lg1, new)
        BY <2>1, AppendFollows
    <2>3. \A e \in lg.entries : e = new \/ \E f \in lg1.entries :
              SameEvent(e, f) /\ e.oldValue \in {f.oldValue, NoValue}
        BY <2>1, KeptEntries
    <2> HIDE DEF lg
    <2>4. lg2 = StripValues(lg, targets, actions)
        BY <1>3 DEF lg
    <2>5. lg2 \in L /\ Stripped(lg2, lg)
        BY <2>1, <2>4, StripKeepsType, StripEntries
    <2>6. Window(lg2) /\ Follows(lg2, lg1, new)
        BY <2>1, <2>2, <2>5, StripKeepsWindow, StripFollows
    <2>7. ASSUME NEW e \in lg2.entries, e.action \notin actions
          PROVE  \E f \in lg1.entries :
                     SameEvent(e, f) /\ e.oldValue \in {f.oldValue, NoValue}
        <3>1. PICK g \in lg.entries : SameEvent(e, g) /\ e.oldValue \in {g.oldValue, NoValue}
            BY <2>5 DEF Stripped
        <3>2. g # new
            BY <1>1, <2>7, <3>1 DEF SameEvent
        <3>3. PICK f \in lg1.entries : SameEvent(g, f) /\ g.oldValue \in {f.oldValue, NoValue}
            BY <2>3, <3>2
        <3> QED
            BY <3>1, <3>3 DEF SameEvent
    <2> QED
        BY <2>5, <2>6, <2>7
<1> QED
    BY <1>2, <1>3

-----------------------------------------------------------------------------
(* The search index. *)

DocumentsOf(texts) == [docid : Nat, text : texts]
IndexesOf(texts) == [entries : SUBSET DocumentsOf(texts), words : SUBSET Nat]

LEMMA IndexedKeepsType ==
    ASSUME NEW T, NEW ix \in IndexesOf(T), NEW docid \in Nat, NEW text \in T
    PROVE  Indexed(ix, docid, text) \in IndexesOf(T)
<1>1. [docid |-> docid, text |-> text] \in DocumentsOf(T)
    BY DEF DocumentsOf
<1> QED
    BY <1>1 DEF Indexed, IndexesOf

LEMMA UnindexedKeepsType ==
    ASSUME NEW T, NEW ix \in IndexesOf(T), NEW docids
    PROVE  Unindexed(ix, docids) \in IndexesOf(T)
BY DEF Unindexed, IndexesOf

LEMMA OptimizedKeepsType ==
    ASSUME NEW T, NEW ix \in IndexesOf(T)
    PROVE  Optimized(ix) \in IndexesOf(T)
BY DEF Optimized, IndexesOf, DocumentsOf

-----------------------------------------------------------------------------
(* The counts behind the caps. *)

\* A set below its cap may get one more member.
LEMMA OneMoreFits ==
    ASSUME NEW S, NEW T, NEW x, NEW n \in Nat, IsFiniteSet(S), Cardinality(S) < n,
           T \subseteq S \cup {x}
    PROVE  IsFiniteSet(T) /\ Cardinality(T) <= n
<1>0. Cardinality(S) \in Nat
    BY FS_CardinalityType
<1>1. /\ IsFiniteSet(S \cup {x})
      /\ Cardinality(S \cup {x}) <= Cardinality(S) + 1
    <2>1. /\ IsFiniteSet(S \cup {x})
          /\ Cardinality(S \cup {x}) = IF x \in S THEN Cardinality(S) ELSE Cardinality(S) + 1
        BY FS_AddElement, Zenon
    <2> QED
        BY <1>0, <2>1
<1>2. /\ IsFiniteSet(T) /\ Cardinality(T) <= Cardinality(S \cup {x})
      /\ Cardinality(T) \in Nat
    BY <1>1, FS_Subset, FS_CardinalityType
<1>3. Cardinality(S \cup {x}) \in Nat
    BY <1>1, FS_CardinalityType
<1> QED
    BY <1>0, <1>1, <1>2, <1>3

LEMMA FewerFit ==
    ASSUME NEW S, NEW T, NEW n \in Nat, IsFiniteSet(S), Cardinality(S) <= n, T \subseteq S
    PROVE  IsFiniteSet(T) /\ Cardinality(T) <= n
BY FS_Subset, FS_CardinalityType
=============================================================================
