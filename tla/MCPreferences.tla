----------------------------- MODULE MCPreferences -----------------------------
(* Preferences with a few choices and the requests that tell them apart. *)
EXTENDS Preferences, TLC

CONSTANTS home, work, Work, slashed

MCSpellings == {home, work, Work, slashed, AtDefault}

\* "Work" folds to "work"; "slashed" is a name that cannot be stored.
MCFolded ==
    [name \in MCSpellings |-> CASE name = Work -> work [] OTHER -> name]

Choice(persona, mode, days, pins, log) ==
    [persona |-> persona, mode |-> mode, days |-> days, pins |-> pins, log |-> log]

\* No default persona, and the erasure mode that docs/adr/0009 reports.
MCCatalogue == Choice(Malformed, "grace", 2, 4, FALSE)

\* Among them a person who has chosen nothing, one who chose a tombstone, values of
\* the wrong shape, and days of a grace period above the maximum.
MCAccountChoices ==
    {Choice(Unchosen, Unchosen, Unchosen, Unchosen, Unchosen),
     Choice(AtDefault, "tombstone", Unchosen, Malformed, Malformed),
     Choice(Work, "grace", 1, 2, TRUE), Choice(Unchosen, "grace", 9, 2, TRUE),
     Choice(home, "immediate", 9, 9, Unchosen), Choice(Malformed, Malformed, 1, 0, TRUE)}

MCJobs ==
    [op : {"list"}, segment : {AtDefault}, limit : {Nothing}]
        \cup [op : {"list"}, segment : {work}, limit : {Nothing, 9}]
        \cup [op : {"change"}, segment : {Work, slashed, AtDefault}, limit : {Nothing}]
        \cup [op : {"card"}, segment : {AtDefault}, limit : {Nothing}]
        \cup [op : {"everywhere"}, segment : {NoProfile}, limit : {Nothing}]

Symmetry == Permutations(Requests)
=============================================================================
