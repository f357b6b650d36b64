----------------------------- MODULE MCFieldStore -----------------------------
(* FieldStore on a small instance. *)
EXTENDS FieldStore, TLC

CONSTANTS n1, b1

\* A note revised in any persona.
MCNoteEvents ==
    {Event("note.revised", p, n1, 2, Never, b1) : p \in Personas}

Symmetry == Permutations(Personas) \cup Permutations(Keys) \cup Permutations(Values)
=============================================================================
