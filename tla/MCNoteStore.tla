----------------------------- MODULE MCNoteStore ------------------------------
(* NoteStore on a small instance. *)
EXTENDS NoteStore, TLC

CONSTANTS k1, v1

\* A field revised in any persona.
MCFieldEvents ==
    {Event("field.revised", p, k1, 2, Never, v1) : p \in Personas}

Symmetry == Permutations(Personas) \cup Permutations(NoteIds) \cup Permutations(Bodies)
                \cup Permutations(Kinds)
=============================================================================
