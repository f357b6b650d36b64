--------------------------- MODULE MCPersonaService ---------------------------
(* PersonaService on small workloads. *)
EXTENDS PersonaService, TLC

CONSTANTS t1, t2

Sends(part, text) == [x \in {part} |-> text]

\* Every kind of request, for every profile.
MCWorkload ==
    [op : {"create"}, profile : Profiles, card : {EmptyCard}]
        \cup [op : {"set", "delete", "read"}, profile : Profiles]
        \cup [op : {"patch"}, profile : Profiles, changes : {Sends("display_name", t1)}]
        \cup [op : {"forget"}, profile : Profiles, writer : Requests]

\* Creations, deletions and first writes only.
MCLifeWorkload ==
    [op : {"create"}, profile : Profiles, card : {EmptyCard}]
        \cup [op : {"set", "delete"}, profile : Profiles]

\* Two patches that send different parts.
MCPatchWorkload ==
    [op : {"create"}, profile : Profiles, card : {EmptyCard}]
        \cup [op : {"patch"}, profile : Profiles,
             changes : {Sends("display_name", t1), Sends("pronouns", t2)}]

Symmetry == Permutations(Profiles) \cup Permutations(Requests)
=============================================================================
