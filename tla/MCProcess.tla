------------------------------- MODULE MCProcess -------------------------------
(* Process with three migrations, the third shipped by the later release only. *)
EXTENDS Process

MCReleases == {{1, 2}, {1, 2, 10}}
MCStatements == [v \in {1, 2, 10} |-> IF v = 2 THEN 2 ELSE 1]
=============================================================================
