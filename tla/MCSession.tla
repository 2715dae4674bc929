----------------------------- MODULE MCSession -----------------------------
(***************************************************************************)
(* Sessions instantiated for TLC.                                          *)
(***************************************************************************)
EXTENDS Session, TLC

\* The clients differ in nothing but their names.
ClientSymmetry == Permutations(Clients)

\* A shell command that writes nothing, and one that writes the end marker.
MCOutputs == {<<>>, <<"mark1", "mark2">>}

\* One that never stops.
MCBeginnings == {<<>>}
=============================================================================
