-------------------------- MODULE MCSchedulerList --------------------------
(***************************************************************************)
(* The scheduler with its list instantiated for TLC.                       *)
(***************************************************************************)
EXTENDS SchedulerList, TLC

\* The clients differ in nothing but their names.
ClientSymmetry == Permutations(Clients)

=============================================================================
