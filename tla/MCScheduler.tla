---------------------------- MODULE MCScheduler ----------------------------
(***************************************************************************)
(* The scheduler instantiated for TLC.                                     *)
(***************************************************************************)
EXTENDS Scheduler, TLC

\* The clients differ in nothing but their names.
ClientSymmetry == Permutations(Clients)

=============================================================================
