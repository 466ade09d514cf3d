------------------------------ MODULE MCTasks ------------------------------
(***************************************************************************)
(* Tasks, its properties and the inductive invariant of its proofs, for    *)
(* TLC.                                                                    *)
(***************************************************************************)
EXTENDS TasksProofs
=============================================================================
