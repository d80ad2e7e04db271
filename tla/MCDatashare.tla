------------------------------ MODULE MCDatashare ------------------------------
(***************************************************************************)
(* Instances of Datashare for TLC: the configurations give the constants,  *)
(* this module the symmetry of interchangeable requests and workers.  Only *)
(* runs without liveness properties use it.                                *)
(***************************************************************************)
EXTENDS Invariants, TLC

RequestSymmetry == Permutations(Call)
WorkerSymmetry == Permutations(Worker)
FileSymmetry == Permutations(File) \cup Permutations(Worker)

=============================================================================
