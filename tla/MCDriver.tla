------------------------------ MODULE MCDriver ------------------------------
(***************************************************************************)
(* Small instances of Driver for TLC.                                      *)
(***************************************************************************)
EXTENDS Driver, TLC

\* The fabric treats its machines alike and no property names one.
MachineSymmetry == Permutations(Machine)

\* BOUND for two machines: the calls that build and remove them.
BuildAndRemove == call \in {"none", "flags", "create", "remove"}

===========================================================================
