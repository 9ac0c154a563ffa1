---------------------------- MODULE MC_CdcSource ----------------------------
(* Model-checking instance of CdcSource: symmetry for TLC.  Group names    *)
(* and process names are only compared for equality in CdcSource.         *)
EXTENDS CdcSource

GroupSymmetry == Permutations(Groups)

GroupProcSymmetry == Permutations(Groups) \cup Permutations(Procs)

=============================================================================
