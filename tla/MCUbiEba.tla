------------------------------ MODULE MCUbiEba ------------------------------
(* Instances of UbiEba for TLC. *)
EXTENDS UbiEba, TLC

\* PEBs are interchangeable: no operator of the model orders them.
PebSymmetry == Permutations(PEB)
=============================================================================
