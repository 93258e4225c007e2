---------------------------- MODULE MCDocuments ----------------------------
(***************************************************************************)
(* An instance of Documents for TLC.  Rows of a kind, files, calls and     *)
(* workers are interchangeable.                                            *)
(***************************************************************************)
EXTENDS Documents, TLC

RowSymmetry == Permutations(TenantDocs) \cup Permutations(KeptDocs) \cup Permutations(Workers)
=============================================================================
