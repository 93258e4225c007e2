----------------------------- MODULE MCSessions -----------------------------
(***************************************************************************)
(* Instance of Sessions for TLC.                                           *)
(***************************************************************************)
EXTENDS Sessions, TLC

Symmetry ==
    Permutations(Sessions) \cup Permutations(Tokens)
        \cup Permutations(Requests) \cup Permutations(Passwords)
=============================================================================
