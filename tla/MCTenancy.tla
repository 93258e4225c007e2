----------------------------- MODULE MCTenancy ------------------------------
(* Tenancy and Occupancy on a small instance: rows are interchangeable model values. *)
EXTENDS Occupancy, TLC

RowSymmetry ==
    Permutations(Rooms) \cup Permutations(Tenants) \cup Permutations(Contracts)
=============================================================================
