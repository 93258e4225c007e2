-------------------------- MODULE MCPaymentLedger ---------------------------
(* PaymentLedger on a small instance: ids are interchangeable model values. *)
EXTENDS Reports, TLC

RowSymmetry ==
    Permutations(Invoices) \cup Permutations(Requests)
        \cup Permutations(Proofs) \cup Permutations(Keys)
=============================================================================
