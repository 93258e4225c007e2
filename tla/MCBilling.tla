----------------------------- MODULE MCBilling ------------------------------
(* Billing on small instances: ids are interchangeable model values. *)
EXTENDS Billing, TLC

RowSymmetry ==
    Permutations(Rooms) \cup Permutations(Contracts) \cup Permutations(Invoices)

\* One room through all the months, with a third invoice only in the month of
\* the other two; or several rooms in the first month.
OneRoom ==
    \E r \in Rooms :
        /\ \A c \in Contracts : contract[c].room = r
        /\ \A q \in Rooms \ {r} : reading[q] = [m \in Months |-> NoReading]
        /\ \A i \in Invoices : invoice[i].room \in {r, None}
        /\ \/ \E i \in Invoices : invoice[i].status = "NONE"
           \/ \A i, j \in Invoices : invoice[i].month = invoice[j].month

Later == {m \in Months : \E n \in Months : n < m}

OneMonth ==
    /\ \A r \in Rooms, m \in Later : reading[r][m] = NoReading
    /\ \A i \in Invoices : invoice[i].month \notin Later
    /\ \E i \in Invoices : invoice[i].status = "NONE"

Followed == OneRoom \/ OneMonth
=============================================================================
