--------------------------- MODULE MeterReadings ----------------------------
(***************************************************************************)
(* The monthly meter readings of rooms (backend/src/modules/               *)
(* utility-readings, and the two operations of other components that write *)
(* the same rows).  The table has one row per room and month.  The         *)
(* electricity and the water meter are handled alike: one meter here.      *)
(*                                                                         *)
(* Each action says what its operation does to the readings; who may call  *)
(* it, and what else it changes, is in Billing.                            *)
(***************************************************************************)
EXTENDS Integers

CONSTANTS
    Rooms,
    Months,     \* first days of months, as consecutive numbers
    MaxMeter    \* bound on what a meter shows

ASSUME MeterAssumption == Months \subseteq Nat /\ MaxMeter \in Nat

VARIABLE reading    \* reading[room][month]: the row of utility_reading

Meter == 0..MaxMeter
ReadingStatus == {"NONE", "SUBMITTED", "APPROVED", "REJECTED", "INVOICED"}
Reading == [status : ReadingStatus, prev : Meter, curr : Meter, reset : BOOLEAN]
NoReading == [status |-> "NONE", prev |-> 0, curr |-> 0, reset |-> FALSE]

\* The statuses a later month takes its previous value from.
Metered == {"APPROVED", "INVOICED"}

ReadingInit == reading = [r \in Rooms |-> [m \in Months |-> NoReading]]

\* What a reading bills: a meter that was reset starts again from zero.
Usage(x) ==
    IF x.reset THEN x.curr ELSE IF x.curr > x.prev THEN x.curr - x.prev ELSE 0

EarlierMetered(r, m) == {n \in Months : n < m /\ reading[r][n].status \in Metered}

\* p is what the latest approved earlier month of the room shows, or zero.
IsPrevious(r, m, p) ==
    \/ EarlierMetered(r, m) = {} /\ p = 0
    \/ \E n \in EarlierMetered(r, m) :
          (\A k \in EarlierMetered(r, m) : k <= n) /\ p = reading[r][n].curr

\* The first submission of a month, or the next one after a rejection.
SubmitReading(r, m) ==
    /\ reading[r][m].status \in {"NONE", "REJECTED"}
    /\ \E p, v \in Meter, reset \in BOOLEAN :
          /\ IsPrevious(r, m, p)
          /\ v < p => reset
          /\ reading' = [reading EXCEPT ![r][m] =
                [status |-> "SUBMITTED", prev |-> p, curr |-> v, reset |-> reset]]

ReviewReading(r, m, verdict) ==
    /\ reading[r][m].status = "SUBMITTED"
    /\ reading' = [reading EXCEPT ![r][m].status = verdict]

\* The manager sends an approved reading back to the tenant.
ReturnReading(r, m) ==
    /\ reading[r][m].status = "APPROVED"
    /\ reading' = [reading EXCEPT ![r][m].status = "REJECTED"]

\* A manual invoice writes the month's reading, over whatever is there.
WriteInvoicedReading(r, m, p, v) ==
    reading' = [reading EXCEPT ![r][m] =
        [status |-> "INVOICED", prev |-> p, curr |-> v, reset |-> FALSE]]

(***************************************************************************)
(* A handover writes the month's first reading, over whatever is there.    *)
(* Its ON CONFLICT branch leaves the reset flag of the row it overwrites.  *)
(***************************************************************************)
WriteHandoverReading(r, m, v) ==
    reading' = [reading EXCEPT ![r][m] =
        [status |-> "APPROVED", prev |-> v, curr |-> v, reset |-> @.reset]]

\* Issuing marks an approved reading, and only that.
MarkInvoiced(r, m) ==
    reading' = [reading EXCEPT ![r][m].status = IF @ = "APPROVED" THEN "INVOICED" ELSE @]

-----------------------------------------------------------------------------
\* The readings alone: occupied rooms whose tenants and manager only submit,
\* review and return readings.  Billing adds the other writers.
ReadingNext ==
    \E r \in Rooms, m \in Months :
        \/ SubmitReading(r, m)
        \/ \E verdict \in {"APPROVED", "REJECTED"} : ReviewReading(r, m, verdict)
        \/ ReturnReading(r, m)

ReadingSpec == ReadingInit /\ [][ReadingNext]_reading

(***************************************************************************)
(* docs/architecture.md: "One reading exists per room/month.  Non-reset    *)
(* meter values cannot decrease."  Of two accepted readings of a room with *)
(* no reset in between, the later month never shows less.                  *)
(***************************************************************************)
MetersDoNotDecrease ==
    \A r \in Rooms : \A m, n \in Months :
        /\ m < n
        /\ reading[r][m].status \in Metered
        /\ reading[r][n].status \in Metered
        /\ \A k \in Months : m < k /\ k <= n => ~reading[r][k].reset
        => reading[r][m].curr <= reading[r][n].curr
=============================================================================
