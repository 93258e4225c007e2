------------------------------ MODULE Charges ------------------------------
(***************************************************************************)
(* The prices of one contract's month and the invoice made from them:      *)
(* the catalogue, the rows a building, a room and a contract set for a     *)
(* charge, the counts of a month and the rates of the meters               *)
(* (backend/src/modules/fixed-charges/fixed-charges.core.ts, modules/      *)
(* utility-rates, generateInvoiceForContract of                            *)
(* modules/invoices/invoices.core.ts).                                     *)
(*                                                                         *)
(* A row is found by its level, its charge and the day it starts, which    *)
(* are unique.  The invoice is made in one transaction, but at READ        *)
(* COMMITTED: each of its statements sees what is committed by then.       *)
(***************************************************************************)
EXTENDS Integers, FiniteSetsExt

CONSTANTS
    Charges,    \* rows of charge_catalog
    Dates,      \* days on which a price may start or end
    Month,      \* the day the month of the invoice starts
    Prices,
    MaxCount,   \* bound on people and vehicles
    MaxEdits,   \* bound on the changes of tariff
    None

ChargeType == {"FLAT", "PER_PERSON", "PER_VEHICLE"}
Catalog == [type : ChargeType, active : BOOLEAN]

ChargesAssumption ==
    /\ Dates \subseteq Nat \ {0} /\ IsFiniteSet(Dates) /\ Month \in Dates
    /\ Prices \subseteq Nat /\ IsFiniteSet(Prices) /\ Prices # {} /\ MaxCount \in Nat \ {0} /\ MaxEdits \in Nat
    /\ None \notin Nat \cup Catalog

VARIABLES
    catalog,    \* catalog[c]: the row of charge_catalog
    row,        \* row[l][c][d]: the price level l sets for c from day d
    extra,      \* the row of room_month_extra
    people,     \* tenants of the contract with left_at IS NULL
    rate,       \* rate[d]: the utility rate from day d
    invoice,    \* the transaction that makes the invoice, and its items
    seen,       \* what was in force at some moment of that transaction
    edits

tariff == <<catalog, row, extra, people, rate>>
vars == <<catalog, row, extra, people, rate, invoice, seen, edits>>

Levels == {"CONTRACT", "ROOM", "BUILDING"}
Counts == 0..MaxCount

\* Only the rows of a contract have an end.
Row == [price : Prices, active : BOOLEAN, to : Dates \cup {None}]
Extra == [persons : Counts \cup {None}, vehicles : Counts \cup {None}]
Item == [type : ChargeType, price : Prices, quantity : Counts \cup {1}]

NothingSeen == [rates |-> {}, prices |-> [c \in Charges |-> {}], extras |-> {}, people |-> {}]

\* A building that is set up: it has a rate, and may have defaults.
Init ==
    /\ catalog \in [Charges -> {None, [type |-> "FLAT", active |-> TRUE]}]
    /\ \E default \in SUBSET {c \in Charges : catalog[c] # None} :
          row = [l \in Levels |-> [c \in Charges |-> [d \in Dates |->
                   IF l = "BUILDING" /\ d = Min(Dates) /\ c \in default
                   THEN [price |-> Max(Prices), active |-> TRUE, to |-> None] ELSE None]]]
    /\ rate = [d \in Dates |-> IF d = Min(Dates) THEN Max(Prices) ELSE None]
    /\ extra = None
    /\ people = 1
    /\ invoice = [step |-> "NEW"]
    /\ seen = NothingSeen
    /\ edits = 0
-----------------------------------------------------------------------------
(* What the statements find. *)

Starts(l, c) ==
    {d \in Dates : /\ row[l][c][d] # None /\ d <= Month
                   /\ row[l][c][d].to = None \/ row[l][c][d].to >= Month}

\* Mutant: rows that are not active are not looked at.
Newest_Active(l, c) ==
    LET found == {d \in Starts(l, c) : row[l][c][d].active}
    IN  IF found = {} THEN None ELSE row[l][c][Max(found)]

\* Mutant: the latest row, whether it has started or not.
Newest_Latest(l, c) ==
    LET found == {d \in Dates : row[l][c][d] # None}
    IN  IF found = {} THEN None ELSE row[l][c][Max(found)]

Newest(l, c) == IF Starts(l, c) = {} THEN None ELSE row[l][c][Max(Starts(l, c))]

ChosenRow(c) ==
    CASE Newest("CONTRACT", c) # None -> Newest("CONTRACT", c)
      [] Newest("CONTRACT", c) = None /\ Newest("ROOM", c) # None -> Newest("ROOM", c)
      [] OTHER -> Newest("BUILDING", c)

\* An override that is not active takes the charge off.
Resolved(c) ==
    IF catalog[c] # None /\ catalog[c].active /\ ChosenRow(c) # None /\ ChosenRow(c).active
    THEN [type |-> catalog[c].type, price |-> ChosenRow(c).price] ELSE None

PersonsCount(x, n) == IF x = None \/ x.persons = None THEN n ELSE x.persons
VehiclesCount(x) == IF x = None \/ x.vehicles = None THEN 0 ELSE x.vehicles
Quantity(type, x, n) ==
    CASE type = "PER_PERSON" -> PersonsCount(x, n)
      [] type = "PER_VEHICLE" -> VehiclesCount(x)
      [] OTHER -> 1

RateNow ==
    LET found == {d \in Dates : rate[d] # None /\ d <= Month}
    IN  IF found = {} THEN None ELSE rate[Max(found)]

\* Items that come to nothing are dropped.
InvoiceItem(charge, x, n) ==
    IF charge = None \/ charge.price * Quantity(charge.type, x, n) = 0 THEN None
    ELSE [type |-> charge.type, price |-> charge.price, quantity |-> Quantity(charge.type, x, n)]
-----------------------------------------------------------------------------
(* What is in force, said without the statements: a row that applies to    *)
(* the month, that no other row that applies goes before.                  *)

Rank(l) == CASE l = "CONTRACT" -> 3 [] l = "ROOM" -> 2 [] OTHER -> 1

Applies(l, c, d) ==
    LET r == row[l][c][d]
    IN  r # None /\ d <= Month /\ (r.to # None => Month <= r.to)

Prevails(l, c, d) ==
    /\ Applies(l, c, d)
    /\ \A k \in Levels, e \in Dates :
          Applies(k, c, e) => Rank(k) < Rank(l) \/ (k = l /\ e <= d)

InForce(c) ==
    {[type |-> catalog[c].type, price |-> row[p[1]][c][p[2]].price] :
        p \in {q \in Levels \X Dates : /\ Prevails(q[1], c, q[2])
                                     /\ catalog[c].active /\ row[q[1]][c][q[2]].active}}

RateInForce ==
    {rate[d] : d \in {e \in Dates : /\ rate[e] # None /\ e <= Month
                                    /\ \A f \in Dates : f > e /\ f <= Month => rate[f] = None}}

OrNone(s) == IF s = {} THEN {None} ELSE s

Now == [rates |-> OrNone(RateInForce), prices |-> [c \in Charges |-> OrNone(InForce(c))],
        extras |-> {extra}, people |-> {people}]

Join(a, b) ==
    [rates  |-> a.rates \cup b.rates,
     prices |-> [c \in Charges |-> a.prices[c] \cup b.prices[c]],
     extras |-> a.extras \cup b.extras,
     people |-> a.people \cup b.people]

UnderWay == invoice.step \notin {"NEW", "DONE"}

\* Conjoined to every change of the tariff.
Edit ==
    /\ edits' = edits + 1
    /\ seen' = IF UnderWay THEN Join(seen, Now') ELSE seen
    /\ UNCHANGED invoice
-----------------------------------------------------------------------------
(* The manager's operations on the prices. *)

SetRow(l, c, d, r) ==
    /\ row' = [row EXCEPT ![l][c][d] = r]
    /\ UNCHANGED <<catalog, extra, people, rate>>

\* The check of the day is a read, and the unique constraint decides.
Create(l, c, d, r) ==
    /\ catalog[c] # None /\ row[l][c][d] = None
    /\ SetRow(l, c, d, r)
    /\ Edit

\* The row takes another charge, day, price or flag, or goes to another owner.
Update(l, c, d, b, e, r) ==
    /\ catalog[b] # None /\ row[l][c][d] # None
    /\ <<b, e>> = <<c, d>> \/ row[l][b][e] = None
    /\ row' = [row EXCEPT ![l][c][d] = None, ![l][b][e] = r]
    /\ UNCHANGED <<catalog, extra, people, rate>>
    /\ Edit

Delete(l, c, d) == row[l][c][d] # None /\ SetRow(l, c, d, None) /\ Edit

Plain(p, a) == [price |-> p, active |-> a, to |-> None]

CreateBuildingCharge(c, d, p, a) == Create("BUILDING", c, d, Plain(p, a))
UpdateBuildingCharge(c, d, b, e, p, a) == Update("BUILDING", c, d, b, e, Plain(p, a))
DeleteBuildingCharge(c, d) == Delete("BUILDING", c, d)

CreateRoomChargeOverride(c, d, p, a) == Create("ROOM", c, d, Plain(p, a))
UpdateRoomChargeOverride(c, d, b, e, p, a) == Update("ROOM", c, d, b, e, Plain(p, a))
DeleteRoomChargeOverride(c, d) == Delete("ROOM", c, d)

DateRange(d, to) == to # None => to >= d

CreateContractChargeOverride(c, d, p, a, to) ==
    /\ DateRange(d, to)
    /\ Create("CONTRACT", c, d, [price |-> p, active |-> a, to |-> to])
UpdateContractChargeOverride(c, d, b, e, p, a, to) ==
    /\ DateRange(e, to)
    /\ Update("CONTRACT", c, d, b, e, [price |-> p, active |-> a, to |-> to])
DeleteContractChargeOverride(c, d) == Delete("CONTRACT", c, d)

SetCatalog(c, type, a) ==
    /\ catalog' = [catalog EXCEPT ![c] = [type |-> type, active |-> a]]
    /\ catalog' # catalog
    /\ UNCHANGED <<row, extra, people, rate>>
    /\ Edit

CreateChargeCatalog(c, type, a) == catalog[c] = None /\ SetCatalog(c, type, a)
UpdateChargeCatalog(c, type, a) == catalog[c] # None /\ SetCatalog(c, type, a)

\* The row stays, for the invoices that name it.
DeleteChargeCatalog(c) == catalog[c] # None /\ SetCatalog(c, catalog[c].type, FALSE)

\* Also what the handover of a room upserts.
SaveRoomMonthExtra(persons, vehicles) ==
    /\ extra' = [persons |-> persons, vehicles |-> vehicles] /\ extra' # extra
    /\ UNCHANGED <<catalog, row, people, rate>>
    /\ Edit

\* Deleted, or given another room or month.
DeleteRoomMonthExtra ==
    /\ extra # None /\ extra' = None
    /\ UNCHANGED <<catalog, row, people, rate>>
    /\ Edit

\* A tenant joins the contract or leaves it.
PeopleChange(n) ==
    /\ n # people /\ people' = n
    /\ UNCHANGED <<catalog, row, extra, rate>>
    /\ Edit

SetRate(new) ==
    /\ rate' = new
    /\ UNCHANGED <<catalog, row, extra, people>>
    /\ Edit

CreateUtilityRate(d, p) == rate[d] = None /\ SetRate([rate EXCEPT ![d] = p])
UpdateUtilityRate(d, e, p) ==
    /\ rate[d] # None /\ (e = d \/ rate[e] = None)
    /\ SetRate([rate EXCEPT ![d] = None, ![e] = p])
DeleteUtilityRate(d) == rate[d] # None /\ SetRate([rate EXCEPT ![d] = None])
-----------------------------------------------------------------------------
(* The transaction of the invoice, statement by statement. *)

Reads(found) == invoice' = found /\ UNCHANGED <<tariff, seen, edits>>

BeginInvoice ==
    /\ invoice.step = "NEW"
    /\ invoice' = [step |-> "RATE"]
    /\ seen' = Now
    /\ UNCHANGED <<tariff, edits>>

\* Without a rate the contract is skipped.
ReadRate ==
    /\ invoice.step = "RATE"
    /\ IF RateNow = None
       THEN invoice' = [step |-> "NEW"] /\ seen' = NothingSeen /\ UNCHANGED <<tariff, edits>>
       ELSE Reads([step |-> "EXTRA", rate |-> RateNow])

ReadRoomMonthExtra ==
    /\ invoice.step = "EXTRA"
    /\ Reads([step |-> "PEOPLE", rate |-> invoice.rate, extra |-> extra])

CountTenants ==
    /\ invoice.step = "PEOPLE"
    /\ Reads([step |-> "ROWS", rate |-> invoice.rate, extra |-> invoice.extra, people |-> people])

ResolveFixedCharges ==
    /\ invoice.step = "ROWS"
    /\ Reads([step |-> "DONE", rate |-> invoice.rate,
              item |-> [c \in Charges |-> InvoiceItem(Resolved(c), invoice.extra, invoice.people)]])
-----------------------------------------------------------------------------
\* What comes after the invoice is nothing to it.
ChangeTariff ==
    /\ edits < MaxEdits /\ invoice.step # "DONE"
    /\ \/ \E c \in Charges, d \in Dates :
             \/ \E p \in Prices, a \in BOOLEAN :
                   \/ CreateBuildingCharge(c, d, p, a) \/ CreateRoomChargeOverride(c, d, p, a)
                   \/ \E to \in Dates \cup {None} : CreateContractChargeOverride(c, d, p, a, to)
                   \/ \E b \in Charges, e \in Dates :
                         \/ UpdateBuildingCharge(c, d, b, e, p, a)
                         \/ UpdateRoomChargeOverride(c, d, b, e, p, a)
                         \/ \E to \in Dates \cup {None} :
                               UpdateContractChargeOverride(c, d, b, e, p, a, to)
             \/ DeleteBuildingCharge(c, d) \/ DeleteRoomChargeOverride(c, d)
             \/ DeleteContractChargeOverride(c, d)
             \/ \E type \in ChargeType, a \in BOOLEAN :
                   CreateChargeCatalog(c, type, a) \/ UpdateChargeCatalog(c, type, a)
             \/ DeleteChargeCatalog(c)
       \/ \E persons, vehicles \in Counts \cup {None} : SaveRoomMonthExtra(persons, vehicles)
       \/ DeleteRoomMonthExtra
       \/ \E n \in Counts : PeopleChange(n)
       \/ \E d \in Dates :
             \/ \E p \in Prices : CreateUtilityRate(d, p) \/ \E e \in Dates : UpdateUtilityRate(d, e, p)
             \/ DeleteUtilityRate(d)

Next ==
    \/ ChangeTariff
    \/ BeginInvoice \/ ReadRate \/ ReadRoomMonthExtra \/ CountTenants \/ ResolveFixedCharges

Spec == Init /\ [][Next]_vars
-----------------------------------------------------------------------------
(* Properties. *)

(***************************************************************************)
(* The columns of the tables of prices and of the invoice's items.         *)
(***************************************************************************)
TypeOK ==
    /\ catalog \in [Charges -> Catalog \cup {None}]
    /\ row \in [Levels -> [Charges -> [Dates -> Row \cup {None}]]]
    /\ \A l \in Levels, c \in Charges, d \in Dates :
          row[l][c][d] # None /\ row[l][c][d].to # None => row[l][c][d].to >= d
    /\ extra \in Extra \cup {None} /\ people \in Counts
    /\ rate \in [Dates -> Prices \cup {None}]
    /\ invoice.step = "DONE" => invoice.item \in [Charges -> Item \cup {None}]

(***************************************************************************)
(* Whatever is changed while an invoice is made, it has the meters' rate   *)
(* of some moment of its transaction and no item whose price was never in  *)
(* force; it leaves a charge out only if at some moment there was nothing  *)
(* to charge.  In force is what the most specific row that applies to the  *)
(* month says, the latest of its level, also when it says that the charge  *)
(* is off.  A quantity may belong to another moment than its price.        *)
(***************************************************************************)
InvoicesWhatWasInForce ==
    invoice.step = "DONE" =>
        /\ invoice.rate \in seen.rates \ {None}
        /\ \A c \in Charges :
              \E charge \in seen.prices[c], x \in seen.extras, n \in seen.people :
                  invoice.item[c] = InvoiceItem(charge, x, n)
=============================================================================
