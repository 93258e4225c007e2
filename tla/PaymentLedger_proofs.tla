------------------------ MODULE PaymentLedger_proofs ------------------------
(***************************************************************************)
(* Theorems of PaymentLedger, for any sets of rows and any bound on the    *)
(* totals.  The invariant IInv is inductive: what an approval may do to an *)
(* invoice depends on who else may hold a pending proof of it, which       *)
(* depends on how requests and proofs point at each other, and the status  *)
(* of an invoice depends on the whole history of its ledger.               *)
(***************************************************************************)
EXTENDS Reports, FiniteSetTheorems, TLAPS

-----------------------------------------------------------------------------
(* The sum of numbers w over a finite set, which MapThenSumSet folds in an *)
(* order fixed by CHOOSE: even "one more element adds its number" needs an *)
(* induction.  It is carried out on minimal counterexamples, with WFMin.   *)

Pick(s) == CHOOSE e \in s : TRUE

\* g is the table of the fold over the subsets of S.
IsTable(g, w, S) ==
    g = [s \in SUBSET S |-> IF s = {} THEN 0 ELSE w[Pick(s)] + g[s \ {Pick(s)}]]

SumOver(w, S) == (CHOOSE g : IsTable(g, w, S))[S]

\* The fold removes an element of the set it is at.
LEMMA PickInSet == ASSUME NEW s, s # {} PROVE Pick(s) \in s
  BY DEF Pick

\* Induction over a finite set, as a fact about sets: every non-empty family of
\* subsets of S has a member that has no other member inside it.
LEMMA MinimalSubset ==
  ASSUME NEW S, IsFiniteSet(S), NEW B, B \subseteq SUBSET S, B # {}
  PROVE  \E m \in B : \A t \in B : ~(t \subseteq m /\ t # m)
<1>1. IsWellFoundedOn(StrictSubsetOrdering(S), SUBSET S)
  BY FS_StrictSubsetOrderingWellFounded, FS_FiniteSubsetsOfFinite
<1>2. \E m \in B : \A t \in B : ~(<<t, m>> \in StrictSubsetOrdering(S))
  BY <1>1, WFMin
<1> QED BY <1>2 DEF StrictSubsetOrdering

\* One row of a table.
LEMMA TableRow ==
  ASSUME NEW w, NEW g, NEW S, IsTable(g, w, S), NEW s \in SUBSET S
  PROVE  /\ s = {} => g[s] = 0
         /\ s # {} => g[s] = w[Pick(s)] + g[s \ {Pick(s)}]
  BY DEF IsTable

\* Tables over different sets agree wherever both are defined.
LEMMA TablesAgree ==
  ASSUME NEW w, NEW S, IsFiniteSet(S), NEW T, NEW g, NEW h, IsTable(g, w, S), IsTable(h, w, T),
         NEW u \in SUBSET S, u \subseteq T
  PROVE  g[u] = h[u]
<1> DEFINE B == {s \in SUBSET S : s \subseteq T /\ g[s] # h[s]}
<1> SUFFICES ASSUME B # {} PROVE FALSE
  OBVIOUS
<1>1. PICK m \in B : \A t \in B : ~(t \subseteq m /\ t # m)
  <2> HIDE DEF B
  <2>1. B \subseteq SUBSET S BY DEF B
  <2> QED BY <2>1, MinimalSubset
<1>2. m # {}
  BY TableRow
<1> DEFINE r == m \ {Pick(m)}
<1>3. Pick(m) \in m
  BY <1>2, PickInSet
<1>4. r \in SUBSET S /\ r \in SUBSET T /\ r \subseteq m /\ r # m
  BY <1>3
<1>5. g[r] = h[r]
  BY <1>1, <1>4
<1>6. g[m] = w[Pick(m)] + g[r] /\ h[m] = w[Pick(m)] + h[r]
  BY <1>2, TableRow
<1> QED BY <1>5, <1>6

\* Every finite set has a table: the recursion of the fold is well defined.
LEMMA TableExists ==
  ASSUME NEW w, NEW S, IsFiniteSet(S)
  PROVE  \E g : IsTable(g, w, S)
<1> DEFINE B == {s \in SUBSET S : ~ \E g : IsTable(g, w, s)}
<1> SUFFICES ASSUME B # {} PROVE FALSE
  OBVIOUS
<1>1. PICK m \in B : \A t \in B : ~(t \subseteq m /\ t # m)
  <2> HIDE DEF B
  <2>1. B \subseteq SUBSET S BY DEF B
  <2> QED BY <2>1, MinimalSubset
<1> DEFINE tab(t) == CHOOSE g : IsTable(g, w, t)
           F == [s \in SUBSET m |-> IF s = {} THEN 0
                   ELSE w[Pick(s)] + tab(s \ {Pick(s)})[s \ {Pick(s)}]]
<1>2. ASSUME NEW t \in SUBSET m, t # m PROVE IsTable(tab(t), w, t) /\ IsFiniteSet(t)
  <2>1. \E g : IsTable(g, w, t)
    BY <1>1, <1>2
  <2>2. IsTable(tab(t), w, t)
    BY <2>1
  <2> QED BY <2>2, <1>1, FS_Subset
<1>3. ASSUME NEW t \in SUBSET m, t # m PROVE F[t] = tab(t)[t]
  <2>1. CASE t = {}
    <3>1. tab(t)[t] = 0 BY <1>2, <1>3, <2>1, TableRow
    <3> QED BY <3>1, <2>1
  <2>2. CASE t # {}
    <3> DEFINE r == t \ {Pick(t)}
    <3>1. Pick(t) \in t BY <2>2, PickInSet
    <3>2. r \in SUBSET m /\ r # m /\ r \in SUBSET t
      BY <3>1
    <3>3. IsTable(tab(t), w, t) /\ IsFiniteSet(t) BY <1>2, <1>3
    <3>3a. IsTable(tab(r), w, r)  BY <1>2, <3>2
    <3>4. tab(t)[r] = tab(r)[r]
      <4> HIDE DEF tab, r
      <4> QED BY <3>3, <3>3a, <3>2, TablesAgree
    <3>5. tab(t)[t] = w[Pick(t)] + tab(t)[r]
      <4> HIDE DEF tab
      <4> QED BY <3>3, <2>2, TableRow
    <3>6. F[t] = w[Pick(t)] + tab(r)[r]
      <4> HIDE DEF tab
      <4> QED BY <2>2
    <3> QED BY <3>4, <3>5, <3>6
  <2> QED BY <2>1, <2>2
<1>4. ASSUME NEW s \in SUBSET m, s # {} PROVE F[s] = w[Pick(s)] + F[s \ {Pick(s)}]
  <2> DEFINE r == s \ {Pick(s)}
  <2>1. Pick(s) \in s BY <1>4, PickInSet
  <2>2. r \in SUBSET m /\ r # m BY <2>1
  <2>3. F[r] = tab(r)[r]
    <3> HIDE DEF F, tab
    <3> QED BY <1>3, <2>2
  <2> HIDE DEF tab
  <2> QED BY <2>3, <1>4
<1>5. IsTable(F, w, m)
  <2>1. F = [s \in SUBSET m |-> IF s = {} THEN 0 ELSE w[Pick(s)] + F[s \ {Pick(s)}]]
    <3> DEFINE G == [s \in SUBSET m |-> IF s = {} THEN 0 ELSE w[Pick(s)] + F[s \ {Pick(s)}]]
    <3>1. ASSUME NEW s \in SUBSET m PROVE F[s] = G[s]
      <4>1. CASE s = {} BY <4>1
      <4>2. CASE s # {}
        <5> HIDE DEF F
        <5> QED BY <4>2, <1>4
      <4> QED BY <4>1, <4>2
    <3> HIDE DEF tab
    <3> QED BY <3>1
  <2> HIDE DEF F
  <2> QED BY <2>1 DEF IsTable
<1> QED BY <1>1, <1>5

\* The sum of a finite set, one element at a time, in the fold's own order.
LEMMA SumOfRow ==
  ASSUME NEW w, NEW S, IsFiniteSet(S)
  PROVE  /\ S = {} => SumOver(w, S) = 0
         /\ S # {} => SumOver(w, S) = w[Pick(S)] + SumOver(w, S \ {Pick(S)})
<1> DEFINE tab(t) == CHOOSE g : IsTable(g, w, t)
           r == S \ {Pick(S)}
<1>1. IsTable(tab(S), w, S)
  BY TableExists
<1>2. SumOver(w, S) = tab(S)[S] /\ SumOver(w, r) = tab(r)[r]
  BY DEF SumOver
<1>3. S = {} => SumOver(w, S) = 0
  <2> HIDE DEF tab
  <2> QED BY <1>1, <1>2, TableRow
<1>4. ASSUME S # {} PROVE SumOver(w, S) = w[Pick(S)] + SumOver(w, r)
  <2>1. r \in SUBSET S /\ IsFiniteSet(r)
    BY FS_Subset
  <2>2. IsTable(tab(r), w, r)
    <3> HIDE DEF r
    <3> QED BY <2>1, TableExists
  <2>3. tab(S)[r] = tab(r)[r]
    <3> HIDE DEF tab, r
    <3> QED BY <1>1, <2>1, <2>2, TablesAgree
  <2>4. tab(S)[S] = w[Pick(S)] + tab(S)[r]
    <3> HIDE DEF tab
    <3> QED BY <1>1, <1>4, TableRow
  <2> HIDE DEF tab, r
  <2> QED BY <1>2, <2>3, <2>4
<1> QED BY <1>3, <1>4

\* The sum of a finite ledger is an integer, and an appended entry adds its signed
\* amount, whatever the order in which the fold visits the entries.
LEMMA SumOfOneMore ==
  ASSUME NEW w, NEW U, IsFiniteSet(U), \A e \in U : w[e] \in Int
  PROVE  \A T \in SUBSET U :
            SumOver(w, T) \in Int /\ \A x \in U \ T : SumOver(w, T \cup {x}) = SumOver(w, T) + w[x]
<1> DEFINE Good(T) == SumOver(w, T) \in Int /\ \A x \in U \ T : SumOver(w, T \cup {x}) = SumOver(w, T) + w[x]
           B == {T \in SUBSET U : ~Good(T)}
<1> SUFFICES ASSUME B # {} PROVE FALSE
  OBVIOUS
<1>1. PICK m \in B : \A t \in B : ~(t \subseteq m /\ t # m)
  <2> HIDE DEF B
  <2>1. B \subseteq SUBSET U BY DEF B
  <2> QED BY <2>1, MinimalSubset
<1>2. ASSUME NEW t \in SUBSET m, t # m PROVE t \in SUBSET U /\ Good(t)
  BY <1>1, <1>2
<1>3. \A t \in SUBSET U : IsFiniteSet(t)
  BY FS_Subset
<1> HIDE DEF Good
<1>4. SumOver(w, m) \in Int
  <2>1. CASE m = {}
    <3>1. IsFiniteSet(m) BY <1>1, <1>3
    <3>2. SumOver(w, m) = 0 BY <3>1, <2>1, SumOfRow
    <3> QED BY <3>2
  <2>2. CASE m # {}
    <3>1. Pick(m) \in m BY <2>2, PickInSet
    <3>2. SumOver(w, m \ {Pick(m)}) \in Int BY <3>1, <1>2 DEF Good
    <3>3. w[Pick(m)] \in Int BY <3>1, <1>1
    <3>4. SumOver(w, m) = w[Pick(m)] + SumOver(w, m \ {Pick(m)})
      BY <2>2, <1>1, <1>3, SumOfRow
    <3> QED BY <3>2, <3>3, <3>4
  <2> QED BY <2>1, <2>2
<1>5. ASSUME NEW x \in U \ m PROVE SumOver(w, m \cup {x}) = SumOver(w, m) + w[x]
  <2> DEFINE n == m \cup {x}
             y == Pick(n)
  <2>0. IsFiniteSet(n) /\ n # {} /\ y \in n
    <3>1. n \in SUBSET U BY <1>1
    <3> QED BY <3>1, <1>3, PickInSet
  <2>1. SumOver(w, n) = w[y] + SumOver(w, n \ {y})
    <3> HIDE DEF n
    <3> QED BY <2>0, SumOfRow
  <2>2. CASE y = x
    <3>1. n \ {y} = m BY <2>2
    <3>2. w[x] \in Int OBVIOUS
    <3>3. SumOver(w, n) = w[x] + SumOver(w, m)
      BY <2>1, <3>1, <2>2
    <3> QED BY <3>2, <3>3, <1>4
  <2>3. CASE y # x
    <3> DEFINE t == m \ {y}
    <3>1. y \in m /\ t \in SUBSET m /\ t # m BY <2>0, <2>3
    <3>2. n \ {y} = t \cup {x} /\ m = t \cup {y} BY <3>1, <2>3
    <3>3. x \in U \ t /\ y \in U \ t BY <3>1, <1>1
    <3>4. Good(t) BY <3>1, <1>2
    <3>5. /\ SumOver(w, t) \in Int
          /\ SumOver(w, t \cup {x}) = SumOver(w, t) + w[x]
          /\ SumOver(w, t \cup {y}) = SumOver(w, t) + w[y]
      <4> HIDE DEF t, y
      <4> QED BY <3>3, <3>4 DEF Good
    <3>6. w[x] \in Int /\ w[y] \in Int BY <3>3
    <3>7. SumOver(w, n) = w[y] + SumOver(w, t \cup {x})
      BY <2>1, <3>2
    <3>8. SumOver(w, m) = SumOver(w, t) + w[y]
      BY <3>2, <3>5
    <3>9. SumOver(w, n) = SumOver(w, m) + w[x]
      <4> HIDE DEF n, y, t
      <4> QED BY <3>5, <3>6, <3>7, <3>8
    <3> QED BY <3>9
  <2> QED BY <2>2, <2>3
<1>6. Good(m) BY <1>4, <1>5 DEF Good
<1> QED BY <1>1, <1>6

\* Sums over disjoint sets of entries add up.
LEMMA SumOfTwo ==
  ASSUME NEW w, NEW U, IsFiniteSet(U), \A e \in U : w[e] \in Int, NEW A \in SUBSET U
  PROVE  \A T \in SUBSET (U \ A) : SumOver(w, A \cup T) = SumOver(w, A) + SumOver(w, T)
<1> DEFINE B == {T \in SUBSET (U \ A) : SumOver(w, A \cup T) # SumOver(w, A) + SumOver(w, T)}
<1> SUFFICES ASSUME B # {} PROVE FALSE
  OBVIOUS
<1>1. PICK m \in B : \A t \in B : ~(t \subseteq m /\ t # m)
  <2> HIDE DEF B
  <2>1. B \subseteq SUBSET U BY DEF B
  <2> QED BY <2>1, MinimalSubset
<1>2. m \in SUBSET (U \ A) /\ SumOver(w, A \cup m) # SumOver(w, A) + SumOver(w, m)
  BY <1>1
<1>3. ASSUME NEW t \in SUBSET U
      PROVE  SumOver(w, t) \in Int /\ \A x \in U \ t : SumOver(w, t \cup {x}) = SumOver(w, t) + w[x]
  BY SumOfOneMore
<1>4. CASE m = {}
  <2>1. SumOver(w, m) = 0
    BY <1>4, FS_EmptySet, SumOfRow
  <2>2. A \cup m = A
    BY <1>4
  <2>3. SumOver(w, A) \in Int
    BY <1>3
  <2>4. SumOver(w, A \cup m) = SumOver(w, A) + SumOver(w, m)
    BY <2>1, <2>2, <2>3
  <2> QED BY <1>2, <2>4
<1>5. CASE m # {}
  <2>1. PICK x \in m : TRUE
    BY <1>5
  <2> DEFINE t == m \ {x}
  <2>2. /\ t \in SUBSET (U \ A) /\ t \in SUBSET U /\ A \cup t \in SUBSET U
        /\ x \in U \ t /\ x \in U \ (A \cup t)
        /\ t \cup {x} = m /\ (A \cup t) \cup {x} = A \cup m
    BY <1>2, <2>1
  <2>3. SumOver(w, A \cup t) = SumOver(w, A) + SumOver(w, t)
    BY <1>1, <2>1, <2>2
  <2> HIDE DEF t
  <2>4. SumOver(w, A \cup m) = SumOver(w, A \cup t) + w[x]
    BY <1>3, <2>2
  <2>5. SumOver(w, m) = SumOver(w, t) + w[x]
    BY <1>3, <2>2
  <2>6. SumOver(w, A) \in Int /\ SumOver(w, t) \in Int /\ w[x] \in Int
    BY <1>3, <2>2
  <2> QED BY <1>2, <2>3, <2>4, <2>5, <2>6
<1> QED BY <1>4, <1>5

\* Any table of the fold gives the sum.
LEMMA SumOfTable ==
  ASSUME NEW w, NEW S, IsFiniteSet(S), NEW g, IsTable(g, w, S)
  PROVE  g[S] = SumOver(w, S)
<1> DEFINE h == CHOOSE t : IsTable(t, w, S)
<1>1. IsTable(h, w, S)
  BY TableExists
<1>2. h[S] = SumOver(w, S)
  BY DEF SumOver
<1> HIDE DEF h
<1>3. S \in SUBSET S /\ S \subseteq S
  OBVIOUS
<1>4. g[S] = h[S]
  BY <1>1, <1>3, TablesAgree
<1> QED BY <1>2, <1>4

\* A sum depends on nothing but the numbers of its elements.
LEMMA SameNumbers ==
  ASSUME NEW w, NEW v, NEW S, IsFiniteSet(S), \A x \in S : w[x] = v[x]
  PROVE  SumOver(w, S) = SumOver(v, S)
<1>1. PICK g : IsTable(g, w, S)
  BY TableExists
<1>2. ASSUME NEW s \in SUBSET S, s # {} PROVE w[Pick(s)] = v[Pick(s)]
  BY <1>2, PickInSet
<1>3. [s \in SUBSET S |-> IF s = {} THEN 0 ELSE w[Pick(s)] + g[s \ {Pick(s)}]]
        = [s \in SUBSET S |-> IF s = {} THEN 0 ELSE v[Pick(s)] + g[s \ {Pick(s)}]]
  BY <1>2
<1>4. IsTable(g, v, S)
  BY <1>1, <1>3 DEF IsTable
<1> QED BY <1>1, <1>4, SumOfTable

-----------------------------------------------------------------------------
(* The sum that getInvoicePaidAmount computes: what appending one entry    *)
(* does to it, and that reversals never take it below zero.                *)

\* The fold of SumOf is the sum of the signed amounts.
LEMMA SumOfIsOver ==
  ASSUME NEW U, IsFiniteSet(U)
  PROVE  SumOf(U) = SumOver([e \in U |-> Signed(e)], U)
<1> DEFINE w == [e \in U |-> Signed(e)]
           Fold(g) == g = [s \in SUBSET U |-> IF s = {} THEN 0 ELSE Signed(Pick(s)) + g[s \ {Pick(s)}]]
           h == CHOOSE g : Fold(g)
<1>1. SumOf(U) = h[U]
  BY DEF SumOf, MapThenSumSet, MapThenFoldSet, Pick
<1>2. ASSUME NEW g PROVE Fold(g) <=> IsTable(g, w, U)
  <2>1. \A s \in SUBSET U : s # {} => w[Pick(s)] = Signed(Pick(s))
    BY PickInSet
  <2> DEFINE one == [s \in SUBSET U |-> IF s = {} THEN 0 ELSE Signed(Pick(s)) + g[s \ {Pick(s)}]]
             two == [s \in SUBSET U |-> IF s = {} THEN 0 ELSE w[Pick(s)] + g[s \ {Pick(s)}]]
  <2>2. one = two
    <3> HIDE DEF w
    <3> QED BY <2>1
  <2> QED BY <2>2 DEF IsTable
<1>3. \E g : IsTable(g, w, U)
  BY TableExists
<1> HIDE DEF w
<1>4. Fold(h)
  <2>1. \E g : Fold(g)
    BY <1>2, <1>3
  <2> HIDE DEF Fold
  <2> QED BY <2>1
<1> HIDE DEF h, Fold
<1>5. IsTable(h, w, U)
  BY <1>2, <1>4
<1>6. h[U] = SumOver(w, U)
  BY <1>5, SumOfTable
<1> QED BY <1>1, <1>6 DEF w

\* ... and so are the sums of parts of the ledger, with the same amounts.
LEMMA SumsWithin ==
  ASSUME NEW U, IsFiniteSet(U), NEW S \in SUBSET U
  PROVE  SumOf(S) = SumOver([e \in U |-> Signed(e)], S)
<1> DEFINE w == [e \in U |-> Signed(e)]
           v == [e \in S |-> Signed(e)]
<1>1. IsFiniteSet(S) /\ \A e \in S : w[e] = v[e]
  BY FS_Subset
<1>2. SumOf(S) = SumOver(v, S)
  BY <1>1, SumOfIsOver
<1> HIDE DEF w, v
<1>3. SumOver(w, S) = SumOver(v, S)
  BY <1>1, SameNumbers
<1> QED BY <1>2, <1>3 DEF w

\* Nothing sums up to nothing.
LEMMA SumRow == SumOf({}) = 0
<1>1. IsFiniteSet({})
  BY FS_EmptySet
<1> DEFINE w == [e \in {} |-> Signed(e)]
<1>2. SumOf({}) = SumOver(w, {})
  BY <1>1, SumOfIsOver
<1> HIDE DEF w
<1> QED BY <1>1, <1>2, SumOfRow

\* The sum of a finite ledger is an integer, and an appended entry adds its signed
\* amount, whatever the order in which the fold visits the entries.
LEMMA SumAdd ==
  ASSUME NEW U, IsFiniteSet(U), \A e \in U : Signed(e) \in Int
  PROVE  \A T \in SUBSET U :
            SumOf(T) \in Int /\ \A x \in U \ T : SumOf(T \cup {x}) = SumOf(T) + Signed(x)
<1> DEFINE w == [e \in U |-> Signed(e)]
<1>1. \A e \in U : w[e] = Signed(e) /\ w[e] \in Int
  OBVIOUS
<1>2. \A S \in SUBSET U : SumOf(S) = SumOver(w, S)
  BY SumsWithin
<1> HIDE DEF w
<1>3. \A T \in SUBSET U :
         SumOver(w, T) \in Int /\ \A x \in U \ T : SumOver(w, T \cup {x}) = SumOver(w, T) + w[x]
  BY <1>1, SumOfOneMore
<1>4. ASSUME NEW T \in SUBSET U, NEW x \in U \ T PROVE T \cup {x} \in SUBSET U /\ w[x] = Signed(x)
  BY <1>1
<1> QED BY <1>2, <1>3, <1>4

\* Sums over disjoint sets of entries add up.
LEMMA SumUnion ==
  ASSUME NEW U, IsFiniteSet(U), \A e \in U : Signed(e) \in Int, NEW A \in SUBSET U
  PROVE  \A T \in SUBSET (U \ A) : SumOf(A \cup T) = SumOf(A) + SumOf(T)
<1> DEFINE w == [e \in U |-> Signed(e)]
<1>1. \A e \in U : w[e] \in Int
  OBVIOUS
<1>2. \A S \in SUBSET U : SumOf(S) = SumOver(w, S)
  BY SumsWithin
<1> HIDE DEF w
<1>3. \A T \in SUBSET (U \ A) : SumOver(w, A \cup T) = SumOver(w, A) + SumOver(w, T)
  BY <1>1, SumOfTwo
<1>4. \A T \in SUBSET (U \ A) : A \cup T \in SUBSET U /\ T \in SUBSET U
  OBVIOUS
<1> QED BY <1>2, <1>3, <1>4

\* Every reversal in S takes back a payment in S.
Matched(S) == \A v \in S : v.entry_type = "REVERSAL" =>
    \E u \in S : u.entry_type = "PAYMENT" /\ v = ReversalOf(u)

\* Entries have integer amounts; a reversal has its payment's other fields and
\* the opposite sign, and determines that payment.
LEMMA EntryFacts ==
  /\ \A e \in Entry : /\ e.entry_type \in {"PAYMENT", "REVERSAL"}
                      /\ e.amount \in Nat /\ e.amount > 0
                      /\ Signed(e) \in Int
  /\ \A u \in Entry : u.entry_type = "PAYMENT" =>
        /\ ReversalOf(u) \in Entry
        /\ ReversalOf(u).entry_type = "REVERSAL"
        /\ ReversalOf(u).invoice = u.invoice
        /\ ReversalOf(u) # u
        /\ Signed(u) = u.amount
        /\ Signed(ReversalOf(u)) = -u.amount
  /\ \A u, v \in Entry : /\ u.entry_type = "PAYMENT" /\ v.entry_type = "PAYMENT"
                         /\ ReversalOf(u) = ReversalOf(v)
                         => u = v
<1>1. \A e \in Entry : /\ e.entry_type \in {"PAYMENT", "REVERSAL"}
                       /\ e.amount \in Nat /\ e.amount > 0
                       /\ Signed(e) \in Int
  BY LedgerAssumption DEF Entry, Signed
<1>2. ASSUME NEW u \in Entry, u.entry_type = "PAYMENT"
      PROVE  /\ ReversalOf(u) \in Entry
             /\ ReversalOf(u).entry_type = "REVERSAL"
             /\ ReversalOf(u).invoice = u.invoice
             /\ ReversalOf(u) # u
             /\ Signed(u) = u.amount
             /\ Signed(ReversalOf(u)) = -u.amount
  BY <1>2 DEF Entry, Signed, ReversalOf
<1>3. ASSUME NEW u \in Entry, NEW v \in Entry,
             u.entry_type = "PAYMENT", v.entry_type = "PAYMENT", ReversalOf(u) = ReversalOf(v)
      PROVE  u = v
  BY <1>3 DEF Entry, ReversalOf
<1> QED BY <1>1, <1>2, <1>3

\* Net paid is never negative, because no payment is taken back twice.
LEMMA MatchedSumIsNatural ==
  ASSUME NEW S, IsFiniteSet(S), S \subseteq Entry, Matched(S)
  PROVE  SumOf(S) \in Nat
<1> DEFINE B == {s \in SUBSET S : Matched(s) /\ SumOf(s) \notin Nat}
<1> SUFFICES ASSUME B # {} PROVE FALSE
  OBVIOUS
<1>1. PICK m \in B : \A t \in B : ~(t \subseteq m /\ t # m)
  <2> HIDE DEF B
  <2>1. B \subseteq SUBSET S BY DEF B
  <2> QED BY <2>1, MinimalSubset
<1>2. m \in SUBSET S /\ IsFiniteSet(m) /\ m \subseteq Entry /\ Matched(m) /\ SumOf(m) \notin Nat
  BY <1>1, FS_Subset
<1>3. ASSUME NEW t \in SUBSET m, t # m, Matched(t) PROVE SumOf(t) \in Nat
  BY <1>1, <1>2, <1>3
<1>4. ASSUME NEW t \in SUBSET S, NEW x \in S \ t
      PROVE  SumOf(t) \in Int /\ SumOf(t \cup {x}) = SumOf(t) + Signed(x)
  BY SumAdd, EntryFacts
<1>5. m # {}
  BY <1>2, SumRow
<1>6. CASE \E v \in m : v.entry_type = "REVERSAL"
  <2>1. PICK v \in m, u \in m : /\ v.entry_type = "REVERSAL" /\ u.entry_type = "PAYMENT"
                               /\ v = ReversalOf(u)
    BY <1>2, <1>6 DEF Matched
  <2> DEFINE n == m \ {v}
             t == n \ {u}
  <2>2. u # v /\ u \in S \ t /\ v \in S \ n /\ n = t \cup {u} /\ m = n \cup {v}
        /\ t \in SUBSET m /\ t # m /\ t \in SUBSET S /\ n \in SUBSET S
    BY <1>2, <2>1
  <2>3. Matched(t)
    <3> SUFFICES ASSUME NEW w \in t, w.entry_type = "REVERSAL"
                 PROVE  \E x \in t : x.entry_type = "PAYMENT" /\ w = ReversalOf(x)
      BY DEF Matched
    <3>1. PICK x \in m : x.entry_type = "PAYMENT" /\ w = ReversalOf(x)
      BY <1>2 DEF Matched
    <3>2. x # u /\ x # v
      BY <2>1, <3>1
    <3> QED BY <3>1, <3>2
  <2>4. SumOf(t) \in Nat
    BY <1>3, <2>2, <2>3
  <2>5. SumOf(n) = SumOf(t) + Signed(u)
    BY <1>4, <2>2
  <2>6. SumOf(m) = SumOf(n) + Signed(v)
    <3> HIDE DEF n
    <3> QED BY <1>4, <2>2
  <2>7. Signed(u) = u.amount /\ Signed(v) = -u.amount /\ u.amount \in Nat
    BY <1>2, <2>1, EntryFacts
  <2> HIDE DEF n, t
  <2> QED BY <1>2, <2>4, <2>5, <2>6, <2>7
<1>7. CASE \A v \in m : v.entry_type # "REVERSAL"
  <2>1. PICK u \in m : TRUE
    BY <1>5
  <2> DEFINE t == m \ {u}
  <2>2. u \in S \ t /\ m = t \cup {u} /\ t \in SUBSET m /\ t # m /\ t \in SUBSET S
    BY <1>2, <2>1
  <2>3. Matched(t)
    BY <1>7 DEF Matched
  <2>4. SumOf(t) \in Nat
    BY <1>3, <2>2, <2>3
  <2>5. SumOf(m) = SumOf(t) + Signed(u)
    <3> HIDE DEF t
    <3> QED BY <1>4, <2>2
  <2>6. Signed(u) = u.amount /\ u.amount \in Nat
    BY <1>2, <1>7, <2>1, EntryFacts
  <2> HIDE DEF t
  <2> QED BY <1>2, <2>4, <2>5, <2>6
<1> QED BY <1>6, <1>7

\* A payment that was not taken back is part of the net amount.
LEMMA UnreversedIsCounted ==
  ASSUME NEW S, IsFiniteSet(S), S \subseteq Entry, Matched(S),
         NEW u \in S, u.entry_type = "PAYMENT", ReversalOf(u) \notin S
  PROVE  SumOf(S) \in Nat /\ SumOf(S) >= u.amount
<1> DEFINE t == S \ {u}
<1>1. Matched(t)
  BY DEF Matched
<1>2. SumOf(t) \in Nat
  BY <1>1, FS_Subset, MatchedSumIsNatural
<1>3. SumOf(t \cup {u}) = SumOf(t) + Signed(u)
  BY SumAdd, EntryFacts
<1>4. t \cup {u} = S
  OBVIOUS
<1>5. SumOf(S) = SumOf(t) + u.amount /\ u.amount \in Nat
  <2>1. Signed(u) = u.amount /\ u.amount \in Nat
    BY EntryFacts
  <2> HIDE DEF t
  <2> QED BY <1>3, <1>4, <2>1
<1> HIDE DEF t
<1> QED BY <1>2, <1>5
-----------------------------------------------------------------------------
(* The inductive invariant: the properties of the runs, and four facts     *)
(* about how the tables refer to each other.                               *)

\* Rows refer to rows that exist, and only issued invoices have requests.
References ==
    /\ \A r \in Requests :
          IF request[r].status = "NONE" THEN request[r].invoice = None
          ELSE /\ request[r].invoice \in Invoices
               /\ invoice[request[r].invoice].status \notin {"NONE", "DRAFT"}
    /\ \A p \in Proofs :
          IF proof[p].status = "NONE" THEN proof[p].request = None /\ proof[p].key = None
          ELSE /\ proof[p].request \in Requests
               /\ request[proof[p].request].status # "NONE"
               /\ proof[p].amount > 0
               /\ proof[p].key # None

\* The payments are those of the approved proofs; reversals take payments back.
LedgerRows ==
    /\ IsFiniteSet(payment)
    /\ Matched(payment)
    /\ \A e \in payment : e.entry_type = "PAYMENT" =>
          proof[e.proof].status = "APPROVED" /\ e = PaymentFrom(e.proof)
    /\ \A p \in Proofs : proof[p].status = "APPROVED" => PaymentFrom(p) \in payment

\* SubmittedMeansOnePending without cardinalities.
PendingLinked ==
    /\ \A p \in Proofs : proof[p].status = "PENDING" =>
          request[proof[p].request].status = "TRANSFER_SUBMITTED"
    /\ \A r \in Requests : request[r].status = "TRANSFER_SUBMITTED" => PendingProofs(r) # {}
    /\ \A p, q \in Proofs : /\ proof[p].status = "PENDING" /\ proof[q].status = "PENDING"
                            /\ proof[p].request = proof[q].request
                            => p = q

VoidRequestsClosed ==
    \A r \in Requests : \A i \in Invoices :
        request[r].invoice = i /\ invoice[i].status = "VOID" =>
            request[r].status \in Closed \cup {"VERIFIED"}

IInv ==
    /\ TypeOK
    /\ References
    /\ LedgerRows
    /\ NetPaidWithinTotal
    /\ StatusMatchesLedger
    /\ PendingLinked
    /\ PendingProofCanBeApproved
    /\ OneActiveRequest
    /\ KeyNamesOneProof
    /\ VoidRequestsClosed
-----------------------------------------------------------------------------
(* How a step changes the amounts paid. *)

\* A step that appends nothing leaves every invoice's entries and sum alone.
LEMMA SameLedger ==
  ASSUME payment' = payment
  PROVE  /\ \A i : PaidAmount(i)' = PaidAmount(i)
         /\ \A i : EntriesOf(payment, i)' = EntriesOf(payment, i)
  BY DEF PaidAmount, LedgerSum, EntriesOf

\* ... and keeps the ledger in step with the approved proofs, if those stay.
LEMMA LedgerRowsKept ==
  ASSUME IInv, payment' = payment,
         \A p \in Proofs : proof'[p].status = "APPROVED" <=> proof[p].status = "APPROVED",
         \A p \in Proofs : proof[p].status = "APPROVED" => PaymentFrom(p)' = PaymentFrom(p)
  PROVE  LedgerRows'
<1>1. \A e \in payment : e.proof \in Proofs
  BY DEF IInv, TypeOK, Entry
<1> QED BY <1>1 DEF IInv, LedgerRows

\* The paid amount is an integer, and an appended entry moves that of its own
\* invoice by its signed amount.
LEMMA PaidAfterAppend ==
  ASSUME IInv, NEW e \in Entry, e \notin payment
  PROVE  \A j : /\ PaidAmount(j) \in Int
                /\ LedgerSum(payment \cup {e}, j) =
                      IF j = e.invoice THEN PaidAmount(j) + Signed(e) ELSE PaidAmount(j)
<1> DEFINE U == payment \cup {e}
<1>1. IsFiniteSet(U) /\ U \subseteq Entry
  BY FS_AddElement DEF IInv, TypeOK, LedgerRows
<1>2. \A T \in SUBSET U :
         SumOf(T) \in Int /\ \A x \in U \ T : SumOf(T \cup {x}) = SumOf(T) + Signed(x)
  <2>1. \A x \in U : Signed(x) \in Int
    BY <1>1, EntryFacts
  <2> HIDE DEF U
  <2> QED BY <1>1, <2>1, SumAdd
<1> SUFFICES ASSUME NEW j
             PROVE  /\ PaidAmount(j) \in Int
                    /\ LedgerSum(U, j) =
                          IF j = e.invoice THEN PaidAmount(j) + Signed(e) ELSE PaidAmount(j)
  OBVIOUS
<1>3. EntriesOf(payment, j) \in SUBSET U /\ e \in U \ EntriesOf(payment, j)
  BY DEF EntriesOf
<1>4. EntriesOf(U, j) = IF j = e.invoice THEN EntriesOf(payment, j) \cup {e}
                        ELSE EntriesOf(payment, j)
  BY DEF EntriesOf
<1>5. /\ SumOf(EntriesOf(payment, j)) \in Int
      /\ SumOf(EntriesOf(payment, j) \cup {e}) = SumOf(EntriesOf(payment, j)) + Signed(e)
  <2> HIDE DEF U
  <2> QED BY <1>2, <1>3
<1> QED BY <1>4, <1>5 DEF PaidAmount, LedgerSum

\* Nothing is paid of an invoice that was not issued, and nothing asked for it.
LEMMA DraftIsClean ==
  ASSUME IInv, NEW i \in Invoices, invoice[i].status \in {"NONE", "DRAFT"}
  PROVE  PaidAmount(i) = 0 /\ ActiveRequests(i) = {} /\ \A r \in Requests : request[r].invoice # i
<1>1. EntriesOf(payment, i) = {}
  BY DEF IInv, StatusMatchesLedger
<1>2. PaidAmount(i) = 0
  BY <1>1, FS_EmptySet, SumRow DEF PaidAmount, LedgerSum
<1>3. \A r \in Requests : request[r].invoice # i
  BY LedgerAssumption DEF IInv, References
<1> QED BY <1>2, <1>3 DEF ActiveRequests
-----------------------------------------------------------------------------
(* One lemma per operation: it keeps the invariant. *)

LEMMA CreateDraftKeepsInv ==
  ASSUME IInv, NEW i \in Invoices, CreateDraft(i)
  PROVE  IInv'
<1> USE LedgerAssumption DEF CreateDraft, IInv
<1>0. payment' = payment
  OBVIOUS
<1>1. /\ \A j : PaidAmount(j)' = PaidAmount(j)
      /\ \A j : EntriesOf(payment, j)' = EntriesOf(payment, j)
  BY <1>0, SameLedger
<1>2. TypeOK'
  BY <1>0, <1>1 DEF TypeOK, References, InvoiceStatus, RequestStatus, ProofStatus, Expiry, Closed, NoInvoice
<1>3. References'
  BY <1>0, <1>1 DEF TypeOK, References, Closed
<1>4. LedgerRows'
  BY <1>0, <1>1 DEF TypeOK, References, LedgerRows, PaymentFrom, InvoiceOf
<1>5. NetPaidWithinTotal'
  BY <1>0, <1>1, DraftIsClean DEF TypeOK, NetPaidWithinTotal
<1>6. StatusMatchesLedger'
  BY <1>0, <1>1 DEF TypeOK, References, StatusMatchesLedger, PaidStatus, NetPaidWithinTotal
<1>7. PendingLinked'
  BY <1>0, <1>1 DEF TypeOK, References, PendingLinked, PendingProofs, Closed
<1>8. PendingProofCanBeApproved'
  BY <1>0, <1>1 DEF TypeOK, References, PendingProofCanBeApproved, PendingLinked, InvoiceOf, Payable
<1>9. OneActiveRequest'
  BY <1>0, <1>1 DEF TypeOK, References, OneActiveRequest, Closed
<1>10. KeyNamesOneProof'
  BY <1>0, <1>1 DEF TypeOK, References, KeyNamesOneProof
<1>11. VoidRequestsClosed'
  BY <1>0, <1>1 DEF TypeOK, References, VoidRequestsClosed, Closed
<1> QED BY <1>2, <1>3, <1>4, <1>5, <1>6, <1>7, <1>8, <1>9, <1>10, <1>11

LEMMA AdjustDraftKeepsInv ==
  ASSUME IInv, NEW i \in Invoices, AdjustDraft(i)
  PROVE  IInv'
<1> USE LedgerAssumption DEF AdjustDraft, IInv
<1>0. payment' = payment
  OBVIOUS
<1>1. /\ \A j : PaidAmount(j)' = PaidAmount(j)
      /\ \A j : EntriesOf(payment, j)' = EntriesOf(payment, j)
  BY <1>0, SameLedger
<1>2. TypeOK'
  BY <1>0, <1>1 DEF TypeOK, References, InvoiceStatus, RequestStatus, ProofStatus, Expiry, Closed, NoInvoice
<1>3. References'
  BY <1>0, <1>1 DEF TypeOK, References, Closed
<1>4. LedgerRows'
  BY <1>0, <1>1 DEF TypeOK, References, LedgerRows, PaymentFrom, InvoiceOf
<1>5. NetPaidWithinTotal'
  BY <1>0, <1>1, DraftIsClean DEF TypeOK, NetPaidWithinTotal
<1>6. StatusMatchesLedger'
  BY <1>0, <1>1 DEF TypeOK, References, StatusMatchesLedger, PaidStatus, NetPaidWithinTotal
<1>7. PendingLinked'
  BY <1>0, <1>1 DEF TypeOK, References, PendingLinked, PendingProofs, Closed
<1>8. PendingProofCanBeApproved'
  BY <1>0, <1>1 DEF TypeOK, References, PendingProofCanBeApproved, PendingLinked, InvoiceOf, Payable
<1>9. OneActiveRequest'
  BY <1>0, <1>1 DEF TypeOK, References, OneActiveRequest, Closed
<1>10. KeyNamesOneProof'
  BY <1>0, <1>1 DEF TypeOK, References, KeyNamesOneProof
<1>11. VoidRequestsClosed'
  BY <1>0, <1>1 DEF TypeOK, References, VoidRequestsClosed, Closed
<1> QED BY <1>2, <1>3, <1>4, <1>5, <1>6, <1>7, <1>8, <1>9, <1>10, <1>11

LEMMA DeleteDraftKeepsInv ==
  ASSUME IInv, NEW i \in Invoices, DeleteDraft(i)
  PROVE  IInv'
<1> USE LedgerAssumption DEF DeleteDraft, NoInvoice, IInv
<1>0. payment' = payment
  OBVIOUS
<1>1. /\ \A j : PaidAmount(j)' = PaidAmount(j)
      /\ \A j : EntriesOf(payment, j)' = EntriesOf(payment, j)
  BY <1>0, SameLedger
<1>2. TypeOK'
  BY <1>0, <1>1 DEF TypeOK, References, InvoiceStatus, RequestStatus, ProofStatus, Expiry, Closed, NoInvoice
<1>3. References'
  BY <1>0, <1>1 DEF TypeOK, References, Closed
<1>4. LedgerRows'
  BY <1>0, <1>1 DEF TypeOK, References, LedgerRows, PaymentFrom, InvoiceOf
<1>5. NetPaidWithinTotal'
  BY <1>0, <1>1, DraftIsClean DEF TypeOK, NetPaidWithinTotal
<1>6. StatusMatchesLedger'
  BY <1>0, <1>1 DEF TypeOK, References, StatusMatchesLedger, PaidStatus, NetPaidWithinTotal
<1>7. PendingLinked'
  BY <1>0, <1>1 DEF TypeOK, References, PendingLinked, PendingProofs, Closed
<1>8. PendingProofCanBeApproved'
  BY <1>0, <1>1 DEF TypeOK, References, PendingProofCanBeApproved, PendingLinked, InvoiceOf, Payable
<1>9. OneActiveRequest'
  BY <1>0, <1>1 DEF TypeOK, References, OneActiveRequest, Closed
<1>10. KeyNamesOneProof'
  BY <1>0, <1>1 DEF TypeOK, References, KeyNamesOneProof
<1>11. VoidRequestsClosed'
  BY <1>0, <1>1 DEF TypeOK, References, VoidRequestsClosed, Closed
<1> QED BY <1>2, <1>3, <1>4, <1>5, <1>6, <1>7, <1>8, <1>9, <1>10, <1>11

LEMMA IssueInvoiceKeepsInv ==
  ASSUME IInv, NEW i \in Invoices, NEW r \in Requests, IssueInvoice(i, r)
  PROVE  IInv'
<1> USE LedgerAssumption DEF IssueInvoice, OpenRequest, ActiveRequests, Remaining, IInv
<1>0. payment' = payment
  OBVIOUS
<1>1. /\ \A j : PaidAmount(j)' = PaidAmount(j)
      /\ \A j : EntriesOf(payment, j)' = EntriesOf(payment, j)
  BY <1>0, SameLedger
<1>2. TypeOK'
  BY <1>0, <1>1 DEF TypeOK, References, InvoiceStatus, RequestStatus, ProofStatus, Expiry, Closed, NoInvoice
<1>3. References'
  BY <1>0, <1>1 DEF TypeOK, References, Closed
<1>4. LedgerRows'
  <2>1. \A q \in Proofs : proof[q].status = "APPROVED" => PaymentFrom(q)' = PaymentFrom(q)
    BY DEF TypeOK, References, PaymentFrom, InvoiceOf
  <2> QED BY <1>0, <2>1, LedgerRowsKept
<1>5. NetPaidWithinTotal'
  BY <1>0, <1>1 DEF TypeOK, References, NetPaidWithinTotal
<1>6. StatusMatchesLedger'
  <2>1. PaidAmount(i) = 0 /\ invoice[i].total \in Nat /\ invoice[i].total > 0
    BY DraftIsClean DEF TypeOK
  <2> QED BY <1>0, <1>1, <2>1 DEF TypeOK, StatusMatchesLedger, PaidStatus
<1>7. PendingLinked'
  BY <1>0, <1>1 DEF TypeOK, References, PendingLinked, PendingProofs, Closed
<1>8. PendingProofCanBeApproved'
  BY <1>0, <1>1 DEF TypeOK, References, PendingProofCanBeApproved, PendingLinked, InvoiceOf, Payable
<1>9. OneActiveRequest'
  BY <1>0, <1>1 DEF TypeOK, References, OneActiveRequest, Closed
<1>10. KeyNamesOneProof'
  BY <1>0, <1>1 DEF TypeOK, References, KeyNamesOneProof
<1>11. VoidRequestsClosed'
  BY <1>0, <1>1 DEF TypeOK, References, VoidRequestsClosed, Closed
<1> QED BY <1>2, <1>3, <1>4, <1>5, <1>6, <1>7, <1>8, <1>9, <1>10, <1>11

LEMMA VoidInvoiceKeepsInv ==
  ASSUME IInv, NEW i \in Invoices, VoidInvoice(i)
  PROVE  IInv'
<1> USE LedgerAssumption DEF VoidInvoice, VoidRejects, VoidCloses, ActiveRequests, IInv
<1>0. payment' = payment
  OBVIOUS
<1>1. /\ \A j : PaidAmount(j)' = PaidAmount(j)
      /\ \A j : EntriesOf(payment, j)' = EntriesOf(payment, j)
  BY <1>0, SameLedger
<1>2. TypeOK'
  <2>1. invoice' \in [Invoices -> [status : InvoiceStatus, total : 0..MaxTotal]]
    BY DEF TypeOK, InvoiceStatus
  <2>2. \A r \in Requests : request'[r] \in [status : RequestStatus,
                                invoice : Invoices \cup {None}, expiry : Expiry]
    BY DEF TypeOK, RequestStatus
  <2>3. \A p \in Proofs : proof'[p] \in [status : ProofStatus, request : Requests \cup {None},
                                amount : 0..MaxTotal, key : Keys \cup {None}]
    BY DEF TypeOK, ProofStatus
  <2> QED BY <2>1, <2>2, <2>3 DEF TypeOK
<1>3. References'
  BY <1>0, <1>1 DEF TypeOK, References, Closed
<1>4. LedgerRows'
  <2>1. \A q \in Proofs : proof[q].status = "APPROVED" => PaymentFrom(q)' = PaymentFrom(q)
    BY DEF TypeOK, References, PaymentFrom, InvoiceOf
  <2>2. \A q \in Proofs : proof'[q].status = "APPROVED" <=> proof[q].status = "APPROVED"
    BY DEF TypeOK
  <2> QED BY <1>0, <2>1, <2>2, LedgerRowsKept
<1>5. NetPaidWithinTotal'
  BY <1>0, <1>1 DEF TypeOK, References, NetPaidWithinTotal
<1>6. StatusMatchesLedger'
  BY <1>0, <1>1 DEF TypeOK, References, StatusMatchesLedger, PaidStatus, NetPaidWithinTotal
<1>7. PendingLinked'
  <2>1. \A p \in Proofs : proof'[p].status = "PENDING" =>
           proof[p].status = "PENDING" /\ InvoiceOf(p) # i
    BY DEF TypeOK
  <2>2. \A p \in Proofs : proof'[p].request = proof[p].request
    BY DEF TypeOK
  <2>3. \A r \in Requests : request[r].invoice # i => request'[r] = request[r]
    BY DEF TypeOK
  <2>4. \A r \in Requests : request'[r].status = "TRANSFER_SUBMITTED" =>
           request[r].status = "TRANSFER_SUBMITTED" /\ request[r].invoice # i
    BY DEF TypeOK, Closed
  <2>5. \A p \in Proofs : proof[p].status = "PENDING" /\ InvoiceOf(p) # i => proof'[p] = proof[p]
    BY DEF TypeOK
  <2>6. \A r \in Requests : request'[r].status = "TRANSFER_SUBMITTED" => PendingProofs(r)' # {}
    <3> SUFFICES ASSUME NEW r \in Requests, request'[r].status = "TRANSFER_SUBMITTED"
                 PROVE  PendingProofs(r)' # {}
      OBVIOUS
    <3>1. PICK p \in Proofs : proof[p].request = r /\ proof[p].status = "PENDING"
      BY <2>4 DEF PendingLinked, PendingProofs
    <3>2. proof'[p] = proof[p]
      BY <2>4, <2>5, <3>1 DEF InvoiceOf
    <3> QED BY <3>1, <3>2 DEF PendingProofs
  <2>7. \A p \in Proofs : proof'[p].status = "PENDING" =>
           request'[proof'[p].request].status = "TRANSFER_SUBMITTED"
    BY <2>1, <2>2, <2>3 DEF PendingLinked, References, InvoiceOf
  <2> QED BY <2>1, <2>2, <2>6, <2>7 DEF PendingLinked
<1>8. PendingProofCanBeApproved'
  BY <1>0, <1>1 DEF TypeOK, References, PendingProofCanBeApproved, PendingLinked, InvoiceOf, Payable
<1>9. OneActiveRequest'
  BY <1>0, <1>1 DEF TypeOK, References, OneActiveRequest, Closed
<1>10. KeyNamesOneProof'
  BY <1>0, <1>1 DEF TypeOK, References, KeyNamesOneProof
<1>11. VoidRequestsClosed'
  BY <1>0, <1>1 DEF TypeOK, References, VoidRequestsClosed, Closed
<1> QED BY <1>2, <1>3, <1>4, <1>5, <1>6, <1>7, <1>8, <1>9, <1>10, <1>11

LEMMA CreatePaymentRequestKeepsInv ==
  ASSUME IInv, NEW i \in Invoices, NEW r \in Requests, CreatePaymentRequest(i, r)
  PROVE  IInv'
<1> USE LedgerAssumption DEF CreatePaymentRequest, OpenRequest, ActiveRequests, Payable, IInv
<1>0. payment' = payment
  OBVIOUS
<1>1. /\ \A j : PaidAmount(j)' = PaidAmount(j)
      /\ \A j : EntriesOf(payment, j)' = EntriesOf(payment, j)
  BY <1>0, SameLedger
<1>2. TypeOK'
  BY <1>0, <1>1 DEF TypeOK, References, InvoiceStatus, RequestStatus, ProofStatus, Expiry, Closed, NoInvoice
<1>3. References'
  BY <1>0, <1>1 DEF TypeOK, References, Closed
<1>4. LedgerRows'
  <2>1. \A q \in Proofs : proof[q].status = "APPROVED" => PaymentFrom(q)' = PaymentFrom(q)
    BY DEF TypeOK, References, PaymentFrom, InvoiceOf
  <2> QED BY <1>0, <2>1, LedgerRowsKept
<1>5. NetPaidWithinTotal'
  BY <1>0, <1>1 DEF TypeOK, References, NetPaidWithinTotal
<1>6. StatusMatchesLedger'
  BY <1>0, <1>1 DEF TypeOK, References, StatusMatchesLedger, PaidStatus, NetPaidWithinTotal
<1>7. PendingLinked'
  BY <1>0, <1>1 DEF TypeOK, References, PendingLinked, PendingProofs, Closed
<1>8. PendingProofCanBeApproved'
  BY <1>0, <1>1 DEF TypeOK, References, PendingProofCanBeApproved, PendingLinked, InvoiceOf, Payable
<1>9. OneActiveRequest'
  BY <1>0, <1>1 DEF TypeOK, References, OneActiveRequest, Closed
<1>10. KeyNamesOneProof'
  BY <1>0, <1>1 DEF TypeOK, References, KeyNamesOneProof
<1>11. VoidRequestsClosed'
  BY <1>0, <1>1 DEF TypeOK, References, VoidRequestsClosed, Closed
<1> QED BY <1>2, <1>3, <1>4, <1>5, <1>6, <1>7, <1>8, <1>9, <1>10, <1>11

LEMMA UpdatePaymentRequestStatusKeepsInv ==
  ASSUME IInv, NEW r \in Requests, UpdatePaymentRequestStatus(r)
  PROVE  IInv'
<1> USE LedgerAssumption DEF UpdatePaymentRequestStatus, IInv
<1>0. payment' = payment
  OBVIOUS
<1>1. /\ \A j : PaidAmount(j)' = PaidAmount(j)
      /\ \A j : EntriesOf(payment, j)' = EntriesOf(payment, j)
  BY <1>0, SameLedger
<1>2. TypeOK'
  BY <1>0, <1>1 DEF TypeOK, References, InvoiceStatus, RequestStatus, ProofStatus, Expiry, Closed, NoInvoice
<1>3. References'
  BY <1>0, <1>1 DEF TypeOK, References, Closed
<1>4. LedgerRows'
  BY <1>0, <1>1 DEF TypeOK, References, LedgerRows, PaymentFrom, InvoiceOf
<1>5. NetPaidWithinTotal'
  BY <1>0, <1>1 DEF TypeOK, References, NetPaidWithinTotal
<1>6. StatusMatchesLedger'
  BY <1>0, <1>1 DEF TypeOK, References, StatusMatchesLedger, PaidStatus, NetPaidWithinTotal
<1>7. PendingLinked'
  BY <1>0, <1>1 DEF TypeOK, References, PendingLinked, PendingProofs, Closed
<1>8. PendingProofCanBeApproved'
  BY <1>0, <1>1 DEF TypeOK, References, PendingProofCanBeApproved, PendingLinked, InvoiceOf, Payable
<1>9. OneActiveRequest'
  BY <1>0, <1>1 DEF TypeOK, References, OneActiveRequest, Closed
<1>10. KeyNamesOneProof'
  BY <1>0, <1>1 DEF TypeOK, References, KeyNamesOneProof
<1>11. VoidRequestsClosed'
  BY <1>0, <1>1 DEF TypeOK, References, VoidRequestsClosed, Closed
<1> QED BY <1>2, <1>3, <1>4, <1>5, <1>6, <1>7, <1>8, <1>9, <1>10, <1>11

LEMMA ExpiryPassesKeepsInv ==
  ASSUME IInv, NEW r \in Requests, ExpiryPasses(r)
  PROVE  IInv'
<1> USE LedgerAssumption DEF ExpiryPasses, IInv
<1>0. payment' = payment
  OBVIOUS
<1>1. /\ \A j : PaidAmount(j)' = PaidAmount(j)
      /\ \A j : EntriesOf(payment, j)' = EntriesOf(payment, j)
  BY <1>0, SameLedger
<1>2. TypeOK'
  BY <1>0, <1>1 DEF TypeOK, References, InvoiceStatus, RequestStatus, ProofStatus, Expiry, Closed, NoInvoice
<1>3. References'
  BY <1>0, <1>1 DEF TypeOK, References, Closed
<1>4. LedgerRows'
  BY <1>0, <1>1 DEF TypeOK, References, LedgerRows, PaymentFrom, InvoiceOf
<1>5. NetPaidWithinTotal'
  BY <1>0, <1>1 DEF TypeOK, References, NetPaidWithinTotal
<1>6. StatusMatchesLedger'
  BY <1>0, <1>1 DEF TypeOK, References, StatusMatchesLedger, PaidStatus, NetPaidWithinTotal
<1>7. PendingLinked'
  BY <1>0, <1>1 DEF TypeOK, References, PendingLinked, PendingProofs, Closed
<1>8. PendingProofCanBeApproved'
  BY <1>0, <1>1 DEF TypeOK, References, PendingProofCanBeApproved, PendingLinked, InvoiceOf, Payable
<1>9. OneActiveRequest'
  BY <1>0, <1>1 DEF TypeOK, References, OneActiveRequest, Closed
<1>10. KeyNamesOneProof'
  BY <1>0, <1>1 DEF TypeOK, References, KeyNamesOneProof
<1>11. VoidRequestsClosed'
  BY <1>0, <1>1 DEF TypeOK, References, VoidRequestsClosed, Closed
<1> QED BY <1>2, <1>3, <1>4, <1>5, <1>6, <1>7, <1>8, <1>9, <1>10, <1>11

LEMMA SubmitPaymentProofKeepsInv ==
  ASSUME IInv, NEW r \in Requests, NEW p \in Proofs, NEW k \in Keys, SubmitPaymentProof(r, p, k)
  PROVE  IInv'
<1> USE LedgerAssumption DEF SubmitPaymentProof, KeyUsed, Payable, Remaining, IInv
<1>0. payment' = payment
  OBVIOUS
<1>1. /\ \A j : PaidAmount(j)' = PaidAmount(j)
      /\ \A j : EntriesOf(payment, j)' = EntriesOf(payment, j)
  BY <1>0, SameLedger
<1>2. TypeOK'
  <2>1. request' \in [Requests -> [status : RequestStatus,
                                  invoice : Invoices \cup {None}, expiry : Expiry]]
    BY DEF TypeOK, RequestStatus
  <2>2. proof' \in [Proofs -> [status : ProofStatus, request : Requests \cup {None},
                              amount : 0..MaxTotal, key : Keys \cup {None}]]
    BY DEF TypeOK, ProofStatus
  <2> QED BY <2>1, <2>2 DEF TypeOK
<1>3. References'
  BY <1>0, <1>1 DEF TypeOK, References, Closed
<1>4. LedgerRows'
  BY <1>0, <1>1 DEF TypeOK, References, LedgerRows, PaymentFrom, InvoiceOf
<1>5. NetPaidWithinTotal'
  BY <1>0, <1>1 DEF TypeOK, References, NetPaidWithinTotal
<1>6. StatusMatchesLedger'
  BY <1>0, <1>1 DEF TypeOK, References, StatusMatchesLedger, PaidStatus, NetPaidWithinTotal
<1>7. PendingLinked'
  BY <1>0, <1>1 DEF TypeOK, References, PendingLinked, PendingProofs, Closed
<1>8. PendingProofCanBeApproved'
  BY <1>0, <1>1 DEF TypeOK, References, PendingProofCanBeApproved, PendingLinked, InvoiceOf, Payable
<1>9. OneActiveRequest'
  BY <1>0, <1>1 DEF TypeOK, References, OneActiveRequest, Closed
<1>10. KeyNamesOneProof'
  BY <1>0, <1>1 DEF TypeOK, References, KeyNamesOneProof
<1>11. VoidRequestsClosed'
  BY <1>0, <1>1 DEF TypeOK, References, VoidRequestsClosed, Closed
<1> QED BY <1>2, <1>3, <1>4, <1>5, <1>6, <1>7, <1>8, <1>9, <1>10, <1>11

LEMMA ExpirePaymentRequestsKeepsInv ==
  ASSUME IInv, ExpirePaymentRequests
  PROVE  IInv'
<1> USE LedgerAssumption DEF ExpirePaymentRequests, Overdue, IInv
<1>0. payment' = payment
  OBVIOUS
<1>1. /\ \A j : PaidAmount(j)' = PaidAmount(j)
      /\ \A j : EntriesOf(payment, j)' = EntriesOf(payment, j)
  BY <1>0, SameLedger
<1>2. TypeOK'
  BY <1>0, <1>1 DEF TypeOK, References, InvoiceStatus, RequestStatus, ProofStatus, Expiry, Closed, NoInvoice
<1>3. References'
  BY <1>0, <1>1 DEF TypeOK, References, Closed
<1>4. LedgerRows'
  <2>1. \A q \in Proofs : proof[q].status = "APPROVED" => PaymentFrom(q)' = PaymentFrom(q)
    BY DEF TypeOK, References, PaymentFrom, InvoiceOf
  <2> QED BY <1>0, <2>1, LedgerRowsKept
<1>5. NetPaidWithinTotal'
  BY <1>0, <1>1 DEF TypeOK, References, NetPaidWithinTotal
<1>6. StatusMatchesLedger'
  BY <1>0, <1>1 DEF TypeOK, References, StatusMatchesLedger, PaidStatus, NetPaidWithinTotal
<1>7. PendingLinked'
  BY <1>0, <1>1 DEF TypeOK, References, PendingLinked, PendingProofs, Closed
<1>8. PendingProofCanBeApproved'
  BY <1>0, <1>1 DEF TypeOK, References, PendingProofCanBeApproved, PendingLinked, InvoiceOf, Payable
<1>9. OneActiveRequest'
  BY <1>0, <1>1 DEF TypeOK, References, OneActiveRequest, Closed
<1>10. KeyNamesOneProof'
  BY <1>0, <1>1 DEF TypeOK, References, KeyNamesOneProof
<1>11. VoidRequestsClosed'
  BY <1>0, <1>1 DEF TypeOK, References, VoidRequestsClosed, Closed
<1> QED BY <1>2, <1>3, <1>4, <1>5, <1>6, <1>7, <1>8, <1>9, <1>10, <1>11

LEMMA RejectProofKeepsInv ==
  ASSUME IInv, NEW p \in Proofs, RejectProof(p)
  PROVE  IInv'
<1> USE LedgerAssumption DEF RejectProof, IInv
<1>0. payment' = payment
  OBVIOUS
<1>1. /\ \A j : PaidAmount(j)' = PaidAmount(j)
      /\ \A j : EntriesOf(payment, j)' = EntriesOf(payment, j)
  BY <1>0, SameLedger
<1>2. TypeOK'
  BY <1>0, <1>1 DEF TypeOK, References, InvoiceStatus, RequestStatus, ProofStatus, Expiry, Closed, NoInvoice
<1>3. References'
  BY <1>0, <1>1 DEF TypeOK, References, Closed
<1>4. LedgerRows'
  BY <1>0, <1>1 DEF TypeOK, References, LedgerRows, PaymentFrom, InvoiceOf
<1>5. NetPaidWithinTotal'
  BY <1>0, <1>1 DEF TypeOK, References, NetPaidWithinTotal
<1>6. StatusMatchesLedger'
  BY <1>0, <1>1 DEF TypeOK, References, StatusMatchesLedger, PaidStatus, NetPaidWithinTotal
<1>7. PendingLinked'
  BY <1>0, <1>1 DEF TypeOK, References, PendingLinked, PendingProofs, Closed
<1>8. PendingProofCanBeApproved'
  BY <1>0, <1>1 DEF TypeOK, References, PendingProofCanBeApproved, PendingLinked, InvoiceOf, Payable
<1>9. OneActiveRequest'
  <2>1. proof[p].request \in Requests /\ request[proof[p].request].status = "TRANSFER_SUBMITTED"
    BY DEF References, PendingLinked
  <2> QED BY <2>1 DEF TypeOK, OneActiveRequest, Closed
<1>10. KeyNamesOneProof'
  BY <1>0, <1>1 DEF TypeOK, References, KeyNamesOneProof
<1>11. VoidRequestsClosed'
  <2>1. proof[p].request \in Requests /\ request[proof[p].request].status = "TRANSFER_SUBMITTED"
    BY DEF References, PendingLinked
  <2> QED BY <2>1 DEF TypeOK, VoidRequestsClosed, Closed
<1> QED BY <1>2, <1>3, <1>4, <1>5, <1>6, <1>7, <1>8, <1>9, <1>10, <1>11

LEMMA ApproveProofKeepsInv ==
  ASSUME IInv, NEW p \in Proofs, ApproveProof(p)
  PROVE  IInv'
<1> USE LedgerAssumption DEF IInv
<1> DEFINE e == PaymentFrom(p)
           r == proof[p].request
           i == InvoiceOf(p)
           paid == PaidAmount(i) + proof[p].amount
           full == paid >= invoice[i].total
<1>1. /\ r \in Requests /\ i \in Invoices /\ request[r].invoice = i
      /\ request[r].status = "TRANSFER_SUBMITTED"
      /\ proof[p].status = "PENDING" /\ proof[p].amount \in 1..MaxTotal
      /\ invoice[i].status \in Payable
      /\ paid <= invoice[i].total /\ invoice[i].total \in 0..MaxTotal
      /\ PaidAmount(i) \in 0..invoice[i].total
  BY DEF ApproveProof, Remaining, TypeOK, References, PendingLinked, InvoiceOf, NetPaidWithinTotal
<1>2. /\ e \in Entry /\ e.entry_type = "PAYMENT" /\ e.proof = p
      /\ e.invoice = i /\ e.amount = proof[p].amount /\ Signed(e) = proof[p].amount
  BY <1>1 DEF PaymentFrom, Entry, Signed
<1>3. e \notin payment
  BY <1>1, <1>2 DEF LedgerRows
<1>4. \A j : LedgerSum(payment \cup {e}, j) = IF j = i THEN paid ELSE PaidAmount(j)
  BY <1>2, <1>3, PaidAfterAppend
<1>5. /\ payment' = payment \cup {e}
      /\ proof' = [proof EXCEPT ![p].status = "APPROVED"]
      /\ request' = [request EXCEPT ![r].status = IF full THEN "VERIFIED" ELSE "WAITING_TRANSFER"]
      /\ invoice' = [invoice EXCEPT ![i].status = IF full THEN "PAID" ELSE "PARTIALLY_PAID"]
  BY <1>4 DEF ApproveProof
<1>6. \A j : PaidAmount(j)' = IF j = i THEN paid ELSE PaidAmount(j)
  BY <1>4, <1>5 DEF PaidAmount
<1> HIDE DEF e, i, paid, full
<1>7. \A q \in Proofs : proof'[q].status = "PENDING" =>
         proof[q].status = "PENDING" /\ proof'[q] = proof[q] /\ q # p /\ proof[q].request # r
  BY <1>1, <1>5 DEF TypeOK, PendingLinked
<1>8. \A q \in Requests : /\ request'[q].invoice = request[q].invoice
                          /\ q # r => request'[q] = request[q]
                          /\ request[q].status # "NONE" => request'[q].status # "NONE"
                          /\ request'[q].status \notin Closed \cup {"NONE"} =>
                                request[q].status \notin Closed \cup {"NONE"}
  BY <1>1, <1>5 DEF TypeOK, Closed
<1>9. \A q \in Proofs : proof[q].status = "PENDING" /\ q # p => InvoiceOf(q) # i
  BY <1>1 DEF PendingLinked, References, OneActiveRequest, Closed, InvoiceOf
<1>10. TypeOK'
  <2>1. invoice' \in [Invoices -> [status : InvoiceStatus, total : 0..MaxTotal]]
    BY <1>5 DEF TypeOK, InvoiceStatus
  <2>2. request' \in [Requests -> [status : RequestStatus,
                                  invoice : Invoices \cup {None}, expiry : Expiry]]
    <3>1. PICK v \in RequestStatus : request' = [request EXCEPT ![r].status = v]
      BY <1>5 DEF RequestStatus
    <3> QED BY <3>1 DEF TypeOK
  <2>3. proof' \in [Proofs -> [status : ProofStatus, request : Requests \cup {None},
                              amount : 0..MaxTotal, key : Keys \cup {None}]]
    BY <1>5 DEF TypeOK, ProofStatus
  <2> QED BY <1>2, <1>5, <2>1, <2>2, <2>3 DEF TypeOK
<1>11. References'
  BY <1>1, <1>5 DEF TypeOK, References, Payable
<1>12. \A q \in Proofs : PaymentFrom(q)' = PaymentFrom(q)
  <2>1. \A q \in Proofs : proof'[q].request = proof[q].request /\ proof'[q].amount = proof[q].amount
    BY <1>5 DEF TypeOK
  <2>2. \A q : q \in Requests => request'[q].invoice = request[q].invoice
    BY <1>8
  <2>3. \A q : q \notin Requests => request'[q] = request[q]
    BY <1>5 DEF TypeOK
  <2> QED BY <2>1, <2>2, <2>3 DEF PaymentFrom, InvoiceOf
<1>13. LedgerRows'
  <2>1. IsFiniteSet(payment')
    BY <1>5, FS_AddElement DEF LedgerRows
  <2>2. Matched(payment)'
    BY <1>2, <1>5 DEF LedgerRows, Matched
  <2>3. \A q \in Proofs : proof'[q].status = "APPROVED" <=> q = p \/ proof[q].status = "APPROVED"
    BY <1>5 DEF TypeOK
  <2>4. ASSUME NEW x \in payment', x.entry_type = "PAYMENT"
        PROVE  proof'[x.proof].status = "APPROVED" /\ x = PaymentFrom(x.proof)'
    <3>1. CASE x = e
      BY <1>2, <1>12, <2>3, <3>1 DEF e
    <3>2. CASE x \in payment
      <4>1. x.proof \in Proofs
        BY <3>2 DEF TypeOK, Entry
      <4> QED BY <1>12, <2>3, <2>4, <3>2, <4>1 DEF LedgerRows
    <3> QED BY <1>5, <2>4, <3>1, <3>2
  <2>5. ASSUME NEW q \in Proofs, proof'[q].status = "APPROVED" PROVE PaymentFrom(q)' \in payment'
    <3>1. CASE q = p
      BY <1>5, <1>12, <3>1 DEF e
    <3>2. CASE proof[q].status = "APPROVED"
      BY <1>5, <1>12, <3>2 DEF LedgerRows
    <3> QED BY <2>3, <2>5, <3>1, <3>2
  <2> QED BY <2>1, <2>2, <2>4, <2>5 DEF LedgerRows
<1>14. invoice' \in [Invoices -> [status : InvoiceStatus, total : 0..MaxTotal]]
       /\ (\A j \in Invoices : invoice'[j].total = invoice[j].total)
       /\ (\A j \in Invoices : j # i => invoice'[j] = invoice[j])
       /\ invoice'[i].status = IF full THEN "PAID" ELSE "PARTIALLY_PAID"
  BY <1>1, <1>5, <1>10 DEF TypeOK
<1>15. paid \in 0..invoice[i].total /\ paid > 0 /\ (full <=> paid >= invoice[i].total)
  BY <1>1 DEF paid, full
<1>16. NetPaidWithinTotal'
  BY <1>6, <1>14, <1>15 DEF NetPaidWithinTotal
<1>17. StatusMatchesLedger'
  <2>1. ASSUME NEW j \in Invoices, j # i
        PROVE  /\ EntriesOf(payment, j)' = EntriesOf(payment, j)
               /\ PaidStatus(j, PaidAmount(j))' = PaidStatus(j, PaidAmount(j))
    <3>1. EntriesOf(payment, j)' = EntriesOf(payment, j)
      BY <1>2, <1>5, <2>1 DEF EntriesOf
    <3>2. PaidStatus(j, PaidAmount(j))' = PaidStatus(j, PaidAmount(j))
      BY <1>6, <1>14, <2>1 DEF PaidStatus
    <3> QED BY <3>1, <3>2
  <2>2. ASSUME NEW j \in Invoices, j = i
        PROVE  invoice'[j].status = PaidStatus(j, PaidAmount(j))'
    BY <1>1, <1>6, <1>14, <1>15, <2>2 DEF PaidStatus
  <2>3. invoice'[i].status \in {"PAID", "PARTIALLY_PAID"}
    BY <1>14
  <2> QED BY <1>14, <2>1, <2>2, <2>3 DEF StatusMatchesLedger
<1>18. PendingLinked'
  <2>1. \A q \in Proofs : proof'[q].status = "PENDING" =>
           request'[proof'[q].request].status = "TRANSFER_SUBMITTED"
    BY <1>7, <1>8 DEF References, PendingLinked
  <2>2. ASSUME NEW q \in Requests, request'[q].status = "TRANSFER_SUBMITTED"
        PROVE  PendingProofs(q)' # {}
    <3>1. q # r /\ request[q].status = "TRANSFER_SUBMITTED"
      BY <1>1, <1>5, <1>8, <2>2 DEF TypeOK
    <3>2. PICK s \in Proofs : proof[s].request = q /\ proof[s].status = "PENDING"
      BY <3>1 DEF PendingLinked, PendingProofs
    <3>3. proof'[s] = proof[s]
      BY <1>5, <3>1, <3>2 DEF TypeOK
    <3> QED BY <3>2, <3>3 DEF PendingProofs
  <2>3. \A q, s \in Proofs : /\ proof'[q].status = "PENDING" /\ proof'[s].status = "PENDING"
                             /\ proof'[q].request = proof'[s].request
                             => q = s
    BY <1>7 DEF PendingLinked
  <2> QED BY <2>1, <2>2, <2>3 DEF PendingLinked
<1>19. PendingProofCanBeApproved'
  <2> SUFFICES ASSUME NEW q \in Proofs, proof'[q].status = "PENDING"
               PROVE  /\ invoice'[InvoiceOf(q)'].status \in Payable
                      /\ proof'[q].amount <= invoice'[InvoiceOf(q)'].total - PaidAmount(InvoiceOf(q))'
    BY DEF PendingProofCanBeApproved
  <2>1. proof[q].status = "PENDING" /\ proof'[q] = proof[q] /\ InvoiceOf(q) # i
    BY <1>7, <1>9
  <2>2. InvoiceOf(q)' = InvoiceOf(q) /\ InvoiceOf(q) \in Invoices
    BY <1>8, <2>1 DEF References, InvoiceOf
  <2>3. invoice'[InvoiceOf(q)'] = invoice[InvoiceOf(q)]
    BY <1>14, <2>1, <2>2
  <2>4. PaidAmount(InvoiceOf(q))' = PaidAmount(InvoiceOf(q))
    BY <1>6, <2>1, <2>2
  <2> QED BY <2>1, <2>3, <2>4 DEF PendingProofCanBeApproved
<1>20. OneActiveRequest'
  BY <1>8 DEF OneActiveRequest
<1>21. KeyNamesOneProof'
  BY <1>5 DEF TypeOK, KeyNamesOneProof
<1>22. VoidRequestsClosed'
  <2>1. \A j \in Invoices : invoice'[j].status = "VOID" => invoice[j].status = "VOID" /\ j # i
    BY <1>14
  <2> QED BY <1>1, <1>8, <2>1 DEF VoidRequestsClosed
<1> QED BY <1>10, <1>11, <1>13, <1>16, <1>17, <1>18, <1>19, <1>20, <1>21, <1>22

LEMMA ReversePaymentKeepsInv ==
  ASSUME IInv, NEW u \in payment, ReversePayment(u)
  PROVE  IInv'
<1> USE LedgerAssumption DEF IInv
<1> DEFINE e == ReversalOf(u)
           i == u.invoice
           r == u.request
           p == u.proof
           paid == PaidAmount(i) - u.amount
<1>1. /\ u \in Entry /\ u.entry_type = "PAYMENT" /\ p \in Proofs /\ r \in Requests /\ i \in Invoices
      /\ u.amount \in 1..MaxTotal
  BY DEF ReversePayment, TypeOK, Entry
<1>2. /\ e \in Entry /\ e \notin payment /\ e.entry_type = "REVERSAL" /\ e.invoice = i
      /\ Signed(e) = -u.amount
  BY <1>1, EntryFacts DEF ReversePayment
<1>3. request[r].invoice = i /\ request[r].status # "NONE" /\ proof[p].status = "APPROVED"
  BY <1>1 DEF LedgerRows, References, PaymentFrom, InvoiceOf, TypeOK
<1>4. /\ PaidAmount(i) \in 0..invoice[i].total /\ invoice[i].total \in 0..MaxTotal
      /\ PaidAmount(i) >= u.amount
  <2> DEFINE S == EntriesOf(payment, i)
  <2>1. IsFiniteSet(S) /\ S \subseteq Entry /\ u \in S /\ ReversalOf(u) \notin S
    BY <1>1, <1>2, FS_Subset DEF EntriesOf, LedgerRows, TypeOK
  <2>2. Matched(S)
    BY EntryFacts DEF EntriesOf, LedgerRows, Matched, TypeOK
  <2>3. SumOf(S) >= u.amount
    <3> HIDE DEF S, i
    <3> QED BY <1>1, <2>1, <2>2, UnreversedIsCounted
  <2> QED BY <1>1, <2>3 DEF PaidAmount, LedgerSum, NetPaidWithinTotal, TypeOK
<1>5. \A j : LedgerSum(payment \cup {e}, j) = IF j = i THEN paid ELSE PaidAmount(j)
  <2>1. \A j : /\ PaidAmount(j) \in Int
               /\ LedgerSum(payment \cup {e}, j) =
                     IF j = i THEN PaidAmount(j) + Signed(e) ELSE PaidAmount(j)
    BY <1>2, PaidAfterAppend
  <2> HIDE DEF e, i
  <2> QED BY <1>1, <1>2, <2>1
<1>6. /\ payment' = payment \cup {e}
      /\ invoice' = [invoice EXCEPT ![i].status = StatusAfterReversal(i, paid)]
      /\ request' = [q \in Requests |->
                        IF Reopens(u, q) THEN [request[q] EXCEPT !.status = "WAITING_TRANSFER"]
                        ELSE request[q]]
      /\ proof' = proof
  BY <1>5 DEF ReversePayment
<1>7. \A j : PaidAmount(j)' = IF j = i THEN paid ELSE PaidAmount(j)
  BY <1>5, <1>6 DEF PaidAmount
<1>8. paid \in 0..invoice[i].total /\ paid \in Int
  BY <1>1, <1>4
<1> HIDE DEF e, paid
<1>9. /\ \A j \in Invoices : invoice'[j].total = invoice[j].total
      /\ \A j \in Invoices : j # i => invoice'[j] = invoice[j]
      /\ invoice'[i].status = StatusAfterReversal(i, paid)
  BY <1>1, <1>6 DEF TypeOK
<1>10. invoice[i].status \in {"PARTIALLY_PAID", "PAID", "VOID"}
  <2>1. EntriesOf(payment, i) # {}
    BY <1>1 DEF EntriesOf
  <2>2. PaidAmount(i) > 0
    BY <1>1, <1>4
  <2> QED BY <1>1, <1>4, <2>1, <2>2 DEF StatusMatchesLedger, PaidStatus, TypeOK, InvoiceStatus
<1>11. /\ StatusAfterReversal(i, paid) \in {"ISSUED", "PARTIALLY_PAID", "PAID", "VOID"}
       /\ StatusAfterReversal(i, paid) = "VOID" <=> invoice[i].status = "VOID"
  BY DEF StatusAfterReversal, PaidStatus
<1>12. \A q \in Requests : /\ request'[q].invoice = request[q].invoice
                           /\ request[q].status # "VERIFIED" => request'[q] = request[q]
                           /\ request[q].status = "VERIFIED" =>
                                 request'[q].status \in {"VERIFIED", "WAITING_TRANSFER"}
                           /\ request[q].invoice = i /\ invoice[i].status = "VOID" =>
                                 request'[q] = request[q]
  BY <1>1, <1>6 DEF Reopens, TypeOK
<1>13. TypeOK'
  <2>1. invoice' \in [Invoices -> [status : InvoiceStatus, total : 0..MaxTotal]]
    <3> DEFINE s == StatusAfterReversal(i, paid)
    <3>1. s \in InvoiceStatus
      BY <1>11 DEF InvoiceStatus
    <3>2. invoice' = [invoice EXCEPT ![i].status = s]
      BY <1>6
    <3>3. invoice \in [Invoices -> [status : InvoiceStatus, total : 0..MaxTotal]]
      BY DEF TypeOK
    <3> HIDE DEF s
    <3> QED BY <3>1, <3>2, <3>3
  <2>2. request' \in [Requests -> [status : RequestStatus,
                                  invoice : Invoices \cup {None}, expiry : Expiry]]
    BY <1>6 DEF TypeOK, RequestStatus
  <2> QED BY <1>2, <1>6, <2>1, <2>2 DEF TypeOK
<1>14. References'
  <2>1. \A q \in Requests : request'[q].status = "NONE" <=> request[q].status = "NONE"
    BY <1>12
  <2>2. \A j \in Invoices : invoice'[j].status \in {"NONE", "DRAFT"} => invoice[j].status \in {"NONE", "DRAFT"}
    BY <1>9, <1>11
  <2> QED BY <1>6, <1>12, <2>1, <2>2 DEF References
<1>15. \A q \in Proofs : proof[q].status = "APPROVED" => PaymentFrom(q)' = PaymentFrom(q)
  BY <1>6, <1>12 DEF PaymentFrom, InvoiceOf, References
<1>16. LedgerRows'
  <2>1. IsFiniteSet(payment')
    BY <1>6, FS_AddElement DEF LedgerRows
  <2>2. Matched(payment)'
    BY <1>1, <1>6 DEF LedgerRows, Matched, e
  <2>3. ASSUME NEW x \in payment', x.entry_type = "PAYMENT"
        PROVE  proof'[x.proof].status = "APPROVED" /\ x = PaymentFrom(x.proof)'
    <3>1. x \in payment /\ x.proof \in Proofs
      BY <1>2, <1>6, <2>3 DEF TypeOK, Entry
    <3> QED BY <1>6, <1>15, <2>3, <3>1 DEF LedgerRows
  <2>4. \A q \in Proofs : proof'[q].status = "APPROVED" => PaymentFrom(q)' \in payment'
    BY <1>6, <1>15 DEF LedgerRows
  <2> QED BY <2>1, <2>2, <2>3, <2>4 DEF LedgerRows
<1>17. NetPaidWithinTotal'
  BY <1>7, <1>8, <1>9 DEF NetPaidWithinTotal
<1>18. StatusMatchesLedger'
  <2>1. ASSUME NEW j \in Invoices, j # i
        PROVE  /\ EntriesOf(payment, j)' = EntriesOf(payment, j)
               /\ PaidStatus(j, PaidAmount(j))' = PaidStatus(j, PaidAmount(j))
    <3>1. EntriesOf(payment, j)' = EntriesOf(payment, j)
      BY <1>2, <1>6, <2>1 DEF EntriesOf
    <3>2. PaidStatus(j, PaidAmount(j))' = PaidStatus(j, PaidAmount(j))
      BY <1>7, <1>9, <2>1 DEF PaidStatus
    <3> QED BY <3>1, <3>2
  <2>2. invoice'[i].status # "VOID" => invoice'[i].status = PaidStatus(i, PaidAmount(i))'
    BY <1>1, <1>7, <1>9, <1>11 DEF PaidStatus, StatusAfterReversal
  <2> QED BY <1>9, <1>11, <2>1, <2>2 DEF StatusMatchesLedger
<1>19. PendingLinked'
  <2>1. \A q \in Requests : request'[q].status = "TRANSFER_SUBMITTED" <=>
                            request[q].status = "TRANSFER_SUBMITTED"
    BY <1>12
  <2>2. \A q : PendingProofs(q)' = PendingProofs(q)
    BY <1>6 DEF PendingProofs
  <2> QED BY <1>6, <2>1, <2>2 DEF PendingLinked, References
<1>20. PendingProofCanBeApproved'
  <2> SUFFICES ASSUME NEW q \in Proofs, proof[q].status = "PENDING"
               PROVE  /\ invoice'[InvoiceOf(q)].status \in Payable
                      /\ \A j : j = InvoiceOf(q) =>
                            proof[q].amount <= invoice'[j].total - PaidAmount(j)'
    <3>1. \A q \in Proofs : proof[q].status = "PENDING" => InvoiceOf(q)' = InvoiceOf(q)
      BY <1>6, <1>12 DEF References, InvoiceOf
    <3> QED BY <1>6, <3>1 DEF PendingProofCanBeApproved
  <2>1. InvoiceOf(q) \in Invoices /\ proof[q].amount \in Nat
    BY DEF References, InvoiceOf, TypeOK
  <2>2. /\ invoice[InvoiceOf(q)].status \in Payable
        /\ proof[q].amount <= invoice[InvoiceOf(q)].total - PaidAmount(InvoiceOf(q))
    BY DEF PendingProofCanBeApproved
  <2>3. CASE InvoiceOf(q) # i
    BY <1>7, <1>9, <2>1, <2>2, <2>3
  <2>4. CASE InvoiceOf(q) = i
    <3>1. paid < invoice[i].total /\ proof[q].amount <= invoice[i].total - paid
      BY <1>1, <1>4, <2>1, <2>2, <2>4 DEF paid
    <3>2. StatusAfterReversal(i, paid) \in Payable
      BY <1>11, <2>2, <2>4, <3>1, <1>8, <1>4 DEF StatusAfterReversal, PaidStatus, Payable
    <3> QED BY <1>7, <1>9, <1>1, <2>4, <3>1, <3>2
  <2> QED BY <2>3, <2>4
<1>21. OneActiveRequest'
  <2>1. \A q \in Requests : request'[q].status \in Closed \cup {"NONE"} <=>
                            request[q].status \in Closed \cup {"NONE"}
    BY <1>12 DEF Closed
  <2> QED BY <1>12, <2>1 DEF OneActiveRequest
<1>22. KeyNamesOneProof'
  BY <1>6 DEF KeyNamesOneProof
<1>23. VoidRequestsClosed'
  <2>1. \A j \in Invoices : invoice'[j].status = "VOID" => invoice[j].status = "VOID"
    BY <1>9, <1>11
  <2>2. \A q \in Requests, j \in Invoices :
           request[q].invoice = j /\ invoice[j].status = "VOID" => request'[q] = request[q]
    BY <1>1, <1>3, <1>6 DEF Reopens, TypeOK
  <2> QED BY <1>12, <2>1, <2>2 DEF VoidRequestsClosed
<1> QED BY <1>13, <1>14, <1>16, <1>17, <1>18, <1>19, <1>20, <1>21, <1>22, <1>23
-----------------------------------------------------------------------------
(* The theorems. *)

LEMMA InitInv == Init => IInv
<1> SUFFICES ASSUME Init PROVE IInv
  OBVIOUS
<1> USE LedgerAssumption DEF Init, NoInvoice, NoRequest, NoProof
<1>1. \A i : PaidAmount(i) = 0 /\ EntriesOf(payment, i) = {}
  BY FS_EmptySet, SumRow DEF PaidAmount, LedgerSum, EntriesOf
<1>2. TypeOK
  BY DEF TypeOK, InvoiceStatus, RequestStatus, ProofStatus, Expiry
<1>3. References
  BY DEF References
<1>4. LedgerRows
  BY FS_EmptySet DEF LedgerRows, Matched
<1>5. NetPaidWithinTotal /\ StatusMatchesLedger
  BY <1>1 DEF NetPaidWithinTotal, StatusMatchesLedger
<1>6. PendingLinked /\ PendingProofCanBeApproved
  BY DEF PendingLinked, PendingProofCanBeApproved
<1>7. OneActiveRequest /\ KeyNamesOneProof /\ VoidRequestsClosed
  BY DEF OneActiveRequest, KeyNamesOneProof, VoidRequestsClosed
<1> QED BY <1>2, <1>3, <1>4, <1>5, <1>6, <1>7 DEF IInv

LEMMA StepInv == IInv /\ [Next]_vars => IInv'
<1> SUFFICES ASSUME IInv, [Next]_vars PROVE IInv'
  OBVIOUS
<1>1. ASSUME NEW i \in Invoices, InvoiceStep(i) PROVE IInv'
  BY <1>1, CreateDraftKeepsInv, AdjustDraftKeepsInv, DeleteDraftKeepsInv, VoidInvoiceKeepsInv,
     IssueInvoiceKeepsInv, CreatePaymentRequestKeepsInv DEF InvoiceStep
<1>2. ASSUME NEW r \in Requests, RequestStep(r) PROVE IInv'
  BY <1>2, UpdatePaymentRequestStatusKeepsInv, ExpiryPassesKeepsInv, SubmitPaymentProofKeepsInv
     DEF RequestStep
<1>3. CASE ExpirePaymentRequests
  BY <1>3, ExpirePaymentRequestsKeepsInv
<1>4. ASSUME NEW p \in Proofs, ApproveProof(p) \/ RejectProof(p) PROVE IInv'
  BY <1>4, ApproveProofKeepsInv, RejectProofKeepsInv
<1>5. ASSUME NEW e \in payment, ReversePayment(e) PROVE IInv'
  BY <1>5, ReversePaymentKeepsInv
<1>6. CASE UNCHANGED vars
  <2>1. payment' = payment /\ invoice' = invoice /\ request' = request /\ proof' = proof
    BY <1>6 DEF vars
  <2>2. TypeOK' /\ References' /\ VoidRequestsClosed' /\ KeyNamesOneProof' /\ OneActiveRequest'
    BY <2>1 DEF IInv, TypeOK, References, VoidRequestsClosed, KeyNamesOneProof, OneActiveRequest
  <2>3. \A p : InvoiceOf(p)' = InvoiceOf(p) /\ PaymentFrom(p)' = PaymentFrom(p)
    BY <2>1 DEF InvoiceOf, PaymentFrom
  <2>4. LedgerRows' /\ PendingLinked'
    BY <2>1, <2>3 DEF IInv, LedgerRows, PendingLinked, PendingProofs
  <2>5. NetPaidWithinTotal' /\ StatusMatchesLedger' /\ PendingProofCanBeApproved'
    BY <2>1, <2>3, SameLedger
       DEF IInv, NetPaidWithinTotal, StatusMatchesLedger, PaidStatus, PendingProofCanBeApproved
  <2> QED BY <2>2, <2>4, <2>5 DEF IInv
<1> QED BY <1>1, <1>2, <1>3, <1>4, <1>5, <1>6 DEF Next

\* The invariant that carries every theorem below holds in every reachable state.
THEOREM Invariance == Spec => []IInv
  BY InitInv, StepInv, PTL DEF Spec

\* The tables always have the columns and enums of the schema, and the ledger
\* holds positive amounts only.
THEOREM TypeCorrect == Spec => []TypeOK
  BY Invariance, PTL DEF IInv

\* No sequence of partial approvals, reversals and voids takes the net amount
\* paid of an invoice above its total or below zero.
THEOREM NeverOverpaid == Spec => []NetPaidWithinTotal
  BY Invariance, PTL DEF IInv

\* The stored status of an invoice is always the one its ledger sums to.
THEOREM StatusAgrees == Spec => []StatusMatchesLedger
  BY Invariance, PTL DEF IInv

\* A pending proof always still fits the balance of a payable invoice, although
\* balance and status may have moved since it was submitted.
THEOREM PendingApprovable == Spec => []PendingProofCanBeApproved
  BY Invariance, PTL DEF IInv

\* No invoice ever has two active payment requests.
THEOREM RequestUnique == Spec => []OneActiveRequest
  BY Invariance, PTL DEF IInv

\* An idempotency key never names two proofs.
THEOREM KeyUnique == Spec => []KeyNamesOneProof
  BY Invariance, PTL DEF IInv

\* A request is TRANSFER_SUBMITTED exactly while one proof of it is pending.
THEOREM OnePending == Spec => []SubmittedMeansOnePending
<1>1. IInv => SubmittedMeansOnePending
  <2> SUFFICES ASSUME IInv, NEW r \in Requests
               PROVE  Cardinality(PendingProofs(r)) =
                         IF request[r].status = "TRANSFER_SUBMITTED" THEN 1 ELSE 0
    BY DEF SubmittedMeansOnePending
  <2>1. CASE request[r].status = "TRANSFER_SUBMITTED"
    <3>1. PICK p : p \in PendingProofs(r)
      BY <2>1 DEF IInv, PendingLinked
    <3>2. PendingProofs(r) = {p}
      BY <3>1 DEF IInv, PendingLinked, PendingProofs
    <3> QED BY <2>1, <3>2, FS_Singleton
  <2>2. CASE request[r].status # "TRANSFER_SUBMITTED"
    <3>1. PendingProofs(r) = {}
      BY <2>2 DEF IInv, PendingLinked, PendingProofs
    <3> QED BY <2>2, <3>1, FS_EmptySet
  <2> QED BY <2>1, <2>2
<1> QED BY <1>1, Invariance, PTL

\* A proof is approved exactly when the ledger holds its payment.
THEOREM ApprovedPaid == Spec => []ApprovedMeansPaid
<1>1. IInv => ApprovedMeansPaid
  <2> SUFFICES ASSUME IInv, NEW p \in Proofs
               PROVE  proof[p].status = "APPROVED" <=>
                        \E e \in payment : e.proof = p /\ e.entry_type = "PAYMENT"
    BY DEF ApprovedMeansPaid
  <2>1. ASSUME proof[p].status = "APPROVED"
        PROVE  \E e \in payment : e.proof = p /\ e.entry_type = "PAYMENT"
    BY <2>1 DEF IInv, LedgerRows, PaymentFrom
  <2>2. ASSUME NEW e \in payment, e.proof = p, e.entry_type = "PAYMENT"
        PROVE  proof[p].status = "APPROVED"
    BY <2>2 DEF IInv, LedgerRows
  <2> QED BY <2>1, <2>2
<1> QED BY <1>1, Invariance, PTL

\* Requests, proofs and the ledger tell one story.
THEOREM RowsAgree == Spec => []RequestsAndProofsAgree
  BY RequestUnique, OnePending, ApprovedPaid, KeyUnique, PTL DEF RequestsAndProofsAgree

-----------------------------------------------------------------------------
(* The screens: the queries differ in what they cap, fall back to and      *)
(* leave out, and in the states IInv allows none of it makes a difference. *)

\* The invoice's payments less its reversals are what is paid of it.
LEMMA GrossLessReversals ==
  ASSUME IInv, NEW i \in Invoices
  PROVE  /\ Amounts(i, "PAYMENT") \in Int /\ Amounts(i, "REVERSAL") \in Int
         /\ PaidAmount(i) = Amounts(i, "PAYMENT") + Amounts(i, "REVERSAL")
<1> DEFINE U == EntriesOf(payment, i)
           A == {e \in U : e.entry_type = "PAYMENT"}
           T == {e \in U : e.entry_type = "REVERSAL"}
<1>1. IsFiniteSet(U) /\ U \subseteq Entry
  BY FS_Subset DEF IInv, TypeOK, LedgerRows, EntriesOf
<1>2. A \in SUBSET U /\ T \in SUBSET (U \ A) /\ A \cup T = U
  <2>1. \A e \in U : e.entry_type \in {"PAYMENT", "REVERSAL"}
    BY <1>1 DEF Entry
  <2> HIDE DEF U
  <2> QED BY <2>1
<1>3. \A e \in U : Signed(e) \in Int
  BY <1>1, EntryFacts
<1>4. Amounts(i, "PAYMENT") = SumOf(A) /\ Amounts(i, "REVERSAL") = SumOf(T)
  BY DEF Amounts
<1> HIDE DEF U, A, T
<1>5. SumOf(A) \in Int /\ SumOf(T) \in Int
  BY <1>1, <1>2, <1>3, SumAdd
<1>6. SumOf(U) = SumOf(A) + SumOf(T)
  BY <1>1, <1>2, <1>3, SumUnion
<1> QED BY <1>4, <1>5, <1>6 DEF U, PaidAmount, LedgerSum

\* What the ledger's invariant says of one invoice, in numbers.
LEMMA InvoiceFacts ==
  ASSUME IInv, NEW i \in Invoices
  PROVE  /\ invoice[i].status \in InvoiceStatus /\ invoice[i].total \in Nat
         /\ PaidAmount(i) \in Nat /\ PaidAmount(i) <= invoice[i].total
         /\ invoice[i].status \in {"NONE", "DRAFT"} => PaidAmount(i) = 0 /\ ~HasEntries(i)
         /\ invoice[i].status = "PAID" => PaidAmount(i) = invoice[i].total
         /\ invoice[i].status \in Payable => PaidAmount(i) < invoice[i].total
         /\ ~HasEntries(i) => /\ PaidAmount(i) = 0
                              /\ Amounts(i, "PAYMENT") = 0 /\ Amounts(i, "REVERSAL") = 0
<1>1. /\ invoice[i].status \in InvoiceStatus /\ invoice[i].total \in Nat
      /\ PaidAmount(i) \in Nat /\ PaidAmount(i) <= invoice[i].total
  BY LedgerAssumption DEF IInv, TypeOK, NetPaidWithinTotal
<1>2. ASSUME EntriesOf(payment, i) = {}
      PROVE  /\ PaidAmount(i) = 0
             /\ Amounts(i, "PAYMENT") = 0 /\ Amounts(i, "REVERSAL") = 0
  <2>1. SumOf({}) = 0
    BY FS_EmptySet, SumRow
  <2>2. {e \in EntriesOf(payment, i) : e.entry_type = "PAYMENT"} = {}
        /\ {e \in EntriesOf(payment, i) : e.entry_type = "REVERSAL"} = {}
    BY <1>2
  <2> QED BY <1>2, <2>1, <2>2 DEF PaidAmount, LedgerSum, Amounts
<1>3. invoice[i].status \in {"ISSUED", "PARTIALLY_PAID", "PAID"} =>
         invoice[i].status = PaidStatus(i, PaidAmount(i))
  BY DEF IInv, StatusMatchesLedger
<1>4. invoice[i].status \in {"NONE", "DRAFT"} => EntriesOf(payment, i) = {}
  BY DEF IInv, StatusMatchesLedger
<1> QED BY <1>1, <1>2, <1>3, <1>4 DEF PaidStatus, Payable, HasEntries

\* After any history of payments, reversals and voids the reports and the
\* dashboard agree about what an invoice is billed, has collected and is owed.
THEOREM ScreensAgree == Spec => []BooksAgree
<1>1. IInv => BooksAgree
  <2> SUFFICES ASSUME IInv, NEW i \in Invoices
               PROVE  LET owed == If(invoice[i].status \in Payable, Remaining(i))
                      IN  /\ Revenue(i).collected = SumOf(Reconciliation(i))
                          /\ Revenue(i).collected = Revenue(i).gross - Revenue(i).reversals
                          /\ Chart(i).collected = Revenue(i).collected
                          /\ invoice[i].status \in Issued =>
                                Revenue(i).billed = Revenue(i).collected + Revenue(i).unpaid
                          /\ {Revenue(i).unpaid, DebtSummary(i), InvoiceBalance(i), Chart(i).unpaid}
                                = {owed}
                          /\ {DebtItem(i), RecentUnpaid(i)} =
                                {IF invoice[i].status \in Payable THEN owed ELSE None}
                          /\ Chart(i).billed =
                                Revenue(i).billed + If(invoice[i].status = "DRAFT", invoice[i].total)
    BY DEF BooksAgree
  <2> DEFINE total == invoice[i].total
             status == invoice[i].status
             paid == PaidAmount(i)
             owed == If(status \in Payable, Remaining(i))
  <2>1. /\ status \in InvoiceStatus /\ total \in Nat /\ paid \in Nat /\ paid <= total
        /\ status \in {"NONE", "DRAFT"} => paid = 0 /\ ~HasEntries(i)
        /\ status = "PAID" => paid = total
        /\ status \in Payable => paid < total
        /\ ~HasEntries(i) => /\ paid = 0
                             /\ Amounts(i, "PAYMENT") = 0 /\ Amounts(i, "REVERSAL") = 0
    BY InvoiceFacts
  <2>2. /\ Amounts(i, "PAYMENT") \in Int /\ Amounts(i, "REVERSAL") \in Int
        /\ paid = Amounts(i, "PAYMENT") + Amounts(i, "REVERSAL")
    BY GrossLessReversals
  <2>3. paid = SumOf(Reconciliation(i))
    BY DEF PaidAmount, LedgerSum, Reconciliation
  <2>4. Remaining(i) = total - paid
    BY DEF Remaining
  <2>5. Least(paid, total) = paid /\ Least(0, total) = 0 /\ Least(total, total) = total
    BY <2>1 DEF Least
  <2>6. Greatest(total - paid, 0) = total - paid
    BY <2>1 DEF Greatest
  <2>7. ReportPaid(i) = paid
    BY <2>1, <2>5 DEF ReportPaid, PaidBeforeLedger
  <2>8. /\ Balance(i).paid = paid
        /\ Balance(i).gross - Balance(i).reversals = paid
        /\ Balance(i).outstanding = IF status = "VOID" THEN 0 ELSE total - paid
    <3>1. Balance(i).gross = IF HasEntries(i) THEN Amounts(i, "PAYMENT") ELSE PaidBeforeLedger(i)
      BY DEF Balance
    <3>2. Balance(i).gross = Amounts(i, "PAYMENT")
      BY <2>1, <3>1 DEF PaidBeforeLedger
    <3>3. Balance(i).reversals = -Amounts(i, "REVERSAL")
      BY DEF Balance
    <3> QED BY <2>2, <2>6, <2>7, <3>2, <3>3 DEF Balance
  <2>9. /\ Revenue(i).billed = If(status \in Issued, total)
        /\ Revenue(i).collected = paid
        /\ Revenue(i).gross - Revenue(i).reversals = paid
        /\ Revenue(i).unpaid = owed
    BY <2>4, <2>8 DEF Revenue, If, Payable
  <2>10. /\ Chart(i).billed = If(status \notin {"NONE", "VOID"}, total)
         /\ Chart(i).collected = paid
         /\ Chart(i).unpaid = owed
    BY <2>1, <2>4, <2>5, <2>6 DEF Chart, If
  <2>11. InvoiceBalance(i) = owed
    BY <2>1, <2>4, <2>5, <2>6 DEF InvoiceBalance, PaidBeforeLedger, If
  <2>12. IsDebt(i) <=> status \in Payable
    BY <2>1, <2>8 DEF IsDebt, Payable
  <2>13. DebtSummary(i) = owed /\ DebtItem(i) = IF status \in Payable THEN owed ELSE None
    BY <2>4, <2>8, <2>12 DEF DebtSummary, DebtItem, If, Payable
  <2>14. RecentUnpaid(i) = IF status \in Payable THEN owed ELSE None
    BY <2>1, <2>4, <2>5, <2>6 DEF RecentUnpaid, If
  <2>15. status \in Issued => Revenue(i).billed = Revenue(i).collected + Revenue(i).unpaid
    BY <2>1, <2>4, <2>9 DEF If, Issued, Payable
  <2>16. Chart(i).billed = Revenue(i).billed + If(status = "DRAFT", total)
    BY <2>1, <2>9, <2>10 DEF If, Issued, InvoiceStatus
  <2> QED BY <2>3, <2>9, <2>10, <2>11, <2>13, <2>14, <2>15, <2>16
<1> QED BY <1>1, Invariance, PTL
-----------------------------------------------------------------------------
(* What a step may never do. *)

\* No operation edits a reviewed proof or a ledger row.
THEOREM HistoryFinal == Spec => ReviewedHistoryIsFinal
<1> DEFINE Kept == /\ payment \subseteq payment'
                   /\ \A p \in Proofs : proof[p].status \in {"APPROVED", "REJECTED"} => proof'[p] = proof[p]
<1>1. IInv /\ [Next]_vars => [Kept]_vars
  <2> SUFFICES ASSUME IInv, Next PROVE Kept
    OBVIOUS
  <2> USE DEF IInv, TypeOK
  <2>1. ASSUME NEW i \in Invoices, InvoiceStep(i) PROVE Kept
    BY <2>1 DEF InvoiceStep, CreateDraft, AdjustDraft, DeleteDraft, VoidInvoice, VoidRejects,
                IssueInvoice, CreatePaymentRequest
  <2>2. ASSUME NEW r \in Requests, RequestStep(r) PROVE Kept
    BY <2>2 DEF RequestStep, UpdatePaymentRequestStatus, ExpiryPasses, SubmitPaymentProof
  <2>3. CASE ExpirePaymentRequests
    BY <2>3 DEF ExpirePaymentRequests
  <2>4. ASSUME NEW p \in Proofs, ApproveProof(p) \/ RejectProof(p) PROVE Kept
    BY <2>4 DEF ApproveProof, RejectProof
  <2>5. ASSUME NEW e \in payment, ReversePayment(e) PROVE Kept
    BY <2>5 DEF ReversePayment
  <2> QED BY <2>1, <2>2, <2>3, <2>4, <2>5 DEF Next
<1> QED BY <1>1, Invariance, PTL DEF Spec, ReviewedHistoryIsFinal

\* A void invoice stays void, is paid no more and reopens no request.
THEOREM VoidFinal == Spec => VoidIsFinal
<1> DEFINE Final(i) == /\ invoice'[i].status = "VOID"
                       /\ \A e \in EntriesOf(payment', i) \ payment : e.entry_type = "REVERSAL"
                       /\ \A r \in Requests : request'[r].invoice = i =>
                             request'[r].status \in Closed \cup {"VERIFIED"}
<1>1. IInv /\ IInv' /\ [Next]_vars =>
        [\A i \in Invoices : invoice[i].status = "VOID" => Final(i)]_vars
  <2> SUFFICES ASSUME IInv, IInv', Next, NEW i \in Invoices, invoice[i].status = "VOID"
               PROVE  Final(i)
    OBVIOUS
  <2> DEFINE Quiet == /\ invoice'[i].status = "VOID"
                      /\ \A e \in EntriesOf(payment', i) \ payment : e.entry_type = "REVERSAL"
  <2>1. Quiet
    <3> USE DEF EntriesOf
    <3>1. ASSUME NEW j \in Invoices, InvoiceStep(j) PROVE Quiet
      BY <3>1 DEF IInv, TypeOK, InvoiceStep, CreateDraft, AdjustDraft, DeleteDraft, VoidInvoice,
                  IssueInvoice, CreatePaymentRequest
    <3>2. ASSUME NEW r \in Requests, RequestStep(r) PROVE Quiet
      BY <3>2 DEF RequestStep, UpdatePaymentRequestStatus, ExpiryPasses, SubmitPaymentProof
    <3>3. CASE ExpirePaymentRequests
      BY <3>3 DEF ExpirePaymentRequests
    <3>4. ASSUME NEW p \in Proofs, ApproveProof(p) PROVE Quiet
      BY <3>4 DEF IInv, TypeOK, ApproveProof, PaymentFrom, Payable
    <3>5. ASSUME NEW p \in Proofs, RejectProof(p) PROVE Quiet
      BY <3>5 DEF RejectProof
    <3>6. ASSUME NEW e \in payment, ReversePayment(e) PROVE Quiet
      <4>1. invoice'[i].status = "VOID"
        BY <3>6 DEF IInv, TypeOK, ReversePayment, StatusAfterReversal
      <4>2. ReversalOf(e).entry_type = "REVERSAL"
        BY EntryFacts, <3>6 DEF IInv, TypeOK, ReversePayment
      <4> QED BY <3>6, <4>1, <4>2 DEF ReversePayment
    <3> QED BY <3>1, <3>2, <3>3, <3>4, <3>5, <3>6 DEF Next
  <2>2. \A r \in Requests : request'[r].invoice = i => request'[r].status \in Closed \cup {"VERIFIED"}
    BY <2>1 DEF IInv, VoidRequestsClosed
  <2> QED BY <2>1, <2>2
<1> QED BY <1>1, Invariance, PTL DEF Spec, VoidIsFinal

\* What was decided is not undone.
THEOREM NothingUndone == Spec => HistoryIsFinal
  BY HistoryFinal, VoidFinal, PTL DEF HistoryIsFinal
-----------------------------------------------------------------------------
(* Every step is a step of the account, or none. *)

\* An approval pays its invoice.
LEMMA ApprovalPays ==
  ASSUME IInv, IInv', NEW p \in Proofs, ApproveProof(p)
  PROVE  \E i \in Invoices : Account!Pay(i)
<1>1. PICK i \in Invoices : i = InvoiceOf(p)
  BY DEF ApproveProof, IInv, References, InvoiceOf
<1> DEFINE e == PaymentFrom(p)
           amount == proof[p].amount
<1>2. /\ amount \in 1..MaxTotal /\ invoice[i].status \in Payable
      /\ e \in Entry /\ e \notin payment /\ e.invoice = i /\ Signed(e) = amount
  <2>1. proof[p].status = "PENDING" /\ invoice[i].status \in Payable
    BY <1>1 DEF ApproveProof
  <2>2. proof[p].request \in Requests /\ amount \in 1..MaxTotal
    BY <2>1 DEF IInv, TypeOK, References
  <2>3. /\ e \in Entry /\ e.entry_type = "PAYMENT" /\ e.proof = p
        /\ e.invoice = i /\ Signed(e) = amount
    BY <1>1, <2>2 DEF PaymentFrom, Entry, Signed
  <2>4. e \notin payment
    BY <2>1, <2>3 DEF IInv, LedgerRows
  <2> QED BY <2>1, <2>2, <2>3, <2>4
<1>3. payment' = payment \cup {e}
  BY DEF ApproveProof
<1> HIDE DEF e, amount
<1>4. \A j : /\ PaidAmount(j) \in Int
             /\ PaidAmount(j)' = IF j = i THEN PaidAmount(j) + amount ELSE PaidAmount(j)
  BY <1>2, <1>3, PaidAfterAppend DEF PaidAmount
<1>5. PICK s \in {"PAID", "PARTIALLY_PAID"} : invoice' = [invoice EXCEPT ![i].status = s]
  BY <1>1 DEF ApproveProof
<1>6. /\ invoice'[i].status = s
      /\ \A j \in Invoices : invoice'[j].total = invoice[j].total
      /\ \A j \in Invoices : j # i => invoice'[j] = invoice[j]
  BY <1>5 DEF IInv, TypeOK
<1>7. /\ PaidAmount(i)' \in (PaidAmount(i) + 1)..invoice[i].total
      /\ s = Account!StatusOf(invoice[i].total, PaidAmount(i)')
  <2>1. PaidAmount(i)' \in 0..invoice[i].total /\ s = PaidStatus(i, PaidAmount(i))'
    BY <1>6 DEF IInv, NetPaidWithinTotal, StatusMatchesLedger
  <2>2. s = Account!StatusOf(invoice[i].total, PaidAmount(i)')
    BY <1>6, <2>1 DEF PaidStatus, Account!StatusOf
  <2> QED BY <1>2, <1>4, <2>1, <2>2
<1>8. [j \in Invoices |-> PaidAmount(j)]' =
         [[j \in Invoices |-> PaidAmount(j)] EXCEPT ![i] = PaidAmount(i)']
  BY <1>4
<1>9. [j \in Invoices |-> invoice[j].status]' = [[j \in Invoices |-> invoice[j].status] EXCEPT ![i] = s]
  BY <1>6
<1>10. [j \in Invoices |-> invoice[j].total]' = [j \in Invoices |-> invoice[j].total]
  BY <1>6
<1>11. Account!Pay(i)
  BY <1>2, <1>7, <1>8, <1>9, <1>10 DEF Account!Pay, Payable
<1> QED BY <1>11

\* A reversal refunds its invoice.
LEMMA ReversalRefunds ==
  ASSUME IInv, IInv', NEW u \in payment, ReversePayment(u)
  PROVE  \E i \in Invoices : Account!Refund(i)
<1> DEFINE i == u.invoice
           e == ReversalOf(u)
<1>1. /\ u \in Entry /\ i \in Invoices /\ u.amount \in 1..MaxTotal
      /\ e \in Entry /\ e \notin payment /\ e.invoice = i /\ Signed(e) = -u.amount
  BY EntryFacts DEF ReversePayment, IInv, TypeOK, Entry
<1>2. payment' = payment \cup {e} /\ \E s : invoice' = [invoice EXCEPT ![i].status = s]
  BY DEF ReversePayment
<1> HIDE DEF e
<1>3. \A j : /\ PaidAmount(j) \in Int
             /\ PaidAmount(j)' = IF j = i THEN PaidAmount(j) - u.amount ELSE PaidAmount(j)
  BY <1>1, <1>2, PaidAfterAppend DEF PaidAmount
<1>4. PICK s : invoice' = [invoice EXCEPT ![i].status = s]
  BY <1>2
<1>5. /\ invoice'[i].total = invoice[i].total /\ invoice'[i].status = s
      /\ \A j \in Invoices : invoice'[j].total = invoice[j].total
      /\ \A j \in Invoices : j # i => invoice'[j] = invoice[j]
  BY <1>1, <1>4 DEF IInv, TypeOK
<1>6. s = "VOID" <=> invoice[i].status = "VOID"
  BY <1>1, <1>5 DEF ReversePayment, StatusAfterReversal, PaidStatus, IInv, TypeOK
<1>7. /\ PaidAmount(i)' \in 0..(PaidAmount(i) - 1)
      /\ invoice[i].status \in {"PARTIALLY_PAID", "PAID", "VOID"}
      /\ s = IF invoice[i].status = "VOID" THEN "VOID"
             ELSE Account!StatusOf(invoice[i].total, PaidAmount(i)')
  <2>1. PaidAmount(i)' \in 0..invoice[i].total
    BY <1>1, <1>5 DEF IInv, NetPaidWithinTotal
  <2>2. PaidAmount(i) > 0 /\ EntriesOf(payment, i) # {}
    BY <1>1, <1>3, <2>1 DEF EntriesOf
  <2>3. invoice[i].status \in {"PARTIALLY_PAID", "PAID", "VOID"}
    BY <1>1, <2>2 DEF IInv, TypeOK, InvoiceStatus, StatusMatchesLedger, PaidStatus
  <2>4. s # "VOID" => s = PaidStatus(i, PaidAmount(i))'
    <3>1. \E q \in payment' : q.invoice = i
      BY <1>2
    <3> QED BY <1>1, <1>5, <3>1 DEF IInv, StatusMatchesLedger, EntriesOf, TypeOK, InvoiceStatus
  <2> QED BY <1>1, <1>3, <1>5, <1>6, <2>1, <2>3, <2>4 DEF PaidStatus, Account!StatusOf
<1>8. [j \in Invoices |-> PaidAmount(j)]' =
         [[j \in Invoices |-> PaidAmount(j)] EXCEPT ![i] = PaidAmount(i)']
  BY <1>3
<1>9. [j \in Invoices |-> invoice[j].status]' = [[j \in Invoices |-> invoice[j].status] EXCEPT ![i] = s]
  BY <1>5
<1>10. [j \in Invoices |-> invoice[j].total]' = [j \in Invoices |-> invoice[j].total]
  BY <1>5
<1>11. Account!Refund(i)
  BY <1>1, <1>7, <1>8, <1>9, <1>10 DEF Account!Refund
<1> QED BY <1>1, <1>11

\* The ledger implements the account of InvoiceAccount.
THEOREM Implementation == Spec => ImplementsAccount
<1>1. Init => Account!AccountInit
  <2> SUFFICES ASSUME Init PROVE Account!AccountInit
    OBVIOUS
  <2>1. \A i : PaidAmount(i) = 0
    BY FS_EmptySet, SumRow DEF Init, PaidAmount, LedgerSum, EntriesOf
  <2> QED BY <2>1 DEF Init, NoInvoice, Account!AccountInit
<1>2. IInv /\ IInv' /\ [Next]_vars => [Account!AccountNext]_(Account!accountVars)
  <2> SUFFICES ASSUME IInv, IInv', [Next]_vars PROVE [Account!AccountNext]_(Account!accountVars)
    OBVIOUS
  <2> USE DEF IInv
  <2>1. ASSUME payment' = payment PROVE \A i : PaidAmount(i)' = PaidAmount(i)
    BY <2>1, SameLedger
  <2>2. ASSUME payment' = payment, invoice' = invoice PROVE UNCHANGED Account!accountVars
    BY <2>1, <2>2 DEF Account!accountVars
  <2>3. ASSUME NEW i \in Invoices, CreateDraft(i) \/ AdjustDraft(i) PROVE Account!Redraft(i)
    <3>1. PICK t \in 0..MaxTotal : \A j \in Invoices :
             invoice'[j] = IF j = i THEN [status |-> "DRAFT", total |-> t] ELSE invoice[j]
      <4>1. CASE CreateDraft(i)
        BY <4>1 DEF TypeOK, CreateDraft
      <4>2. CASE AdjustDraft(i)
        <5>1. PICK d \in -MaxTotal..MaxTotal :
                 /\ invoice[i].total + d >= 0 /\ invoice[i].total + d <= MaxTotal
                 /\ invoice' = [invoice EXCEPT ![i].total = @ + d]
          BY <4>2 DEF AdjustDraft
        <5>2. invoice[i].total + d \in 0..MaxTotal
          BY <5>1, LedgerAssumption DEF TypeOK
        <5>3. invoice[i].status = "DRAFT"
          BY <4>2 DEF AdjustDraft
        <5> WITNESS invoice[i].total + d \in 0..MaxTotal
        <5> QED BY <5>1, <5>3 DEF TypeOK
      <4> QED BY <2>3, <4>1, <4>2
    <3>2. payment' = payment /\ invoice[i].status \in {"NONE", "DRAFT"}
      BY <2>3 DEF CreateDraft, AdjustDraft
    <3>3. [j \in Invoices |-> PaidAmount(j)]' = [j \in Invoices |-> PaidAmount(j)]
      BY <2>1, <3>2
    <3>4. \A j \in Invoices :
             /\ invoice'[j].status = IF j = i THEN "DRAFT" ELSE invoice[j].status
             /\ invoice'[j].total = IF j = i THEN t ELSE invoice[j].total
      BY <3>1
    <3>5. [j \in Invoices |-> invoice[j].status]' =
             [[j \in Invoices |-> invoice[j].status] EXCEPT ![i] = "DRAFT"]
      BY <3>4
    <3>6. [j \in Invoices |-> invoice[j].total]' = [[j \in Invoices |-> invoice[j].total] EXCEPT ![i] = t]
      BY <3>4
    <3> QED BY <3>2, <3>3, <3>5, <3>6 DEF Account!Redraft
  <2>4. ASSUME NEW i \in Invoices, DeleteDraft(i) PROVE Account!Discard(i)
    BY <2>1, <2>4 DEF TypeOK, DeleteDraft, NoInvoice, Account!Discard
  <2>5. ASSUME NEW i \in Invoices, NEW r \in Requests, IssueInvoice(i, r) PROVE Account!Issue(i)
    <3>1. invoice[i].total > 0
      BY <2>5, DraftIsClean DEF IssueInvoice, Remaining, TypeOK
    <3> QED BY <2>1, <2>5, <3>1 DEF TypeOK, IssueInvoice, Account!Issue
  <2>6. ASSUME NEW i \in Invoices, VoidInvoice(i) PROVE Account!Void(i)
    BY <2>1, <2>6 DEF TypeOK, VoidInvoice, Account!Void
  <2>7. ASSUME NEW i \in Invoices, InvoiceStep(i)
        PROVE  [Account!AccountNext]_(Account!accountVars)
    <3>1. ASSUME NEW r \in Requests, CreatePaymentRequest(i, r) PROVE UNCHANGED Account!accountVars
      BY <2>2, <3>1 DEF CreatePaymentRequest
    <3> QED BY <2>3, <2>4, <2>5, <2>6, <2>7, <3>1 DEF InvoiceStep, Account!AccountNext
  <2>8. ASSUME NEW r \in Requests, RequestStep(r) PROVE UNCHANGED Account!accountVars
    BY <2>2, <2>8 DEF RequestStep, UpdatePaymentRequestStatus, ExpiryPasses, SubmitPaymentProof
  <2>9. CASE ExpirePaymentRequests
    BY <2>2, <2>9 DEF ExpirePaymentRequests
  <2>10. ASSUME NEW p \in Proofs, ApproveProof(p) PROVE Account!AccountNext
    BY <2>10, ApprovalPays DEF Account!AccountNext
  <2>11. ASSUME NEW p \in Proofs, RejectProof(p) PROVE UNCHANGED Account!accountVars
    BY <2>2, <2>11 DEF RejectProof
  <2>12. ASSUME NEW e \in payment, ReversePayment(e) PROVE Account!AccountNext
    BY <2>12, ReversalRefunds DEF Account!AccountNext
  <2>13. CASE UNCHANGED vars
    BY <2>2, <2>13 DEF vars
  <2> QED BY <2>7, <2>8, <2>9, <2>10, <2>11, <2>12, <2>13 DEF Next
<1> QED BY <1>1, <1>2, Invariance, PTL DEF Spec, ImplementsAccount, Account!AccountSpec
=============================================================================
