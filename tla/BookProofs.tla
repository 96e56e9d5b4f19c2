----------------------------- MODULE BookProofs -----------------------------
(***************************************************************************)
(* What TLAPS proves of Ledger, Books, Dashboard, Earnings and             *)
(* Reconciliation, for all amounts and splits and every finite set of      *)
(* payments: the books by an inductive invariant about each payment, the   *)
(* figures and the report by sums over the payments.                       *)
(***************************************************************************)
EXTENDS Earnings, Reconciliation, FiniteSetTheorems, TLAPS

-----------------------------------------------------------------------------
(* Sums over a finite set.  The fold of SumFunctionOnSet is a function that is *)
(* defined by recursion on the subsets of the set; that it exists, and that it *)
(* is the same for every set, is shown by taking a smallest subset that fails. *)

\* The element of s that a fold takes first.
First(s) == CHOOSE x \in s : TRUE

\* h sums f over every subset of S, one element at a time.
Iterates(h, f, S) ==
  h = [s \in SUBSET S |-> IF s = {} THEN 0 ELSE f[First(s)] + h[s \ {First(s)}]]

Iteration(f, S) == CHOOSE h : Iterates(h, f, S)

\* The element a fold takes next is one of the set.
LEMMA FirstIsIn == \A s : s # {} => First(s) \in s
BY DEF First

\* Induction over the subsets of a finite set: what holds of a set when it holds of all
\* its proper subsets holds of every subset.
LEMMA SubsetInduction ==
  ASSUME NEW S, IsFiniteSet(S), NEW G,
         \A s \in SUBSET S : (\A t \in SUBSET s : t # s => t \in G) => s \in G
  PROVE  SUBSET S \subseteq G
<1> DEFINE Bad == (SUBSET S) \ G
<1>1. SUFFICES ASSUME Bad # {} PROVE FALSE
  OBVIOUS
<1>2. Bad \subseteq FiniteSubsetsOf(S)
  BY FS_Subset DEF FiniteSubsetsOf
<1>3. IsWellFoundedOn(StrictSubsetOrdering(S), FiniteSubsetsOf(S))
  BY FS_StrictSubsetOrderingWellFounded
<1> HIDE DEF Bad
<1>4. PICK s \in Bad : \A t \in Bad : ~(<<t, s>> \in StrictSubsetOrdering(S))
  BY <1>1, <1>2, <1>3, WFMin
<1>5. ASSUME NEW t \in SUBSET s, t # s PROVE t \in G
  BY <1>4, <1>5 DEF StrictSubsetOrdering, Bad
<1>6. QED
  BY <1>4, <1>5 DEF Bad

\* The library's sum is the iteration above.
LEMMA SumIsIterated ==
  ASSUME NEW f, NEW S
  PROVE  SumFunctionOnSet(f, S) = Iteration(f, S)[S]
BY DEF SumFunctionOnSet, FoldFunctionOnSet, MapThenFoldSet, Iterates, Iteration, First

\* What an iteration gives for a subset.
LEMMA IteratesValue ==
  ASSUME NEW f, NEW S, NEW h, Iterates(h, f, S)
  PROVE  \A s \in SUBSET S : h[s] = IF s = {} THEN 0 ELSE f[First(s)] + h[s \ {First(s)}]
BY Zenon DEF Iterates

\* Two iterations agree where both are defined.
LEMMA IteratesUnique ==
  ASSUME NEW f, NEW S, NEW T, IsFiniteSet(S), NEW h, NEW g, Iterates(h, f, S), Iterates(g, f, T)
  PROVE  \A s \in SUBSET (S \cap T) : h[s] = g[s]
<1> DEFINE U == S \cap T
           G == {s \in SUBSET U : h[s] = g[s]}
<1>1. ASSUME NEW s \in SUBSET U, \A t \in SUBSET s : t # s => t \in G
      PROVE  s \in G
  <2>1. s # {} => First(s) \in s /\ s \ {First(s)} \in G
    BY <1>1, FirstIsIn
  <2>2. QED
    BY <2>1, IteratesValue
<1>2. IsFiniteSet(U)
  BY FS_Subset
<1>3. \A s \in G : h[s] = g[s]
  OBVIOUS
<1> HIDE DEF G, U
<1>4. SUBSET U \subseteq G
  BY <1>1, <1>2, SubsetInduction
<1>5. QED
  BY <1>3, <1>4 DEF U

\* Over a finite set there is one.
LEMMA IterationExists ==
  ASSUME NEW f, NEW S, IsFiniteSet(S)
  PROVE  Iterates(Iteration(f, S), f, S)
<1> DEFINE G == {T \in SUBSET S : Iterates(Iteration(f, T), f, T)}
           Value(s) == IF s = {} THEN 0
                       ELSE LET u == s \ {First(s)} IN f[First(s)] + Iteration(f, u)[u]
<1>1. ASSUME NEW T \in SUBSET S, \A t \in SUBSET T : t # T => t \in G
      PROVE  T \in G
  <2> DEFINE h == [s \in SUBSET T |-> Value(s)]
  <2>1. ASSUME NEW u \in SUBSET T, u # T PROVE Iteration(f, u)[u] = Value(u)
    <3>1. Iterates(Iteration(f, u), f, u)
      BY <1>1, <2>1
    <3>2. CASE u = {}
      BY <3>1, <3>2, IteratesValue
    <3>3. CASE u # {}
      <4> DEFINE v == u \ {First(u)}
      <4>1. First(u) \in u /\ v \in SUBSET T /\ v # T
        BY <3>3, FirstIsIn
      <4>2. Iterates(Iteration(f, v), f, v)
        BY <1>1, <4>1
      <4>3. IsFiniteSet(u) /\ v \in SUBSET (u \cap v)
        BY FS_Subset
      <4> HIDE DEF v
      <4>4. Iteration(f, u)[v] = Iteration(f, v)[v]
        BY <3>1, <4>2, <4>3, IteratesUnique
      <4>5. Iteration(f, u)[u] = f[First(u)] + Iteration(f, u)[v]
        BY <3>1, <3>3, IteratesValue DEF v
      <4>6. QED
        BY <3>3, <4>4, <4>5 DEF v
    <3>4. QED
      BY <3>2, <3>3
  <2>2. ASSUME NEW s \in SUBSET T, s # {}
        PROVE  Value(s) = f[First(s)] + h[s \ {First(s)}]
    <3> DEFINE u == s \ {First(s)}
    <3>1. u \in SUBSET T /\ u # T
      BY <2>2, FirstIsIn
    <3>2. Iteration(f, u)[u] = Value(u)
      BY <2>1, <3>1
    <3>3. h[u] = Value(u)
      BY <3>1
    <3>4. QED
      BY <2>2, <3>2, <3>3
  <2>3. Value({}) = 0
    OBVIOUS
  <2> HIDE DEF Value
  <2>4. Iterates(h, f, T)
    BY <2>2, <2>3 DEF Iterates
  <2> HIDE DEF h
  <2>5. QED
    BY <2>4 DEF Iteration
<1> HIDE DEF G
<1>2. SUBSET S \subseteq G
  <2>1. \A T \in SUBSET S : (\A t \in SUBSET T : t # T => t \in G) => T \in G
    BY <1>1
  <2>2. QED
    BY <2>1, SubsetInduction
<1>3. QED
  BY <1>2 DEF G

\* A sum over a finite set is any element's value and the sum of the rest.
LEMMA SumUnfolds ==
  ASSUME NEW f, NEW S, IsFiniteSet(S)
  PROVE  /\ S = {} => SumFunctionOnSet(f, S) = 0
         /\ S # {} => SumFunctionOnSet(f, S) = f[First(S)] + SumFunctionOnSet(f, S \ {First(S)})
<1> DEFINE T == S \ {First(S)}
<1>1. Iterates(Iteration(f, S), f, S) /\ Iterates(Iteration(f, T), f, T)
  BY IterationExists, FS_Subset
<1>2. S = {} => SumFunctionOnSet(f, S) = 0
  BY <1>1, SumIsIterated, IteratesValue
<1>3. ASSUME S # {}
      PROVE  SumFunctionOnSet(f, S) = f[First(S)] + SumFunctionOnSet(f, T)
  <2>1. T \in SUBSET (S \cap T)
    OBVIOUS
  <2> HIDE DEF T
  <2>2. Iteration(f, S)[T] = Iteration(f, T)[T]
    BY <1>1, <2>1, IteratesUnique
  <2>3. Iteration(f, S)[S] = f[First(S)] + Iteration(f, S)[T]
    BY <1>1, <1>3, IteratesValue DEF T
  <2>4. QED
    BY <2>2, <2>3, SumIsIterated
<1>4. QED
  BY <1>2, <1>3

\* Sums of integers are integers, agree where their functions do, and add up.
LEMMA Sums ==
  ASSUME NEW S, IsFiniteSet(S), NEW f, NEW g, NEW h,
         \A s \in S : f[s] \in Int /\ g[s] \in Int /\ h[s] = f[s] + g[s]
  PROVE  /\ SumFunctionOnSet(f, S) \in Int /\ SumFunctionOnSet(g, S) \in Int
         /\ SumFunctionOnSet(h, S) = SumFunctionOnSet(f, S) + SumFunctionOnSet(g, S)
<1> DEFINE G == {T \in SUBSET S :
                   /\ SumFunctionOnSet(f, T) \in Int /\ SumFunctionOnSet(g, T) \in Int
                   /\ SumFunctionOnSet(h, T) = SumFunctionOnSet(f, T) + SumFunctionOnSet(g, T)}
<1>1. ASSUME NEW T \in SUBSET S, \A t \in SUBSET T : t # T => t \in G
      PROVE  T \in G
  <2>1. IsFiniteSet(T)
    BY FS_Subset
  <2>2. CASE T = {}
    <3>1. SumFunctionOnSet(f, T) = 0 /\ SumFunctionOnSet(g, T) = 0 /\ SumFunctionOnSet(h, T) = 0
      BY <2>1, <2>2, SumUnfolds
    <3>2. QED
      BY <3>1
  <2>3. CASE T # {}
    <3>1. First(T) \in T /\ T \ {First(T)} \in G
      BY <1>1, <2>3, FirstIsIn
    <3>2. /\ SumFunctionOnSet(f, T) = f[First(T)] + SumFunctionOnSet(f, T \ {First(T)})
          /\ SumFunctionOnSet(g, T) = g[First(T)] + SumFunctionOnSet(g, T \ {First(T)})
          /\ SumFunctionOnSet(h, T) = h[First(T)] + SumFunctionOnSet(h, T \ {First(T)})
      BY <2>1, <2>3, SumUnfolds
    <3>3. /\ f[First(T)] \in Int /\ g[First(T)] \in Int
          /\ h[First(T)] = f[First(T)] + g[First(T)]
      BY <3>1
    <3>4. QED
      BY <3>1, <3>2, <3>3
  <2>4. QED
    BY <2>2, <2>3
<1>2. S \in G => /\ SumFunctionOnSet(f, S) \in Int /\ SumFunctionOnSet(g, S) \in Int
                 /\ SumFunctionOnSet(h, S) = SumFunctionOnSet(f, S) + SumFunctionOnSet(g, S)
  OBVIOUS
<1> HIDE DEF G
<1>3. SUBSET S \subseteq G
  BY <1>1, SubsetInduction
<1>4. QED
  BY <1>2, <1>3

-----------------------------------------------------------------------------
(* The arithmetic of ledger.service.ts *)

\* A floor is a whole number of kobo, at most the exact value and less than one below.
LEMMA Floor ==
  ASSUME NEW n \in Nat
  PROVE  /\ n \div BasisPointsTotal \in Nat
         /\ (n \div BasisPointsTotal) * BasisPointsTotal <= n
         /\ n < (n \div BasisPointsTotal) * BasisPointsTotal + BasisPointsTotal
BY BasisPointsAssumption

\* The parts of an amount that the basis points of a split stand for make up the amount.
LEMMA Exact ==
  ASSUME NEW t, ValidTerms(t)
  PROVE  /\ t.gross * t.entertainerBps \in Nat /\ t.gross * t.venueBps \in Nat
         /\ t.gross * t.platformBps \in Nat
         /\ t.gross * (t.entertainerBps + t.venueBps) = t.gross * t.entertainerBps + t.gross * t.venueBps
         /\ t.gross * t.entertainerBps + t.gross * t.venueBps + t.gross * t.platformBps
              = t.gross * BasisPointsTotal
<1>1. PICK g \in Nat, e \in Nat, v \in Nat, b \in Nat :
        g = t.gross /\ e = t.entertainerBps /\ v = t.venueBps /\ b = t.platformBps
  BY DEF ValidTerms
<1>2. e + v + b = BasisPointsTotal
  BY <1>1 DEF ValidTerms
<1>3. g * e \in Nat /\ g * v \in Nat /\ g * b \in Nat
  OBVIOUS
<1>4. g * (e + v) = g * e + g * v /\ g * (e + v + b) = g * e + g * v + g * b
  OBVIOUS
<1>5. QED
  BY <1>1, <1>2, <1>3, <1>4

\* Shares are amounts, and fair; together they leave the platform its share and at most
\* 2 kobo.
LEMMA FairShares ==
  ASSUME NEW t, ValidTerms(t)
  PROVE  /\ Share(t, "ENTERTAINER_PAYABLE") \in Nat /\ Share(t, "VENUE_PAYABLE") \in Nat
         /\ \A k \in Payables :
              /\ Share(t, k) * BasisPointsTotal <= t.gross * BpsOf(t, k)
              /\ t.gross * BpsOf(t, k) < Share(t, k) * BasisPointsTotal + BasisPointsTotal
         /\ t.gross - Share(t, "ENTERTAINER_PAYABLE") - Share(t, "VENUE_PAYABLE")
              \in applyBasisPoints(t.gross, t.platformBps) .. applyBasisPoints(t.gross, t.platformBps) + 2
<1> DEFINE e == t.gross * BpsOf(t, "ENTERTAINER_PAYABLE")
           v == t.gross * BpsOf(t, "VENUE_PAYABLE")
           b == t.gross * t.platformBps
<1>1. e \in Nat /\ v \in Nat /\ b \in Nat /\ e + v + b = t.gross * BasisPointsTotal /\ t.gross \in Nat
  <2>1. CASE t.hasEntertainer
    BY <2>1, Exact DEF BpsOf, ValidTerms
  <2>2. CASE ~t.hasEntertainer
    <3>1. BpsOf(t, "ENTERTAINER_PAYABLE") = 0 /\ BpsOf(t, "VENUE_PAYABLE") = t.venueBps + t.entertainerBps
      BY <2>2 DEF BpsOf
    <3>2. e = 0 /\ v = t.gross * t.venueBps + t.gross * t.entertainerBps
      BY <3>1 DEF ValidTerms
    <3>3. QED
      BY <3>1, <3>2, Exact DEF ValidTerms
  <2>3. QED
    BY <2>1, <2>2 DEF ValidTerms
<1>2. /\ Share(t, "ENTERTAINER_PAYABLE") = e \div BasisPointsTotal
      /\ Share(t, "VENUE_PAYABLE") = v \div BasisPointsTotal
      /\ applyBasisPoints(t.gross, t.platformBps) = b \div BasisPointsTotal
  BY DEF Share, applyBasisPoints
<1> HIDE DEF e, v, b
<1>3. PICK E \in Nat, V \in Nat, B \in Nat :
        /\ E = e \div BasisPointsTotal /\ V = v \div BasisPointsTotal /\ B = b \div BasisPointsTotal
        /\ E * BasisPointsTotal <= e /\ e < E * BasisPointsTotal + BasisPointsTotal
        /\ V * BasisPointsTotal <= v /\ v < V * BasisPointsTotal + BasisPointsTotal
        /\ B * BasisPointsTotal <= b /\ b < B * BasisPointsTotal + BasisPointsTotal
  BY <1>1, Floor
<1>4. t.gross - E - V \in B .. B + 2
  <2>1. PICK d \in Int : d = t.gross - E - V - B
    BY <1>1, <1>3
  <2>2. d * BasisPointsTotal = e + v + b - E * BasisPointsTotal - V * BasisPointsTotal - B * BasisPointsTotal
    BY <1>1, <2>1, BasisPointsAssumption
  <2>3. 0 <= d * BasisPointsTotal /\ d * BasisPointsTotal < 3 * BasisPointsTotal
    BY <1>1, <1>3, <2>2, BasisPointsAssumption
  <2>4. 0 <= d /\ d <= 2
    BY <2>3, BasisPointsAssumption
  <2>5. QED
    BY <1>1, <2>1, <2>4
<1>5. QED
  BY <1>1, <1>2, <1>3, <1>4 DEF Payables, e, v

-----------------------------------------------------------------------------
(* The inductive invariant *)

\* The ledger's line of a payee, and what has left for it.
OwedLine(p, k) == IF status[p][k] = "SUCCESS" THEN 0 ELSE -Amount(p, k)
Left(p, k) == IF transfer[p][k] \in Gone THEN Amount(p, k) ELSE 0

\* Every account and the provider's balance of a payment, told from the state of its
\* payouts.
PaymentOK(p) ==
  /\ payment[p] = "pending" => held[p] = 0
  /\ payment[p] = "charged" => held[p] = terms[p].gross
  /\ payment[p] # "settled" =>
       /\ \A a \in AccountTypes : ledger[p][a] = 0
       /\ \A k \in Payables : status[p][k] = "none" /\ transfer[p][k] = "none"
  /\ payment[p] = "settled" =>
       /\ \A k \in Payables : ledger[p][k] = OwedLine(p, k)
       /\ \A k \in Payables : status[p][k] = "none" => Amount(p, k) = 0 /\ transfer[p][k] = "none"
       /\ -ledger[p]["PLATFORM_REVENUE"] =
            terms[p].gross - Amount(p, "ENTERTAINER_PAYABLE") - Amount(p, "VENUE_PAYABLE")
       /\ ledger[p]["PROCESSOR_CLEARING"] =
            -ledger[p]["PLATFORM_REVENUE"] - OwedLine(p, "ENTERTAINER_PAYABLE") - OwedLine(p, "VENUE_PAYABLE")
       /\ held[p] = terms[p].gross - Left(p, "ENTERTAINER_PAYABLE") - Left(p, "VENUE_PAYABLE")

Typed ==
  /\ terms \in [Payments -> Terms]
  /\ payment \in [Payments -> {"pending", "charged", "settled"}]
  /\ ledger \in [Payments -> [AccountTypes -> Int]]
  /\ status \in [Payments -> [Payables -> {"none", "SUCCESS"} \cup Unpaid]]
  /\ transfer \in [Payments -> [Payables -> {"requested"} \cup Gone \cup Dead]]
  /\ held \in [Payments -> Int]

IInv == Typed /\ \A p \in Payments : PaymentOK(p)

\* What is known of a payment's amounts.
LEMMA Amounts ==
  ASSUME Typed, NEW p \in Payments
  PROVE  /\ ValidTerms(terms[p]) /\ terms[p].gross \in Nat \ {0}
         /\ \A k \in Payables : Amount(p, k) \in Nat
<1>1. ValidTerms(terms[p])
  BY TermsAssumption DEF Typed
<1>2. QED
  BY <1>1, FairShares DEF ValidTerms, Amount, Payables

\* Nothing about a payment changes.
LEMMA Untouched ==
  ASSUME NEW q \in Payments, PaymentOK(q), terms' = terms,
         payment'[q] = payment[q], ledger'[q] = ledger[q], status'[q] = status[q],
         transfer'[q] = transfer[q], held'[q] = held[q]
  PROVE  PaymentOK(q)'
BY DEF PaymentOK, OwedLine, Left, Amount

\* A payout moves: the ledger follows the status into and out of SUCCESS, the provider's
\* balance follows the transfer.
LEMMA PayoutMoves ==
  ASSUME IInv, NEW p \in Payments, NEW k \in Payables, status[p][k] # "none",
         terms' = terms, payment' = payment, Typed',
         status'[p][k] # "none",
         \A j \in Payables \ {k} : status'[p][j] = status[p][j] /\ transfer'[p][j] = transfer[p][j],
         ledger'[p][k] = ledger[p][k] + OwedLine(p, k)' - OwedLine(p, k),
         ledger'[p]["PROCESSOR_CLEARING"] =
           ledger[p]["PROCESSOR_CLEARING"] - OwedLine(p, k)' + OwedLine(p, k),
         \A a \in AccountTypes \ {k, "PROCESSOR_CLEARING"} : ledger'[p][a] = ledger[p][a],
         held'[p] = held[p] - Left(p, k)' + Left(p, k),
         \A q \in Payments \ {p} : /\ ledger'[q] = ledger[q] /\ status'[q] = status[q]
                                    /\ transfer'[q] = transfer[q] /\ held'[q] = held[q]
  PROVE  IInv'
<1>1. payment[p] = "settled"
  BY DEF IInv, PaymentOK, Typed
<1>2. ASSUME NEW j \in Payables \ {k}
      PROVE  OwedLine(p, j)' = OwedLine(p, j) /\ Left(p, j)' = Left(p, j) /\ ledger'[p][j] = ledger[p][j]
  BY DEF OwedLine, Left, Amount, AccountTypes, Payables
<1>3. Amount(p, k)' = Amount(p, k) /\ \A j \in Payables : Amount(p, j)' = Amount(p, j)
  BY DEF Amount
<1>4. \A j \in Payables : /\ OwedLine(p, j) \in Int /\ OwedLine(p, j)' \in Int
                          /\ Left(p, j) \in Int /\ Left(p, j)' \in Int /\ Amount(p, j) \in Nat
  BY <1>3, Amounts DEF IInv, OwedLine, Left
<1>5. PaymentOK(p)'
  <2> USE <1>1 DEF Payables
  <2>1. \A j \in Payables : ledger'[p][j] = OwedLine(p, j)'
    BY <1>2, <1>4 DEF IInv, PaymentOK
  <2>2. \A j \in Payables : status'[p][j] = "none" => Amount(p, j)' = 0 /\ transfer'[p][j] = "none"
    BY <1>3 DEF IInv, PaymentOK
  <2>3. ledger'[p]["PLATFORM_REVENUE"] = ledger[p]["PLATFORM_REVENUE"]
    BY DEF AccountTypes
  <2>4. -ledger'[p]["PLATFORM_REVENUE"] =
          terms'[p].gross - Amount(p, "ENTERTAINER_PAYABLE")' - Amount(p, "VENUE_PAYABLE")'
    BY <1>3, <2>3 DEF IInv, PaymentOK
  <2>5. ledger[p]["PROCESSOR_CLEARING"] \in Int /\ ledger[p]["PLATFORM_REVENUE"] \in Int /\ held[p] \in Int
          /\ terms[p].gross \in Int
    BY Amounts DEF IInv, Typed, AccountTypes
  <2>6. ledger'[p]["PROCESSOR_CLEARING"] =
          -ledger'[p]["PLATFORM_REVENUE"] - OwedLine(p, "ENTERTAINER_PAYABLE")' - OwedLine(p, "VENUE_PAYABLE")'
    <3>1. ledger[p]["PROCESSOR_CLEARING"] =
            -ledger[p]["PLATFORM_REVENUE"] - OwedLine(p, "ENTERTAINER_PAYABLE") - OwedLine(p, "VENUE_PAYABLE")
      BY DEF IInv, PaymentOK
    <3>2. CASE k = "ENTERTAINER_PAYABLE"
      BY <1>2, <1>4, <2>3, <2>5, <3>1, <3>2
    <3>3. CASE k = "VENUE_PAYABLE"
      BY <1>2, <1>4, <2>3, <2>5, <3>1, <3>3
    <3>4. QED
      BY <3>2, <3>3
  <2>7. held'[p] = terms'[p].gross - Left(p, "ENTERTAINER_PAYABLE")' - Left(p, "VENUE_PAYABLE")'
    <3>1. held[p] = terms[p].gross - Left(p, "ENTERTAINER_PAYABLE") - Left(p, "VENUE_PAYABLE")
      BY DEF IInv, PaymentOK
    <3>2. CASE k = "ENTERTAINER_PAYABLE"
      BY <1>2, <1>4, <2>5, <3>1, <3>2
    <3>3. CASE k = "VENUE_PAYABLE"
      BY <1>2, <1>4, <2>5, <3>1, <3>3
    <3>4. QED
      BY <3>2, <3>3
  <2>8. QED
    BY <2>1, <2>2, <2>4, <2>6, <2>7 DEF PaymentOK
<1>6. \A q \in Payments \ {p} : PaymentOK(q)'
  BY Untouched DEF IInv
<1>7. QED
  BY <1>5, <1>6 DEF IInv

\* What SetStatus and SetTransfer leave alone.
LEMMA OneStatus ==
  ASSUME Typed, NEW p \in Payments, NEW k \in Payables, NEW s \in {"SUCCESS"} \cup Unpaid,
         SetStatus(p, k, s)
  PROVE  /\ status' \in [Payments -> [Payables -> {"none", "SUCCESS"} \cup Unpaid]]
         /\ status'[p][k] = s
         /\ \A j \in Payables \ {k} : status'[p][j] = status[p][j]
         /\ \A q \in Payments \ {p} : status'[q] = status[q]
BY DEF Typed, SetStatus

\* Setting one transfer leaves the others alone.
LEMMA OneTransfer ==
  ASSUME Typed, NEW p \in Payments, NEW k \in Payables, NEW s \in {"requested"} \cup Gone \cup Dead,
         SetTransfer(p, k, s)
  PROVE  /\ transfer' \in [Payments -> [Payables -> {"requested"} \cup Gone \cup Dead]]
         /\ transfer'[p][k] = s
         /\ \A j \in Payables \ {k} : transfer'[p][j] = transfer[p][j]
         /\ \A q \in Payments \ {p} : transfer'[q] = transfer[q]
BY DEF Typed, SetTransfer

\* What Post writes.
LEMMA Posted ==
  ASSUME Typed, NEW p \in Payments, NEW entries \in [AccountTypes -> Int], Post(p, entries)
  PROVE  /\ ledger' \in [Payments -> [AccountTypes -> Int]]
         /\ \A a \in AccountTypes : ledger'[p][a] = ledger[p][a] + entries[a]
         /\ \A q \in Payments \ {p} : ledger'[q] = ledger[q]
<1>1. PICK f : f = [a \in AccountTypes |-> ledger[p][a] + entries[a]]
  OBVIOUS
<1>2. f \in [AccountTypes -> Int] /\ \A a \in AccountTypes : f[a] = ledger[p][a] + entries[a]
  BY <1>1 DEF Typed
<1>3. ledger' = [ledger EXCEPT ![p] = f]
  BY <1>1 DEF Post
<1>4. QED
  BY <1>2, <1>3 DEF Typed

\* The entries of a payout and of its reversal.
LEMMA PayoutEntries ==
  ASSUME NEW k \in Payables, NEW n \in Nat
  PROVE  /\ computePayoutEntries(k, n) \in [AccountTypes -> Int]
         /\ computePayoutReversalEntries(k, n) \in [AccountTypes -> Int]
         /\ \A a \in AccountTypes :
              /\ computePayoutEntries(k, n)[a] =
                   IF a = k THEN n ELSE IF a = "PROCESSOR_CLEARING" THEN -n ELSE 0
              /\ computePayoutReversalEntries(k, n)[a] =
                   IF a = k THEN -n ELSE IF a = "PROCESSOR_CLEARING" THEN n ELSE 0
BY DEF computePayoutEntries, computePayoutReversalEntries, AccountTypes, Payables

-----------------------------------------------------------------------------
(* Every step keeps the invariant *)

\* The provider takes the money of a payment.
LEMMA ChargeKeeps ==
  ASSUME IInv, NEW p \in Payments, Charge(p)
  PROVE  IInv'
<1>1. Typed'
  BY Amounts DEF IInv, Typed, Charge
<1>2. PaymentOK(p)'
  BY DEF IInv, Typed, Charge, PaymentOK
<1>3. \A q \in Payments \ {p} : PaymentOK(q)'
  BY Untouched DEF IInv, Typed, Charge
<1>4. QED
  BY <1>1, <1>2, <1>3 DEF IInv

\* The settlement transaction: the payment's entries and its payout rows.
LEMMA SettleKeeps ==
  ASSUME IInv, NEW p \in Payments, Settle(p)
  PROVE  IInv'
<1> DEFINE entries == computePaymentEntries(terms[p])
<1>1. /\ entries \in [AccountTypes -> Int]
      /\ \A k \in Payables : entries[k] = -Amount(p, k)
      /\ entries["PROCESSOR_CLEARING"] = terms[p].gross
      /\ entries["PLATFORM_REVENUE"] =
           Amount(p, "ENTERTAINER_PAYABLE") + Amount(p, "VENUE_PAYABLE") - terms[p].gross
  BY Amounts DEF IInv, computePaymentEntries, AccountTypes, Payables, Amount
<1> HIDE DEF entries
<1>2. /\ ledger' \in [Payments -> [AccountTypes -> Int]]
      /\ \A a \in AccountTypes : ledger'[p][a] = entries[a]
      /\ \A q \in Payments \ {p} : ledger'[q] = ledger[q]
  <2>1. Post(p, entries) /\ \A a \in AccountTypes : ledger[p][a] = 0
    BY DEF Settle, entries, IInv, PaymentOK
  <2>2. QED
    BY <1>1, <2>1, Posted DEF IInv
<1>3. /\ status' \in [Payments -> [Payables -> {"none", "SUCCESS"} \cup Unpaid]]
      /\ \A k \in Payables : status'[p][k] = IF Amount(p, k) > 0 THEN "QUEUED" ELSE "none"
      /\ \A q \in Payments \ {p} : status'[q] = status[q]
  BY DEF Settle, IInv, Typed, Unpaid, Open
<1>4. /\ payment' = [payment EXCEPT ![p] = "settled"] /\ terms' = terms
      /\ transfer' = transfer /\ held' = held /\ payment[p] = "charged"
  BY DEF Settle
<1>5. Typed'
  BY <1>2, <1>3, <1>4 DEF IInv, Typed
<1>6. PaymentOK(p)'
  <2>1. /\ \A k \in Payables : transfer[p][k] = "none"
        /\ held[p] = terms[p].gross /\ terms[p].gross \in Nat
        /\ \A k \in Payables : Amount(p, k) \in Nat /\ Amount(p, k)' = Amount(p, k)
    BY <1>4, Amounts DEF IInv, PaymentOK, Amount
  <2>2. \A k \in Payables : OwedLine(p, k)' = -Amount(p, k) /\ Left(p, k)' = 0
    BY <1>3, <1>4, <2>1 DEF OwedLine, Left, Gone
  <2>3. \A k \in Payables : ledger'[p][k] = OwedLine(p, k)'
    BY <1>1, <1>2, <2>2 DEF AccountTypes
  <2>4. \A k \in Payables : status'[p][k] = "none" => Amount(p, k)' = 0 /\ transfer'[p][k] = "none"
    BY <1>3, <1>4, <2>1
  <2>5. /\ -ledger'[p]["PLATFORM_REVENUE"] =
             terms'[p].gross - Amount(p, "ENTERTAINER_PAYABLE")' - Amount(p, "VENUE_PAYABLE")'
        /\ ledger'[p]["PROCESSOR_CLEARING"] =
             -ledger'[p]["PLATFORM_REVENUE"] - OwedLine(p, "ENTERTAINER_PAYABLE")' - OwedLine(p, "VENUE_PAYABLE")'
        /\ held'[p] = terms'[p].gross - Left(p, "ENTERTAINER_PAYABLE")' - Left(p, "VENUE_PAYABLE")'
    BY <1>1, <1>2, <1>4, <2>1, <2>2 DEF AccountTypes, Payables
  <2>6. payment'[p] = "settled"
    BY <1>4 DEF IInv, Typed
  <2>7. QED
    BY <2>3, <2>4, <2>5, <2>6 DEF PaymentOK
<1>7. \A q \in Payments \ {p} : PaymentOK(q)'
  BY <1>2, <1>3, <1>4, Untouched DEF IInv, Typed
<1>8. QED
  BY <1>5, <1>6, <1>7 DEF IInv

\* Neither the ledger nor the provider's balance moves.
LEMMA StatusKeeps ==
  ASSUME IInv, NEW p \in Payments, NEW k \in Payables,
         \/ Claim(p, k) \/ Hold(p, k) \/ NotPaid(p, k) \/ MarkForReview(p, k)
         \/ RetryPayout(p, k) \/ Deliver(p, k)
         \/ /\ transfer[p][k] = "requested" /\ SetTransfer(p, k, "none")
            /\ UNCHANGED <<terms, payment, ledger, status, held>>
  PROVE  IInv'
<1>1. /\ terms' = terms /\ payment' = payment /\ ledger' = ledger /\ held' = held
      /\ status[p][k] # "none"
  BY DEF Claim, Hold, NotPaid, MarkForReview, RetryPayout, Deliver, IInv, PaymentOK, Unpaid, Open
<1>2. /\ status' \in [Payments -> [Payables -> {"none", "SUCCESS"} \cup Unpaid]]
      /\ status'[p][k] # "none" /\ (status'[p][k] = "SUCCESS" <=> status[p][k] = "SUCCESS")
      /\ \A j \in Payables \ {k} : status'[p][j] = status[p][j]
      /\ \A q \in Payments \ {p} : status'[q] = status[q]
  <2>1. CASE status' = status
    BY <1>1, <2>1 DEF IInv, Typed
  <2>2. ASSUME NEW s \in Unpaid, SetStatus(p, k, s), status[p][k] \in Unpaid PROVE <1>2!:
    BY <2>2, OneStatus DEF IInv, Unpaid, Open
  <2>3. QED
    BY <2>1, <2>2 DEF Claim, Hold, NotPaid, MarkForReview, RetryPayout, Deliver, Unpaid, Open
<1>3. /\ transfer' \in [Payments -> [Payables -> {"requested"} \cup Gone \cup Dead]]
      /\ (transfer'[p][k] \in Gone <=> transfer[p][k] \in Gone)
      /\ \A j \in Payables \ {k} : transfer'[p][j] = transfer[p][j]
      /\ \A q \in Payments \ {p} : transfer'[q] = transfer[q]
  <2>1. CASE transfer' = transfer
    BY <2>1 DEF IInv, Typed
  <2>2. ASSUME NEW s \in {"requested"} \cup Gone \cup Dead, SetTransfer(p, k, s),
               s \in Gone <=> transfer[p][k] \in Gone
        PROVE <1>3!:
    BY <2>2, OneTransfer DEF IInv
  <2>3. QED
    BY <2>1, <2>2 DEF Claim, Hold, NotPaid, MarkForReview, RetryPayout, Deliver, Gone, Dead
<1>4. OwedLine(p, k)' = OwedLine(p, k) /\ Left(p, k)' = Left(p, k)
  BY <1>1, <1>2, <1>3 DEF OwedLine, Left, Amount
<1>5. Typed' /\ OwedLine(p, k) \in Int /\ Left(p, k) \in Int
  BY <1>1, <1>2, <1>3, Amounts DEF IInv, Typed, OwedLine, Left
<1>6. /\ ledger[p][k] \in Int /\ ledger[p]["PROCESSOR_CLEARING"] \in Int /\ held[p] \in Int
  BY DEF IInv, Typed, AccountTypes
<1>7. QED
  BY <1>1, <1>2, <1>3, <1>4, <1>5, <1>6, PayoutMoves

\* A delivered transfer is entered, or taken back: the ledger moves with the status.
LEMMA PostingKeeps ==
  ASSUME IInv, NEW p \in Payments, NEW k \in Payables, MarkSucceeded(p, k) \/ Reversed(p, k)
  PROVE  IInv'
<1>1. /\ terms' = terms /\ payment' = payment /\ transfer' = transfer /\ held' = held
      /\ status[p][k] # "none"
  BY DEF MarkSucceeded, Reversed, Unpaid, Open
<1>2. /\ Amount(p, k) \in Nat /\ Amount(p, k)' = Amount(p, k)
      /\ ledger[p][k] \in Int /\ ledger[p]["PROCESSOR_CLEARING"] \in Int /\ held[p] \in Int
      /\ \A a \in AccountTypes : ledger[p][a] \in Int
  BY <1>1, Amounts DEF IInv, Typed, AccountTypes, Amount
<1>3. PICK s \in {"SUCCESS", "RETRYING"} :
        /\ SetStatus(p, k, s)
        /\ s = "SUCCESS" => status[p][k] \in Unpaid /\ Post(p, computePayoutEntries(k, Amount(p, k)))
        /\ s = "RETRYING" => status[p][k] = "SUCCESS" /\ Post(p, computePayoutReversalEntries(k, Amount(p, k)))
  BY DEF MarkSucceeded, Reversed
<1>4. /\ status' \in [Payments -> [Payables -> {"none", "SUCCESS"} \cup Unpaid]]
      /\ status'[p][k] = s
      /\ \A j \in Payables \ {k} : status'[p][j] = status[p][j]
      /\ \A q \in Payments \ {p} : status'[q] = status[q]
  BY <1>3, OneStatus DEF IInv, Unpaid, Open
<1>5. PICK n \in Int : n = IF s = "SUCCESS" THEN Amount(p, k) ELSE -Amount(p, k)
  BY <1>2
<1>6. /\ ledger' \in [Payments -> [AccountTypes -> Int]]
      /\ \A a \in AccountTypes :
           ledger'[p][a] = ledger[p][a] + IF a = k THEN n ELSE IF a = "PROCESSOR_CLEARING" THEN -n ELSE 0
      /\ \A q \in Payments \ {p} : ledger'[q] = ledger[q]
  <2>1. CASE s = "SUCCESS"
    BY <1>2, <1>3, <1>5, <2>1, PayoutEntries, Posted DEF IInv
  <2>2. CASE s = "RETRYING"
    BY <1>2, <1>3, <1>5, <2>2, PayoutEntries, Posted DEF IInv
  <2>3. QED
    BY <2>1, <2>2
<1>7. OwedLine(p, k)' - OwedLine(p, k) = n /\ OwedLine(p, k) \in Int /\ OwedLine(p, k)' \in Int
  BY <1>2, <1>3, <1>4, <1>5 DEF OwedLine, Unpaid, Open
<1>8. Left(p, k)' = Left(p, k) /\ Left(p, k) \in Int
  BY <1>1, <1>2 DEF Left
<1>9. /\ ledger'[p][k] = ledger[p][k] + n
      /\ ledger'[p]["PROCESSOR_CLEARING"] = ledger[p]["PROCESSOR_CLEARING"] - n
      /\ \A a \in AccountTypes \ {k, "PROCESSOR_CLEARING"} : ledger'[p][a] = ledger[p][a]
  BY <1>2, <1>6 DEF AccountTypes, Payables
<1>10. Typed'
  BY <1>1, <1>4, <1>6 DEF IInv, Typed
<1>11. /\ ledger'[p][k] = ledger[p][k] + OwedLine(p, k)' - OwedLine(p, k)
       /\ ledger'[p]["PROCESSOR_CLEARING"] =
            ledger[p]["PROCESSOR_CLEARING"] - OwedLine(p, k)' + OwedLine(p, k)
       /\ held'[p] = held[p] - Left(p, k)' + Left(p, k)
  BY <1>1, <1>2, <1>7, <1>8, <1>9
<1>12. status'[p][k] # "none"
  BY <1>4
<1>13. QED
  BY <1>1, <1>4, <1>6, <1>9, <1>10, <1>11, <1>12, PayoutMoves

\* Money leaves the provider, or comes back: its balance moves with the transfer.
LEMMA MoneyKeeps ==
  ASSUME IInv, NEW p \in Payments, NEW k \in Payables,
         NEW x \in Gone \cup {"failed", "bounced"}, SetTransfer(p, k, x),
         x \in Gone => transfer[p][k] = "requested" /\ held' = [held EXCEPT ![p] = held[p] - Amount(p, k)],
         x \notin Gone => transfer[p][k] \in Gone /\ held' = [held EXCEPT ![p] = held[p] + Amount(p, k)],
         UNCHANGED <<terms, payment, ledger, status>>
  PROVE  IInv'
<1>1. /\ Amount(p, k) \in Nat /\ Amount(p, k)' = Amount(p, k) /\ held[p] \in Int
      /\ ledger[p][k] \in Int /\ ledger[p]["PROCESSOR_CLEARING"] \in Int
  <2>1. Amount(p, k) \in Nat
    BY Amounts DEF IInv
  <2>2. Amount(p, k)' = Amount(p, k)
    BY DEF Amount
  <2>3. QED
    BY <2>1, <2>2 DEF IInv, Typed, AccountTypes
<1>2. status[p][k] # "none"
  BY DEF IInv, Typed, PaymentOK, Gone
<1>3. /\ transfer' \in [Payments -> [Payables -> {"requested"} \cup Gone \cup Dead]]
      /\ transfer'[p][k] = x
      /\ \A j \in Payables \ {k} : transfer'[p][j] = transfer[p][j]
      /\ \A q \in Payments \ {p} : transfer'[q] = transfer[q]
  BY OneTransfer DEF IInv, Gone, Dead
<1>4. /\ held' \in [Payments -> Int]
      /\ held'[p] = IF x \in Gone THEN held[p] - Amount(p, k) ELSE held[p] + Amount(p, k)
      /\ \A q \in Payments \ {p} : held'[q] = held[q]
  BY <1>1 DEF IInv, Typed
<1>5. OwedLine(p, k)' = OwedLine(p, k) /\ OwedLine(p, k) \in Int
  BY <1>1 DEF OwedLine
<1>6. held'[p] = held[p] - Left(p, k)' + Left(p, k)
  BY <1>1, <1>3, <1>4 DEF Left, Gone
<1>7. Typed'
  BY <1>3, <1>4 DEF IInv, Typed
<1>8. QED
  BY <1>1, <1>2, <1>3, <1>4, <1>5, <1>6, <1>7, PayoutMoves

\* Every step keeps the invariant.
LEMMA NextInvariant == IInv /\ [Next]_vars => IInv'
<1> SUFFICES ASSUME IInv, [Next]_vars PROVE IInv'
  OBVIOUS
<1>1. CASE UNCHANGED vars
  BY <1>1 DEF vars, IInv, Typed, PaymentOK, OwedLine, Left, Amount
<1>2. CASE Next
  <2>1. ASSUME NEW p \in Payments, Charge(p) \/ Settle(p) PROVE IInv'
    BY <2>1, ChargeKeeps, SettleKeeps
  <2>2. ASSUME NEW p \in Payments, NEW k \in Payables,
               \/ Claim(p, k) \/ Hold(p, k) \/ NotPaid(p, k) \/ MarkForReview(p, k)
               \/ RetryPayout(p, k) \/ Deliver(p, k)
        PROVE  IInv'
    BY <2>2, StatusKeeps
  <2>3. ASSUME NEW p \in Payments, NEW k \in Payables, MarkSucceeded(p, k) \/ Reversed(p, k)
        PROVE  IInv'
    BY <2>3, PostingKeeps
  <2>4. ASSUME NEW p \in Payments, NEW k \in Payables, Land(p, k) PROVE IInv'
    <3>1. CASE SetTransfer(p, k, "none") /\ UNCHANGED held
      BY <2>4, <3>1, StatusKeeps DEF Land
    <3>2. ASSUME NEW x \in Gone, SetTransfer(p, k, x),
                 held' = [held EXCEPT ![p] = held[p] - Amount(p, k)]
          PROVE  IInv'
      BY <2>4, <3>2, MoneyKeeps DEF Land, Gone
    <3>3. QED
      BY <2>4, <3>1, <3>2 DEF Land
  <2>5. ASSUME NEW p \in Payments, NEW k \in Payables, Return(p, k) PROVE IInv'
    <3>1. PICK x \in {"failed", "bounced"} : SetTransfer(p, k, x)
      BY <2>5 DEF Return
    <3>2. QED
      BY <2>5, <3>1, MoneyKeeps DEF Return, Gone
  <2>6. QED
    BY <1>2, <2>1, <2>2, <2>3, <2>4, <2>5 DEF Next
<1>3. QED
  BY <1>1, <1>2

\* Books without a payment satisfy the invariant.
LEMMA InitInvariant == Init => IInv
<1> SUFFICES ASSUME Init PROVE IInv
  OBVIOUS
<1>1. Typed
  BY DEF Init, Typed, Dead
<1>2. \A p \in Payments : PaymentOK(p)
  BY DEF Init, PaymentOK
<1>3. QED
  BY <1>1, <1>2 DEF IInv

-----------------------------------------------------------------------------
(* The theorems *)

\* The books of each payment follow from the state of its payouts.
THEOREM Invariant == Spec => []IInv
<1>1. IInv /\ [Next]_vars => IInv'
  BY NextInvariant
<1>2. Init => IInv
  BY InitInvariant
<1>3. QED
  BY <1>1, <1>2, PTL DEF Spec

\* Type correctness, for any amounts and splits: no payable account goes into debit.
THEOREM TypeCorrect == Spec => []TypeOK
<1>1. IInv => TypeOK
  <2> SUFFICES ASSUME IInv, NEW p \in Payments, NEW k \in Payables PROVE ledger[p][k] <= 0
    BY DEF IInv, Typed, TypeOK
  <2>1. Amount(p, k) \in Nat
    BY Amounts DEF IInv
  <2>2. CASE payment[p] = "settled"
    BY <2>1, <2>2 DEF IInv, PaymentOK, OwedLine
  <2>3. CASE payment[p] # "settled"
    BY <2>3 DEF IInv, PaymentOK, AccountTypes
  <2>4. QED
    BY <2>2, <2>3
<1>2. QED
  BY <1>1, Invariant, PTL

\* Each line is a function of the terms and the payouts, and the lines add up to 0.
LEMMA InvBalances == IInv => BooksBalance
<1> SUFFICES ASSUME IInv, NEW p \in Payments PROVE Imbalance(ledger[p]) = 0
  BY DEF BooksBalance
<1>1. \A a \in AccountTypes : ledger[p][a] \in Int
  BY DEF IInv, Typed
<1>2. CASE payment[p] = "settled"
  <2>1. /\ ledger[p]["ENTERTAINER_PAYABLE"] = OwedLine(p, "ENTERTAINER_PAYABLE")
        /\ ledger[p]["VENUE_PAYABLE"] = OwedLine(p, "VENUE_PAYABLE")
        /\ ledger[p]["PROCESSOR_CLEARING"] =
             -ledger[p]["PLATFORM_REVENUE"] - OwedLine(p, "ENTERTAINER_PAYABLE") - OwedLine(p, "VENUE_PAYABLE")
    BY <1>2 DEF IInv, PaymentOK, Payables
  <2>2. QED
    BY <1>1, <2>1 DEF Imbalance, AccountTypes, Payables
<1>3. CASE payment[p] # "settled"
  BY <1>3 DEF IInv, PaymentOK, Imbalance, AccountTypes, Payables
<1>4. QED
  BY <1>2, <1>3

\* The entries of a payment balance whatever its amount, its split and the history of
\* its payouts: assertBalanced and the database's trigger never refuse a posting.
THEOREM AlwaysBalanced == Spec => []BooksBalance
BY InvBalances, Invariant, PTL

\* A payee's line says what it is owed.
LEMMA InvKeepsLiability == IInv => NothingOwedIsLost
<1> SUFFICES ASSUME IInv, NEW p \in Payments, NEW k \in Payables, payment[p] = "settled"
             PROVE  -ledger[p][k] = IF status[p][k] = "SUCCESS" THEN 0 ELSE Share(terms[p], k)
  BY DEF NothingOwedIsLost
<1>1. ledger[p][k] = OwedLine(p, k) /\ Amount(p, k) \in Nat
  BY Amounts DEF IInv, PaymentOK
<1>2. QED
  BY <1>1 DEF OwedLine, Amount

\* A payee is owed its share exactly while its payout is not SUCCESS, however often
\* transfers fail, bounce and are tried again.
THEOREM LiabilityIsKept == Spec => []NothingOwedIsLost
BY InvKeepsLiability, Invariant, PTL

\* Clearing and the money held differ by the transfers that are not recorded.
LEMMA InvExplains == IInv => BooksExplainTheBalance
<1> SUFFICES ASSUME IInv, NEW p \in Payments, payment[p] = "settled"
             PROVE  held[p] = ledger[p]["PROCESSOR_CLEARING"]
                      + Unrecorded(p, "ENTERTAINER_PAYABLE") + Unrecorded(p, "VENUE_PAYABLE")
  BY DEF BooksExplainTheBalance
<1>1. \A k \in Payables : /\ Unrecorded(p, k) = OwedLine(p, k) + Amount(p, k) - Left(p, k)
                          /\ Amount(p, k) \in Nat /\ OwedLine(p, k) \in Int /\ Left(p, k) \in Int
  BY Amounts DEF IInv, Unrecorded, OwedLine, Left
<1>2. /\ -ledger[p]["PLATFORM_REVENUE"] =
           terms[p].gross - Amount(p, "ENTERTAINER_PAYABLE") - Amount(p, "VENUE_PAYABLE")
      /\ ledger[p]["PROCESSOR_CLEARING"] =
           -ledger[p]["PLATFORM_REVENUE"] - OwedLine(p, "ENTERTAINER_PAYABLE") - OwedLine(p, "VENUE_PAYABLE")
      /\ held[p] = terms[p].gross - Left(p, "ENTERTAINER_PAYABLE") - Left(p, "VENUE_PAYABLE")
  BY DEF IInv, PaymentOK
<1>3. terms[p].gross \in Int /\ held[p] \in Int /\ \A a \in AccountTypes : ledger[p][a] \in Int
  BY Amounts DEF IInv, Typed
<1>4. QED
  BY <1>1, <1>2, <1>3 DEF Payables, AccountTypes

\* What the provider holds is what the ledger's clearing account and the transfers not
\* yet recorded say.
THEOREM BalanceExplained == Spec => []BooksExplainTheBalance
BY InvExplains, Invariant, PTL

\* What is held of a settled payment is the gross less what has left.
LEMMA InvCovers == IInv => ObligationsAreCovered
<1> SUFFICES ASSUME IInv, NEW p \in Payments, payment[p] = "settled"
             PROVE  held[p] = Kept(p, "ENTERTAINER_PAYABLE") + Kept(p, "VENUE_PAYABLE")
                                - ledger[p]["PLATFORM_REVENUE"]
  BY DEF ObligationsAreCovered
<1>1. \A k \in Payables : /\ Amount(p, k) \in Nat /\ Left(p, k) \in Int
                          /\ Kept(p, k) = Amount(p, k) - Left(p, k)
  BY Amounts DEF IInv, Kept, Left
<1>2. /\ -ledger[p]["PLATFORM_REVENUE"] =
           terms[p].gross - Amount(p, "ENTERTAINER_PAYABLE") - Amount(p, "VENUE_PAYABLE")
      /\ held[p] = terms[p].gross - Left(p, "ENTERTAINER_PAYABLE") - Left(p, "VENUE_PAYABLE")
  BY DEF IInv, PaymentOK
<1>3. terms[p].gross \in Int /\ held[p] \in Int /\ ledger[p]["PLATFORM_REVENUE"] \in Int
  <2>1. Typed
    BY DEF IInv
  <2>2. held[p] \in Int /\ ledger[p]["PLATFORM_REVENUE"] \in Int
    BY <2>1 DEF Typed, AccountTypes
  <2>3. terms[p].gross \in Int
    BY <2>1, Amounts
  <2>4. QED
    BY <2>2, <2>3
<1>4. /\ "ENTERTAINER_PAYABLE" \in Payables /\ "VENUE_PAYABLE" \in Payables
  BY DEF Payables
<1>5. /\ Kept(p, "ENTERTAINER_PAYABLE") = Amount(p, "ENTERTAINER_PAYABLE") - Left(p, "ENTERTAINER_PAYABLE")
      /\ Kept(p, "VENUE_PAYABLE") = Amount(p, "VENUE_PAYABLE") - Left(p, "VENUE_PAYABLE")
      /\ Amount(p, "ENTERTAINER_PAYABLE") \in Int /\ Left(p, "ENTERTAINER_PAYABLE") \in Int
      /\ Amount(p, "VENUE_PAYABLE") \in Int /\ Left(p, "VENUE_PAYABLE") \in Int
  BY <1>1, <1>4
<1>6. QED
  BY <1>2, <1>3, <1>5

\* The money for every share that has not left is there, of the same payment, whatever
\* number of transfers of it failed or bounced.
THEOREM AlwaysCovered == Spec => []ObligationsAreCovered
BY InvCovers, Invariant, PTL

\* The shares of a payment leave the platform a part, perhaps none, but no debt.
LEMMA SharesWithinGross ==
  ASSUME Typed, NEW p \in Payments
  PROVE  terms[p].gross - Amount(p, "ENTERTAINER_PAYABLE") - Amount(p, "VENUE_PAYABLE") \in Nat
<1>1. PICK t : t = terms[p] /\ ValidTerms(t)
  BY Amounts
<1>2. applyBasisPoints(t.gross, t.platformBps) \in Nat
  <2>1. t.gross * t.platformBps \in Nat
    BY <1>1, Exact
  <2>2. QED
    BY <2>1, Floor DEF applyBasisPoints
<1>3. t.gross - Share(t, "ENTERTAINER_PAYABLE") - Share(t, "VENUE_PAYABLE") \in
        applyBasisPoints(t.gross, t.platformBps) .. applyBasisPoints(t.gross, t.platformBps) + 2
  BY <1>1, FairShares
<1>4. QED
  BY <1>1, <1>2, <1>3 DEF Amount

\* The platform's part is held, before and after the rest has left.
LEMMA InvKeepsPlatformPart == IInv => PlatformPartStays
<1> SUFFICES ASSUME IInv, NEW p \in Payments
             PROVE  /\ 0 <= -ledger[p]["PLATFORM_REVENUE"]
                    /\ -ledger[p]["PLATFORM_REVENUE"] <= held[p]
  BY DEF PlatformPartStays
<1>1. Typed /\ PaymentOK(p)
  BY DEF IInv
<1>2. CASE payment[p] = "settled"
  <2>1. -ledger[p]["PLATFORM_REVENUE"] =
          terms[p].gross - Amount(p, "ENTERTAINER_PAYABLE") - Amount(p, "VENUE_PAYABLE")
    BY <1>1, <1>2 DEF PaymentOK
  <2>2. -ledger[p]["PLATFORM_REVENUE"] \in Nat
    BY <1>1, <2>1, SharesWithinGross
  <2>3. held[p] = Kept(p, "ENTERTAINER_PAYABLE") + Kept(p, "VENUE_PAYABLE") - ledger[p]["PLATFORM_REVENUE"]
    BY <1>2, InvCovers DEF ObligationsAreCovered
  <2>4. Kept(p, "ENTERTAINER_PAYABLE") \in Nat /\ Kept(p, "VENUE_PAYABLE") \in Nat
    BY <1>1, Amounts DEF Kept, Payables
  <2>5. ledger[p]["PLATFORM_REVENUE"] \in Int
    BY <1>1 DEF Typed, AccountTypes
  <2>6. QED
    BY <2>2, <2>3, <2>4, <2>5
<1>3. CASE payment[p] # "settled"
  <2>1. ledger[p]["PLATFORM_REVENUE"] = 0
    BY <1>1, <1>3 DEF PaymentOK, AccountTypes
  <2>2. held[p] \in Nat
    <3>1. terms[p].gross \in Nat
      BY <1>1, Amounts
    <3>2. payment[p] \in {"pending", "charged"}
      BY <1>1, <1>3 DEF Typed
    <3>3. QED
      BY <1>1, <3>1, <3>2 DEF PaymentOK
  <2>3. QED
    BY <2>1, <2>2
<1>4. QED
  BY <1>2, <1>3

\* The provider is never asked for more of a payment than its payees' shares, and the
\* platform's part is there whatever happens to their transfers.
THEOREM PlatformPartIsKept == Spec => []PlatformPartStays
BY InvKeepsPlatformPart, Invariant, PTL

\* Shares are fair, and the platform has what is left of the gross.
LEMMA InvIsFair == IInv => SharesAreFair
<1> SUFFICES ASSUME IInv, NEW p \in Payments, payment[p] = "settled"
             PROVE  /\ terms[p].hasEntertainer =>
                         /\ RoundsDown(terms[p], terms[p].entertainerBps, Amount(p, "ENTERTAINER_PAYABLE"))
                         /\ RoundsDown(terms[p], terms[p].venueBps, Amount(p, "VENUE_PAYABLE"))
                    /\ ~terms[p].hasEntertainer =>
                         /\ Amount(p, "ENTERTAINER_PAYABLE") = 0
                         /\ RoundsDown(terms[p], terms[p].entertainerBps + terms[p].venueBps,
                                       Amount(p, "VENUE_PAYABLE"))
                    /\ -ledger[p]["PLATFORM_REVENUE"] \in
                         applyBasisPoints(terms[p].gross, terms[p].platformBps) ..
                           applyBasisPoints(terms[p].gross, terms[p].platformBps) + 2
  BY DEF SharesAreFair
<1>1. PICK t : t = terms[p] /\ ValidTerms(t)
  BY Amounts DEF IInv
<1>2. /\ \A k \in Payables : RoundsDown(t, BpsOf(t, k), Amount(p, k))
      /\ -ledger[p]["PLATFORM_REVENUE"] \in
           applyBasisPoints(t.gross, t.platformBps) .. applyBasisPoints(t.gross, t.platformBps) + 2
  BY <1>1, FairShares DEF IInv, PaymentOK, RoundsDown, Amount
<1>3. CASE t.hasEntertainer
  BY <1>1, <1>2, <1>3 DEF BpsOf, Payables
<1>4. CASE ~t.hasEntertainer
  <2>1. /\ BpsOf(t, "ENTERTAINER_PAYABLE") = 0
        /\ BpsOf(t, "VENUE_PAYABLE") = t.entertainerBps + t.venueBps
    BY <1>1, <1>4 DEF BpsOf, ValidTerms
  <2>2. Amount(p, "ENTERTAINER_PAYABLE") = 0
    BY <1>1, <2>1, BasisPointsAssumption DEF Amount, Share, applyBasisPoints, ValidTerms
  <2>3. QED
    BY <1>1, <1>2, <1>4, <2>1, <2>2 DEF Payables
<1>5. QED
  BY <1>3, <1>4

\* No rounding favours a payee, and the platform gains at most 2 kobo of it.
THEOREM FairDivision == Spec => []SharesAreFair
BY InvIsFair, Invariant, PTL

\* Books that settlement has just left satisfy the invariant.
LEMMA SettledStart ==
  ASSUME TypeOK, \A p \in Payments : JustSettled(p)
  PROVE  IInv
<1>1. Typed
  BY DEF TypeOK, Typed
<1>2. ASSUME NEW p \in Payments
      PROVE  PaymentOK(p)
  <2>1. JustSettled(p)
    OBVIOUS
  <2>2. /\ payment[p] = "settled" /\ ledger[p] = computePaymentEntries(terms[p])
        /\ held[p] = terms[p].gross
        /\ \A k \in Payables : /\ status[p][k] = IF Amount(p, k) > 0 THEN "QUEUED" ELSE "none"
                              /\ transfer[p][k] = "none"
    BY <2>1 DEF JustSettled
  <2>3. /\ terms[p].gross \in Nat /\ held[p] \in Int
        /\ \A k \in Payables : Amount(p, k) \in Nat
    BY <1>1, Amounts DEF Typed
  <2>4. \A k \in Payables : OwedLine(p, k) = -Amount(p, k) /\ Left(p, k) = 0
    BY <2>2 DEF OwedLine, Left, Gone
  <2>5. \A k \in Payables : status[p][k] = "none" => Amount(p, k) = 0 /\ transfer[p][k] = "none"
    BY <2>2, <2>3
  <2>6. /\ \A k \in Payables : ledger[p][k] = -Amount(p, k)
        /\ -ledger[p]["PLATFORM_REVENUE"] =
             terms[p].gross - Amount(p, "ENTERTAINER_PAYABLE") - Amount(p, "VENUE_PAYABLE")
        /\ ledger[p]["PROCESSOR_CLEARING"] = terms[p].gross
    BY <2>2, <2>3 DEF computePaymentEntries, Amount, AccountTypes, Payables
  <2>7. QED
    BY <2>2, <2>3, <2>4, <2>5, <2>6 DEF PaymentOK, Payables
<1>3. QED
  BY <1>1, <1>2 DEF IInv

\* Books that begin with payments just settled keep every promise from there on: what
\* payouts do with the books needs nothing of how settlement came to write them.
THEOREM SettledBooksAreKept ==
  /\ TypeOK /\ \A p \in Payments : JustSettled(p)
  /\ [][Next]_vars
  => [](BooksBalance /\ NothingOwedIsLost /\ BooksExplainTheBalance
          /\ ObligationsAreCovered /\ PlatformPartStays /\ SharesAreFair)
<1>1. TypeOK /\ (\A p \in Payments : JustSettled(p)) => IInv
  BY SettledStart
<1>2. IInv /\ [Next]_vars => IInv'
  BY NextInvariant
<1>3. IInv => BooksBalance /\ NothingOwedIsLost /\ BooksExplainTheBalance
                /\ ObligationsAreCovered /\ PlatformPartStays /\ SharesAreFair
  BY InvBalances, InvKeepsLiability, InvExplains, InvCovers, InvKeepsPlatformPart, InvIsFair
<1>4. QED
  BY <1>1, <1>2, <1>3, PTL

-----------------------------------------------------------------------------
(* Earnings: what an account was credited *)

CreditsOK ==
  /\ here \in SUBSET Payments
  /\ credits \in [Payments -> [Payables -> Int]]
  /\ bounces \in [Payments -> [Payables -> Nat]]
  /\ CreditsExplained
  /\ \A p \in Payments : \A k \in Payables : payment[p] # "settled" => bounces[p][k] = 0

EarningsInv == IInv /\ CreditsOK

\* A step of the books keeps the amounts, unsettles nothing, settles a payment with no
\* payout paid, and takes SUCCESS back only towards RETRYING.
LEMMA BookSteps ==
  ASSUME IInv, Next, NEW p \in Payments, NEW k \in Payables
  PROVE  /\ terms' = terms
         /\ payment[p] = "settled" => payment'[p] = "settled"
         /\ payment[p] # "settled" /\ payment'[p] = "settled" => status'[p][k] # "SUCCESS"
         /\ status[p][k] = "SUCCESS" /\ status'[p][k] # "SUCCESS" => status'[p][k] = "RETRYING"
<1>1. ASSUME NEW q \in Payments, Charge(q)
      PROVE  /\ terms' = terms /\ status' = status
             /\ payment[p] = "settled" => payment'[p] = "settled"
             /\ payment'[p] = "settled" => payment[p] = "settled"
  BY <1>1 DEF Charge, IInv, Typed
<1>2. ASSUME NEW q \in Payments, Settle(q)
      PROVE  /\ terms' = terms
             /\ payment[p] = "settled" => payment'[p] = "settled"
             /\ payment[p] # "settled" /\ payment'[p] = "settled" => status'[p][k] # "SUCCESS"
             /\ payment[p] = "settled" => status'[p] = status[p]
             /\ status'[p][k] # status[p][k] => status[p][k] = "none"
  <2>1. terms' = terms /\ payment[q] = "charged"
        /\ payment' = [payment EXCEPT ![q] = "settled"]
    BY <1>2 DEF Settle
  <2>2. CASE p = q
    <3>1. status'[p][k] \in {"QUEUED", "none"}
      BY <1>2, <2>2 DEF Settle, IInv, Typed
    <3>2. status[p][k] = "none"
      BY <2>1, <2>2 DEF IInv, PaymentOK
    <3>3. QED
      BY <2>1, <2>2, <3>1, <3>2 DEF IInv, Typed
  <2>3. CASE p # q
    BY <1>2, <2>1, <2>3 DEF Settle, IInv, Typed
  <2>4. QED
    BY <2>2, <2>3
<1>3. ASSUME NEW q \in Payments, NEW j \in Payables,
             \/ Claim(q, j) \/ Hold(q, j) \/ MarkSucceeded(q, j) \/ Reversed(q, j)
             \/ NotPaid(q, j) \/ MarkForReview(q, j) \/ RetryPayout(q, j)
      PROVE  /\ terms' = terms /\ payment' = payment
             /\ status[p][k] = "SUCCESS" /\ status'[p][k] # "SUCCESS" => status'[p][k] = "RETRYING"
  <2>1. terms' = terms /\ payment' = payment
    BY <1>3 DEF Claim, Hold, MarkSucceeded, Reversed, NotPaid, MarkForReview, RetryPayout
  <2>2. PICK s \in {"SUCCESS"} \cup Unpaid :
          SetStatus(q, j, s) /\ (status[q][j] = "SUCCESS" => s = "RETRYING")
    BY <1>3 DEF Claim, Hold, MarkSucceeded, Reversed, NotPaid, MarkForReview, RetryPayout, Unpaid, Open
  <2>3. /\ status'[q][j] = s
        /\ \A i \in Payables \ {j} : status'[q][i] = status[q][i]
        /\ \A r \in Payments \ {q} : status'[r] = status[r]
    BY <2>2, OneStatus DEF IInv
  <2>4. QED
    BY <2>1, <2>2, <2>3
<1>4. ASSUME NEW q \in Payments, NEW j \in Payables, Land(q, j) \/ Deliver(q, j) \/ Return(q, j)
      PROVE  terms' = terms /\ payment' = payment /\ status' = status
  BY <1>4 DEF Land, Deliver, Return
<1>5. QED
  BY <1>1, <1>2, <1>3, <1>4 DEF Next

\* The balance of a payable account, which says what a step credits.
LEMMA Balance ==
  ASSUME IInv, NEW p \in Payments, NEW k \in Payables
  PROVE  /\ Amount(p, k) \in Nat
         /\ ledger[p][k] =
              IF payment[p] = "settled" /\ status[p][k] # "SUCCESS" THEN -Amount(p, k) ELSE 0
<1>1. Amount(p, k) \in Nat /\ k \in AccountTypes
  BY Amounts DEF IInv, AccountTypes
<1>2. QED
  BY <1>1 DEF IInv, PaymentOK, OwedLine

\* A step of the books keeps what the dashboard's sums rest on.
LEMMA EarningsKeep ==
  ASSUME EarningsInv, EarningsNext
  PROVE  EarningsInv'
<1>1. IInv /\ IInv' /\ Next
  BY NextInvariant DEF EarningsInv, EarningsNext
<1>2. ASSUME NEW p \in Payments, NEW k \in Payables
      PROVE  /\ credits'[p][k] = credits[p][k] + Credited(p, k) /\ Credited(p, k) \in Int
             /\ bounces'[p][k] = IF TakenBack(p, k) THEN bounces[p][k] + 1 ELSE bounces[p][k]
             /\ credits'[p][k] = IF payment'[p] = "settled"
                                 THEN Amount(p, k)' + bounces'[p][k] * Amount(p, k)' ELSE 0
             /\ payment'[p] # "settled" => bounces'[p][k] = 0
  <2>1. /\ credits'[p][k] = credits[p][k] + Credited(p, k)
        /\ bounces'[p][k] = IF TakenBack(p, k) THEN bounces[p][k] + 1 ELSE bounces[p][k]
    BY DEF EarningsNext
  <2>2. /\ Amount(p, k) \in Nat /\ Amount(p, k)' = Amount(p, k)
        /\ ledger[p][k] =
             IF payment[p] = "settled" /\ status[p][k] # "SUCCESS" THEN -Amount(p, k) ELSE 0
        /\ ledger'[p][k] =
             IF payment'[p] = "settled" /\ status'[p][k] # "SUCCESS" THEN -Amount(p, k) ELSE 0
    <3>1. terms' = terms
      BY <1>1, BookSteps
    <3>2. Amount(p, k)' = Amount(p, k)
      BY <3>1 DEF Amount
    <3>3. /\ Amount(p, k) \in Nat
          /\ ledger[p][k] =
               IF payment[p] = "settled" /\ status[p][k] # "SUCCESS" THEN -Amount(p, k) ELSE 0
      BY <1>1, Balance
    <3>4. ledger'[p][k] =
            IF payment'[p] = "settled" /\ status'[p][k] # "SUCCESS" THEN -Amount(p, k)' ELSE 0
      BY <1>1 DEF IInv, PaymentOK, OwedLine, AccountTypes
    <3>5. QED
      BY <3>2, <3>3, <3>4
  <2>3. PICK n \in Nat, b \in Nat, m \in Int :
          /\ n = Amount(p, k) /\ b = bounces[p][k] /\ m = b * n
          /\ credits[p][k] = IF payment[p] = "settled" THEN n + m ELSE 0
          /\ (b + 1) * n = m + n
    <3>1. bounces[p][k] \in Nat /\ Amount(p, k) \in Nat
      BY <2>2 DEF EarningsInv, CreditsOK
    <3>2. PICK n \in Nat, b \in Nat : n = Amount(p, k) /\ b = bounces[p][k]
      BY <3>1
    <3>3. b * n \in Int /\ (b + 1) * n = b * n + n
      BY <3>2
    <3>4. credits[p][k] = IF payment[p] = "settled" THEN n + b * n ELSE 0
      BY <3>2 DEF EarningsInv, CreditsOK, CreditsExplained
    <3>5. QED
      BY <3>2, <3>3, <3>4
  <2>4. /\ payment[p] = "settled" => payment'[p] = "settled"
        /\ payment[p] # "settled" /\ payment'[p] = "settled" => status'[p][k] # "SUCCESS"
        /\ status[p][k] = "SUCCESS" /\ status'[p][k] # "SUCCESS" => status'[p][k] = "RETRYING"
        /\ payment[p] # "settled" => status[p][k] # "SUCCESS"
    BY <1>1, BookSteps DEF IInv, PaymentOK
  <2>5. Credited(p, k) = IF ledger'[p][k] < ledger[p][k] THEN ledger[p][k] - ledger'[p][k] ELSE 0
    BY DEF Credited
  <2>6. TakenBack(p, k) <=> status[p][k] = "SUCCESS" /\ status'[p][k] # "SUCCESS"
    BY <2>4 DEF TakenBack
  <2>7. CASE payment[p] # "settled"
    <3>1. ~TakenBack(p, k) /\ credits[p][k] = 0 /\ ledger[p][k] = 0
      BY <2>2, <2>3, <2>4, <2>6, <2>7
    <3>2. CASE payment'[p] # "settled"
      BY <2>1, <2>2, <2>5, <2>7, <3>1, <3>2 DEF EarningsInv, CreditsOK
    <3>3. CASE payment'[p] = "settled"
      <4>1. b = 0 /\ m = 0 /\ bounces'[p][k] = b
        BY <2>1, <2>3, <2>7, <3>1 DEF EarningsInv, CreditsOK
      <4>2. Credited(p, k) = n
        BY <2>2, <2>3, <2>4, <2>5, <2>7, <3>1, <3>3
      <4>3. bounces'[p][k] * Amount(p, k)' = 0 /\ Amount(p, k)' = n
        BY <2>2, <2>3, <4>1
      <4>4. credits'[p][k] = n /\ Credited(p, k) \in Int
        BY <2>1, <2>3, <3>1, <4>2
      <4>5. PICK z \in Int : z = bounces'[p][k] * Amount(p, k)' /\ z = 0
        BY <4>3
      <4>6. Amount(p, k)' + z = n
        BY <2>3, <4>3, <4>5
      <4>7. QED
        BY <2>1, <3>3, <4>4, <4>5, <4>6
    <3>4. QED
      BY <3>2, <3>3
  <2>8. CASE payment[p] = "settled" /\ TakenBack(p, k)
    <3>1. Credited(p, k) = n /\ bounces'[p][k] = b + 1
      BY <2>1, <2>2, <2>3, <2>4, <2>5, <2>6, <2>8
    <3>2. QED
      BY <2>1, <2>2, <2>3, <2>4, <2>8, <3>1
  <2>9. CASE payment[p] = "settled" /\ ~TakenBack(p, k)
    <3>1. Credited(p, k) = 0 /\ bounces'[p][k] = b
      BY <2>1, <2>2, <2>3, <2>4, <2>5, <2>6, <2>9
    <3>2. QED
      BY <2>1, <2>2, <2>3, <2>4, <2>9, <3>1
  <2>10. QED
    BY <2>7, <2>8, <2>9
<1>3. CreditsOK'
  <2>1. /\ credits' \in [Payments -> [Payables -> Int]]
        /\ bounces' \in [Payments -> [Payables -> Nat]]
    BY <1>2 DEF EarningsNext, EarningsInv, CreditsOK
  <2>2. here' \in SUBSET Payments
    BY DEF EarningsNext, EarningsInv, CreditsOK
  <2>3. QED
    BY <1>2, <2>1, <2>2 DEF CreditsOK, CreditsExplained
<1>4. QED
  BY <1>1, <1>3 DEF EarningsInv

\* What the dashboard's sums rest on holds always.
LEMMA EarningsInvariant == EarningsSpec => []EarningsInv
<1>1. EarningsInit => EarningsInv
  <2>1. EarningsInit => IInv
    BY InitInvariant DEF EarningsInit
  <2>2. EarningsInit => CreditsOK
    BY DEF EarningsInit, Init, CreditsOK, CreditsExplained
  <2>3. QED
    BY <2>1, <2>2 DEF EarningsInv
<1>2. EarningsInv /\ UNCHANGED earningsVars => EarningsInv'
  <2> SUFFICES ASSUME EarningsInv, UNCHANGED earningsVars
               PROVE  EarningsInv'
    OBVIOUS
  <2>1. IInv'
    BY NextInvariant DEF EarningsInv, earningsVars
  <2>2. CreditsOK'
    BY DEF EarningsInv, CreditsOK, CreditsExplained, earningsVars, vars, Amount
  <2>3. QED
    BY <2>1, <2>2 DEF EarningsInv
<1>3. QED
  BY <1>1, <1>2, EarningsKeep, PTL DEF EarningsSpec

\* What an account was credited, for every number of payments and of bounces.
THEOREM CreditsAreExplained == EarningsSpec => []CreditsExplained
<1>1. EarningsInv => CreditsExplained
  BY DEF EarningsInv, CreditsOK
<1>2. QED
  BY <1>1, EarningsInvariant, PTL

\* Earnings are the entertainer's own share as long as no payout of theirs was taken back: the
\* bounces are all that adds income which is not a tip.
THEOREM EarningsUntilABounce ==
  EarningsSpec =>
    []((\A p \in Payments : bounces[p]["ENTERTAINER_PAYABLE"] = 0) => EarningsAreTheShare)
<1>1. ASSUME EarningsInv, \A p \in Payments : bounces[p]["ENTERTAINER_PAYABLE"] = 0
      PROVE  EarningsAreTheShare
  <2>1. ASSUME NEW p \in Payments
        PROVE  credits[p]["ENTERTAINER_PAYABLE"] =
                 IF payment[p] = "settled" THEN Amount(p, "ENTERTAINER_PAYABLE") ELSE 0
    <3>1. "ENTERTAINER_PAYABLE" \in Payables
      BY DEF Payables
    <3>2. Amount(p, "ENTERTAINER_PAYABLE") \in Nat
      BY <1>1, <3>1, Balance DEF EarningsInv
    <3>3. bounces[p]["ENTERTAINER_PAYABLE"] * Amount(p, "ENTERTAINER_PAYABLE") = 0
      BY <1>1, <3>2
    <3>4. credits[p]["ENTERTAINER_PAYABLE"] =
            IF payment[p] = "settled"
            THEN Amount(p, "ENTERTAINER_PAYABLE")
                   + bounces[p]["ENTERTAINER_PAYABLE"] * Amount(p, "ENTERTAINER_PAYABLE")
            ELSE 0
      BY <1>1, <3>1, Zenon DEF EarningsInv, CreditsOK, CreditsExplained
    <3>5. QED
      BY <3>2, <3>3, <3>4
  <2>2. ASSUME NEW S \in SUBSET Payments
        PROVE  SumCredits(S) = Shares(S, "ENTERTAINER_PAYABLE")
    <3>1. [p \in S |-> credits[p]["ENTERTAINER_PAYABLE"]]
            = [p \in S |-> IF payment[p] = "settled" THEN Amount(p, "ENTERTAINER_PAYABLE") ELSE 0]
      BY <2>1
    <3>2. QED
      BY <3>1 DEF SumCredits, Shares
  <2>3. Payments \in SUBSET Payments /\ here \in SUBSET Payments
    BY <1>1 DEF EarningsInv, CreditsOK
  <2>4. QED
    BY <2>2, <2>3 DEF EarningsAreTheShare, TotalKobo, EarningsHere
<1>2. QED
  BY <1>1, EarningsInvariant, PTL

-----------------------------------------------------------------------------
(* The dashboard: what is shown as pending and as paid out *)

\* The sums of figures that add up payment by payment add up.
LEMMA Figures ==
  ASSUME NEW S \in SUBSET Payments,
         NEW f \in [S -> Int], NEW g \in [S -> Int], NEW h \in [S -> Int],
         \A p \in S : h[p] = f[p] + g[p]
  PROVE  /\ SumFunction(f) \in Int /\ SumFunction(g) \in Int /\ SumFunction(h) \in Int
         /\ SumFunction(f) + SumFunction(g) = SumFunction(h)
<1>1. IsFiniteSet(S)
  BY FS_Subset, PaymentsAssumption
<1>2. /\ SumFunctionOnSet(f, S) \in Int /\ SumFunctionOnSet(g, S) \in Int
      /\ SumFunctionOnSet(h, S) = SumFunctionOnSet(f, S) + SumFunctionOnSet(g, S)
  BY <1>1, Sums
<1>3. QED
  BY <1>2 DEF SumFunction

\* Payouts that are neither paid nor unsettled are pending, or in review; together they are
\* what the ledger owes.
LEMMA PendingAndReview ==
  ASSUME IInv, NEW S \in SUBSET Payments, NEW k \in Payables
  PROVE  /\ SumPayouts(S, k, OpenPayoutStatuses) \in Int
         /\ InReview(S, k) \in Int /\ Owed(S, k) \in Int
         /\ SumPayouts(S, k, OpenPayoutStatuses) + InReview(S, k) = Owed(S, k)
<1> DEFINE f == [p \in S |-> IF status[p][k] \in OpenPayoutStatuses THEN Amount(p, k) ELSE 0]
           g == [p \in S |-> IF status[p][k] \in {"FAILED"} THEN Amount(p, k) ELSE 0]
           h == [p \in S |-> -ledger[p][k]]
<1>1. ASSUME NEW p \in S PROVE f[p] \in Int /\ g[p] \in Int /\ h[p] = f[p] + g[p]
  <2>1. /\ Amount(p, k) \in Nat
        /\ ledger[p][k] =
             IF payment[p] = "settled" /\ status[p][k] # "SUCCESS" THEN -Amount(p, k) ELSE 0
    BY Balance
  <2>2. /\ status[p][k] \in {"none", "SUCCESS", "FAILED"} \cup OpenPayoutStatuses
        /\ payment[p] # "settled" => status[p][k] = "none"
        /\ payment[p] = "settled" /\ status[p][k] = "none" => Amount(p, k) = 0
    BY DEF IInv, Typed, PaymentOK, Unpaid, Open, OpenPayoutStatuses
  <2>3. QED
    BY <2>1, <2>2 DEF OpenPayoutStatuses
<1>2. /\ SumPayouts(S, k, OpenPayoutStatuses) = SumFunction(f)
      /\ InReview(S, k) = SumFunction(g) /\ Owed(S, k) = SumFunction(h)
  BY DEF SumPayouts, InReview, Owed
<1>3. f \in [S -> Int] /\ g \in [S -> Int] /\ h \in [S -> Int]
  BY <1>1
<1>4. \A p \in S : h[p] = f[p] + g[p]
  BY <1>1
<1> HIDE DEF f, g, h
<1>5. /\ SumFunction(f) \in Int /\ SumFunction(g) \in Int /\ SumFunction(h) \in Int
      /\ SumFunction(f) + SumFunction(g) = SumFunction(h)
  BY <1>3, <1>4, Figures
<1>6. QED
  BY <1>2, <1>5

\* A settled share is paid out, or owed.
LEMMA PaidAndOwed ==
  ASSUME IInv, NEW S \in SUBSET Payments, NEW k \in Payables
  PROVE  SumPayouts(S, k, {"SUCCESS"}) + Owed(S, k) = Shares(S, k)
<1> DEFINE f == [p \in S |-> IF status[p][k] \in {"SUCCESS"} THEN Amount(p, k) ELSE 0]
           g == [p \in S |-> -ledger[p][k]]
           h == [p \in S |-> IF payment[p] = "settled" THEN Amount(p, k) ELSE 0]
<1>1. ASSUME NEW p \in S PROVE f[p] \in Int /\ g[p] \in Int /\ h[p] = f[p] + g[p]
  <2>1. /\ Amount(p, k) \in Nat
        /\ ledger[p][k] =
             IF payment[p] = "settled" /\ status[p][k] # "SUCCESS" THEN -Amount(p, k) ELSE 0
    BY Balance
  <2>2. payment[p] # "settled" => status[p][k] = "none"
    BY DEF IInv, PaymentOK
  <2>3. QED
    BY <2>1, <2>2
<1>2. /\ SumPayouts(S, k, {"SUCCESS"}) = SumFunction(f)
      /\ Owed(S, k) = SumFunction(g) /\ Shares(S, k) = SumFunction(h)
  BY DEF SumPayouts, Owed, Shares
<1>3. f \in [S -> Int] /\ g \in [S -> Int] /\ h \in [S -> Int]
  BY <1>1
<1>4. \A p \in S : h[p] = f[p] + g[p]
  BY <1>1
<1> HIDE DEF f, g, h
<1>5. /\ SumFunction(f) \in Int /\ SumFunction(g) \in Int /\ SumFunction(h) \in Int
      /\ SumFunction(f) + SumFunction(g) = SumFunction(h)
  BY <1>3, <1>4, Figures
<1>6. QED
  BY <1>2, <1>5

\* The figures read from the payout rows are right by the ledger, for every number of
\* payments, whichever of them were made at the venue, and whatever became of their payouts.
THEOREM PendingIsWhatIsOwed == Spec => []PendingIsOwed
<1>1. ASSUME IInv PROVE PendingIsOwed
  <2>1. /\ Payments \in SUBSET Payments
        /\ "ENTERTAINER_PAYABLE" \in Payables /\ "VENUE_PAYABLE" \in Payables
    BY DEF Payables
  <2>2. PendingPayoutsKobo + InReview(Payments, "ENTERTAINER_PAYABLE")
          = Owed(Payments, "ENTERTAINER_PAYABLE")
    BY <1>1, <2>1, PendingAndReview DEF PendingPayoutsKobo
  <2>3. PaidOutKobo + Owed(Payments, "ENTERTAINER_PAYABLE") = Shares(Payments, "ENTERTAINER_PAYABLE")
    BY <1>1, <2>1, PaidAndOwed DEF PaidOutKobo
  <2>4. ASSUME NEW S \in SUBSET Payments
        PROVE  /\ OwnPendingPayoutsKobo(S) + InReview(S, "VENUE_PAYABLE") = Owed(S, "VENUE_PAYABLE")
               /\ VenuePendingPayoutsKobo(S) + InReview(S, "VENUE_PAYABLE")
                    + InReview(S, "ENTERTAINER_PAYABLE")
                      = Owed(S, "VENUE_PAYABLE") + Owed(S, "ENTERTAINER_PAYABLE")
               /\ OwnPaidOutKobo(S) + Owed(S, "VENUE_PAYABLE") = Shares(S, "VENUE_PAYABLE")
    <3>1. OwnPendingPayoutsKobo(S) + InReview(S, "VENUE_PAYABLE") = Owed(S, "VENUE_PAYABLE")
      BY <1>1, <2>1, PendingAndReview DEF OwnPendingPayoutsKobo
    <3>2. VenuePendingPayoutsKobo(S) + InReview(S, "VENUE_PAYABLE")
            + InReview(S, "ENTERTAINER_PAYABLE")
              = Owed(S, "VENUE_PAYABLE") + Owed(S, "ENTERTAINER_PAYABLE")
      BY <1>1, <2>1, PendingAndReview DEF VenuePendingPayoutsKobo, OwnPendingPayoutsKobo
    <3>3. OwnPaidOutKobo(S) + Owed(S, "VENUE_PAYABLE") = Shares(S, "VENUE_PAYABLE")
      BY <1>1, <2>1, PaidAndOwed DEF OwnPaidOutKobo
    <3>4. QED
      BY <3>1, <3>2, <3>3
  <2>5. QED
    BY <2>2, <2>3, <2>4 DEF PendingIsOwed
<1>2. QED
  BY <1>1, Invariant, PTL

-----------------------------------------------------------------------------
(* The windows *)

\* An instant is counted as tonight's by exactly the questions asked on its own Lagos day:
\* days are whole, start at a multiple of 24 hours in Lagos, and neither lose nor share an
\* instant at midnight, before 1970 included.
THEOREM NightsPartitionTime ==
  ASSUME NEW paid \in Int, NEW now \in Int, paid <= now
  PROVE  /\ lagosDayStart(paid) <= paid /\ paid < lagosDayStart(paid) + Day
         /\ (lagosDayStart(now) + LagosOffset) % Day = 0
         /\ paid \in tonight(now) <=> lagosDayStart(paid) = lagosDayStart(now)
         /\ paid \in thisWeek(now) <=> lagosDayStart(paid) >= lagosDayStart(now) - 6 * Day
<1> DEFINE d(t) == (t + LagosOffset) \div Day
<1>1. ASSUME NEW t \in Int
      PROVE  /\ d(t) \in Int /\ d(t) * Day <= t + LagosOffset /\ t + LagosOffset < d(t) * Day + Day
             /\ lagosDayStart(t) = d(t) * Day - LagosOffset
  BY SMT DEF Day, LagosOffset, lagosDayStart
<1>2. PICK m \in Int, n \in Int : m = d(paid) /\ n = d(now)
  BY <1>1
<1>3. /\ m * Day <= paid + LagosOffset /\ paid + LagosOffset < m * Day + Day
      /\ n * Day <= now + LagosOffset /\ now + LagosOffset < n * Day + Day
      /\ lagosDayStart(paid) = m * Day - LagosOffset /\ lagosDayStart(now) = n * Day - LagosOffset
  BY <1>1, <1>2
<1> HIDE DEF d
<1>4. lagosDayStart(paid) <= paid /\ paid < lagosDayStart(paid) + Day
  BY <1>2, <1>3, SMT DEF Day, LagosOffset
<1>5. (lagosDayStart(now) + LagosOffset) % Day = 0
  <2>1. (n * Day) % Day = 0
    BY <1>2, SMT DEF Day
  <2>2. QED
    BY <1>2, <1>3, <2>1, SMT DEF Day, LagosOffset
<1>6. paid \in tonight(now) <=> lagosDayStart(paid) = lagosDayStart(now)
  <2>1. paid \in tonight(now) <=> lagosDayStart(now) <= paid
    BY <1>2, <1>3, SMT DEF tonight, Day, LagosOffset
  <2>2. lagosDayStart(now) <= paid => n <= m
    BY <1>2, <1>3, SMT DEF Day, LagosOffset
  <2>3. m <= n
    BY <1>2, <1>3, SMT DEF Day, LagosOffset
  <2>4. m = n => lagosDayStart(now) <= paid
    BY <1>2, <1>3, SMT DEF Day, LagosOffset
  <2>5. /\ m = n => lagosDayStart(paid) = lagosDayStart(now)
        /\ lagosDayStart(paid) = lagosDayStart(now) => lagosDayStart(now) <= paid
    BY <1>3, <1>4
  <2>6. n <= m /\ m <= n => m = n
    BY <1>2, SMT
  <2>7. QED
    BY <2>1, <2>2, <2>3, <2>4, <2>5, <2>6
<1>7. paid \in thisWeek(now) <=> lagosDayStart(paid) >= lagosDayStart(now) - 6 * Day
  BY <1>2, <1>3, SMT DEF thisWeek, Day, LagosOffset
<1>8. QED
  BY <1>4, <1>5, <1>6, <1>7

-----------------------------------------------------------------------------
(* The reconciliation report *)

\* A figure is a number.
LEMMA FigureIsInt ==
  ASSUME NEW S \in SUBSET Payments, NEW f \in [S -> Int]
  PROVE  SumFunction(f) \in Int
<1> DEFINE h == [p \in S |-> f[p] + f[p]]
<1>1. h \in [S -> Int] /\ \A p \in S : h[p] = f[p] + f[p]
  OBVIOUS
<1> HIDE DEF h
<1>2. QED
  BY <1>1, Figures

\* Entries that balance payment by payment balance in all.
LEMMA SumOfZeroes ==
  ASSUME NEW f \in [Payments -> Int], \A p \in Payments : f[p] = 0
  PROVE  SumFunction(f) = 0
<1>1. /\ SumFunction(f) \in Int
      /\ SumFunction(f) + SumFunction(f) = SumFunction(f)
  BY Figures
<1>2. \A x \in Int : x + x = x => x = 0
  OBVIOUS
<1>3. QED
  BY <1>1, <1>2, Zenon

\* h is what f and g come to, payment by payment.
AddsUp(f, g, h) ==
  /\ f \in [Payments -> Int] /\ g \in [Payments -> Int] /\ h \in [Payments -> Int]
  /\ \A p \in Payments : h[p] = f[p] + g[p]

\* Figures that add up payment by payment add up in all.
LEMMA FiguresAdd ==
  ASSUME NEW f, NEW g, NEW h, AddsUp(f, g, h)
  PROVE  /\ SumFunction(f) \in Int /\ SumFunction(g) \in Int
         /\ SumFunction(f) + SumFunction(g) = SumFunction(h)
BY Figures DEF AddsUp

\* What the job reads are numbers, and its trial balance is right.
LEMMA Readings ==
  ASSUME IInv
  PROVE  /\ TrialBalanced
         /\ Clearing \in Int /\ InFlightKobo \in Int /\ ProviderBalance \in Int
<1> DEFINE f == [p \in Payments |-> Imbalance(ledger[p])]
           g == [p \in Payments |-> OnItsWay(p, "ENTERTAINER_PAYABLE") + OnItsWay(p, "VENUE_PAYABLE")]
           h == [p \in Payments |-> ledger[p]["PROCESSOR_CLEARING"]]
<1>1. f \in [Payments -> Int] /\ \A p \in Payments : f[p] = 0
  BY InvBalances DEF BooksBalance
<1>2. g \in [Payments -> Int] /\ h \in [Payments -> Int] /\ held \in [Payments -> Int]
  <2>1. \A p \in Payments, k \in Payables : OnItsWay(p, k) \in Int
    BY Amounts DEF IInv, OnItsWay
  <2>2. h \in [Payments -> Int] /\ held \in [Payments -> Int]
    BY DEF IInv, Typed, AccountTypes
  <2>3. QED
    BY <2>1, <2>2 DEF Payables
<1>3. /\ TrialBalanced <=> SumFunction(f) = 0
      /\ InFlightKobo = SumFunction(g) /\ Clearing = SumFunction(h) /\ ProviderBalance = SumFunction(held)
  BY DEF TrialBalanced, InFlightKobo, Clearing, ProviderBalance
<1> HIDE DEF f, g, h
<1>4. Payments \in SUBSET Payments
  OBVIOUS
<1>5. SumFunction(f) = 0
  BY <1>1, SumOfZeroes
<1>6. SumFunction(g) \in Int /\ SumFunction(h) \in Int /\ SumFunction(held) \in Int
  BY <1>2, <1>4, FigureIsInt
<1>7. QED
  BY <1>3, <1>5, <1>6

\* The books, and a report whose trial balance was right.
Reports ==
  [pc : {"idle", "clearing", "inFlight", "balance", "done"}, trialBalanced : BOOLEAN,
   clearing : Int, inFlight : Int, drift : Int]

ReportInv == IInv /\ report \in Reports /\ report.trialBalanced

\* A report that has read nothing is one.
LEMMA NoReportIsOne == NoReport \in Reports /\ NoReport.trialBalanced
BY DEF NoReport, Reports

\* No report finds books that do not balance.
LEMMA ReportInvariant == SpecReport => []ReportInv
<1>1. InitReport => ReportInv
  BY InitInvariant, NoReportIsOne DEF InitReport, ReportInv
<1>2. ReportInv /\ [NextReport]_reportVars => ReportInv'
  <2> SUFFICES ASSUME ReportInv, [NextReport]_reportVars PROVE ReportInv'
    OBVIOUS
  <2>1. IInv'
    BY NextInvariant DEF NextReport, reportVars, ReportInv
  <2>2. /\ TrialBalanced
        /\ Clearing \in Int /\ InFlightKobo \in Int /\ ProviderBalance \in Int
    BY Readings DEF ReportInv
  <2>3. CASE UNCHANGED report
    BY <2>1, <2>3 DEF ReportInv
  <2>4. CASE ReadTrialBalance
    <3>1. PICK b \in BOOLEAN : b = TrialBalanced /\ b
      BY <2>2 DEF TrialBalanced
    <3>2. report' = [NoReport EXCEPT !.pc = "clearing", !.trialBalanced = b]
      BY <2>4, <3>1 DEF ReadTrialBalance
    <3>3. report' \in Reports /\ report'.trialBalanced
      BY <3>1, <3>2, NoReportIsOne DEF Reports
    <3>4. QED
      BY <2>1, <3>3 DEF ReportInv
  <2>5. CASE ReadClearing
    BY <2>1, <2>2, <2>5 DEF ReportInv, Reports, ReadClearing
  <2>6. CASE ReadInFlight
    BY <2>1, <2>2, <2>6 DEF ReportInv, Reports, ReadInFlight
  <2>7. CASE ReadProviderBalance
    <3>1. report.clearing \in Int /\ report.inFlight \in Int
      BY DEF ReportInv, Reports
    <3>2. PICK d \in Int : d = ProviderBalance - (report.clearing - report.inFlight)
      BY <2>2, <3>1
    <3>3. report' = [report EXCEPT !.pc = "done", !.drift = d]
      BY <2>7, <3>2 DEF ReadProviderBalance
    <3>4. report' \in Reports /\ report'.trialBalanced
      BY <3>3 DEF ReportInv, Reports
    <3>5. QED
      BY <2>1, <3>4 DEF ReportInv
  <2>8. CASE EndReport \/ ReadFails
    BY <2>1, <2>8, NoReportIsOne DEF ReportInv, EndReport, ReadFails
  <2>9. QED
    BY <2>3, <2>4, <2>5, <2>6, <2>7, <2>8 DEF NextReport, reportVars, Run
<1>3. QED
  BY <1>1, <1>2, PTL DEF SpecReport

\* getTrialBalance is told that the books balance whenever it asks: no report ever finds the
\* ledger out of balance.
THEOREM TrialAlwaysBalances == SpecReport => [](TrialBalanced /\ report.trialBalanced)
<1>1. ReportInv => TrialBalanced /\ report.trialBalanced
  BY Readings DEF ReportInv
<1>2. QED
  BY <1>1, ReportInvariant, PTL

\* At every moment the provider holds what the ledger's clearing accounts say less what is
\* counted as in flight, and what is in between.
LEMMA BalanceOfAll ==
  ASSUME IInv
  PROVE  /\ InBetween \in Int
         /\ ProviderBalance = Clearing - InFlightKobo + InBetween
<1> DEFINE b == [p \in Payments |-> Between(p)]
           g == [p \in Payments |-> OnItsWay(p, "ENTERTAINER_PAYABLE") + OnItsWay(p, "VENUE_PAYABLE")]
           h == [p \in Payments |-> ledger[p]["PROCESSOR_CLEARING"]]
           s == [p \in Payments |-> held[p] + g[p]]
<1>1. ASSUME NEW p \in Payments
      PROVE  /\ held[p] \in Int /\ g[p] \in Int /\ h[p] \in Int /\ b[p] \in Int
             /\ s[p] = b[p] + h[p] /\ s[p] = held[p] + g[p]
  <2>1. /\ held[p] \in Int /\ h[p] \in Int /\ terms[p].gross \in Int
        /\ \A k \in Payables : Amount(p, k) \in Nat
    <3>1. Typed
      BY DEF IInv
    <3>2. held[p] \in Int /\ h[p] \in Int
      BY <3>1 DEF Typed, AccountTypes
    <3>3. terms[p].gross \in Int /\ \A k \in Payables : Amount(p, k) \in Nat
      BY <3>1, Amounts
    <3>4. QED
      BY <3>2, <3>3
  <2>2. \A k \in Payables : OnItsWay(p, k) \in Int /\ Unrecorded(p, k) \in Int
    BY <2>1 DEF OnItsWay, Unrecorded
  <2>3. CASE payment[p] = "settled"
    <3>1. held[p] = h[p] + Unrecorded(p, "ENTERTAINER_PAYABLE") + Unrecorded(p, "VENUE_PAYABLE")
      BY <2>3, InvExplains DEF BooksExplainTheBalance
    <3>2. QED
      BY <2>1, <2>2, <2>3, <3>1 DEF Between, Payables
  <2>4. CASE payment[p] # "settled"
    <3>1. /\ h[p] = 0 /\ \A k \in Payables : status[p][k] = "none" /\ transfer[p][k] = "none"
          /\ held[p] = IF payment[p] = "charged" THEN terms[p].gross ELSE 0
      BY <2>4 DEF IInv, Typed, PaymentOK, AccountTypes
    <3>2. \A k \in Payables : OnItsWay(p, k) = 0 /\ Unrecorded(p, k) = 0
      BY <3>1 DEF OnItsWay, InFlight, Unrecorded, Gone
    <3>3. QED
      BY <2>1, <3>1, <3>2 DEF Between, Payables
  <2>5. QED
    BY <2>3, <2>4
<1>2. /\ InBetween = SumFunction(b) /\ InFlightKobo = SumFunction(g)
      /\ Clearing = SumFunction(h) /\ ProviderBalance = SumFunction(held)
  BY DEF InBetween, InFlightKobo, Clearing, ProviderBalance
<1>3. /\ b \in [Payments -> Int] /\ g \in [Payments -> Int]
      /\ h \in [Payments -> Int] /\ s \in [Payments -> Int]
  BY <1>1
<1>4. PICK f \in [Payments -> Int] : f = held
  BY DEF IInv, Typed
<1>5. AddsUp(b, h, s) /\ AddsUp(f, g, s)
  <2> HIDE DEF b, g, h, s
  <2>1. AddsUp(b, h, s)
    BY <1>1, <1>3 DEF AddsUp
  <2>2. AddsUp(f, g, s)
    BY <1>1, <1>3, <1>4 DEF AddsUp
  <2>3. QED
    BY <2>1, <2>2
<1> HIDE DEF b, g, h, s
<1>6. /\ SumFunction(b) \in Int /\ SumFunction(h) \in Int
      /\ SumFunction(b) + SumFunction(h) = SumFunction(s)
  BY <1>5, FiguresAdd
<1>7. /\ SumFunction(f) \in Int /\ SumFunction(g) \in Int
      /\ SumFunction(f) + SumFunction(g) = SumFunction(s)
  BY <1>5, FiguresAdd
<1>8. QED
  BY <1>2, <1>4, <1>6, <1>7

\* What is reported as the drift.
LEMMA ReportedDrift ==
  ASSUME ReportInv, ReadProviderBalance
  PROVE  report'.drift = ProviderBalance - (report.clearing - report.inFlight)
BY DEF ReportInv, Reports, ReadProviderBalance

\* The drift is accounted for to the kobo, for every number of payments and however much
\* money moves while the report is written: a charge not settled yet, a transfer not recorded
\* yet or bounced since, a payout counted as in flight that is not, and what changed after
\* the job had read it.  No drift is left that would mean a kobo entered twice or never.
THEOREM EveryDriftIsExplained == SpecReport => DriftIsExplained
<1>1. ReportInv /\ [NextReport]_reportVars =>
        [ReadProviderBalance =>
           report'.drift = InBetween + (Clearing - report.clearing)
                                     - (InFlightKobo - report.inFlight)]_reportVars
  <2> SUFFICES ASSUME ReportInv, ReadProviderBalance
               PROVE  report'.drift = InBetween + (Clearing - report.clearing)
                                                - (InFlightKobo - report.inFlight)
    BY Zenon
  <2>1. report'.drift = ProviderBalance - (report.clearing - report.inFlight)
    BY ReportedDrift
  <2>2. /\ Clearing \in Int /\ InFlightKobo \in Int /\ InBetween \in Int
        /\ ProviderBalance = Clearing - InFlightKobo + InBetween
    BY Readings, BalanceOfAll DEF ReportInv
  <2>3. report.clearing \in Int /\ report.inFlight \in Int
    BY DEF ReportInv, Reports
  <2>4. QED
    BY <2>1, <2>2, <2>3
<1>2. SpecReport => [][NextReport]_reportVars
  BY PTL DEF SpecReport
<1>3. QED
  BY <1>1, <1>2, ReportInvariant, PTL DEF DriftIsExplained

\* A report of books at rest shows no drift, for every number of payments: what each holds
\* at the provider is its clearing account less what is on its way, and so are the sums.
THEOREM ReportIsExact == SpecReport => QuietReportIsExact
<1>1. ASSUME IInv, Settled
      PROVE  InBetween = 0
  <2> DEFINE b == [p \in Payments |-> Between(p)]
  <2>1. ASSUME NEW p \in Payments
        PROVE  Between(p) = 0
    <3>1. \A k \in Payables : Amount(p, k) \in Nat
      BY <1>1, Amounts DEF IInv
    <3>2. \A k \in Payables : OnItsWay(p, k) = IF Debited(p, k) THEN Amount(p, k) ELSE 0
      BY <1>1 DEF Settled, OnItsWay, InFlight
    <3>3. \A k \in Payables : Unrecorded(p, k) = IF Debited(p, k) THEN -Amount(p, k) ELSE 0
      BY <1>1 DEF Settled, Debited, Unrecorded, Gone
    <3>4. payment[p] # "charged"
      BY <1>1 DEF Settled
    <3>5. QED
      BY <3>1, <3>2, <3>3, <3>4 DEF Between, Payables
  <2>2. b \in [Payments -> Int] /\ \A p \in Payments : b[p] = 0
    BY <2>1
  <2>3. InBetween = SumFunction(b)
    BY DEF InBetween
  <2> HIDE DEF b
  <2>4. QED
    BY <2>2, <2>3, SumOfZeroes
<1>2. ReportInv /\ [NextReport]_reportVars =>
        [ReadProviderBalance /\ Settled /\ report.clearing = Clearing /\ report.inFlight = InFlightKobo
           => report'.drift = 0]_reportVars
  <2> SUFFICES ASSUME ReportInv, ReadProviderBalance, Settled,
                      report.clearing = Clearing, report.inFlight = InFlightKobo
               PROVE  report'.drift = 0
    BY Zenon
  <2>1. report'.drift = ProviderBalance - (report.clearing - report.inFlight)
    BY ReportedDrift
  <2>2. /\ Clearing \in Int /\ InFlightKobo \in Int
        /\ ProviderBalance = Clearing - InFlightKobo + 0
    BY <1>1, Readings, BalanceOfAll DEF ReportInv
  <2>3. QED
    BY <2>1, <2>2
<1>3. SpecReport => [][NextReport]_reportVars
  BY PTL DEF SpecReport
<1>4. QED
  BY <1>2, <1>3, ReportInvariant, PTL DEF QuietReportIsExact

=============================================================================
