-------------------------- MODULE Outside_proofs --------------------------
(***************************************************************************)
(* What holds of the program towards the world outside, for every set of   *)
(* agents, recipients, operators, callers and collectors, every stock of a *)
(* provider, every plan of a journey and every limit: a publisher is       *)
(* contacted once in a cooldown, a collection that says it is complete is, *)
(* a write overwrites what was reviewed and a receipt is true, a request   *)
(* is attributed to the step that sent it and every drained event is       *)
(* accounted for, a resumed run has every profile, a regression is told,   *)
(* an envelope carries what the server answered, and a budget is overrun   *)
(* by less than the collectors.                                            *)
(***************************************************************************)
EXTENDS Outside, FiniteSetTheorems, TLAPS

-----------------------------------------------------------------------------
(***************************************************************************)
(* Sequences of whatever, and the ranks of the numbers in a finite set.    *)
(***************************************************************************)
IsSeq(s) == \E S : s \in Seq(S)

LEMMA SeqGrows ==
  ASSUME NEW s, IsSeq(s), NEW e
  PROVE  /\ IsSeq(Append(s, e)) /\ Len(Append(s, e)) = Len(s) + 1 /\ Len(s) \in Nat
         /\ Append(s, e)[Len(s) + 1] = e
         /\ \A i \in 1..Len(s) : Append(s, e)[i] = s[i]
<1>1. PICK S : s \in Seq(S)
  BY DEF IsSeq
<1>2. s \in Seq(S \cup {e}) /\ e \in S \cup {e}
  BY <1>1
<1>3. Append(s, e) \in Seq(S \cup {e})
  BY <1>2
<1> QED BY <1>1, <1>2, <1>3 DEF IsSeq

LEMMA JoinedAll ==
  ASSUME NEW p, IsSeq(p), NEW q, IsSeq(q), NEW w, w = p \o q
  PROVE  /\ IsSeq(w) /\ Len(w) = Len(p) + Len(q) /\ Len(p) \in Nat /\ Len(q) \in Nat
         /\ \A j \in 1..Len(p) : j \in 1..Len(w) /\ w[j] = p[j]
         /\ \A j \in 1..Len(q) : Len(p) + j \in 1..Len(w) /\ w[Len(p) + j] = q[j]
<1>1. PICK P, Q : p \in Seq(P) /\ q \in Seq(Q)
  BY DEF IsSeq
<1>2. p \in Seq(P \cup Q) /\ q \in Seq(P \cup Q)
  BY <1>1
<1>3. w \in Seq(P \cup Q)
  BY <1>2
<1>4. \A j \in 1..Len(p) : j \in 1..Len(w) /\ w[j] = p[j]
  BY <1>2
<1>5. \A j \in 1..Len(q) : Len(p) + j \in 1..Len(w) /\ w[Len(p) + j] = q[j]
  BY <1>2
<1> QED BY <1>2, <1>3, <1>4, <1>5 DEF IsSeq

LEMMA Joined ==
  ASSUME NEW p, IsSeq(p), NEW q, IsSeq(q), NEW w, w = p \o q
  PROVE  IsSeq(w) /\ Len(w) = Len(p) + Len(q) /\ Len(p) \in Nat /\ Len(q) \in Nat
BY JoinedAll

LEMMA LeftOf ==
  ASSUME NEW p, IsSeq(p), NEW q, IsSeq(q), NEW w, w = p \o q, NEW j \in 1..Len(p)
  PROVE  j \in 1..Len(w) /\ w[j] = p[j]
BY JoinedAll

LEMMA RightOf ==
  ASSUME NEW p, IsSeq(p), NEW q, IsSeq(q), NEW w, w = p \o q, NEW j \in 1..Len(q)
  PROVE  Len(p) + j \in 1..Len(w) /\ w[Len(p) + j] = q[j]
BY JoinedAll

LEMMA JoinedCases ==
  ASSUME NEW p, IsSeq(p), NEW q, IsSeq(q), NEW w, w = p \o q, NEW i \in 1..Len(w)
  PROVE  \/ i \in 1..Len(p) /\ w[i] = p[i]
         \/ \E j \in 1..Len(q) : i = Len(p) + j /\ w[i] = q[j]
<1>1. Len(w) = Len(p) + Len(q) /\ Len(p) \in Nat /\ Len(q) \in Nat
  BY Joined
<1>2. CASE i <= Len(p)
  BY <1>1, <1>2, LeftOf
<1>3. CASE i > Len(p)
  <2> DEFINE j == i - Len(p)
  <2>1. j \in 1..Len(q) /\ i = Len(p) + j
    BY <1>1, <1>3
  <2> HIDE DEF j
  <2>2. w[Len(p) + j] = q[j]
    BY <2>1, RightOf
  <2> QED BY <2>1, <2>2
<1> QED BY <1>1, <1>2, <1>3

LEMMA UpTo ==
  ASSUME NEW n \in Nat
  PROVE  /\ IsFiniteSet(1..n) /\ Cardinality(1..n) = n
         /\ \A T \in SUBSET (1..n) : /\ T \in SUBSET Nat /\ IsFiniteSet(T)
                                    /\ Cardinality(T) \in Nat /\ Cardinality(T) <= n
<1>1. IsFiniteSet(1..n) /\ Cardinality(1..n) = n
  BY FS_Interval
<1>2. ASSUME NEW T \in SUBSET (1..n)
      PROVE  T \in SUBSET Nat /\ IsFiniteSet(T) /\ Cardinality(T) \in Nat /\ Cardinality(T) <= n
  <2>1. T \in SUBSET Nat
    OBVIOUS
  <2>2. IsFiniteSet(T) /\ Cardinality(T) <= n
    BY <1>1, FS_Subset
  <2> QED BY <2>1, <2>2, FS_CardinalityType
<1> QED BY <1>1, <1>2

\* In a finite set of numbers fewer are below a smaller one.
LEMMA Ranks ==
  ASSUME NEW S \in SUBSET Nat, IsFiniteSet(S), NEW i \in S
  PROVE  /\ Cardinality({x \in S : x < i}) \in Nat
         /\ Cardinality({x \in S : x < i}) < Cardinality(S)
         /\ \A j \in S : i < j => Cardinality({x \in S : x < i}) < Cardinality({x \in S : x < j})
<1> DEFINE below == {x \in S : x < i}
<1>0. IsFiniteSet(below) /\ Cardinality(below) \in Nat /\ Cardinality(S) \in Nat /\ i \notin below
  BY FS_Subset, FS_CardinalityType
<1>1. IsFiniteSet(below \cup {i}) /\ Cardinality(below \cup {i}) = Cardinality(below) + 1
  BY <1>0, FS_AddElement
<1>2. ASSUME NEW T \in SUBSET S, below \cup {i} \subseteq T PROVE Cardinality(below) < Cardinality(T)
  <2>1. IsFiniteSet(T) /\ Cardinality(T) \in Nat
    BY FS_Subset, FS_CardinalityType
  <2>2. Cardinality(below \cup {i}) <= Cardinality(T)
    BY <1>2, <2>1, FS_Subset
  <2> QED BY <1>0, <1>1, <2>1, <2>2
<1>3. Cardinality(below) < Cardinality(S)
  BY <1>2
<1>4. ASSUME NEW j \in S, i < j PROVE Cardinality(below) < Cardinality({x \in S : x < j})
  <2>1. below \cup {i} \subseteq {x \in S : x < j}
    <3>1. ASSUME NEW x \in S, x < i PROVE x < j
      BY <1>4, <3>1
    <3> QED BY <1>4, <3>1
  <2> QED BY <1>2, <2>1
<1> QED BY <1>0, <1>3, <1>4

LEMMA Below ==
  ASSUME NEW n \in Nat, n > 0
  PROVE  IsFiniteSet(0..(n - 1)) /\ Cardinality(0..(n - 1)) = n
<1>1. n - 1 \in Int /\ ~(0 > n - 1) /\ (n - 1) - 0 + 1 = n
  OBVIOUS
<1> QED BY <1>1, FS_Interval

\* The ranks are all the numbers below the number of elements.
LEMMA RanksAreAll ==
  ASSUME NEW S \in SUBSET Nat, IsFiniteSet(S), NEW k \in Nat, k < Cardinality(S)
  PROVE  \E i \in S : Cardinality({x \in S : x < i}) = k
<1> DEFINE n == Cardinality(S)
           T == 0..(n - 1)
           f == [i \in S |-> Cardinality({x \in S : x < i})]
<1>1. n \in Nat /\ n > 0
  BY FS_CardinalityType
<1>2. IsFiniteSet(T) /\ Cardinality(T) = n
  <2> HIDE DEF n
  <2> QED BY <1>1, Below
<1>3. \A i \in S : f[i] = Cardinality({x \in S : x < i}) /\ f[i] \in T
  <2> TAKE i \in S
  <2>1. /\ Cardinality({x \in S : x < i}) \in Nat
        /\ Cardinality({x \in S : x < i}) < Cardinality(S)
    BY Ranks
  <2> QED BY <1>1, <2>1
<1>4. \A i, j \in S : i < j => f[i] < f[j]
  BY <1>3, Ranks
<1>5. f \in [S -> T]
  BY <1>3
<1> HIDE DEF f, T, n
<1>6. ASSUME NEW i \in S, NEW j \in S, f[i] = f[j] PROVE i = j
  <2>0. i \in Nat /\ j \in Nat /\ f[i] \in T /\ f[j] \in T
    BY <1>5
  <2>1. i \in Nat /\ j \in Nat /\ f[i] \in Int /\ f[j] \in Int
    BY <2>0 DEF T
  <2>2. ~(i < j) /\ ~(j < i)
    BY <1>4, <1>6, <2>1
  <2> QED BY <2>1, <2>2
<1>7. f \in Injection(S, T)
  BY <1>5, <1>6 DEF Injection, IsInjective
<1>8. f \in Surjection(S, T)
  BY <1>2, <1>7, FS_Injection DEF n
<1>9. k \in T
  BY <1>1 DEF T, n
<1>10. \E i \in S : f[i] = k
  BY <1>8, <1>9 DEF Surjection
<1> QED BY <1>3, <1>10

LEMMA GreatestNumber ==
  ASSUME NEW S \in SUBSET Nat, IsFiniteSet(S), S # {}
  PROVE  \E i \in S : \A j \in S : j <= i
<1>1. Cardinality(S) \in Nat /\ Cardinality(S) # 0
  BY FS_CardinalityType, FS_EmptySet
<1>2. PICK i \in S : Cardinality({x \in S : x < i}) = Cardinality(S) - 1
  <2>1. Cardinality(S) - 1 \in Nat /\ Cardinality(S) - 1 < Cardinality(S)
    BY <1>1
  <2> QED BY <2>1, RanksAreAll
<1>3. ASSUME NEW j \in S, i < j PROVE FALSE
  <2>1. Cardinality({x \in S : x < i}) < Cardinality({x \in S : x < j})
    BY <1>3, Ranks
  <2>2. Cardinality({x \in S : x < j}) < Cardinality(S) /\ Cardinality({x \in S : x < j}) \in Nat
    BY Ranks
  <2> QED BY <1>1, <1>2, <2>1, <2>2
<1>4. \A j \in S : j \in Nat /\ ~(i < j)
  BY <1>3
<1> QED BY <1>4

-----------------------------------------------------------------------------
(***************************************************************************)
(* The budget of collections.  The counters alone are not inductive: what  *)
(* is under way will be counted, so Committed adds it to each count.  An   *)
(* authorization finds a count below its limit and at most the other       *)
(* collectors at work; a recording moves one request from the work under   *)
(* way to the count.  A count that starts beyond its limit stays.          *)
(***************************************************************************)
\* The collectors at work for something are some of the collectors.
LEMMA Workers ==
  ASSUME NEW W \in SUBSET Collectors
  PROVE  /\ IsFiniteSet(W) /\ Cardinality(W) \in Nat
         /\ Cardinality(Collectors) \in Nat
         /\ Cardinality(W) <= Cardinality(Collectors)
BY BudgetAssumption, FS_Subset, FS_CardinalityType

\* With a collector to spare, the ones at work are fewer.
LEMMA Spare ==
  ASSUME NEW W \in SUBSET Collectors, NEW c \in Collectors, c \notin W
  PROVE  /\ Cardinality(W \cup {c}) = Cardinality(W) + 1
         /\ Cardinality(W) + 1 <= Cardinality(Collectors)
<1>1. W \cup {c} \in SUBSET Collectors OBVIOUS
<1>2. Cardinality(W \cup {c}) = Cardinality(W) + 1
  BY Workers, FS_AddElement
<1> QED BY <1>1, <1>2, Workers

LEMMA Leaves ==
  ASSUME NEW W \in SUBSET Collectors, NEW c \in W
  PROVE  Cardinality(W \ {c}) = Cardinality(W) - 1
BY Workers, FS_RemoveElement

LEMMA SlackType == Slack \in Nat
<1>1. Cardinality(Collectors) \in Nat /\ Cardinality(Collectors) # 0
  BY BudgetAssumption, FS_CardinalityType, FS_EmptySet
<1> QED BY <1>1 DEF Slack

\* One collector's change of what it is about, seen from a set of workers.
LEMMA Counts ==
  ASSUME NEW count \in Nat, NEW configured, NEW limit \in Nat,
         NEW W \in SUBSET Collectors, NEW V \in SUBSET Collectors, NEW c \in Collectors,
         Held(count, configured, limit, W)
  PROVE  /\ V = W => Held(count, configured, limit, V)
         /\ c \in W /\ V = W \ {c} => Held(count + 1, configured, limit, V)
         /\ c \in W /\ V = W \ {c} => Held(count, configured, limit, V)
         /\ c \notin W /\ V = W \cup {c} /\ count + 1 <= limit => Held(count, configured, limit, V)
<1>0. Slack \in Nat /\ Cardinality(W) \in Nat /\ Cardinality(V) \in Nat
  BY SlackType, Workers
<1>1. c \in W /\ V = W \ {c} => Cardinality(V) = Cardinality(W) - 1
  BY Leaves
<1>2. c \notin W /\ V = W \cup {c} => Cardinality(V) <= Slack + 1
  <2>1. Cardinality(V) <= Cardinality(Collectors) /\ Cardinality(Collectors) \in Nat
    BY Workers
  <2> QED BY <2>1, <1>0 DEF Slack
<1>3. V = W => Cardinality(V) = Cardinality(W) OBVIOUS
<1>4. c \in W => count + Cardinality(W) <= limit + Slack
  BY DEF Held
<1> QED BY <1>0, <1>1, <1>2, <1>3, <1>4 DEF Held

-----------------------------------------------------------------------------
\* Every state has well-typed counters and collectors
\* (the fields of SerpBudgetManager).
THEOREM BudgetTypeCorrect == BudgetSpec => []BudgetTypeOK
<1>1. BudgetInit => BudgetTypeOK
  BY BudgetAssumption DEF BudgetInit, BudgetTypeOK
<1>2. BudgetTypeOK /\ [BudgetNext]_budgetVars => BudgetTypeOK'
  <2> SUFFICES ASSUME BudgetTypeOK, [BudgetNext]_budgetVars PROVE BudgetTypeOK' OBVIOUS
  <2>1. ASSUME NEW c \in Collectors, NEW q \in Queries, NEW s \in Suppliers, NEW e \in Costs,
               AuthorizeCollection(c, q, s, e)
        PROVE  BudgetTypeOK'
    BY <2>1 DEF BudgetTypeOK, AuthorizeCollection
  <2>2. ASSUME NEW c \in Collectors, NEW a \in Costs, RecordUsage(c, a)
        PROVE  BudgetTypeOK'
    <3>1. a \in Nat BY BudgetAssumption
    <3>2. requests' \in Nat /\ cost' \in Nat BY <2>2, <3>1 DEF BudgetTypeOK, RecordUsage
    <3>q. PICK q \in Queries, s \in Suppliers : collecting[c] = Collection(q, s)
      BY <2>2 DEF BudgetTypeOK, RecordUsage, Resting
    <3>3. queryCount' \in [Queries -> Nat]
      <4>1. queryCount' = [queryCount EXCEPT ![q] = @ + 1] BY <2>2, <3>q DEF RecordUsage, Collection
      <4> QED BY <4>1 DEF BudgetTypeOK
    <3>4. supplierUsage' \in [Accounts -> [requests : Nat, cost : Nat]]
      <4>1. supplierUsage' = [supplierUsage EXCEPT ![LowerCase[s]] = [requests |-> @.requests + 1, cost |-> @.cost + a]]
        BY <2>2, <3>q DEF RecordUsage, Collection
      <4>2. LowerCase[s] \in Accounts /\ supplierUsage[LowerCase[s]] \in [requests : Nat, cost : Nat]
        BY DEF BudgetTypeOK, Accounts
      <4> QED BY <4>1, <4>2, <3>1 DEF BudgetTypeOK
    <3>5. collecting' \in [Collectors -> {Resting} \cup {Collection(p, r) : p \in Queries, r \in Suppliers}]
      BY <2>2 DEF BudgetTypeOK, RecordUsage
    <3> QED BY <3>2, <3>3, <3>4, <3>5 DEF BudgetTypeOK
  <2>3. ASSUME NEW c \in Collectors, CollectionFails(c) PROVE BudgetTypeOK'
    BY <2>3 DEF BudgetTypeOK, CollectionFails
  <2>4. CASE UNCHANGED budgetVars BY <2>4 DEF BudgetTypeOK, budgetVars
  <2> QED BY <2>1, <2>2, <2>3, <2>4 DEF BudgetNext
<1> QED BY <1>1, <1>2, PTL DEF BudgetSpec

-----------------------------------------------------------------------------
\* What each step does to the collectors at work.
LEMMA Taken ==
  ASSUME BudgetTypeOK, NEW c \in Collectors, NEW q \in Queries, NEW s \in Suppliers,
         collecting' = [collecting EXCEPT ![c] = Collection(q, s)], ~collecting[c].on
  PROVE  /\ c \notin Busy /\ Busy' = Busy \cup {c}
         /\ \A p \in Queries : c \notin AsksOf(p) /\ AsksOf(p)' = IF p = q THEN AsksOf(p) \cup {c} ELSE AsksOf(p)
         /\ \A p : c \notin AsksFrom(p) /\ AsksFrom(p)' = IF p = LowerCase[s] THEN AsksFrom(p) \cup {c} ELSE AsksFrom(p)
BY DEF BudgetTypeOK, Busy, AsksOf, AsksFrom, Collection

LEMMA Released ==
  ASSUME BudgetTypeOK, NEW c \in Collectors, collecting' = [collecting EXCEPT ![c] = Resting], collecting[c].on
  PROVE  /\ c \in Busy /\ Busy' = Busy \ {c}
         /\ collecting[c].query \in Queries /\ collecting[c].supplier \in Suppliers
         /\ \A p \in Queries : IF p = collecting[c].query THEN c \in AsksOf(p) /\ AsksOf(p)' = AsksOf(p) \ {c}
                               ELSE AsksOf(p)' = AsksOf(p)
         /\ \A p : IF p = LowerCase[collecting[c].supplier] THEN c \in AsksFrom(p) /\ AsksFrom(p)' = AsksFrom(p) \ {c}
                    ELSE AsksFrom(p)' = AsksFrom(p)
<1>1. PICK q \in Queries, s \in Suppliers : collecting[c] = Collection(q, s)
  BY DEF BudgetTypeOK, Resting
<1> QED BY <1>1 DEF BudgetTypeOK, Busy, AsksOf, AsksFrom, Resting, Collection

\* What is under way counts already (Committed, the inductive invariant), so a
\* count passes a limit that is enforced by less than the collectors, or is the
\* configured one (authorizeCollection and recordUsage).
THEOREM Overrun == BudgetSpec => [](Committed /\ OverrunIsBounded)
<1>1. BudgetInit => Committed
  <2> SUFFICES ASSUME BudgetInit PROVE Committed OBVIOUS
  <2>1. Busy = {} /\ (\A q : AsksOf(q) = {}) /\ (\A p : AsksFrom(p) = {})
    BY DEF BudgetInit, Busy, AsksOf, AsksFrom, Resting
  <2>2. \A count \in Nat, limit \in Nat : Held(count, count, limit, {})
    <3>1. Cardinality({}) = 0 BY FS_EmptySet
    <3> QED BY <3>1, SlackType DEF Held
  <2>3. \A p \in Enforced : SupplierLimits[p].requests \in Nat /\ Usage.suppliers[p].requests \in Nat
    BY BudgetAssumption DEF Enforced
  <2>4. Held(requests, Usage.requests, RequestLimit, Busy)
    BY <2>1, <2>2, BudgetAssumption DEF BudgetInit
  <2>5. ASSUME NEW q \in Queries PROVE Held(queryCount[q], Usage.queryCount[q], QueryLimit, AsksOf(q))
    <3>1. queryCount[q] = Usage.queryCount[q] /\ Usage.queryCount[q] \in Nat
      BY BudgetAssumption DEF BudgetInit
    <3> QED BY <3>1, <2>1, <2>2, BudgetAssumption
  <2>6. ASSUME NEW p \in Enforced
        PROVE  Held(supplierUsage[p].requests, Usage.suppliers[p].requests, SupplierLimits[p].requests, AsksFrom(p))
    <3>1. supplierUsage[p].requests = Usage.suppliers[p].requests
      BY DEF BudgetInit
    <3> QED BY <3>1, <2>1, <2>2, <2>3
  <2> QED BY <2>4, <2>5, <2>6 DEF Committed
<1>2. BudgetTypeOK /\ Committed /\ [BudgetNext]_budgetVars => Committed'
  <2> SUFFICES ASSUME BudgetTypeOK, Committed, [BudgetNext]_budgetVars PROVE Committed' OBVIOUS
  <2>0. /\ Busy \in SUBSET Collectors /\ Busy' \in SUBSET Collectors
        /\ \A q : AsksOf(q) \in SUBSET Collectors /\ AsksOf(q)' \in SUBSET Collectors
        /\ \A s : AsksFrom(s) \in SUBSET Collectors /\ AsksFrom(s)' \in SUBSET Collectors
    BY DEF Busy, AsksOf, AsksFrom
  <2>b. \A p \in Enforced : p \in Accounts /\ SupplierLimits[p].requests \in Nat
    BY BudgetAssumption DEF Enforced
  <2>1. ASSUME NEW c \in Collectors, NEW q \in Queries, NEW s \in Suppliers, NEW e \in Costs,
               AuthorizeCollection(c, q, s, e)
        PROVE  Committed'
    <3>0. /\ collecting' = [collecting EXCEPT ![c] = Collection(q, s)] /\ ~collecting[c].on
          /\ requests' = requests /\ queryCount' = queryCount /\ supplierUsage' = supplierUsage
          /\ requests + 1 <= RequestLimit /\ queryCount[q] + 1 <= QueryLimit
          /\ LowerCase[s] \in DOMAIN SupplierLimits =>
               supplierUsage[LowerCase[s]].requests + 1 <= SupplierLimits[LowerCase[s]].requests
      BY <2>1 DEF AuthorizeCollection, WithinProject, WithinQuery, WithinSupplier
    <3>1. Held(requests', Usage.requests, RequestLimit, Busy')
      <4>1. requests \in Nat /\ Held(requests, Usage.requests, RequestLimit, Busy)
        BY DEF Committed, BudgetTypeOK
      <4>2. c \notin Busy /\ Busy' = Busy \cup {c}
        BY <3>0, Taken
      <4> QED BY <4>1, <4>2, <3>0, <2>0, Counts, BudgetAssumption
    <3>2. ASSUME NEW p \in Queries PROVE Held(queryCount'[p], Usage.queryCount[p], QueryLimit, AsksOf(p)')
      <4>1. queryCount[p] \in Nat /\ Held(queryCount[p], Usage.queryCount[p], QueryLimit, AsksOf(p))
        BY DEF Committed, BudgetTypeOK
      <4>2. \/ AsksOf(p)' = AsksOf(p)
            \/ c \notin AsksOf(p) /\ AsksOf(p)' = AsksOf(p) \cup {c} /\ p = q
        BY <3>0, Taken
      <4>3. queryCount'[p] = queryCount[p] /\ QueryLimit \in Nat
        BY <3>0, BudgetAssumption
      <4>4. AsksOf(p) \in SUBSET Collectors /\ AsksOf(p)' \in SUBSET Collectors
        BY <2>0
      <4>5. p = q => queryCount[p] + 1 <= QueryLimit
        BY <3>0
      <4>6. CASE AsksOf(p)' = AsksOf(p)
        BY <4>1, <4>3, <4>6
      <4>7. CASE c \notin AsksOf(p) /\ AsksOf(p)' = AsksOf(p) \cup {c} /\ p = q
        BY <4>1, <4>3, <4>4, <4>5, <4>7, Counts
      <4> QED BY <4>2, <4>6, <4>7
    <3>3. ASSUME NEW p \in Enforced
          PROVE  Held(supplierUsage'[p].requests, Usage.suppliers[p].requests, SupplierLimits[p].requests, AsksFrom(p)')
      <4>1. /\ p \in Accounts /\ supplierUsage[p].requests \in Nat /\ SupplierLimits[p].requests \in Nat
            /\ Held(supplierUsage[p].requests, Usage.suppliers[p].requests, SupplierLimits[p].requests, AsksFrom(p))
        BY <2>b DEF Committed, BudgetTypeOK
      <4>2. \/ AsksFrom(p)' = AsksFrom(p)
            \/ c \notin AsksFrom(p) /\ AsksFrom(p)' = AsksFrom(p) \cup {c} /\ p = LowerCase[s]
        BY <3>0, <4>1, Taken
      <4>3. supplierUsage'[p].requests = supplierUsage[p].requests
        BY <3>0
      <4>4. AsksFrom(p) \in SUBSET Collectors /\ AsksFrom(p)' \in SUBSET Collectors
        BY <2>0
      <4>5. p = LowerCase[s] => supplierUsage[p].requests + 1 <= SupplierLimits[p].requests
        BY <3>0 DEF Enforced
      <4>6. CASE AsksFrom(p)' = AsksFrom(p)
        BY <4>1, <4>3, <4>6
      <4>7. CASE c \notin AsksFrom(p) /\ AsksFrom(p)' = AsksFrom(p) \cup {c} /\ p = LowerCase[s]
        BY <4>1, <4>3, <4>4, <4>5, <4>7, Counts
      <4> QED BY <4>2, <4>6, <4>7
    <3> QED BY <3>1, <3>2, <3>3 DEF Committed
  <2>2. ASSUME NEW c \in Collectors, NEW a \in Costs, RecordUsage(c, a)
        PROVE  Committed'
    <3>0. /\ collecting' = [collecting EXCEPT ![c] = Resting] /\ collecting[c].on
          /\ requests' = requests + 1
          /\ \A p \in Queries : queryCount'[p] = IF p = collecting[c].query THEN queryCount[p] + 1 ELSE queryCount[p]
          /\ \A p \in Accounts : supplierUsage'[p].requests =
               IF p = LowerCase[collecting[c].supplier] THEN supplierUsage[p].requests + 1 ELSE supplierUsage[p].requests
      BY <2>2 DEF RecordUsage, BudgetTypeOK
    <3>1. Held(requests', Usage.requests, RequestLimit, Busy')
      <4>1. requests \in Nat /\ Held(requests, Usage.requests, RequestLimit, Busy)
        BY DEF Committed, BudgetTypeOK
      <4>2. c \in Busy /\ Busy' = Busy \ {c}
        BY <3>0, Released
      <4> QED BY <4>1, <4>2, <3>0, <2>0, Counts, BudgetAssumption
    <3>2. ASSUME NEW p \in Queries PROVE Held(queryCount'[p], Usage.queryCount[p], QueryLimit, AsksOf(p)')
      <4>1. queryCount[p] \in Nat /\ Held(queryCount[p], Usage.queryCount[p], QueryLimit, AsksOf(p))
        BY DEF Committed, BudgetTypeOK
      <4>2. \/ AsksOf(p)' = AsksOf(p) /\ queryCount'[p] = queryCount[p]
            \/ c \in AsksOf(p) /\ AsksOf(p)' = AsksOf(p) \ {c} /\ queryCount'[p] = queryCount[p] + 1
        BY <3>0, Released
      <4>3. AsksOf(p) \in SUBSET Collectors /\ AsksOf(p)' \in SUBSET Collectors /\ QueryLimit \in Nat
        BY <2>0, BudgetAssumption
      <4>4. CASE AsksOf(p)' = AsksOf(p) /\ queryCount'[p] = queryCount[p]
        BY <4>1, <4>4
      <4>5. CASE c \in AsksOf(p) /\ AsksOf(p)' = AsksOf(p) \ {c} /\ queryCount'[p] = queryCount[p] + 1
        BY <4>1, <4>3, <4>5, Counts
      <4> QED BY <4>2, <4>4, <4>5
    <3>3. ASSUME NEW p \in Enforced
          PROVE  Held(supplierUsage'[p].requests, Usage.suppliers[p].requests, SupplierLimits[p].requests, AsksFrom(p)')
      <4>1. /\ p \in Accounts /\ supplierUsage[p].requests \in Nat /\ SupplierLimits[p].requests \in Nat
            /\ Held(supplierUsage[p].requests, Usage.suppliers[p].requests, SupplierLimits[p].requests, AsksFrom(p))
        BY <2>b DEF Committed, BudgetTypeOK
      <4>2. \/ AsksFrom(p)' = AsksFrom(p) /\ supplierUsage'[p].requests = supplierUsage[p].requests
            \/ c \in AsksFrom(p) /\ AsksFrom(p)' = AsksFrom(p) \ {c}
               /\ supplierUsage'[p].requests = supplierUsage[p].requests + 1
        BY <3>0, <4>1, Released
      <4>3. AsksFrom(p) \in SUBSET Collectors /\ AsksFrom(p)' \in SUBSET Collectors
        BY <2>0
      <4>4. CASE AsksFrom(p)' = AsksFrom(p) /\ supplierUsage'[p].requests = supplierUsage[p].requests
        BY <4>1, <4>4
      <4>5. CASE /\ c \in AsksFrom(p) /\ AsksFrom(p)' = AsksFrom(p) \ {c}
                 /\ supplierUsage'[p].requests = supplierUsage[p].requests + 1
        <5>1. Held(supplierUsage[p].requests + 1, Usage.suppliers[p].requests, SupplierLimits[p].requests, AsksFrom(p)')
          BY <4>1, <4>3, <4>5, Counts
        <5> QED BY <4>5, <5>1
      <4> QED BY <4>2, <4>4, <4>5
    <3> QED BY <3>1, <3>2, <3>3 DEF Committed
  <2>3. ASSUME NEW c \in Collectors, CollectionFails(c) PROVE Committed'
    <3>0. /\ collecting' = [collecting EXCEPT ![c] = Resting] /\ collecting[c].on
          /\ requests' = requests /\ queryCount' = queryCount /\ supplierUsage' = supplierUsage
      BY <2>3 DEF CollectionFails
    <3>1. Held(requests', Usage.requests, RequestLimit, Busy')
      <4>1. requests \in Nat /\ Held(requests, Usage.requests, RequestLimit, Busy)
        BY DEF Committed, BudgetTypeOK
      <4>2. c \in Busy /\ Busy' = Busy \ {c}
        BY <3>0, Released
      <4> QED BY <4>1, <4>2, <3>0, <2>0, Counts, BudgetAssumption
    <3>2. ASSUME NEW p \in Queries PROVE Held(queryCount'[p], Usage.queryCount[p], QueryLimit, AsksOf(p)')
      <4>1. queryCount[p] \in Nat /\ Held(queryCount[p], Usage.queryCount[p], QueryLimit, AsksOf(p))
        BY DEF Committed, BudgetTypeOK
      <4> QED BY <4>1, <3>0, <2>0, Released, Counts, BudgetAssumption
    <3>3. ASSUME NEW p \in Enforced
          PROVE  Held(supplierUsage'[p].requests, Usage.suppliers[p].requests, SupplierLimits[p].requests, AsksFrom(p)')
      <4>1. /\ p \in Accounts /\ supplierUsage[p].requests \in Nat /\ SupplierLimits[p].requests \in Nat
            /\ Held(supplierUsage[p].requests, Usage.suppliers[p].requests, SupplierLimits[p].requests, AsksFrom(p))
        BY <2>b DEF Committed, BudgetTypeOK
      <4> QED BY <4>1, <3>0, <2>0, Released, Counts
    <3> QED BY <3>1, <3>2, <3>3 DEF Committed
  <2>4. CASE UNCHANGED budgetVars
    BY <2>4 DEF Committed, budgetVars, Busy, AsksOf, AsksFrom
  <2> QED BY <2>1, <2>2, <2>3, <2>4 DEF BudgetNext
<1>3. BudgetTypeOK /\ Committed => OverrunIsBounded
  <2> SUFFICES ASSUME BudgetTypeOK, Committed PROVE OverrunIsBounded OBVIOUS
  <2>1. Cardinality(Busy) \in Nat /\ (\A q : Cardinality(AsksOf(q)) \in Nat) /\ (\A s : Cardinality(AsksFrom(s)) \in Nat)
    <3>1. Busy \in SUBSET Collectors /\ (\A q : AsksOf(q) \in SUBSET Collectors)
                                     /\ (\A s : AsksFrom(s) \in SUBSET Collectors)
      BY DEF Busy, AsksOf, AsksFrom
    <3> QED BY <3>1, Workers
  <2>2. \A p \in Enforced : p \in Accounts /\ SupplierLimits[p].requests \in Nat
    BY BudgetAssumption DEF Enforced
  <2> QED BY <2>1, <2>2, SlackType, BudgetAssumption DEF BudgetTypeOK, Committed, OverrunIsBounded, Held, Bounded
<1> QED BY <1>1, <1>2, <1>3, BudgetTypeCorrect, PTL DEF BudgetSpec

-----------------------------------------------------------------------------
(***************************************************************************)
(* Outreach.  ContactedOnce is kept by what an agent holds between its     *)
(* reservation and its release: the engagement is its own, and every       *)
(* letter about the same was either sent by it, or is recorded on its day  *)
(* or later, so that the cooldown which was asked for has passed.          *)
(***************************************************************************)
Holding(a) == task[a].doing \in {"reserved", "authorized", "sent", "done"}

Same(t, l) == t.opportunity = l.opportunity /\ t.recipient = l.recipient

Tasks == [doing : {"drafted", "reserved", "authorized", "sent", "done"},
          opportunity : Opportunities, recipient : Recipients,
          status : {"REJECTED", "DRAFT_UNAUTHORIZED"}]
Letter == [opportunity : Opportunities, recipient : Recipients, day : Nat]

OutreachTypeOK ==
  /\ day \in Nat
  /\ engaged \in [Opportunities \X Recipients -> Agents \cup {Nobody}]
  /\ contacts \in [Recipients -> SUBSET Nat]
  /\ task \in [Agents -> Tasks \cup {Idle}]
  /\ letters \in Seq(Letter)

\* The engagement of what an agent is about is its own.
HoldersEngaged ==
  \A a \in Agents : Holding(a) => engaged[task[a].opportunity, task[a].recipient] = a

\* A letter is in the history of its recipient, or its sender still is to
\* record it.
LettersRecorded ==
  \A i \in 1..Len(letters) :
    /\ letters[i].day <= day
    /\ \/ \E d \in contacts[letters[i].recipient] : letters[i].day <= d
       \/ \E a \in Agents : task[a].doing = "sent" /\ Same(task[a], letters[i])

\* Who may still send has waited for the cooldown.
SendersWaited ==
  \A a \in Agents : task[a].doing \in {"reserved", "authorized"} =>
    \A i \in 1..Len(letters) : Same(task[a], letters[i]) => day - letters[i].day >= Cooldown

ContactInv ==
  OutreachTypeOK /\ HoldersEngaged /\ LettersRecorded /\ SendersWaited /\ ContactedOnce

\* A task that goes on to its next stage is a task, about the same.
LEMMA TaskGoesOn ==
  ASSUME NEW t \in Tasks \cup {Idle}, t.doing # "idle", NEW d \in {"reserved", "authorized", "sent", "done"}
  PROVE  /\ [t EXCEPT !.doing = d] \in Tasks
         /\ [t EXCEPT !.doing = d].doing = d
         /\ (\A l : Same([t EXCEPT !.doing = d], l) <=> Same(t, l))
         /\ [t EXCEPT !.doing = d].opportunity = t.opportunity
         /\ [t EXCEPT !.doing = d].recipient = t.recipient
BY DEF Tasks, Idle, Same

\* Two agents are not at work on the same.
LEMMA OneHolder ==
  ASSUME OutreachTypeOK, HoldersEngaged, NEW a \in Agents, NEW b \in Agents, Holding(a), Holding(b),
         task[a].opportunity = task[b].opportunity, task[a].recipient = task[b].recipient
  PROVE  a = b
BY Zenon DEF HoldersEngaged

LEMMA StepContact ==
  ASSUME ContactInv, [CampaignNext \/ ProspectNext \/ LinkNext]_outreachVars
  PROVE  ContactInv'
<1> USE DEF ContactInv
<1>1. CASE UNCHANGED <<day, engaged, contacts, task, letters>>
  BY <1>1, Zenon DEF OutreachTypeOK, HoldersEngaged, LettersRecorded, SendersWaited, ContactedOnce, Holding
<1>2. CASE Suppress \/ UpdateDeliverabilityMetrics \/ ReauthorizeCircuitBreaker \/ SetKillSwitch
           \/ UNCHANGED outreachVars
  BY <1>1, <1>2 DEF Suppress, UpdateDeliverabilityMetrics, ReauthorizeCircuitBreaker, SetKillSwitch,
                    outreachVars, registryVars, campaignVars
<1>3. CASE Tick
  <2>1. day' = day + 1 /\ UNCHANGED <<engaged, contacts, task, letters>>
    BY <1>3 DEF Tick, registryVars
  <2>a. OutreachTypeOK'
    BY <2>1 DEF OutreachTypeOK
  <2>b. HoldersEngaged' /\ ContactedOnce'
    BY <2>1, Zenon DEF HoldersEngaged, ContactedOnce, Holding
  <2>2. OutreachTypeOK' /\ HoldersEngaged' /\ ContactedOnce'
    BY <2>a, <2>b
  <2>3. \A i \in 1..Len(letters) : letters[i].day \in Nat
    <3>1. \A i \in 1..Len(letters) : letters[i] \in Letter
      BY DEF OutreachTypeOK
    <3> QED BY <3>1 DEF Letter
  <2>4. day \in Nat /\ Cooldown \in Nat
    BY OutreachAssumption DEF OutreachTypeOK
  <2>5. LettersRecorded'
    BY <2>1, <2>3, <2>4 DEF LettersRecorded
  <2>6. SendersWaited'
    <3>1. day' = day + 1 /\ task' = task /\ letters' = letters
      BY <2>1
    <3> SUFFICES ASSUME NEW a \in Agents, task'[a].doing \in {"reserved", "authorized"},
                        NEW i \in 1..Len(letters'), Same(task'[a], letters'[i])
                 PROVE  day' - letters'[i].day >= Cooldown
      BY DEF SendersWaited, Same
    <3>2. day - letters[i].day >= Cooldown
      BY <3>1 DEF SendersWaited
    <3> QED BY <3>1, <3>2, <2>3, <2>4
  <2> QED BY <2>2, <2>5, <2>6
<1>4. ASSUME NEW a \in Agents, NEW o \in Opportunities, NEW r \in Recipients, Draft(a, o, r)
      PROVE  ContactInv'
  <2>1. PICK s \in {"REJECTED", "DRAFT_UNAUTHORIZED"} :
          task' = [task EXCEPT ![a] = [doing |-> "drafted", opportunity |-> o, recipient |-> r,
                                       status |-> s]]
    BY <1>4 DEF Draft, DraftStatus
  <2>2. UNCHANGED <<day, engaged, contacts, letters>> /\ task[a] = Idle
    BY <1>4 DEF Draft, registryVars
  <2>3. task' \in [Agents -> Tasks \cup {Idle}]
    BY <2>1 DEF OutreachTypeOK, Tasks
  <2>4. task'[a].doing = "drafted" /\ \A b \in Agents \ {a} : task'[b] = task[b]
    BY <2>1 DEF OutreachTypeOK
  <2>5. OutreachTypeOK' /\ HoldersEngaged' /\ SendersWaited' /\ ContactedOnce'
    BY <2>2, <2>3, <2>4, Zenon DEF OutreachTypeOK, HoldersEngaged, SendersWaited, ContactedOnce, Holding
  <2>6. LettersRecorded'
    BY <2>2, <2>4 DEF LettersRecorded, Idle
  <2> QED BY <2>5, <2>6
<1>5. ASSUME NEW a \in Agents, task' = [task EXCEPT ![a] = Idle], task[a].doing # "sent",
             UNCHANGED <<day, contacts, letters>>,
             \/ engaged' = engaged
             \/ /\ Holding(a)
                /\ engaged' = [engaged EXCEPT ![<<task[a].opportunity, task[a].recipient>>] = Nobody]
      PROVE  ContactInv'
  <2>1. task'[a] = Idle /\ \A b \in Agents \ {a} : task'[b] = task[b]
    BY <1>5 DEF OutreachTypeOK
  <2>2. OutreachTypeOK' /\ SendersWaited' /\ ContactedOnce'
    BY <1>5, <2>1 DEF OutreachTypeOK, SendersWaited, ContactedOnce, Idle
  <2>3. LettersRecorded'
    BY <1>5, <2>1 DEF LettersRecorded, Idle
  <2>4. ASSUME NEW b \in Agents, Holding(b)'
        PROVE  engaged'[task'[b].opportunity, task'[b].recipient] = b
    <3>1. b # a /\ task'[b] = task[b] /\ Holding(b)
      BY <2>1, <2>4 DEF Holding, Idle
    <3>2. task[b] \in Tasks
      BY <3>1 DEF OutreachTypeOK, Holding, Idle
    <3>3. engaged[task[b].opportunity, task[b].recipient] = b
      BY <3>1, Zenon DEF HoldersEngaged
    <3>4. CASE engaged' = engaged
      BY <3>1, <3>3, <3>4, Zenon
    <3>5. CASE Holding(a) /\ engaged' = [engaged EXCEPT ![<<task[a].opportunity, task[a].recipient>>] = Nobody]
      <4>1. <<task[b].opportunity, task[b].recipient>> # <<task[a].opportunity, task[a].recipient>>
        BY <3>1, <3>5, OneHolder
      <4> QED BY <3>1, <3>2, <3>3, <3>5, <4>1, Zenon DEF OutreachTypeOK, Tasks
    <3> QED BY <1>5, <3>4, <3>5, Zenon
  <2> QED BY <2>2, <2>3, <2>4, Zenon DEF HoldersEngaged
<1>6. ASSUME NEW a \in Agents, Drop(a) \/ ReleaseEngagement(a) PROVE ContactInv'
  BY <1>5, <1>6 DEF Drop, ReleaseEngagement, registryVars, Holding
<1>7. ASSUME NEW a \in Agents, Reserve(a) PROVE ContactInv'
  <2>1. task[a].doing = "drafted" /\ UNCHANGED <<day, contacts, letters>> /\ task[a] \in Tasks
    BY <1>7 DEF Reserve, OutreachTypeOK, Idle
  <2>2. CASE ~MayEngage(a, task[a].opportunity, task[a].recipient)
    BY <1>5, <1>7, <2>1, <2>2 DEF Reserve
  <2>3. CASE MayEngage(a, task[a].opportunity, task[a].recipient)
    <3>1. /\ engaged' = [engaged EXCEPT ![<<task[a].opportunity, task[a].recipient>>] = a]
          /\ task' = [task EXCEPT ![a] = [task[a] EXCEPT !.doing = "reserved"]]
      BY <1>7, <2>3 DEF Reserve
    <3>2. /\ task'[a] \in Tasks /\ task'[a].doing = "reserved"
          /\ task'[a].opportunity = task[a].opportunity /\ task'[a].recipient = task[a].recipient
          /\ \A b \in Agents \ {a} : task'[b] = task[b]
      BY <2>1, <3>1, TaskGoesOn DEF OutreachTypeOK
    <3>3. OutreachTypeOK'
      BY <2>1, <3>1, <3>2 DEF OutreachTypeOK, Tasks
    <3>4. <<task[a].opportunity, task[a].recipient>> \in Opportunities \X Recipients
      BY <2>1 DEF Tasks
    <3>5. ASSUME NEW b \in Agents, Holding(b)'
          PROVE  engaged'[task'[b].opportunity, task'[b].recipient] = b
      <4>1. CASE b = a
        BY <3>1, <3>2, <3>4, <4>1, Zenon DEF OutreachTypeOK
      <4>2. CASE b # a
        <5>1. task'[b] = task[b] /\ Holding(b)
          BY <3>2, <3>5, <4>2 DEF Holding
        <5>2. engaged[task[b].opportunity, task[b].recipient] = b
          BY <5>1, Zenon DEF HoldersEngaged
        <5>3. task[b] \in Tasks
          BY <5>1 DEF OutreachTypeOK, Holding, Idle
        <5>4. <<task[b].opportunity, task[b].recipient>> # <<task[a].opportunity, task[a].recipient>>
          BY <2>3, <4>2, <5>2, OutreachAssumption, Zenon DEF MayEngage
        <5> QED BY <3>1, <5>1, <5>2, <5>3, <5>4, Zenon DEF OutreachTypeOK, Tasks
      <4> QED BY <4>1, <4>2, Zenon
    <3>6. LettersRecorded'
      BY <2>1, <3>2 DEF LettersRecorded
    <3>7. ASSUME NEW i \in 1..Len(letters), Same(task[a], letters[i])
          PROVE  day - letters[i].day >= Cooldown
      <4>1. letters[i] \in Letter
        BY DEF OutreachTypeOK
      <4>2. letters[i].day \in Nat /\ letters[i].recipient \in Recipients /\ day \in Nat /\ Cooldown \in Nat
        BY <4>1, OutreachAssumption DEF OutreachTypeOK, Letter
      <4>3. ASSUME NEW b \in Agents, task[b].doing = "sent", Same(task[b], letters[i]) PROVE FALSE
        <5>1. engaged[task[b].opportunity, task[b].recipient] = b /\ b # a
          BY <2>1, <4>3, Zenon DEF HoldersEngaged, Holding
        <5>2. task[b].opportunity = task[a].opportunity /\ task[b].recipient = task[a].recipient
          BY <3>7, <4>3 DEF Same
        <5> QED BY <2>3, <5>1, <5>2, OutreachAssumption, Zenon DEF MayEngage
      <4>4. PICK d \in contacts[letters[i].recipient] : letters[i].day <= d
        BY <4>3 DEF LettersRecorded
      <4>5. d \in Nat /\ ~(day - d < Cooldown)
        BY <2>3, <3>7, <4>2, <4>4, Zenon DEF MayEngage, Recent, Same, OutreachTypeOK
      <4> QED BY <4>2, <4>4, <4>5
    <3>8. SendersWaited'
      BY <2>1, <3>2, <3>7 DEF SendersWaited, Same
    <3> QED BY <2>1, <3>3, <3>5, <3>6, <3>8, Zenon DEF HoldersEngaged, ContactedOnce
  <2> QED BY <2>2, <2>3
<1>8. ASSUME NEW a \in Agents, NEW d \in {"authorized", "sent", "done"}, Holding(a),
             task' = [task EXCEPT ![a] = [task[a] EXCEPT !.doing = d]], UNCHANGED engaged
      PROVE  /\ task' \in [Agents -> Tasks \cup {Idle}]
             /\ HoldersEngaged'
             /\ task'[a].doing = d /\ \A l : Same(task'[a], l) <=> Same(task[a], l)
             /\ \A b \in Agents \ {a} : task'[b] = task[b]
  <2>1. task[a] \in Tasks \cup {Idle} /\ task[a].doing # "idle"
    BY <1>8 DEF OutreachTypeOK, Holding
  <2> DEFINE t == [task[a] EXCEPT !.doing = d]
  <2>0. /\ t \in Tasks /\ t.doing = d /\ (\A l : Same(t, l) <=> Same(task[a], l))
        /\ t.opportunity = task[a].opportunity /\ t.recipient = task[a].recipient
    <3>1. d \in {"reserved", "authorized", "sent", "done"}
      OBVIOUS
    <3> HIDE DEF t
    <3>2. t = [task[a] EXCEPT !.doing = d]
      BY DEF t
    <3> QED BY <2>1, <3>1, <3>2, TaskGoesOn
  <2>t. task'[a] = t
    BY <1>8 DEF OutreachTypeOK
  <2> HIDE DEF t
  <2>2. /\ task'[a] \in Tasks /\ task'[a].doing = d
        /\ (\A l : Same(task'[a], l) <=> Same(task[a], l))
        /\ task'[a].opportunity = task[a].opportunity /\ task'[a].recipient = task[a].recipient
    BY <2>0, <2>t
  <2>3. \A b \in Agents \ {a} : task'[b] = task[b]
    BY <1>8 DEF OutreachTypeOK
  <2>4. task' \in [Agents -> Tasks \cup {Idle}]
    BY <1>8, <2>2, <2>3 DEF OutreachTypeOK
  <2>5. HoldersEngaged'
    BY <1>8, <2>2, <2>3, ZenonT(30) DEF HoldersEngaged, Holding
  <2> QED BY <2>2, <2>3, <2>4, <2>5
<1>9. ASSUME NEW a \in Agents, Authorize(a) PROVE ContactInv'
  <2>1. PICK d \in {"authorized", "done"} : task' = [task EXCEPT ![a] = [task[a] EXCEPT !.doing = d]]
    BY <1>9 DEF Authorize
  <2>2. task[a].doing = "reserved" /\ Holding(a) /\ UNCHANGED <<day, engaged, contacts, letters>>
    BY <1>9 DEF Authorize, Holding, registryVars
  <2>3. /\ task' \in [Agents -> Tasks \cup {Idle}] /\ HoldersEngaged' /\ task'[a].doing = d
        /\ (\A l : Same(task'[a], l) <=> Same(task[a], l))
        /\ \A b \in Agents \ {a} : task'[b] = task[b]
    BY <1>8, <2>1, <2>2
  <2>4. LettersRecorded'
    BY <2>2, <2>3 DEF LettersRecorded
  <2>5. SendersWaited'
    BY <2>2, <2>3 DEF SendersWaited
  <2> QED BY <2>2, <2>3, <2>4, <2>5 DEF OutreachTypeOK, ContactedOnce
<1>10. ASSUME NEW a \in Agents, Send(a) PROVE ContactInv'
  <2> DEFINE l == [opportunity |-> task[a].opportunity, recipient |-> task[a].recipient, day |-> day]
  <2>1. /\ task[a].doing = "authorized" /\ Holding(a) /\ UNCHANGED <<day, engaged, contacts>>
        /\ letters' = Append(letters, l)
        /\ task' = [task EXCEPT ![a] = [task[a] EXCEPT !.doing = "sent"]]
    BY <1>10 DEF Send, Holding, registryVars
  <2>2. /\ task' \in [Agents -> Tasks \cup {Idle}] /\ HoldersEngaged' /\ task'[a].doing = "sent"
        /\ (\A x : Same(task'[a], x) <=> Same(task[a], x))
        /\ \A b \in Agents \ {a} : task'[b] = task[b]
    BY <1>8, <2>1
  <2>3. task[a] \in Tasks /\ l \in Letter /\ l.day = day /\ Same(task[a], l) /\ day \in Nat
    BY <2>1 DEF OutreachTypeOK, Idle, Tasks, Letter, Same
  <2>4. l.opportunity = task[a].opportunity /\ l.recipient = task[a].recipient
    OBVIOUS
  <2> HIDE DEF l
  <2>5. /\ letters' \in Seq(Letter) /\ Len(letters') = Len(letters) + 1 /\ Len(letters) \in Nat
        /\ letters'[Len(letters) + 1] = l
        /\ \A i \in 1..Len(letters) : letters'[i] = letters[i]
    BY <2>1, <2>3 DEF OutreachTypeOK
  <2>6. OutreachTypeOK'
    BY <2>1, <2>2, <2>5 DEF OutreachTypeOK
  <2>7. LettersRecorded'
    <3> SUFFICES ASSUME NEW i \in 1..Len(letters')
                 PROVE  /\ letters'[i].day <= day'
                        /\ \/ \E d \in contacts'[letters'[i].recipient] : letters'[i].day <= d
                           \/ \E b \in Agents : task'[b].doing = "sent" /\ Same(task'[b], letters'[i])
      BY DEF LettersRecorded
    <3>1. CASE i = Len(letters) + 1
      BY <2>1, <2>2, <2>3, <2>5, <3>1
    <3>2. CASE i \in 1..Len(letters)
      BY <2>1, <2>2, <2>5, <3>2 DEF LettersRecorded
    <3> QED BY <2>5, <3>1, <3>2
  <2>8. SendersWaited'
    <3> SUFFICES ASSUME NEW b \in Agents, task'[b].doing \in {"reserved", "authorized"},
                        NEW i \in 1..Len(letters'), Same(task'[b], letters'[i])
                 PROVE  day' - letters'[i].day >= Cooldown
      BY DEF SendersWaited
    <3>1. b # a /\ task'[b] = task[b]
      BY <2>2
    <3>2. CASE i = Len(letters) + 1
      <4>1. task[b].opportunity = task[a].opportunity /\ task[b].recipient = task[a].recipient
        BY <2>4, <2>5, <3>1, <3>2 DEF Same
      <4>2. Holding(b)
        BY <3>1 DEF Holding
      <4> QED BY <2>1, <3>1, <4>1, <4>2, OneHolder
    <3>3. CASE i \in 1..Len(letters)
      BY <2>1, <2>5, <3>1, <3>3 DEF SendersWaited
    <3> QED BY <2>5, <3>2, <3>3
  <2>9. ContactedOnce'
    <3> SUFFICES ASSUME NEW i \in 1..Len(letters'), NEW j \in 1..Len(letters'), i < j,
                        letters'[i].opportunity = letters'[j].opportunity,
                        letters'[i].recipient = letters'[j].recipient
                 PROVE  letters'[j].day - letters'[i].day >= Cooldown
      BY DEF ContactedOnce
    <3>1. i \in 1..Len(letters) /\ letters'[i] = letters[i]
      BY <2>5
    <3>2. CASE j = Len(letters) + 1
      <4>1. Same(task[a], letters[i])
        BY <2>4, <2>5, <3>1, <3>2 DEF Same
      <4>2. day - letters[i].day >= Cooldown
        BY <2>1, <3>1, <4>1 DEF SendersWaited
      <4> QED BY <2>3, <2>5, <3>1, <3>2, <4>2
    <3>3. CASE j \in 1..Len(letters)
      BY <2>5, <3>1, <3>3 DEF ContactedOnce
    <3> QED BY <2>5, <3>2, <3>3
  <2> QED BY <2>2, <2>6, <2>7, <2>8, <2>9
<1>11. ASSUME NEW a \in Agents, RecordContactSent(a) PROVE ContactInv'
  <2>1. /\ task[a].doing = "sent" /\ Holding(a) /\ UNCHANGED <<day, engaged, letters>>
        /\ contacts' = [contacts EXCEPT ![task[a].recipient] = @ \cup {day}]
        /\ task' = [task EXCEPT ![a] = [task[a] EXCEPT !.doing = "done"]]
    BY <1>11 DEF RecordContactSent, Holding, registryVars
  <2>2. /\ task' \in [Agents -> Tasks \cup {Idle}] /\ HoldersEngaged' /\ task'[a].doing = "done"
        /\ (\A x : Same(task'[a], x) <=> Same(task[a], x))
        /\ \A b \in Agents \ {a} : task'[b] = task[b]
    BY <1>8, <2>1
  <2>3. task[a].recipient \in Recipients /\ day \in Nat
    BY <2>1 DEF OutreachTypeOK, Idle, Tasks
  <2>4. /\ contacts' \in [Recipients -> SUBSET Nat]
        /\ day \in contacts'[task[a].recipient]
        /\ \A r \in Recipients : contacts[r] \subseteq contacts'[r]
    BY <2>1, <2>3 DEF OutreachTypeOK
  <2>5. LettersRecorded'
    <3> SUFFICES ASSUME NEW i \in 1..Len(letters)
                 PROVE  /\ letters[i].day <= day
                        /\ \/ \E d \in contacts'[letters[i].recipient] : letters[i].day <= d
                           \/ \E b \in Agents : task'[b].doing = "sent" /\ Same(task'[b], letters[i])
      BY <2>1 DEF LettersRecorded
    <3>1. letters[i].recipient \in Recipients /\ letters[i].day <= day
      <4>1. letters[i] \in Letter
        BY DEF OutreachTypeOK
      <4> QED BY <4>1 DEF Letter, LettersRecorded
    <3>2. CASE \E d \in contacts[letters[i].recipient] : letters[i].day <= d
      BY <2>4, <3>1, <3>2
    <3>3. ASSUME NEW b \in Agents, task[b].doing = "sent", Same(task[b], letters[i])
          PROVE  \/ \E d \in contacts'[letters[i].recipient] : letters[i].day <= d
                 \/ \E c \in Agents : task'[c].doing = "sent" /\ Same(task'[c], letters[i])
      <4>1. CASE b = a
        BY <2>4, <3>1, <3>3, <4>1 DEF Same
      <4>2. CASE b # a
        BY <2>2, <3>3, <4>2
      <4> QED BY <4>1, <4>2
    <3> QED BY <3>1, <3>2, <3>3 DEF LettersRecorded
  <2>6. SendersWaited'
    BY <2>1, <2>2 DEF SendersWaited
  <2> QED BY <2>1, <2>2, <2>4, <2>5, <2>6 DEF OutreachTypeOK, ContactedOnce
<1>12. CASE ProspectNext \/ LinkNext
  BY <1>1, <1>12, Zenon DEF ProspectNext, CreateOutreachOpportunity, UpdateOpportunityHypothesis, QualifyDomainAndPage,
                     EvaluateLinkableAsset, ResolvePublicContact, LinkNext, EditPage, VerifyAcquiredLink,
                     UpdateLinkLifecycleObservation, registryVars
<1> QED BY <1>2, <1>3, <1>4, <1>6, <1>7, <1>9, <1>10, <1>11, <1>12 DEF CampaignNext, AgentStep

LEMMA InitContact == OutreachInit => ContactInv
<1> SUFFICES ASSUME OutreachInit PROVE ContactInv
  OBVIOUS
<1>1. day = 0 /\ letters = << >> /\ Len(letters) = 0
  BY DEF OutreachInit
<1>2. OutreachTypeOK
  BY <1>1 DEF OutreachInit, OutreachTypeOK
<1>3. HoldersEngaged
  BY Zenon DEF OutreachInit, HoldersEngaged, Holding, Idle
<1> QED BY <1>1, <1>2, <1>3 DEF ContactInv, LettersRecorded, SendersWaited, ContactedOnce

-----------------------------------------------------------------------------
(***************************************************************************)
(* A collection.  While the provider does not change and reports totals,   *)
(* what a list got is a prefix of it, and the next page is asked for from  *)
(* its end; a list is then finished when there is as much as its total.    *)
(* Without totals no collection is known to be whole.                      *)
(***************************************************************************)
ListFields   == {"items", "requested", "at", "cursor", "url", "total", "pages", "continues", "unknown", "error",
                 "ended"}
ResultFields == {"items", "total", "known", "continues", "errors", "error"}
SyncFields   == {"on", "id", "provider", "loaded", "lists", "list", "result", "reports", "steady"}

\* What is in the lists of a provider, and their names.
Things == Lists \cup {"new"} \cup {s[l][i] : s \in Stocks, l \in Lists, i \in Nat}

Prefix(items, s) ==
  items \in Seq(Things) /\ Len(items) <= Len(s) /\ \A i \in 1..Len(items) : items[i] = s[i]

StockInv ==
  /\ stock \in [Lists -> Seq(Things)]
  /\ \E i \in 1..Len(stock["collections"]) : stock["collections"][i] = "items"

Registered(r) == DOMAIN r = Ids /\ \A id \in Ids : r[id] = Unconfigured \/ r[id].provider \in Providers

\* The position is the end of the items; WordPress goes on after a short
\* page, whose next page is an error.
GoesOn(p, by, st, c, list) ==
  /\ by = "none" => c.cursor = None /\ c.url = None
  /\ \/ Position(c) = Len(c.items)
     \/ p = "wordpress" /\ Position(c) = c.at /\ c.at > 0 /\ c.at >= Len(st[list])

ListInv(p, by, st, c, list) ==
  /\ Prefix(c.items, st[list])
  /\ c.total \in {None, Len(st[list])}
  /\ c.ended \/ GoesOn(p, by, st, c, list)

IsPending(p, lists, l) ==
  \E i \in 1..Len(lists) :
    lists[i] = l \/ (l = "items" /\ p = "webflow" /\ lists[i] = "collections")

IsCollected(st, r, l) ==
  \A i \in 1..Len(st[l]) : \E j \in 1..Len(r.items) : r.items[j] = <<l, st[l][i]>>

ResultInv(p, st, r, lists) ==
  ~r.errors /\ r.known =>
    /\ r.total \in Nat /\ r.items \in Seq(Things \X Things) /\ Len(r.items) <= r.total
    /\ Len(r.items) = r.total =>
         \A l \in AllLists(p) : IsPending(p, lists, l) \/ IsCollected(st, r, l)

SyncTyped ==
  /\ DOMAIN sync = SyncFields /\ sync.on
  /\ sync.id \in Ids /\ sync.provider \in Providers /\ Registered(sync.loaded)
  /\ sync.reports.by \in {"none", "cursor", "next", "offset"}
  /\ sync.provider # "webflow" => sync.reports.by = "none"
  /\ DOMAIN sync.list = ListFields /\ DOMAIN sync.result = ResultFields

SyncInv ==
  /\ SyncTyped
  /\ ~sync.reports.totals => /\ sync.list.total = None
                             /\ ~sync.result.known \/ sync.lists = ListsOf(sync.provider)
  /\ sync.steady /\ sync.reports.totals =>
       /\ sync.lists \in Seq(Things)
       /\ ~sync.list.ended
       /\ sync.lists # <<>> /\ Head(sync.lists) \in Lists =>
            ListInv(sync.provider, sync.reports.by, stock, sync.list, Head(sync.lists))
       /\ ResultInv(sync.provider, stock, sync.result, sync.lists)

ConnectInv ==
  /\ StockInv /\ Registered(connections)
  /\ sync = NoSync \/ SyncInv
  /\ CompleteIsAll

LEMMA TookIs ==
  ASSUME NEW c, NEW a, DOMAIN c = ListFields
  PROVE  /\ DOMAIN Took(c, a) = ListFields /\ Took(c, a).items = c.items \o a.rows
         /\ Took(c, a).at = c.at /\ Took(c, a).url = None /\ Took(c, a).cursor = c.cursor
         /\ Took(c, a).ended = c.ended /\ Took(c, a).requested = c.requested + 1
         /\ Took(c, a).total = IF a.total = None THEN c.total ELSE a.total
BY DEF ListFields, Took

\* What every connector does with a page.
LEMMA AfterTakes ==
  ASSUME NEW p \in Providers, NEW c, NEW a, DOMAIN c = ListFields
  PROVE  DOMAIN After(p, c, a) = ListFields /\ After(p, c, a).items = c.items \o a.rows
BY DEF After, AfterGsc, AfterGa4, AfterWordPress, AfterWebflow, WebflowGoesOn, Took, Ends, EndsMidway, Providers,
       ListFields

LEMMA AfterTotal ==
  ASSUME NEW p \in Providers, NEW c, NEW a, DOMAIN c = ListFields
  PROVE  After(p, c, a).total = IF a.total = None THEN c.total ELSE a.total
BY DEF After, AfterGsc, AfterGa4, AfterWordPress, AfterWebflow, WebflowGoesOn, Took, Ends, EndsMidway, Providers,
       ListFields

\* The answer to a request for what follows the items there are.
LEMMA AnswerIs ==
  ASSUME StockInv, PageSize \in Nat \ {0}, NEW list \in Lists, NEW k \in Nat, k <= Len(stock[list]),
         NEW a, a = Answer(list, k), sync.reports.totals
  PROVE  /\ a.total = Len(stock[list]) /\ Len(stock[list]) \in Nat
         /\ \E end \in Nat :
              /\ end = Least(k + PageSize, Len(stock[list]))
              /\ a.rows \in Seq(Things) /\ Len(a.rows) = end - k
              /\ \A i \in 1..Len(a.rows) : a.rows[i] = stock[list][k + i]
              /\ a.cursor = IF sync.reports.by = "cursor" /\ end < Len(stock[list]) THEN end ELSE None
              /\ a.url    = IF sync.reports.by = "next"   /\ end < Len(stock[list]) THEN end ELSE None
              /\ a.offset = IF sync.reports.by = "offset" /\ end < Len(stock[list]) THEN end ELSE None
<1> DEFINE n == Len(stock[list])
           end == Least(k + PageSize, n)
<1>1. stock[list] \in Seq(Things) /\ n \in Nat
  BY DEF StockInv
<1>2. end \in Nat /\ end >= k /\ end <= n
  BY <1>1 DEF Least
<1> HIDE DEF end
<1>3. /\ a.rows = SubSeq(stock[list], k + 1, end)
      /\ a.total = n
      /\ a.cursor = IF sync.reports.by = "cursor" THEN (IF end < n THEN end ELSE None) ELSE None
      /\ a.url    = IF sync.reports.by = "next"   THEN (IF end < n THEN end ELSE None) ELSE None
      /\ a.offset = IF sync.reports.by = "offset" THEN (IF end < n THEN end ELSE None) ELSE None
  BY DEF Answer, end
<1>4. /\ a.rows \in Seq(Things) /\ Len(a.rows) = end - k
      /\ \A i \in 1..Len(a.rows) : a.rows[i] = stock[list][k + i]
  <2> DEFINE s == stock[list]
  <2>1. s \in Seq(Things) /\ Len(s) \in Nat /\ a.rows = SubSeq(s, k + 1, end) /\ k + 1 <= Len(s) + 1
        /\ end <= Len(s)
    BY <1>1, <1>2, <1>3
  <2> HIDE DEF s
  <2>2. a.rows \in Seq(Things) /\ Len(a.rows) = end - k
    BY <2>1, <1>2
  <2>3. \A i \in 1..Len(a.rows) : a.rows[i] = s[k + i]
    BY <2>1, <2>2, <1>2
  <2> QED BY <2>2, <2>3 DEF s
<1> QED BY <1>1, <1>2, <1>3, <1>4 DEF end

LEMMA PrefixGrows ==
  ASSUME NEW s \in Seq(Things), NEW items, Prefix(items, s), NEW rows \in Seq(Things),
         Len(items) + Len(rows) <= Len(s), \A i \in 1..Len(rows) : rows[i] = s[Len(items) + i]
  PROVE  Prefix(items \o rows, s) /\ Len(items \o rows) = Len(items) + Len(rows)
<1>1. items \in Seq(Things) /\ Len(items) \in Nat /\ Len(rows) \in Nat
  BY DEF Prefix
<1>2. items \o rows \in Seq(Things) /\ Len(items \o rows) = Len(items) + Len(rows)
  BY <1>1
<1>3. ASSUME NEW i \in 1..Len(items \o rows) PROVE (items \o rows)[i] = s[i]
  <2>1. CASE i <= Len(items)
    BY <1>1, <1>2, <2>1 DEF Prefix
  <2>2. CASE i > Len(items)
    <3>1. i - Len(items) \in 1..Len(rows) /\ Len(items) + (i - Len(items)) = i
      BY <1>1, <1>2, <2>2
    <3> QED BY <1>1, <1>2, <2>2, <3>1
  <2> QED BY <1>1, <1>2, <2>1, <2>2
<1> QED BY <1>2, <1>3 DEF Prefix

\* How each connector goes on, if it does.
LEMMA GscGoesOn ==
  ASSUME NEW c, NEW a, DOMAIN c = ListFields, NEW d, d = AfterGsc(c, a)
  PROVE  d.ended \/ (d.cursor = c.cursor /\ d.url = None /\ d.at = c.at + PageSize /\ ~(Len(a.rows) < PageSize))
BY DEF AfterGsc, Took, Ends, EndsMidway, ListFields

LEMMA Ga4GoesOn ==
  ASSUME NEW c, NEW a, DOMAIN c = ListFields, NEW d, d = AfterGa4(c, a)
  PROVE  d.ended \/ (d.cursor = c.cursor /\ d.url = None /\ d.at = c.at + Len(a.rows))
BY DEF AfterGa4, Took, Ends, EndsMidway, ListFields

LEMMA WordPressGoesOn ==
  ASSUME NEW c, NEW a, DOMAIN c = ListFields, NEW d, d = AfterWordPress(c, a)
  PROVE  d.ended \/ (d.cursor = c.cursor /\ d.url = None /\ d.at = c.at + PageSize)
BY DEF AfterWordPress, Took, Ends, EndsMidway, ListFields

LEMMA WebflowGoes ==
  ASSUME NEW c, NEW a, DOMAIN c = ListFields, NEW t, t = Took(c, a), NEW w, w = WebflowGoesOn(c, a)
  PROVE  \/ w.ended
         \/ w.cursor = a.cursor /\ a.cursor # None /\ w.url = None
         \/ w.url = a.url /\ a.url # None /\ w.cursor = None
         \/ w.at = a.offset /\ a.offset # None /\ w.cursor = None /\ w.url = None
         \/ /\ ~(t.total # None /\ Len(t.items) >= t.total) /\ a.cursor = None /\ a.url = None /\ a.offset = None
            /\ w.at = c.at + Len(a.rows) /\ w.cursor = c.cursor /\ w.url = None
BY DEF WebflowGoesOn, Took, Ends, EndsMidway, ListFields

LEMMA WebflowBoundary ==
  ASSUME NEW c, NEW a, DOMAIN c = ListFields
  PROVE  AfterWebflow(c, a).ended \/ AfterWebflow(c, a) = WebflowGoesOn(c, a)
<1>1. DOMAIN WebflowGoesOn(c, a) = ListFields
  BY DEF WebflowGoesOn, Took, Ends, EndsMidway, ListFields
<1> QED BY <1>1 DEF AfterWebflow, Ends, ListFields

LEMMA PageKeeps ==
  ASSUME StockInv, PageSize \in Nat \ {0}, SyncTyped, sync.reports.totals, NEW list \in Lists,
         NEW c, DOMAIN c = ListFields, ListInv(sync.provider, sync.reports.by, stock, c, list), ~c.ended,
         ~(sync.provider = "wordpress" /\ c.at > 0 /\ c.at >= Len(stock[list])),
         NEW a, a = Answer(list, Position(c)), NEW d, d = After(sync.provider, c, a)
  PROVE  ListInv(sync.provider, sync.reports.by, stock, d, list)
<1> DEFINE n == Len(stock[list])
           k == Len(c.items)
<1>1. /\ Prefix(c.items, stock[list]) /\ k \in Nat /\ n \in Nat /\ k <= n /\ stock[list] \in Seq(Things)
      /\ Position(c) = k
      /\ sync.reports.by = "none" => c.cursor = None /\ c.url = None
  BY DEF ListInv, GoesOn, Prefix, StockInv
<1>0. a = Answer(list, k) /\ sync.provider \in Providers
  BY <1>1 DEF SyncTyped
<1> HIDE DEF k, n
<1>2. PICK end \in Nat :
        /\ end = Least(k + PageSize, n)
        /\ a.rows \in Seq(Things) /\ Len(a.rows) = end - k
        /\ \A i \in 1..Len(a.rows) : a.rows[i] = stock[list][k + i]
        /\ a.cursor = IF sync.reports.by = "cursor" /\ end < n THEN end ELSE None
        /\ a.url    = IF sync.reports.by = "next"   /\ end < n THEN end ELSE None
        /\ a.offset = IF sync.reports.by = "offset" /\ end < n THEN end ELSE None
  BY <1>0, <1>1, AnswerIs DEF n, k
<1>t. a.total = n
  BY <1>0, <1>1, AnswerIs DEF n, k
<1>3. end <= n /\ end >= k /\ end <= k + PageSize /\ (end < n => end = k + PageSize) /\ end # None
  BY <1>1, <1>2 DEF Least, None
<1>k. k \in Nat /\ n \in Nat /\ PageSize \in Nat
  BY <1>1
<1>l. Len(a.rows) = end - k /\ end \in Nat
  BY <1>2
<1>m. k + Len(a.rows) = end /\ (~(Len(a.rows) < PageSize) => end = k + PageSize)
  BY <1>k, <1>l, <1>3
<1>4. DOMAIN d = ListFields /\ d.items = c.items \o a.rows /\ d.total = n
  <2>1. n # None BY <1>1 DEF None
  <2>2. DOMAIN d = ListFields /\ d.items = c.items \o a.rows
    BY <1>0, AfterTakes
  <2>3. d.total = IF a.total = None THEN c.total ELSE a.total
    BY <1>0, AfterTotal
  <2> QED BY <1>t, <2>1, <2>2, <2>3
<1>5. Prefix(d.items, stock[list]) /\ Len(d.items) = end
  <2>1. k + Len(a.rows) <= n /\ k + Len(a.rows) = end
    BY <1>m, <1>3
  <2>2. Prefix(c.items \o a.rows, stock[list]) /\ Len(c.items \o a.rows) = k + Len(a.rows)
    BY <1>1, <1>2, <2>1, PrefixGrows DEF n, k
  <2> QED BY <1>4, <2>1, <2>2
<1>a. sync.reports.by = "none" => c.at = k
  BY <1>1 DEF Position
<1>p. sync.provider \in Providers /\ (sync.provider # "webflow" => c.cursor = None /\ c.at = k)
      /\ sync.reports.by \in {"none", "cursor", "next", "offset"}
  BY <1>1, <1>a DEF SyncTyped
<1>7. CASE sync.provider = "gsc"
  <2>1. d = AfterGsc(c, a) BY <1>7 DEF After
  <2>2. d.ended \/ (d.cursor = None /\ d.url = None /\ d.at = k + PageSize /\ ~(Len(a.rows) < PageSize))
    BY <1>7, <1>p, <2>1, GscGoesOn
  <2>3. ~(Len(a.rows) < PageSize) => end = k + PageSize
    BY <1>m
  <2>4. d.ended \/ (d.cursor = None /\ d.url = None /\ d.at = end)
    BY <2>2, <2>3
  <2> QED BY <1>4, <1>5, <2>4 DEF ListInv, GoesOn, Position, n
<1>8. CASE sync.provider = "ga4"
  <2>1. d = AfterGa4(c, a) BY <1>8 DEF After
  <2>2. d.ended \/ (d.cursor = None /\ d.url = None /\ d.at = k + Len(a.rows))
    BY <1>8, <1>p, <2>1, Ga4GoesOn
  <2>3. k + Len(a.rows) = end
    BY <1>m
  <2>4. d.ended \/ (d.cursor = None /\ d.url = None /\ d.at = end)
    BY <2>2, <2>3
  <2> QED BY <1>4, <1>5, <2>4 DEF ListInv, GoesOn, Position, n
<1>9. CASE sync.provider = "wordpress"
  <2>1. d = AfterWordPress(c, a) BY <1>9 DEF After
  <2>2. d.ended \/ (d.cursor = None /\ d.url = None /\ d.at = k + PageSize)
    BY <1>9, <1>p, <2>1, WordPressGoesOn
  <2>3. k + PageSize = end \/ (k + PageSize > 0 /\ k + PageSize >= n)
    BY <1>1, <1>2, <1>3
  <2>4. d.ended \/ (d.cursor = None /\ d.url = None /\ (d.at = end \/ (d.at > 0 /\ d.at >= n)))
    BY <2>2, <2>3
  <2> QED BY <1>4, <1>5, <1>9, <2>4 DEF ListInv, GoesOn, Position, n
<1>10. CASE sync.provider = "webflow"
  <2> DEFINE w == WebflowGoesOn(c, a)
             t == Took(c, a)
             all == t.total # None /\ Len(t.items) >= t.total
  <2>0. t.items = d.items /\ t.total = n
    <3>1. n # None BY <1>1 DEF None
    <3> QED BY <1>t, <1>4, <3>1, TookIs
  <2>1. all \/ end < n
    BY <1>1, <1>3, <1>5, <2>0 DEF None
  <2> HIDE DEF t
  <2>2. \/ w.ended
        \/ w.cursor = a.cursor /\ a.cursor # None /\ w.url = None
        \/ w.url = a.url /\ a.url # None /\ w.cursor = None
        \/ w.at = a.offset /\ a.offset # None /\ w.cursor = None /\ w.url = None
        \/ /\ ~all /\ a.cursor = None /\ a.url = None /\ a.offset = None
           /\ w.at = c.at + Len(a.rows) /\ w.cursor = c.cursor /\ w.url = None
    BY WebflowGoes DEF t
  <2> HIDE DEF w, all
  <2>3. \/ w.ended
        \/ /\ Position(w) = end
           /\ sync.reports.by = "none" => w.cursor = None /\ w.url = None
    <3>1. CASE w.cursor = a.cursor /\ a.cursor # None /\ w.url = None
      BY <1>2, <1>3, <3>1 DEF Position
    <3>2. CASE w.url = a.url /\ a.url # None /\ w.cursor = None
      BY <1>2, <1>3, <3>2 DEF Position
    <3>3. CASE w.at = a.offset /\ a.offset # None /\ w.cursor = None /\ w.url = None
      BY <1>2, <1>3, <3>3 DEF Position
    <3>4. CASE /\ ~all /\ a.cursor = None /\ a.url = None /\ a.offset = None
               /\ w.at = c.at + Len(a.rows) /\ w.cursor = c.cursor /\ w.url = None
      <4>1. end < n /\ sync.reports.by = "none"
        BY <1>p, <1>2, <1>3, <2>1, <3>4
      <4>2. w.cursor = None /\ w.at = k + Len(a.rows) /\ k + Len(a.rows) = end
        BY <1>1, <1>a, <1>m, <3>4, <4>1
      <4> QED BY <3>4, <4>2 DEF Position
    <3> QED BY <2>2, <3>1, <3>2, <3>3, <3>4
  <2>4. d = AfterWebflow(c, a) BY <1>10 DEF After
  <2>5. d.ended \/ d = w
    BY <2>4, WebflowBoundary DEF w
  <2> QED BY <1>4, <1>5, <2>3, <2>5 DEF ListInv, GoesOn, n
<1> QED BY <1>p, <1>7, <1>8, <1>9, <1>10 DEF Providers

LEMMA Concats ==
  ASSUME NEW S, NEW p \in Seq(S), NEW q \in Seq(S), NEW w, w = p \o q
  PROVE  /\ w \in Seq(S) /\ Len(w) = Len(p) + Len(q) /\ Len(p) \in Nat /\ Len(q) \in Nat
         /\ \A j \in 1..Len(p) : j \in 1..Len(w) /\ w[j] = p[j]
         /\ \A j \in 1..Len(q) : Len(p) + j \in 1..Len(w) /\ w[Len(p) + j] = q[j]
OBVIOUS

LEMMA TailOf ==
  ASSUME NEW S, NEW s \in Seq(S), s # <<>>
  PROVE  Tail(s) \in Seq(S)
OBVIOUS

\* A list is finished: it is all there if the totals agree.
LEMMA ListFinished ==
  ASSUME StockInv, NEW list \in Lists, NEW c, Prefix(c.items, stock[list]), c.total \in {None, Len(stock[list])},
         NEW r, NEW lists \in Seq(Things), lists # <<>>, Head(lists) = list, ResultInv(sync.provider, stock, r, lists),
         NEW r2, r2 = Adds(r, list, c), NEW lists2, lists2 = Tail(lists) \o Following(list, c)
  PROVE  lists2 \in Seq(Things) /\ ResultInv(sync.provider, stock, r2, lists2)
<1> DEFINE n == Len(stock[list])
           k == Len(c.items)
           m == [i \in 1..k |-> <<list, c.items[i]>>]
<1>1. /\ c.items \in Seq(Things) /\ k \in Nat /\ n \in Nat /\ k <= n /\ stock[list] \in Seq(Things)
      /\ \A i \in 1..k : c.items[i] = stock[list][i]
  BY DEF Prefix, StockInv
<1>2. Following(list, c) \in Seq(Things) /\ Tail(lists) \in Seq(Things)
  <2>1. << >> \in Seq(Things)
    OBVIOUS
  <2>2. Following(list, c) = c.items \/ Following(list, c) = << >>
    BY DEF Following
  <2>3. Tail(lists) \in Seq(Things)
    OBVIOUS
  <2> QED BY <1>1, <2>1, <2>2, <2>3
<1>3. lists2 \in Seq(Things)
  BY <1>2
<1> SUFFICES ASSUME ~r2.errors, r2.known
             PROVE  /\ r2.total \in Nat /\ r2.items \in Seq(Things \X Things) /\ Len(r2.items) <= r2.total
                    /\ Len(r2.items) = r2.total =>
                         \A l \in AllLists(sync.provider) :
                           IsPending(sync.provider, lists2, l) \/ IsCollected(stock, r2, l)
  BY <1>3 DEF ResultInv
<1>4. ~r.errors /\ r.known /\ c.total = n
  <2>1. r2.errors = (r.errors \/ c.error # "none") /\ r2.known = (r.known /\ c.total # None /\ ~c.unknown)
    BY DEF Adds
  <2> QED BY <2>1
<1>5. /\ r.total \in Nat /\ r.items \in Seq(Things \X Things) /\ Len(r.items) <= r.total /\ Len(r.items) \in Nat
      /\ Len(r.items) = r.total =>
           \A l \in AllLists(sync.provider) : IsPending(sync.provider, lists, l) \/ IsCollected(stock, r, l)
  BY <1>4 DEF ResultInv
<1>6. m \in Seq(Things \X Things) /\ Len(m) = k /\ \A i \in 1..k : m[i] = <<list, c.items[i]>>
  <2>1. \A i \in 1..k : <<list, c.items[i]>> \in Things \X Things
    <3>1. list \in Things
      BY DEF Things
    <3>2. \A i \in 1..k : c.items[i] \in Things
      BY <1>1
    <3> QED BY <3>1, <3>2
  <2> QED BY <1>1, <2>1
<1>7. r2.items = r.items \o m /\ r2.total = r.total + n
  <2>1. n # None BY <1>1 DEF None
  <2> QED BY <1>4, <2>1 DEF Adds
<1> HIDE DEF m, n, k
<1>8. /\ r2.items \in Seq(Things \X Things) /\ Len(r2.items) = Len(r.items) + k
      /\ \A j \in 1..Len(r.items) : j \in 1..Len(r2.items) /\ r2.items[j] = r.items[j]
      /\ \A j \in 1..k : Len(r.items) + j \in 1..Len(r2.items) /\ r2.items[Len(r.items) + j] = m[j]
  <2> DEFINE S == Things \X Things
             w == r.items \o m
  <2>1. r.items \in Seq(S) /\ m \in Seq(S)
    BY <1>5, <1>6
  <2>2. /\ w \in Seq(S) /\ Len(w) = Len(r.items) + Len(m)
        /\ \A j \in 1..Len(r.items) : j \in 1..Len(w) /\ w[j] = r.items[j]
        /\ \A j \in 1..Len(m) : Len(r.items) + j \in 1..Len(w) /\ w[Len(r.items) + j] = m[j]
    <3> HIDE DEF S
    <3> QED BY <2>1, Concats
  <2> QED BY <1>6, <1>7, <2>2
<1>9. r2.total \in Nat /\ Len(r2.items) <= r2.total
  BY <1>1, <1>5, <1>7, <1>8
<1>10. ASSUME Len(r2.items) = r2.total, NEW l \in AllLists(sync.provider)
       PROVE  IsPending(sync.provider, lists2, l) \/ IsCollected(stock, r2, l)
  <2>1. Len(r.items) = r.total /\ k = n
    BY <1>1, <1>5, <1>7, <1>8, <1>10
  <2>2. \A j \in 1..Len(r.items) : j \in 1..Len(r2.items) /\ r2.items[j] = r.items[j]
    BY <1>8
  <2>3. \A j \in 1..k : Len(r.items) + j \in 1..Len(r2.items) /\ r2.items[Len(r.items) + j] = <<list, c.items[j]>>
    BY <1>6, <1>8
  <2>4. CASE IsCollected(stock, r, l)
    BY <2>2, <2>4 DEF IsCollected
  <2>5. CASE IsPending(sync.provider, lists, l)
    <3>1. PICK i \in 1..Len(lists) :
            lists[i] = l \/ (l = "items" /\ sync.provider = "webflow" /\ lists[i] = "collections")
      BY <2>5 DEF IsPending
    <3>2. CASE i # 1
      <4>1. i - 1 \in 1..Len(Tail(lists)) /\ Tail(lists)[i - 1] = lists[i]
        BY <3>2
      <4>2. i - 1 \in 1..Len(lists2) /\ lists2[i - 1] = lists[i]
        BY <1>2, <4>1
      <4> QED BY <3>1, <4>2 DEF IsPending
    <3>3. CASE lists[1] = l
      <4>1. l = list
        BY <3>3
      <4>2. IsCollected(stock, r2, list)
        <5> SUFFICES ASSUME NEW p \in 1..n
                     PROVE  \E j \in 1..Len(r2.items) : r2.items[j] = <<list, stock[list][p]>>
          BY DEF IsCollected, n
        <5>1. p \in 1..k /\ c.items[p] = stock[list][p]
          BY <1>1, <2>1
        <5>2. /\ Len(r.items) + p \in 1..Len(r2.items)
              /\ r2.items[Len(r.items) + p] = <<list, stock[list][p]>>
          BY <2>3, <5>1
        <5> QED BY <5>2
      <4> QED BY <4>1, <4>2
    <3>4. CASE l = "items" /\ sync.provider = "webflow" /\ lists[1] = "collections"
      <4>1. list = "collections" /\ Following(list, c) = c.items
        BY <3>4 DEF Following
      <4>2. PICK q \in 1..n : stock[list][q] = "items"
        BY <4>1 DEF StockInv, n
      <4>3. q \in 1..k /\ c.items[q] = "items"
        BY <1>1, <2>1, <4>2
      <4>4. Len(Tail(lists)) + q \in 1..Len(lists2) /\ lists2[Len(Tail(lists)) + q] = "items"
        BY <1>1, <1>2, <4>1, <4>3 DEF k
      <4> QED BY <3>4, <4>4 DEF IsPending
    <3> QED BY <3>1, <3>2, <3>3, <3>4
  <2> QED BY <1>5, <2>1, <2>4, <2>5
<1> QED BY <1>8, <1>9, <1>10

LEMMA FreshListInv ==
  ASSUME StockInv, NEW list \in Lists
  PROVE  /\ ListInv(sync.provider, sync.reports.by, stock, FreshList, list)
         /\ DOMAIN FreshList = ListFields /\ ~FreshList.ended /\ FreshList.total = None
<1>1. /\ DOMAIN FreshList = ListFields /\ ~FreshList.ended /\ FreshList.total = None /\ FreshList.items = << >>
      /\ FreshList.cursor = None /\ FreshList.url = None /\ FreshList.at = 0
  BY DEF FreshList, ListFields
<1>2. Prefix(FreshList.items, stock[list])
  <2>1. stock[list] \in Seq(Things)
    BY DEF StockInv
  <2> QED BY <1>1, <2>1 DEF Prefix
<1>3. Position(FreshList) = Len(FreshList.items)
  BY <1>1 DEF Position
<1> QED BY <1>1, <1>2, <1>3 DEF ListInv, GoesOn

\* A step of the collection with what became of the current list.
LEMMA AdvanceKeeps ==
  ASSUME StockInv, SyncInv, sync.lists # <<>>, UNCHANGED stock, NEW c, DOMAIN c = ListFields, Advance(c),
         ~sync.reports.totals => c.total = None,
         Head(sync.lists) \in Lists \/ (c.ended /\ c.error # "none"),
         sync.steady /\ sync.reports.totals /\ Head(sync.lists) \in Lists =>
           ListInv(sync.provider, sync.reports.by, stock, c, Head(sync.lists))
  PROVE  SyncInv'
<1> DEFINE h == Head(sync.lists)
           r2 == Adds(sync.result, h, c)
           lists2 == Tail(sync.lists) \o Following(h, c)
<1>1. DOMAIN FreshList = ListFields /\ ~FreshList.ended /\ FreshList.total = None
  BY DEF FreshList, ListFields
<1>2. DOMAIN r2 = ResultFields
  BY DEF Adds, ResultFields
<1>3. CASE ~c.ended
  <2>1. sync' = [sync EXCEPT !.list = c] /\ h \in Lists
    BY <1>3 DEF Advance
  <2>2. /\ DOMAIN sync' = SyncFields /\ sync'.on = sync.on /\ sync'.id = sync.id
        /\ sync'.provider = sync.provider /\ sync'.loaded = sync.loaded /\ sync'.lists = sync.lists
        /\ sync'.list = c /\ sync'.result = sync.result /\ sync'.reports = sync.reports
        /\ sync'.steady = sync.steady
    BY <2>1 DEF SyncInv, SyncTyped, SyncFields
  <2> HIDE DEF h, r2, lists2
  <2>3. SyncTyped'
    BY <2>2 DEF SyncInv, SyncTyped, Registered
  <2>4. ~sync'.reports.totals => /\ sync'.list.total = None
                                 /\ ~sync'.result.known \/ sync'.lists = ListsOf(sync'.provider)
    BY <2>2 DEF SyncInv
  <2>5. ASSUME sync.steady, sync.reports.totals
        PROVE  /\ sync'.lists \in Seq(Things) /\ ~sync'.list.ended
               /\ ListInv(sync'.provider, sync'.reports.by, stock', sync'.list, Head(sync'.lists))
               /\ ResultInv(sync'.provider, stock', sync'.result, sync'.lists)
    <3>1. /\ sync.lists \in Seq(Things) /\ ListInv(sync.provider, sync.reports.by, stock, c, Head(sync.lists))
          /\ ResultInv(sync.provider, stock, sync.result, sync.lists)
      BY <2>1, <2>5 DEF SyncInv, h
    <3>2. ListInv(sync'.provider, sync'.reports.by, stock', sync'.list, Head(sync'.lists))
      BY <2>2, <3>1
    <3>3. ResultInv(sync'.provider, stock', sync'.result, sync'.lists)
      BY <2>2, <3>1
    <3> QED BY <1>3, <2>2, <3>1, <3>2, <3>3
  <2> QED BY <2>2, <2>3, <2>4, <2>5 DEF SyncInv
<1>4. CASE c.ended
  <2>1. sync' = [sync EXCEPT !.lists = lists2, !.list = FreshList, !.result = r2]
    BY <1>4 DEF Advance
  <2> HIDE DEF h, r2, lists2
  <2>2. /\ DOMAIN sync' = SyncFields /\ sync'.on = sync.on /\ sync'.id = sync.id
        /\ sync'.provider = sync.provider /\ sync'.loaded = sync.loaded /\ sync'.lists = lists2
        /\ sync'.list = FreshList /\ sync'.result = r2 /\ sync'.reports = sync.reports
        /\ sync'.steady = sync.steady
    BY <2>1 DEF SyncInv, SyncTyped, SyncFields
  <2>3. SyncTyped'
    BY <1>1, <1>2, <2>2 DEF SyncInv, SyncTyped, Registered
  <2>4. ~sync.reports.totals => ~r2.known
    BY DEF r2, Adds
  <2>5. ASSUME sync.steady, sync.reports.totals
        PROVE  /\ lists2 \in Seq(Things)
               /\ lists2 # <<>> /\ Head(lists2) \in Lists =>
                    ListInv(sync.provider, sync.reports.by, stock, FreshList, Head(lists2))
               /\ ResultInv(sync.provider, stock, r2, lists2)
    <3>1. /\ sync.lists \in Seq(Things) /\ ResultInv(sync.provider, stock, sync.result, sync.lists)
          /\ h \in Lists => ListInv(sync.provider, sync.reports.by, stock, c, h)
      BY <2>5 DEF SyncInv, h
    <3>2. CASE h \in Lists
      <4>1. Prefix(c.items, stock[h]) /\ c.total \in {None, Len(stock[h])}
        BY <3>1, <3>2 DEF ListInv
      <4>2. lists2 \in Seq(Things) /\ ResultInv(sync.provider, stock, r2, lists2)
        BY <3>1, <3>2, <4>1, ListFinished DEF h, r2, lists2
      <4> QED BY <4>2, FreshListInv
    <3>3. CASE h \notin Lists
      <4>1. c.error # "none" /\ r2.errors
        BY <3>3 DEF h, r2, Adds
      <4>2. Following(h, c) = << >>
        BY <3>3 DEF Following, Lists
      <4>a. << >> \in Seq(Things)
        OBVIOUS
      <4>b. Tail(sync.lists) \in Seq(Things)
        BY <3>1, TailOf, Zenon
      <4>3. Tail(sync.lists) \in Seq(Things) /\ << >> \in Seq(Things)
        BY <4>a, <4>b
      <4>4. lists2 \in Seq(Things)
        BY <4>2, <4>3 DEF lists2
      <4> QED BY <4>1, <4>4, FreshListInv DEF ResultInv
    <3> QED BY <3>2, <3>3
  <2>6. ASSUME sync.steady, sync.reports.totals
        PROVE  /\ sync'.lists # <<>> /\ Head(sync'.lists) \in Lists =>
                    ListInv(sync'.provider, sync'.reports.by, stock', sync'.list, Head(sync'.lists))
               /\ ResultInv(sync'.provider, stock', sync'.result, sync'.lists)
    <3>1. ResultInv(sync'.provider, stock', sync'.result, sync'.lists)
      BY <2>2, <2>5, <2>6
    <3>2. sync'.lists # <<>> /\ Head(sync'.lists) \in Lists =>
            ListInv(sync'.provider, sync'.reports.by, stock', sync'.list, Head(sync'.lists))
      BY <2>2, <2>5, <2>6
    <3> QED BY <3>1, <3>2
  <2> QED BY <1>1, <2>2, <2>3, <2>4, <2>5, <2>6 DEF SyncInv
<1> QED BY <1>3, <1>4

LEMMA AllArePending ==
  ASSUME NEW p \in Providers, NEW l \in AllLists(p)
  PROVE  IsPending(p, ListsOf(p), l)
<1>1. CASE p \in {"gsc", "ga4"}
  BY <1>1 DEF AllLists, ListsOf, IsPending
<1>2. CASE p = "wordpress"
  BY <1>2 DEF AllLists, ListsOf, IsPending
<1>3. CASE p = "webflow"
  <2>1. ListsOf(p) = <<"pages", "collections">>
    BY <1>3 DEF ListsOf
  <2>2. l \in {"pages", "collections", "items"}
    BY <1>3, <2>1 DEF AllLists
  <2> QED BY <1>3, <2>1, <2>2 DEF IsPending
<1> QED BY <1>1, <1>2, <1>3 DEF Providers

LEMMA ListsOfProvider ==
  ASSUME NEW p \in Providers
  PROVE  ListsOf(p) \in Seq(Things) /\ ListsOf(p) # <<>>
<1>0. Lists \subseteq Things
  BY DEF Things
<1>1. CASE p = "wordpress"
  <2>1. ListsOf(p) = <<"posts", "pages">>
    BY <1>1 DEF ListsOf
  <2> QED BY <1>0, <2>1 DEF Lists
<1>2. CASE p = "webflow"
  <2>1. ListsOf(p) = <<"pages", "collections">>
    BY <1>2 DEF ListsOf
  <2> QED BY <1>0, <2>1 DEF Lists
<1>3. CASE p \in {"gsc", "ga4"}
  <2>1. ListsOf(p) = <<"rows">>
    BY <1>3 DEF ListsOf
  <2> QED BY <1>0, <2>1 DEF Lists
<1> QED BY <1>1, <1>2, <1>3 DEF Providers

LEMMA StepSyncStarts ==
  ASSUME ConnectInv, SyncStarts
  PROVE  ConnectInv'
<1>1. PICK id \in Ids, totals \in BOOLEAN, by \in {"none", "cursor", "next", "offset"} :
        /\ connections[id] # Unconfigured
        /\ connections[id].provider # "webflow" => by = "none"
        /\ sync' = [on |-> TRUE, id |-> id, provider |-> connections[id].provider,
                    loaded |-> connections, lists |-> ListsOf(connections[id].provider),
                    list |-> FreshList, result |-> FreshResult,
                    reports |-> [totals |-> totals, by |-> by], steady |-> TRUE]
  BY DEF SyncStarts
<1>2. collected' = Uncollected /\ UNCHANGED <<connections, stock>>
  BY DEF SyncStarts
<1> DEFINE p == connections[id].provider
<1>3. p \in Providers
  BY <1>1 DEF ConnectInv, Registered
<1>4. /\ DOMAIN sync' = SyncFields /\ sync'.on /\ sync'.id = id /\ sync'.provider = p
      /\ sync'.loaded = connections /\ sync'.lists = ListsOf(p) /\ sync'.list = FreshList
      /\ sync'.result = FreshResult /\ sync'.reports.by = by
  BY <1>1 DEF SyncFields
<1> HIDE DEF p
<1>5. /\ DOMAIN FreshList = ListFields /\ FreshList.total = None /\ ~FreshList.ended
      /\ DOMAIN FreshResult = ResultFields /\ FreshResult.total = 0 /\ FreshResult.items = << >>
  BY DEF FreshList, ListFields, FreshResult, ResultFields
<1>6. SyncTyped'
  BY <1>1, <1>2, <1>3, <1>4, <1>5 DEF SyncTyped, ConnectInv, Registered, p
<1>7. ResultInv(sync'.provider, stock', sync'.result, sync'.lists)
  BY <1>3, <1>4, <1>5, AllArePending DEF ResultInv
<1>8. sync'.lists # <<>> /\ Head(sync'.lists) \in Lists =>
        ListInv(sync'.provider, sync'.reports.by, stock', sync'.list, Head(sync'.lists))
  <2>1. StockInv'
    BY <1>2 DEF ConnectInv, StockInv
  <2>2. \A l \in Lists : Prefix(FreshList.items, stock'[l])
    <3>1. FreshList.items = << >> /\ << >> \in Seq(Things) /\ Len(<< >>) = 0
      BY DEF FreshList
    <3>2. \A l \in Lists : Len(stock'[l]) \in Nat
      BY <2>1 DEF StockInv
    <3> QED BY <3>1, <3>2 DEF Prefix
  <2>3. /\ FreshList.cursor = None /\ FreshList.url = None /\ FreshList.total = None
        /\ Position(FreshList) = Len(FreshList.items)
    BY DEF FreshList, Position, None
  <2> QED BY <1>4, <2>2, <2>3 DEF ListInv, GoesOn
<1>9. SyncInv'
  BY <1>3, <1>4, <1>5, <1>6, <1>7, <1>8, ListsOfProvider DEF SyncInv
<1>10. StockInv' /\ Registered(connections')
  BY <1>2 DEF ConnectInv, StockInv, Registered
<1>11. CompleteIsAll'
  BY <1>2 DEF CompleteIsAll, Uncollected
<1> QED BY <1>9, <1>10, <1>11 DEF ConnectInv

LEMMA StepPageArrives ==
  ASSUME ConnectInv, PageArrives
  PROVE  ConnectInv'
<1> DEFINE list == Head(sync.lists)
           a == Answer(list, Position(sync.list))
           d == After(sync.provider, sync.list, a)
<1>1. /\ sync.on /\ sync.lists # <<>> /\ list \in DOMAIN stock
      /\ ~(sync.provider = "wordpress" /\ sync.list.at > 0 /\ sync.list.at >= Len(stock[list]))
      /\ Advance(d) /\ UNCHANGED <<connections, stock, collected>>
  BY DEF PageArrives
<1>2. StockInv /\ SyncInv /\ SyncTyped /\ list \in Lists
  BY <1>1 DEF ConnectInv, NoSync, SyncInv, StockInv
<1>3. sync.provider \in Providers /\ DOMAIN sync.list = ListFields /\ PageSize \in Nat \ {0}
  BY <1>2, ConnectionsAssumption DEF SyncTyped
<1>4. DOMAIN d = ListFields
  BY <1>3, AfterTakes
<1>5. ~sync.reports.totals => d.total = None
  <2>1. ~sync.reports.totals => a.total = None /\ sync.list.total = None
    BY <1>2 DEF Answer, SyncInv
  <2>2. d.total = IF a.total = None THEN sync.list.total ELSE a.total
    BY <1>3, AfterTotal
  <2> QED BY <2>1, <2>2
<1>6. ASSUME sync.steady, sync.reports.totals
      PROVE  ListInv(sync.provider, sync.reports.by, stock, d, list)
  <2>1. ~sync.list.ended /\ ListInv(sync.provider, sync.reports.by, stock, sync.list, list)
    BY <1>1, <1>2, <1>6 DEF SyncInv
  <2> HIDE DEF list
  <2> QED BY <1>1, <1>2, <1>3, <1>6, <2>1, PageKeeps
<1>7. SyncInv'
  <2> HIDE DEF d, a
  <2> QED BY <1>1, <1>2, <1>4, <1>5, <1>6, AdvanceKeeps
<1> QED BY <1>1, <1>2, <1>7 DEF ConnectInv, StockInv, Registered, CompleteIsAll

LEMMA StepRequestFails ==
  ASSUME ConnectInv, RequestFails
  PROVE  ConnectInv'
<1>1. PICK e \in {"provider", "other"} :
        Advance([sync.list EXCEPT !.requested = @ + 1, !.error = e, !.continues = TRUE, !.ended = TRUE,
                                  !.unknown = @ \/ sync.provider = "gsc"])
  BY DEF RequestFails
<1> DEFINE list == Head(sync.lists)
           c == sync.list
           d == [sync.list EXCEPT !.requested = @ + 1, !.error = e, !.continues = TRUE, !.ended = TRUE,
                                  !.unknown = @ \/ sync.provider = "gsc"]
<1>2. sync.on /\ sync.lists # <<>> /\ UNCHANGED <<connections, stock, collected>>
  BY DEF RequestFails
<1>3. StockInv /\ SyncInv /\ DOMAIN c = ListFields
  BY <1>2 DEF ConnectInv, NoSync, SyncInv, SyncTyped
<1>4. DOMAIN d = ListFields /\ d.items = c.items /\ d.total = c.total /\ d.ended /\ d.error = e
  BY <1>3 DEF ListFields
<1>5. Advance(d)
  BY <1>1
<1> HIDE DEF d
<1>6. sync.steady /\ sync.reports.totals /\ list \in Lists =>
        ListInv(sync.provider, sync.reports.by, stock, d, list)
  BY <1>2, <1>3, <1>4 DEF SyncInv, ListInv
<1>7. SyncInv'
  <2>1. ~sync.reports.totals => d.total = None
    BY <1>3, <1>4 DEF SyncInv
  <2> QED BY <1>2, <1>3, <1>4, <1>5, <1>6, <2>1, AdvanceKeeps
<1> QED BY <1>2, <1>3, <1>7 DEF ConnectInv, StockInv, Registered, CompleteIsAll

LEMMA StepSyncEnds ==
  ASSUME ConnectInv, SyncEnds
  PROVE  ConnectInv'
<1> DEFINE r == sync.result
           status == CoverageStatus(r)
           missed == AllItems(sync.provider) \ {r.items[i] : i \in 1..Len(r.items)}
<1>1. /\ sync.on /\ sync.lists = <<>> /\ sync' = NoSync /\ UNCHANGED stock
      /\ collected' = collected \/ collected' = [status |-> status, steady |-> sync.steady, missed |-> missed]
      /\ \E state : connections' = [sync.loaded EXCEPT ![sync.id] = Entry(state, sync.provider)]
  BY DEF SyncEnds
<1>2. StockInv /\ SyncInv /\ SyncTyped
  BY <1>1 DEF ConnectInv, NoSync, SyncInv
<1>3. Registered(connections')
  BY <1>1, <1>2 DEF SyncTyped, Registered, Entry
<1>4. ASSUME status = "complete", sync.steady PROVE missed = {}
  <2>1. ~r.errors /\ r.known /\ ~(r.total < Len(r.items)) /\ ~(r.total > Len(r.items))
    BY <1>4 DEF CoverageStatus
  <2>2. sync.reports.totals
    BY <1>1, <1>2, <2>1, ListsOfProvider DEF SyncInv, SyncTyped
  <2>3. ResultInv(sync.provider, stock, r, sync.lists)
    BY <1>2, <1>4, <2>2 DEF SyncInv
  <2>4. Len(r.items) = r.total
    BY <2>1, <2>3 DEF ResultInv
  <2>5. \A l \in AllLists(sync.provider) : IsCollected(stock, r, l)
    BY <1>1, <2>1, <2>3, <2>4 DEF ResultInv, IsPending
  <2> DEFINE Got == {r.items[i] : i \in 1..Len(r.items)}
  <2>6. ASSUME NEW x \in AllItems(sync.provider) PROVE x \in Got
    <3>1. PICK l \in AllLists(sync.provider) : x \in {<<l, stock[l][i]>> : i \in 1..Len(stock[l])}
      BY <2>6 DEF AllItems
    <3>2. PICK i \in 1..Len(stock[l]) : x = <<l, stock[l][i]>>
      BY <3>1
    <3> QED BY <2>5, <3>2 DEF IsCollected
  <2> QED BY <2>6
<1>5. CompleteIsAll'
  <2>1. CASE collected' = collected
    BY <2>1 DEF ConnectInv, CompleteIsAll
  <2>2. CASE collected' = [status |-> status, steady |-> sync.steady, missed |-> missed]
    BY <1>4, <2>2 DEF CompleteIsAll
  <2> QED BY <1>1, <2>1, <2>2
<1> QED BY <1>1, <1>2, <1>3, <1>5 DEF ConnectInv, StockInv

LEMMA StepStockChanges ==
  ASSUME ConnectInv, StockChanges
  PROVE  ConnectInv'
<1>1. /\ sync.on /\ sync' = [sync EXCEPT !.steady = FALSE] /\ UNCHANGED <<connections, collected>>
  BY DEF StockChanges
<1>2. PICK l \in DOMAIN stock \ {"collections"} :
        \/ stock' = [stock EXCEPT ![l] = <<"new">> \o @]
        \/ stock[l] # <<>> /\ stock' = [stock EXCEPT ![l] = Tail(@)]
  BY DEF StockChanges
<1>3. StockInv /\ SyncInv /\ l \in Lists /\ stock[l] \in Seq(Things)
  BY <1>1, <1>2 DEF ConnectInv, NoSync, StockInv
<1>4. StockInv'
  <2>0. <<"new">> \in Seq(Things)
    <3>1. "new" \in Things
      BY DEF Things
    <3> QED BY <3>1
  <2>1. <<"new">> \o stock[l] \in Seq(Things)
    BY <1>3, <2>0, Concats
  <2>2. stock[l] # <<>> => Tail(stock[l]) \in Seq(Things)
    BY <1>3
  <2>3. stock' \in [Lists -> Seq(Things)]
    BY <1>2, <1>3, <2>1, <2>2 DEF StockInv
  <2>4. stock'["collections"] = stock["collections"]
    BY <1>2, <1>3 DEF StockInv, Lists
  <2> QED BY <1>3, <2>3, <2>4 DEF StockInv
<1>5. /\ DOMAIN sync' = SyncFields /\ sync'.on = sync.on /\ sync'.id = sync.id
      /\ sync'.provider = sync.provider /\ sync'.loaded = sync.loaded /\ sync'.lists = sync.lists
      /\ sync'.list = sync.list /\ sync'.result = sync.result /\ sync'.reports = sync.reports
      /\ ~sync'.steady
  BY <1>1, <1>3 DEF SyncInv, SyncTyped, SyncFields
<1>6. SyncTyped'
  BY <1>3, <1>5 DEF SyncInv, SyncTyped, Registered
<1>7. SyncInv'
  BY <1>3, <1>5, <1>6 DEF SyncInv
<1> QED BY <1>1, <1>4, <1>7 DEF ConnectInv, Registered, CompleteIsAll

LEMMA StepConnect ==
  ASSUME ConnectInv, [ConnectNext]_connectVars
  PROVE  ConnectInv'
<1>1. CASE UNCHANGED connectVars
  <2>1. UNCHANGED <<connections, stock, sync, collected>>
    BY <1>1 DEF connectVars
  <2>2. SyncInv' = SyncInv
    BY <2>1 DEF SyncInv, SyncTyped, Registered
  <2> QED BY <2>1, <2>2 DEF ConnectInv, StockInv, Registered, CompleteIsAll
<1>2. CASE Configure \/ Disconnect
  <2>1. UNCHANGED <<stock, sync, collected>>
    BY <1>2 DEF Configure, Disconnect
  <2>2. Registered(connections')
    BY <1>2 DEF Configure, Disconnect, ConnectInv, Registered, Entry, Unconfigured
  <2>3. SyncInv' = SyncInv
    BY <2>1 DEF SyncInv, SyncTyped, Registered
  <2> QED BY <2>1, <2>2, <2>3 DEF ConnectInv, StockInv, CompleteIsAll
<1> QED BY <1>1, <1>2, StepSyncStarts, StepPageArrives, StepRequestFails, StepSyncEnds, StepStockChanges
        DEF ConnectNext

LEMMA InitConnect == ConnectInit => ConnectInv
<1> SUFFICES ASSUME ConnectInit PROVE ConnectInv
  OBVIOUS
<1>1. stock \in [Lists -> Seq(STRING)] /\ stock \in Stocks
  BY ConnectionsAssumption DEF ConnectInit
<1>2. ASSUME NEW l \in Lists PROVE stock[l] \in Seq(Things)
  <2>1. stock[l] \in Seq(STRING)
    BY <1>1
  <2>2. \A i \in 1..Len(stock[l]) : stock[l][i] \in Things
    BY <1>1, <2>1 DEF Things
  <2> QED BY <2>1, <2>2
<1>3. StockInv
  BY <1>1, <1>2, ConnectionsAssumption DEF StockInv
<1> QED BY <1>3 DEF ConnectInit, ConnectInv, Registered, CompleteIsAll, Uncollected

-----------------------------------------------------------------------------
(***************************************************************************)
(* Writing on the web.  Whoever writes has read what the reviewer read, as *)
(* far as the hash covers it; and what a submission that is not a dry run  *)
(* counts as delivered the endpoint has.                                   *)
(***************************************************************************)
Writer(shown, n) == [doing |-> "writing", status |-> "none", current |-> shown, attempt |-> n]

WritersReadReviewed ==
  /\ apply = [p \in Operators |-> apply[p]]
  /\ \A p \in Operators : apply[p].doing = "writing" =>
       /\ spec.on
       /\ apply[p] = Writer(apply[p].current, apply[p].attempt)
       /\ \A f \in Hashed : apply[p].current[f] = AsShown(spec.seen)[f]

Submission == [doing : {"verifying", "posting"}, write : BOOLEAN, foreign : 1..Batches + 1,
               next : 1..Batches + 1, delivered : SUBSET (1..Batches)]

DeliveredArrived ==
  /\ submission \in Submission \cup {NoSubmission}
  /\ engine \subseteq 1..Batches
  /\ submission \in Submission /\ submission.write => submission.delivered \subseteq engine
  /\ ReceiptIsTrue

PublishInv == WritersReadReviewed /\ DeliveredArrived

LEMMA StepCms ==
  ASSUME WritersReadReviewed, [CmsNext \/ IndexNowNext]_publishVars
  PROVE  WritersReadReviewed'
<1>1. CASE UNCHANGED <<spec, apply>>
  BY <1>1 DEF WritersReadReviewed
<1>2. CASE Edit \/ IndexNowNext \/ UNCHANGED publishVars
  BY <1>1, <1>2, Zenon DEF Edit, IndexNowNext, SubmitStarts, VerifyHostKey, SubmitThrows, PostBatch, WriteReceipt,
                    publishVars, cmsVars
<1>3. CASE Review
  <2>1. ~spec.on /\ UNCHANGED apply
    BY <1>3 DEF Review, NoSpec
  <2> QED BY <2>1 DEF WritersReadReviewed
<1>4. ASSUME NEW p \in Operators, NEW x, apply' = [apply EXCEPT ![p] = x], UNCHANGED spec,
             x.doing = "writing" => /\ spec.on
                                    /\ x = Writer(x.current, x.attempt)
                                    /\ \A f \in Hashed : x.current[f] = AsShown(spec.seen)[f]
      PROVE  WritersReadReviewed'
  <2>1. apply'[p] = x /\ (\A q \in Operators \ {p} : apply'[q] = apply[q])
        /\ apply' = [q \in Operators |-> apply'[q]]
    BY <1>4 DEF WritersReadReviewed
  <2> QED BY <1>4, <2>1 DEF WritersReadReviewed
<1>5. ASSUME NEW p \in Operators, ApplyReads(p) PROVE WritersReadReviewed'
  <2>1. PICK write \in BOOLEAN :
          apply' = [apply EXCEPT ![p] =
            IF PayloadHash(content) # PayloadHash(spec.seen) THEN [doing |-> "idle", status |-> "stale"]
            ELSE IF ~write THEN [doing |-> "idle", status |-> "proposed"]
            ELSE Writer(AsShown(content), 1)]
    BY <1>5 DEF ApplyReads, Writer
  <2>2. CASE PayloadHash(content) # PayloadHash(spec.seen)
    BY <1>4, <1>5, <2>1, <2>2 DEF ApplyReads
  <2>3. CASE PayloadHash(content) = PayloadHash(spec.seen) /\ ~write
    BY <1>4, <1>5, <2>1, <2>3 DEF ApplyReads
  <2>4. CASE PayloadHash(content) = PayloadHash(spec.seen) /\ write
    <3>1. apply' = [apply EXCEPT ![p] = Writer(AsShown(content), 1)] /\ UNCHANGED spec /\ spec.on
      BY <1>5, <2>1, <2>4 DEF ApplyReads
    <3>2. \A f \in Hashed : AsShown(content)[f] = AsShown(spec.seen)[f]
      <4>1. ASSUME NEW f \in Hashed PROVE AsShown(content)[f] = AsShown(spec.seen)[f]
        <5>1. PayloadHash(content)[f] = AsShown(content)[f] /\ PayloadHash(spec.seen)[f] = AsShown(spec.seen)[f]
          BY DEF PayloadHash
        <5> QED BY <2>4, <5>1
      <4> QED BY <4>1
    <3> DEFINE x == Writer(AsShown(content), 1)
    <3>3. x.current = AsShown(content) /\ x = Writer(x.current, x.attempt) /\ apply' = [apply EXCEPT ![p] = x]
      BY <3>1 DEF Writer
    <3> HIDE DEF x
    <3>4. \A f \in Hashed : x.current[f] = AsShown(spec.seen)[f]
      BY <3>2, <3>3, Zenon
    <3> QED BY <1>4, <1>5, <3>1, <3>3, <3>4, Zenon
  <2> QED BY <2>2, <2>3, <2>4
<1>6. ASSUME NEW p \in Operators, ApplyWrites(p) PROVE WritersReadReviewed'
  <2> DEFINE w == apply[p]
  <2>1. /\ w.doing = "writing" /\ spec.on /\ w = Writer(w.current, w.attempt)
        /\ \A f \in Hashed : w.current[f] = AsShown(spec.seen)[f]
        /\ UNCHANGED spec
    BY <1>6, Zenon DEF ApplyWrites, WritersReadReviewed
  <2>2. \/ apply' = [apply EXCEPT ![p] = [w EXCEPT !.doing = "reading back"]]
        \/ apply' = [apply EXCEPT ![p] = [w EXCEPT !.attempt = @ + 1]]
        \/ apply' = [apply EXCEPT ![p] = [doing |-> "idle", status |-> "failed"]]
    BY <1>6, Zenon DEF ApplyWrites
  <2> HIDE DEF w
  <2>3. CASE apply' = [apply EXCEPT ![p] = [w EXCEPT !.doing = "reading back"]]
    <3>1. [w EXCEPT !.doing = "reading back"].doing = "reading back"
      BY <2>1 DEF Writer
    <3> QED BY <1>4, <2>1, <2>3, <3>1, Zenon
  <2>4. CASE apply' = [apply EXCEPT ![p] = [w EXCEPT !.attempt = @ + 1]]
    <3> DEFINE x == [w EXCEPT !.attempt = @ + 1]
    <3>1. x = Writer(x.current, x.attempt) /\ x.current = w.current
      BY <2>1 DEF Writer
    <3>2. apply' = [apply EXCEPT ![p] = x]
      BY <2>4
    <3> HIDE DEF x
    <3> QED BY <1>4, <2>1, <3>1, <3>2
  <2>5. CASE apply' = [apply EXCEPT ![p] = [doing |-> "idle", status |-> "failed"]]
    BY <1>4, <2>1, <2>5
  <2> QED BY <2>2, <2>3, <2>4, <2>5, Zenon
<1>7. ASSUME NEW p \in Operators, ApplyReadsBack(p) PROVE WritersReadReviewed'
  <2>1. PICK s : apply' = [apply EXCEPT ![p] = [doing |-> "idle", status |-> s]]
    BY <1>7, Zenon DEF ApplyReadsBack
  <2> QED BY <1>4, <1>7, <2>1, Zenon DEF ApplyReadsBack
<1> QED BY <1>2, <1>3, <1>5, <1>6, <1>7 DEF CmsNext

LEMMA StepIndexNow ==
  ASSUME DeliveredArrived, [CmsNext \/ IndexNowNext]_publishVars
  PROVE  DeliveredArrived'
<1>1. CASE UNCHANGED indexNowVars
  BY <1>1 DEF DeliveredArrived, ReceiptIsTrue, indexNowVars
<1>2. CASE CmsNext \/ UNCHANGED publishVars
  BY <1>1, <1>2, Zenon DEF CmsNext, Review, Edit, ApplyReads, ApplyWrites, ApplyReadsBack, publishVars
<1>3. Batches \in Nat \ {0} /\ 1 \in 1..Batches + 1 /\ NoSubmission \notin Submission
  BY PublishingAssumption DEF NoSubmission, Submission
<1>4. CASE SubmitStarts
  <2>1. PICK write \in BOOLEAN, skip \in BOOLEAN, foreign \in 1..Batches + 1 :
          submission' = [doing |-> IF skip THEN "posting" ELSE "verifying", write |-> write,
                         foreign |-> foreign, next |-> 1, delivered |-> {}]
    BY <1>4 DEF SubmitStarts
  <2>2. submission' \in Submission /\ submission'.delivered = {} /\ UNCHANGED <<engine, receipts>>
    BY <1>3, <1>4, <2>1 DEF SubmitStarts, Submission
  <2> QED BY <2>2 DEF DeliveredArrived, ReceiptIsTrue
<1>5. ASSUME submission' = NoSubmission, UNCHANGED <<engine, receipts>> PROVE DeliveredArrived'
  BY <1>3, <1>5 DEF DeliveredArrived, ReceiptIsTrue
<1>6. CASE VerifyHostKey
  <2>1. CASE submission' = [submission EXCEPT !.doing = "posting"]
    <3>1. submission \in Submission /\ UNCHANGED <<engine, receipts>>
      BY <1>6 DEF VerifyHostKey, DeliveredArrived, NoSubmission
    <3>2. submission' \in Submission /\ submission'.write = submission.write
          /\ submission'.delivered = submission.delivered
      BY <2>1, <3>1 DEF Submission
    <3> QED BY <3>1, <3>2 DEF DeliveredArrived, ReceiptIsTrue
  <2> QED BY <1>5, <1>6, <2>1 DEF VerifyHostKey
<1>7. CASE SubmitThrows
  BY <1>5, <1>7 DEF SubmitThrows
<1>8. CASE PostBatch
  <2> DEFINE b == submission.next
  <2>0. submission \in Submission /\ b <= Batches /\ UNCHANGED receipts
    <3>1. submission.doing = "posting" /\ b <= Batches /\ UNCHANGED receipts
      BY <1>8, Zenon DEF PostBatch
    <3>2. submission \in Submission \cup {NoSubmission}
      BY DEF DeliveredArrived
    <3> QED BY <3>1, <3>2 DEF NoSubmission
  <2>1. submission \in Submission /\ b \in 1..Batches /\ UNCHANGED receipts
    <3>1. b \in 1..Batches + 1
      BY <2>0 DEF Submission
    <3> QED BY <1>3, <2>0, <3>1
  <2>2. PICK D \in {submission.delivered, submission.delivered \cup {b}} :
          /\ submission' = [submission EXCEPT !.next = @ + 1, !.delivered = D]
          /\ engine \subseteq engine' /\ engine' \subseteq engine \cup {b}
          /\ submission.write /\ D # submission.delivered => b \in engine'
    <3>1. CASE ~submission.write
      BY <1>8, <3>1, Zenon DEF PostBatch
    <3>2. CASE submission.write
      <4>1. PICK got \in BOOLEAN, accepted \in BOOLEAN :
              /\ accepted => got
              /\ engine' = IF got THEN engine \cup {b} ELSE engine
              /\ submission' = [submission EXCEPT !.next = @ + 1,
                                  !.delivered = IF accepted THEN @ \cup {b} ELSE @]
        BY <1>8, <3>2, Zenon DEF PostBatch
      <4> QED BY <4>1
    <3> QED BY <2>1, <3>1, <3>2 DEF Submission
  <2>3. /\ submission' \in Submission /\ submission'.write = submission.write
        /\ submission'.delivered = D
    <3>1. b + 1 \in 1..Batches + 1 /\ D \in SUBSET (1..Batches)
      <4>1. submission.delivered \in SUBSET (1..Batches)
        BY <2>1 DEF Submission
      <4> QED BY <1>3, <2>1, <4>1
    <3>2. submission' = [submission EXCEPT !.next = b + 1, !.delivered = D]
      BY <2>2
    <3> HIDE DEF b
    <3> QED BY <2>1, <3>1, <3>2 DEF Submission
  <2>4. engine' \subseteq 1..Batches
    BY <2>1, <2>2 DEF DeliveredArrived
  <2>5. submission'.write => submission'.delivered \subseteq engine'
    BY <2>1, <2>2, <2>3 DEF DeliveredArrived
  <2>6. ReceiptIsTrue'
    BY <2>1, <2>2, <2>4 DEF DeliveredArrived, ReceiptIsTrue
  <2> QED BY <2>3, <2>4, <2>5, <2>6 DEF DeliveredArrived
<1>9. CASE WriteReceipt
  <2>1. submission \in Submission
    BY <1>9 DEF WriteReceipt, DeliveredArrived, NoSubmission
  <2>2. receipts' = receipts \cup {[success |-> AllDelivered(submission), dry |-> ~submission.write]}
        /\ submission' = NoSubmission /\ UNCHANGED engine
    BY <1>9 DEF WriteReceipt
  <2>3. AllDelivered(submission) /\ submission.write => engine = 1..Batches
    BY <2>1 DEF AllDelivered, DeliveredArrived
  <2>4. ReceiptIsTrue'
    <3> SUFFICES ASSUME NEW r \in receipts', r.success, ~r.dry PROVE engine = 1..Batches
      BY <2>2 DEF ReceiptIsTrue
    <3>1. CASE r \in receipts
      BY <3>1 DEF DeliveredArrived, ReceiptIsTrue
    <3>2. CASE r = [success |-> AllDelivered(submission), dry |-> ~submission.write]
      <4>1. r.success = AllDelivered(submission) /\ r.dry = ~submission.write
        BY <3>2
      <4> QED BY <2>3, <4>1
    <3> QED BY <2>2, <3>1, <3>2
  <2> QED BY <1>3, <2>2, <2>4 DEF DeliveredArrived
<1> QED BY <1>2, <1>4, <1>6, <1>7, <1>8, <1>9 DEF IndexNowNext

LEMMA InitPublish == PublishInit => PublishInv
<1> SUFFICES ASSUME PublishInit PROVE PublishInv
  OBVIOUS
<1>1. WritersReadReviewed
  BY DEF PublishInit, WritersReadReviewed, NotApplying
<1>2. NoSubmission \notin Submission
  BY DEF NoSubmission, Submission
<1> QED BY <1>1, <1>2 DEF PublishInit, PublishInv, DeliveredArrived, ReceiptIsTrue

-----------------------------------------------------------------------------
(***************************************************************************)
(* The correlation of a journey.  Steps are numbered on, so a request that *)
(* was sent in the step that is acting was sent while it was acting: what  *)
(* comes back then has the phase of the request, or says so.               *)
(***************************************************************************)
InStep == at \in {"acting", "drain step", "step done", "step over"}

TrackerShape(t) == t = [seq |-> t.seq, step |-> t.step, phase |-> t.phase]

LEMMA TrackerIs ==
  ASSUME NEW t, NEW a, NEW n, NEW p, t = [seq |-> a, step |-> n, phase |-> p]
  PROVE  TrackerShape(t) /\ t.seq = a /\ t.step = n /\ t.phase = p
BY DEF TrackerShape

\* Steps are numbered in order, and are during_step only while they act.
StepsInOrder ==
  /\ TrackerShape(tracker)
  /\ tracker.step \in Nat /\ IsSeq(done) /\ Len(done) \in Nat
  /\ InStep  => tracker.step = Len(done) + 1 /\ tracker.phase = "during_step"
  /\ ~InStep => tracker.step <= Len(done) /\ tracker.phase # "during_step"

\* A moment of the journey that is not after the tracker's.
Earlier(m, t) ==
  /\ m = [step |-> m.step, phase |-> m.phase]
  /\ m.step \in Nat /\ m.step <= t.step
  /\ m.step = t.step /\ t.phase = "during_step" => m.phase = "during_step"

Attributed(e) == e.direction = "response" /\ ~e.async => e.from = e.to

IsNetwork(n) ==
  /\ n = [events |-> n.events, total |-> n.total, succeeded |-> n.succeeded, failed |-> n.failed,
          filtered |-> n.filtered, truncated |-> n.truncated]
  /\ IsSeq(n.events)
  /\ \A i \in 1..Len(n.events) : Attributed(n.events[i])

AttributionInv ==
  /\ StepsInOrder
  /\ IsNetwork(network)
  /\ request = [r \in JourneyRequests |-> request[r]]
  /\ \A r \in JourneyRequests :
       /\ request[r].is = "sent" => Earlier(request[r].from, tracker)
       /\ request[r].is = "body" => Attributed(request[r].event)

LEMMA MomentIsEarlier == StepsInOrder => Earlier(Moment, tracker)
BY DEF TrackerShape, StepsInOrder, Earlier, Moment

LEMMA CompletionAttributed ==
  ASSUME StepsInOrder, NEW r, Earlier(request[r].from, tracker) \/ Completion(r).async
  PROVE  Attributed(Completion(r))
<1>1. CASE Completion(r).async
  BY <1>1 DEF Attributed
<1>2. CASE Earlier(request[r].from, tracker) /\ ~IsAsync(request[r].from, Moment)
  <2> DEFINE m == request[r].from
  <2>1. m.step = Moment.step /\ (m.phase = Moment.phase \/ Moment.phase = "during_step")
    BY <1>2 DEF IsAsync
  <2>2. Moment.step = tracker.step /\ Moment.phase = tracker.phase
    BY DEF Moment
  <2>3. m = Moment
    BY <1>2, <2>1, <2>2 DEF Earlier, Moment
  <2>4. Completion(r).from = m /\ Completion(r).to = Moment
    BY DEF Completion
  <2> QED BY <2>3, <2>4 DEF Attributed
<1>3. Completion(r).async = IsAsync(request[r].from, Moment)
  BY DEF Completion
<1> QED BY <1>1, <1>2, <1>3

\* Moments stay earlier as the journey goes on.
LEMMA StaysEarlier ==
  ASSUME NEW m, Earlier(m, tracker), StepsInOrder, StepsInOrder',
         \/ tracker'.step = tracker.step /\ tracker'.phase = tracker.phase
         \/ tracker'.step = tracker.step /\ tracker'.phase # "during_step"
         \/ tracker'.step > tracker.step
  PROVE  Earlier(m, tracker')
BY DEF Earlier, StepsInOrder

LEMMA NetworkCounts ==
  ASSUME IsNetwork(network), NEW n, n = [events |-> network.events, total |-> n.total, succeeded |-> n.succeeded,
         failed |-> n.failed, filtered |-> n.filtered, truncated |-> n.truncated]
  PROVE  IsNetwork(n)
<1>1. n.events = network.events
  OBVIOUS
<1> QED BY <1>1 DEF IsNetwork

LEMMA NetworkGrows ==
  ASSUME IsNetwork(network), NEW e, Attributed(e), NEW n,
         n = [events |-> Append(network.events, e), total |-> n.total, succeeded |-> n.succeeded,
              failed |-> n.failed, filtered |-> n.filtered, truncated |-> n.truncated]
  PROVE  IsNetwork(n)
<1>1. n.events = Append(network.events, e)
  OBVIOUS
<1>2. IsSeq(network.events) /\ \A i \in 1..Len(network.events) : Attributed(network.events[i])
  BY DEF IsNetwork
<1>3. \A i \in 1..Len(n.events) : Attributed(n.events[i])
  BY <1>1, <1>2, SeqGrows
<1> QED BY <1>1, <1>2, <1>3, SeqGrows DEF IsNetwork

LEMMA FailureCounted ==
  ASSUME IsNetwork(network), NEW f, NEW b
  PROVE  [network EXCEPT !.failed = f, !.truncated = b] =
           [events |-> network.events, total |-> network.total, succeeded |-> network.succeeded,
            failed |-> f, filtered |-> network.filtered, truncated |-> b]
<1> DEFINE n == [network EXCEPT !.failed = f]
<1>1. network = [events |-> network.events, total |-> network.total, succeeded |-> network.succeeded,
                 failed |-> network.failed, filtered |-> network.filtered, truncated |-> network.truncated]
  BY DEF IsNetwork
<1>2. n = [events |-> network.events, total |-> network.total, succeeded |-> network.succeeded,
           failed |-> f, filtered |-> network.filtered, truncated |-> network.truncated]
  BY <1>1
<1> HIDE DEF n
<1>3. [n EXCEPT !.truncated = b] =
        [events |-> network.events, total |-> network.total, succeeded |-> network.succeeded,
         failed |-> f, filtered |-> network.filtered, truncated |-> b]
  BY <1>2
<1> QED BY <1>3 DEF n

\* A step of the capture: the tracker goes on, requests and network stay.
LEMMA CaptureStep ==
  ASSUME AttributionInv, StepsInOrder', UNCHANGED networkVars,
         \/ tracker'.step = tracker.step /\ tracker'.phase = tracker.phase
         \/ tracker'.step = tracker.step /\ tracker'.phase # "during_step"
         \/ tracker'.step > tracker.step
  PROVE  AttributionInv'
<1>1. UNCHANGED network /\ UNCHANGED request
  BY DEF networkVars
<1>2. \A m : Earlier(m, tracker) => Earlier(m, tracker')
  BY StaysEarlier DEF AttributionInv
<1> QED BY <1>1, <1>2 DEF AttributionInv, IsNetwork, Attributed

LEMMA SeqOnly ==
  ASSUME StepsInOrder, NEW x, tracker' = [tracker EXCEPT !.seq = x], UNCHANGED done, (InStep' <=> InStep)
  PROVE  StepsInOrder' /\ tracker'.step = tracker.step /\ tracker'.phase = tracker.phase
<1>1. tracker' = [seq |-> x, step |-> tracker.step, phase |-> tracker.phase]
  BY DEF TrackerShape, StepsInOrder
<1> QED BY <1>1, Zenon DEF TrackerShape, StepsInOrder, InStep

LEMMA StepCapture ==
  ASSUME AttributionInv, CaptureNext
  PROVE  AttributionInv'
<1>0. StepsInOrder
  BY DEF AttributionInv
<1>1. ASSUME UNCHANGED <<tracker, done, network, request>>, (InStep' <=> InStep) PROVE AttributionInv'
  BY <1>1, CaptureStep, Zenon DEF AttributionInv, StepsInOrder, networkVars, InStep
<1>2. ASSUME NEW x, tracker' = [tracker EXCEPT !.seq = x], UNCHANGED <<done, network, request>>, (InStep' <=> InStep)
      PROVE  AttributionInv'
  BY <1>0, <1>2, SeqOnly, CaptureStep DEF networkVars
<1>3. CASE Launch \/ AdapterCaptures \/ Goto \/ InstallOnPage \/ Settle \/ Content \/ Close
  BY <1>1, <1>3, Zenon DEF Launch, AdapterCaptures, Goto, InstallOnPage, Settle, Content, Close, networkVars, InStep
<1>4. ASSUME NEW from, NEW to, Drain(from, to),
             ((from \in {"acting", "drain step", "step done", "step over"}) <=>
              (to \in {"acting", "drain step", "step done", "step over"}))
      PROVE  AttributionInv'
  <2>1. (InStep' <=> InStep) /\ UNCHANGED <<done, network, request>>
    BY <1>4, Zenon DEF Drain, InStep, networkVars
  <2>2. UNCHANGED tracker \/ \E x : tracker' = [tracker EXCEPT !.seq = x]
    BY <1>4, Zenon DEF Drain
  <2> QED BY <1>1, <1>2, <2>1, <2>2
<1>5. ASSUME Checkpoint \/ UNCHANGED <<checkpoints, tracker>>
      PROVE  UNCHANGED tracker \/ \E x : tracker' = [tracker EXCEPT !.seq = x]
  BY <1>5 DEF Checkpoint
<1>6. CASE InitialCheckpoint \/ StepActs \/ StepCheckpoint \/ FinalCheckpoint
  <2>1. (InStep' <=> InStep) /\ UNCHANGED <<done, network, request>>
    BY <1>6, Zenon DEF InitialCheckpoint, StepActs, StepCheckpoint, FinalCheckpoint, InStep, networkVars
  <2>2. Checkpoint \/ UNCHANGED <<checkpoints, tracker>>
    BY <1>6, Zenon DEF InitialCheckpoint, StepActs, StepCheckpoint, FinalCheckpoint, CheckpointIf
  <2> QED BY <1>1, <1>2, <1>5, <2>1, <2>2
<1>7. CASE StartStep
  <2>1. /\ tracker' = [seq |-> tracker.seq, step |-> Len(done) + 1, phase |-> "during_step"]
        /\ at' = "acting" /\ ~InStep /\ UNCHANGED <<done, network, request>>
    BY <1>0, <1>7 DEF StartStep, TrackerShape, StepsInOrder, InStep, networkVars
  <2>a. InStep' /\ tracker'.step = Len(done') + 1 /\ tracker'.phase = "during_step" /\ TrackerShape(tracker')
    BY <2>1, TrackerIs, Zenon DEF InStep
  <2>b. IsSeq(done') /\ Len(done') \in Nat /\ Len(done') = Len(done) /\ tracker.step <= Len(done) /\ tracker.step \in Nat
    BY <1>0, <2>1 DEF TrackerShape, StepsInOrder
  <2>2. StepsInOrder' /\ tracker'.step > tracker.step
    BY <2>a, <2>b DEF StepsInOrder, TrackerShape
  <2> QED BY <2>1, <2>2, CaptureStep DEF networkVars
<1>8. CASE StepFails \/ EndStep
  <2>1. /\ tracker' = [seq |-> tracker.seq, step |-> tracker.step, phase |-> "between_steps"]
        /\ InStep /\ at' \in {"closing", "steps"} /\ UNCHANGED <<network, request>>
    BY <1>0, <1>8, Zenon DEF StepFails, EndStep, TrackerShape, StepsInOrder, InStep, networkVars
  <2>2. PICK outcome : done' = Append(done, outcome)
    BY <1>8, Zenon DEF StepFails, EndStep
  <2>3. IsSeq(done') /\ Len(done') = Len(done) + 1
    BY <1>0, <2>2, SeqGrows DEF TrackerShape, StepsInOrder
  <2>a. ~InStep' /\ tracker'.step = tracker.step /\ tracker'.phase # "during_step" /\ TrackerShape(tracker')
    BY <2>1, TrackerIs, Zenon DEF InStep
  <2>b. Len(done) \in Nat /\ tracker.step = Len(done) + 1
    BY <1>0, <2>1 DEF TrackerShape, StepsInOrder
  <2>4. StepsInOrder' /\ tracker'.step = tracker.step /\ tracker'.phase # "during_step"
    BY <2>3, <2>a, <2>b DEF StepsInOrder, TrackerShape
  <2> QED BY <2>1, <2>4, CaptureStep DEF networkVars
<1>9. CASE FinishJourney
  <2>1. /\ tracker' = [seq |-> tracker.seq, step |-> tracker.step, phase |-> "post_journey"]
        /\ ~InStep /\ at' = "drain end" /\ UNCHANGED <<done, network, request>>
    BY <1>0, <1>9, Zenon DEF FinishJourney, TrackerShape, StepsInOrder, InStep, networkVars
  <2>2. StepsInOrder' /\ tracker'.step = tracker.step /\ tracker'.phase # "during_step"
    BY <1>0, <2>1, Zenon DEF TrackerShape, StepsInOrder, InStep
  <2> QED BY <2>1, <2>2, CaptureStep, Zenon DEF networkVars
<1> QED BY <1>3, <1>4, <1>6, <1>7, <1>8, <1>9, Zenon DEF CaptureNext

\* What the page does about one request.
LEMMA RequestStep ==
  ASSUME AttributionInv, NEW r \in JourneyRequests, UNCHANGED <<at, done>>,
         UNCHANGED tracker \/ \E x : tracker' = [tracker EXCEPT !.seq = x],
         IsNetwork(network)', NEW q, request' = [request EXCEPT ![r] = q],
         q.is = "sent" => Earlier(q.from, tracker), q.is = "body" => Attributed(q.event)
  PROVE  AttributionInv'
<1>1. StepsInOrder' /\ tracker'.step = tracker.step /\ tracker'.phase = tracker.phase
  <2>1. CASE UNCHANGED tracker
    BY <2>1, Zenon DEF AttributionInv, StepsInOrder, InStep
  <2>2. CASE \E x : tracker' = [tracker EXCEPT !.seq = x]
    BY <2>2, SeqOnly DEF AttributionInv, InStep
  <2> QED BY <2>1, <2>2
<1>2. \A m : Earlier(m, tracker) => Earlier(m, tracker')
  BY <1>1, StaysEarlier DEF AttributionInv
<1>3. /\ request' = [s \in JourneyRequests |-> request'[s]]
      /\ request'[r] = q /\ \A s \in JourneyRequests \ {r} : request'[s] = request[s]
  BY DEF AttributionInv
<1>4. \A s \in JourneyRequests :
        /\ request'[s].is = "sent" => Earlier(request'[s].from, tracker')
        /\ request'[s].is = "body" => Attributed(request'[s].event)
  BY <1>2, <1>3 DEF AttributionInv
<1> QED BY <1>1, <1>3, <1>4 DEF AttributionInv, Attributed

LEMMA StepPage ==
  ASSUME AttributionInv, PageNext
  PROVE  AttributionInv'
<1>0. StepsInOrder /\ IsNetwork(network)
  BY DEF AttributionInv
<1>n. /\ network = [events |-> network.events, total |-> network.total, succeeded |-> network.succeeded,
                    failed |-> network.failed, filtered |-> network.filtered, truncated |-> network.truncated]
  BY <1>0 DEF IsNetwork
<1>1. CASE PagePushes \/ PageTampers
  <2>1. UNCHANGED <<at, tracker, done, network, request>>
    BY <1>1 DEF PagePushes, PageTampers, networkVars
  <2> QED BY <2>1, Zenon DEF AttributionInv, StepsInOrder, InStep, IsNetwork, Earlier, Attributed
<1>2. ASSUME NEW r \in JourneyRequests, RequestSent(r) PROVE AttributionInv'
  <2>1. CASE /\ network' = [network EXCEPT !.filtered = @ + 1]
             /\ request' = [request EXCEPT ![r] = [is |-> "untracked"]]
             /\ UNCHANGED tracker
    <3>1. IsNetwork(network')
      BY <1>0, <1>n, <2>1, NetworkCounts
    <3> QED BY <1>2, <2>1, <3>1, RequestStep DEF RequestSent
  <2>2. CASE /\ request' = [request EXCEPT ![r] = [is |-> "sent", from |-> Moment]]
             /\ tracker' = [tracker EXCEPT !.seq = @ + 1]
             /\ network' = IF Full THEN [network EXCEPT !.total = @ + 1, !.truncated = TRUE]
                           ELSE [network EXCEPT !.total = @ + 1, !.events = Append(@,
                                   [tx |-> r, direction |-> "request", seq |-> tracker.seq + 1,
                                    async |-> FALSE, from |-> Moment, to |-> Moment])]
    <3> DEFINE e == [tx |-> r, direction |-> "request", seq |-> tracker.seq + 1,
                     async |-> FALSE, from |-> Moment, to |-> Moment]
               q == [is |-> "sent", from |-> Moment]
    <3>1. Attributed(e)
      BY DEF Attributed
    <3>2. q.is = "sent" /\ q.from = Moment /\ request' = [request EXCEPT ![r] = q]
      BY <2>2
    <3> HIDE DEF q, e
    <3>5. IsNetwork(network')
      <4>1. CASE Full
        <5>1. network' = [network EXCEPT !.total = @ + 1, !.truncated = TRUE]
          BY <2>2, <4>1
        <5>2. network' = [events |-> network.events, total |-> network'.total, succeeded |-> network'.succeeded,
                          failed |-> network'.failed, filtered |-> network'.filtered,
                          truncated |-> network'.truncated]
          BY <1>n, <5>1
        <5> QED BY <1>0, <5>2, NetworkCounts
      <4>2. CASE ~Full
        <5>1. network' = [network EXCEPT !.total = @ + 1, !.events = Append(@, e)]
          BY <2>2, <4>2 DEF e
        <5>2. network' = [events |-> Append(network.events, e), total |-> network'.total,
                          succeeded |-> network'.succeeded, failed |-> network'.failed,
                          filtered |-> network'.filtered, truncated |-> network'.truncated]
          BY <1>n, <5>1
        <5> QED BY <1>0, <3>1, <5>2, NetworkGrows
      <4> QED BY <4>1, <4>2
    <3> QED BY <1>0, <1>2, <2>2, <3>2, <3>5, MomentIsEarlier, RequestStep DEF RequestSent
  <2> QED BY <1>2, <2>1, <2>2 DEF RequestSent
<1>3. ASSUME NEW r \in JourneyRequests, ResponseArrives(r) PROVE AttributionInv'
  <2>1. request[r].is = "sent" /\ Attributed(Completion(r)) /\ UNCHANGED <<at, done>>
    BY <1>0, <1>3, CompletionAttributed DEF ResponseArrives, AttributionInv
  <2>2. PICK success \in BOOLEAN :
          LET counted == [network EXCEPT !.succeeded = IF success THEN @ + 1 ELSE @] IN
          IF Full
          THEN /\ network' = [counted EXCEPT !.truncated = TRUE]
               /\ request' = [request EXCEPT ![r] = [is |-> "over"]]
               /\ UNCHANGED tracker
          ELSE /\ tracker' = [tracker EXCEPT !.seq = @ + 1]
               /\ IF Bodies
                  THEN /\ network' = counted
                       /\ request' = [request EXCEPT ![r] = [is |-> "body", event |-> Completion(r)]]
                  ELSE /\ network' = [counted EXCEPT !.events = Append(@, Completion(r))]
                       /\ request' = [request EXCEPT ![r] = [is |-> "over"]]
    BY <1>3, Zenon DEF ResponseArrives
  <2> DEFINE n == IF success THEN network.succeeded + 1 ELSE network.succeeded
  <2>3. CASE Full
    <3>1. network' = [events |-> network.events, total |-> network.total, succeeded |-> n,
                      failed |-> network.failed, filtered |-> network.filtered, truncated |-> TRUE]
      BY <1>n, <2>2, <2>3
    <3>2. IsNetwork(network')
      BY <1>0, <3>1, NetworkCounts
    <3> QED BY <2>1, <2>2, <2>3, <3>2, RequestStep
  <2>4. CASE ~Full /\ Bodies
    <3> DEFINE q == [is |-> "body", event |-> Completion(r)]
    <3>1. network' = [events |-> network.events, total |-> network.total, succeeded |-> n,
                      failed |-> network.failed, filtered |-> network.filtered,
                      truncated |-> network.truncated]
      BY <1>n, <2>2, <2>4
    <3>2. IsNetwork(network')
      BY <1>0, <3>1, NetworkCounts
    <3>3. q.is = "body" /\ q.event = Completion(r) /\ request' = [request EXCEPT ![r] = q]
      BY <2>2, <2>4
    <3>4. \E x : tracker' = [tracker EXCEPT !.seq = x]
      BY <2>2, <2>4
    <3> HIDE DEF q
    <3> QED BY <2>1, <3>2, <3>3, <3>4, RequestStep
  <2>5. CASE ~Full /\ ~Bodies
    <3>1. network' = [events |-> Append(network.events, Completion(r)), total |-> network.total,
                      succeeded |-> n, failed |-> network.failed, filtered |-> network.filtered,
                      truncated |-> network.truncated]
      BY <1>n, <2>2, <2>5
    <3>2. IsNetwork(network')
      BY <1>0, <2>1, <3>1, NetworkGrows
    <3>3. \E x : tracker' = [tracker EXCEPT !.seq = x]
      BY <2>2, <2>5
    <3> QED BY <2>1, <2>2, <2>5, <3>2, <3>3, RequestStep
  <2> QED BY <2>3, <2>4, <2>5
<1>4. ASSUME NEW r \in JourneyRequests, BodyArrives(r) PROVE AttributionInv'
  <2>1. /\ request[r].is = "body" /\ Attributed(request[r].event) /\ UNCHANGED <<at, done, tracker>>
        /\ network' = [network EXCEPT !.events = Append(@, request[r].event)]
        /\ request' = [request EXCEPT ![r] = [is |-> "over"]]
    BY <1>4 DEF BodyArrives, AttributionInv
  <2>2. network' = [events |-> Append(network.events, request[r].event), total |-> network.total,
                    succeeded |-> network.succeeded, failed |-> network.failed,
                    filtered |-> network.filtered, truncated |-> network.truncated]
    BY <1>n, <2>1
  <2>3. IsNetwork(network')
    BY <1>0, <2>1, <2>2, NetworkGrows
  <2> QED BY <2>1, <2>3, RequestStep
<1>5. ASSUME NEW r \in JourneyRequests, FailureArrives(r) PROVE AttributionInv'
  <2> DEFINE truncated == network.truncated \/ Full
             counted == [network EXCEPT !.failed = @ + 1, !.truncated = @ \/ Full]
  <2>1. /\ UNCHANGED <<at, done>> /\ request' = [request EXCEPT ![r] = [is |-> "over"]]
        /\ IF request[r].is = "untracked" \/ Full
           THEN network' = counted /\ UNCHANGED tracker
           ELSE /\ network' = [counted EXCEPT !.events = Append(@, Completion(r))]
                /\ tracker' = [tracker EXCEPT !.seq = @ + 1]
    BY <1>5 DEF FailureArrives
  <2>2. counted = [events |-> network.events, total |-> network.total, succeeded |-> network.succeeded,
                   failed |-> network.failed + 1, filtered |-> network.filtered, truncated |-> truncated]
    BY <1>0, FailureCounted, Zenon
  <2> HIDE DEF counted, truncated
  <2>3. CASE request[r].is = "untracked" \/ Full
    <3>1. IsNetwork(network')
      BY <1>0, <2>1, <2>2, <2>3, NetworkCounts
    <3> QED BY <2>1, <2>3, <3>1, RequestStep
  <2>4. CASE ~(request[r].is = "untracked" \/ Full)
    <3>1. Attributed(Completion(r))
      BY <1>0, <1>5, <2>4, CompletionAttributed DEF FailureArrives, AttributionInv
    <3>2. network' = [events |-> Append(network.events, Completion(r)), total |-> network.total,
                      succeeded |-> network.succeeded, failed |-> network.failed + 1,
                      filtered |-> network.filtered, truncated |-> truncated]
      BY <2>1, <2>2, <2>4
    <3>3. IsNetwork(network')
      BY <1>0, <3>1, <3>2, NetworkGrows
    <3>4. \E x : tracker' = [tracker EXCEPT !.seq = x]
      BY <2>1, <2>4
    <3> QED BY <2>1, <3>3, <3>4, RequestStep
  <2> QED BY <2>3, <2>4
<1> QED BY <1>1, <1>2, <1>3, <1>4, <1>5 DEF PageNext

LEMMA StepJourney ==
  ASSUME AttributionInv, [JourneyNext]_journeyVars
  PROVE  AttributionInv'
<1>1. CASE UNCHANGED journeyVars
  BY <1>1, Zenon DEF journeyVars, networkVars, AttributionInv, StepsInOrder, InStep, IsNetwork, Earlier, Attributed
<1> QED BY <1>1, StepCapture, StepPage DEF JourneyNext

LEMMA InitJourney == JourneyInit => AttributionInv
<1> SUFFICES ASSUME JourneyInit PROVE AttributionInv
  OBVIOUS
<1>1. IsSeq(<< >>) /\ Len(<< >>) = 0
  BY DEF IsSeq
<1>2. TrackerShape(tracker) /\ tracker.step = 0 /\ tracker.phase = "initial"
  BY TrackerIs DEF JourneyInit
<1>3. ~InStep /\ done = << >>
  BY DEF JourneyInit, InStep
<1>4. StepsInOrder
  BY <1>1, <1>2, <1>3 DEF StepsInOrder
<1>5. IsNetwork(network)
  BY <1>1 DEF JourneyInit, IsNetwork
<1> QED BY <1>4, <1>5 DEF JourneyInit, AttributionInv, Unsent

LEMMA AttributionHolds == AttributionInv => CompletionIsAttributed
BY DEF AttributionInv, IsNetwork, Attributed, CompletionIsAttributed

-----------------------------------------------------------------------------
(***************************************************************************)
(* The queue of a page.  An item is counted as drained by who copies it,   *)
(* or by the collector, which records the allowed items or says that it is *)
(* truncated.  QueueIsAccounted looks at the identity of a copy only; what *)
(* is kept is that the copy in the buffer is the item, allowed or not.     *)
(***************************************************************************)
EventIds(s) == {s[k].id : k \in 1..Len(s)}
Members(s)  == {s[k] : k \in 1..Len(s)}

LEMMA JoinedMembers ==
  ASSUME NEW p, IsSeq(p), NEW q, IsSeq(q), NEW w, w = p \o q
  PROVE  /\ EventIds(p) \subseteq EventIds(w) /\ EventIds(q) \subseteq EventIds(w)
         /\ Members(p) \subseteq Members(w) /\ Members(q) \subseteq Members(w)
<1>1. EventIds(p) \subseteq EventIds(w) /\ Members(p) \subseteq Members(w)
  BY LeftOf DEF EventIds, Members
<1>2. ASSUME NEW j \in 1..Len(q) PROVE q[j].id \in EventIds(w) /\ q[j] \in Members(w)
  <2>2. Len(p) + j \in 1..Len(w) /\ w[Len(p) + j] = q[j]
    BY RightOf
  <2> QED BY <2>2 DEF EventIds, Members
<1>3. EventIds(q) \subseteq EventIds(w) /\ Members(q) \subseteq Members(w)
  BY <1>2 DEF EventIds, Members
<1> QED BY <1>1, <1>3

\* What is kept has every allowed one that was looked at.
LEMMA AllowedAreKept ==
  ASSUME NEW raw, NEW n \in Nat
  PROVE  /\ IsSeq(Kept(raw, n)) /\ Len(Kept(raw, n)) \in Nat
         /\ \A i \in 1..n : raw[i].allowed => \E k \in 1..Len(Kept(raw, n)) : Kept(raw, n)[k] = raw[i]
<1> DEFINE S == {j \in 1..n : raw[j].allowed}
           m == AllowedBefore(raw, n + 1)
<1>1. S \in SUBSET Nat /\ IsFiniteSet(S) /\ Cardinality(S) \in Nat
  <2>1. S \in SUBSET (1..n)
    OBVIOUS
  <2> QED BY <2>1, UpTo
<1>2. m = Cardinality(S)
  <2>1. (n + 1) - 1 = n
    OBVIOUS
  <2> QED BY <2>1 DEF AllowedBefore
<1>3. \A i \in 1..n : AllowedBefore(raw, i) = Cardinality({x \in S : x < i})
  <2> TAKE i \in 1..n
  <2>1. {j \in 1..i - 1 : raw[j].allowed} = {x \in S : x < i}
    OBVIOUS
  <2> QED BY <2>1 DEF AllowedBefore
<1> HIDE DEF m
<1>4. Kept(raw, n) = [k \in 1..m |-> raw[CHOOSE i \in 1..n : raw[i].allowed /\ AllowedBefore(raw, i) = k - 1]]
  BY DEF Kept, m
<1>5. IsSeq(Kept(raw, n)) /\ Len(Kept(raw, n)) = m
  <2> DEFINE f == [k \in 1..m |-> raw[CHOOSE i \in 1..n : raw[i].allowed /\ AllowedBefore(raw, i) = k - 1]]
             V == {f[k] : k \in 1..m}
  <2>1. f \in [1..m -> V]
    OBVIOUS
  <2> HIDE DEF f, V
  <2>3. m \in Nat
    BY <1>1, <1>2
  <2>2. f \in Seq(V) /\ Len(f) = m
    BY <2>1, <2>3
  <2> QED BY <1>4, <2>2 DEF IsSeq, f
<1>6. ASSUME NEW i \in 1..n, raw[i].allowed
      PROVE  \E k \in 1..m : Kept(raw, n)[k] = raw[i]
  <2> DEFINE k == AllowedBefore(raw, i) + 1
             at_k == CHOOSE j \in 1..n : raw[j].allowed /\ AllowedBefore(raw, j) = k - 1
  <2>1. i \in S
    BY <1>6
  <2>2. AllowedBefore(raw, i) \in Nat /\ AllowedBefore(raw, i) < m
    BY <1>1, <1>2, <1>3, <2>1, Ranks
  <2>3. k \in 1..m /\ AllowedBefore(raw, i) = k - 1
    BY <1>1, <1>2, <2>2
  <2> HIDE DEF k
  <2>4. at_k \in 1..n /\ raw[at_k].allowed /\ AllowedBefore(raw, at_k) = k - 1
    BY <1>6, <2>3
  <2> HIDE DEF at_k
  <2>5. at_k \in S /\ AllowedBefore(raw, at_k) = AllowedBefore(raw, i)
    BY <2>3, <2>4
  <2>6. ~(at_k < i) /\ ~(i < at_k)
    <3>1. at_k < i => AllowedBefore(raw, at_k) < AllowedBefore(raw, i)
      BY <1>1, <1>3, <2>1, <2>4, <2>5, Ranks
    <3>2. i < at_k => AllowedBefore(raw, i) < AllowedBefore(raw, at_k)
      BY <1>1, <1>3, <2>1, <2>4, <2>5, Ranks
    <3> QED BY <2>2, <2>5, <3>1, <3>2
  <2>7. at_k = i
    BY <2>4, <2>6
  <2> QED BY <1>4, <2>3, <2>7 DEF at_k
<1> QED BY <1>1, <1>2, <1>5, <1>6

LEMMA ExaminedAre ==
  ASSUME NEW raw, NEW room, Len(raw) \in Nat
  PROVE  Examined(raw, room) \in Nat /\ Examined(raw, room) <= Len(raw)
<1>2. {i \in 1..Len(raw) : AllowedBefore(raw, i) < room} \in SUBSET (1..Len(raw))
  OBVIOUS
<1> QED BY <1>2, UpTo DEF Examined

IsRuntime(rt) ==
  /\ rt = [events |-> rt.events, filtered |-> rt.filtered, truncated |-> rt.truncated]
  /\ IsSeq(rt.events) /\ rt.truncated \in BOOLEAN

\* A drain keeps what is recorded, and records what is allowed.
LEMMA DrainRecords ==
  ASSUME NEW rt, IsRuntime(rt), NEW raw, IsSeq(raw), NEW t, NEW r, r = Recorded(rt, raw, t)
  PROVE  /\ IsRuntime(r)
         /\ rt.truncated => r.truncated
         /\ EventIds(rt.events) \subseteq EventIds(r.events)
         /\ ~r.truncated => \A i \in 1..Len(raw) : raw[i].allowed => raw[i].id \in EventIds(r.events)
<1> DEFINE n    == Examined(raw, MaxEvents - Len(rt.events))
           kept == Kept(raw, n)
           new  == [i \in 1..Len(kept) |-> [id |-> kept[i].id, step |-> t.step]]
<1>1. Len(raw) \in Nat
  BY DEF IsSeq
<1>2. n \in Nat /\ n <= Len(raw)
  BY <1>1, ExaminedAre
<1> HIDE DEF n
<1>3. /\ Len(kept) \in Nat
      /\ \A i \in 1..n : raw[i].allowed => \E k \in 1..Len(kept) : kept[k] = raw[i]
  BY <1>2, AllowedAreKept
<1> HIDE DEF kept
<1>4. IsSeq(new) /\ Len(new) = Len(kept) /\ \A k \in 1..Len(new) : new[k].id = kept[k].id
  <2> DEFINE V == {new[i] : i \in 1..Len(kept)}
  <2>1. new \in [1..Len(kept) -> V]
    OBVIOUS
  <2>2. \A k \in 1..Len(kept) : new[k].id = kept[k].id
    OBVIOUS
  <2> HIDE DEF V, new
  <2>3. new \in Seq(V) /\ Len(new) = Len(kept)
    BY <1>3, <2>1
  <2> QED BY <2>2, <2>3 DEF IsSeq
<1>5. r = [events |-> rt.events \o new, filtered |-> rt.filtered + n - Len(kept),
           truncated |-> rt.truncated \/ n < Len(raw)]
  BY DEF Recorded, kept, n
<1> HIDE DEF new
<1>t. /\ r.truncated \in BOOLEAN
      /\ rt.truncated => r.truncated
      /\ n < Len(raw) => r.truncated
  <2> DEFINE some == rt.truncated \/ n < Len(raw)
  <2>1. some \in BOOLEAN /\ (rt.truncated => some) /\ (n < Len(raw) => some)
    OBVIOUS
  <2>2. r = [events |-> rt.events \o new, filtered |-> rt.filtered + n - Len(kept), truncated |-> some]
    BY <1>5
  <2> HIDE DEF some
  <2>3. r.truncated = some
    BY <2>2
  <2> QED BY <2>1, <2>3
<1>6. IsSeq(rt.events) /\ r.events = rt.events \o new
  BY <1>5 DEF IsRuntime
<1>7. EventIds(rt.events) \subseteq EventIds(r.events) /\ EventIds(new) \subseteq EventIds(r.events)
  BY <1>4, <1>6, JoinedMembers
<1>8. IsRuntime(r) /\ (rt.truncated => r.truncated)
  <2>1. IsSeq(r.events)
    BY <1>4, <1>6, Joined
  <2>2. r.truncated \in BOOLEAN /\ (rt.truncated => r.truncated)
    BY <1>t
  <2>3. r = [events |-> r.events, filtered |-> r.filtered, truncated |-> r.truncated]
    BY <1>5
  <2> QED BY <2>1, <2>2, <2>3 DEF IsRuntime
<1>9. ASSUME ~r.truncated, NEW i \in 1..Len(raw), raw[i].allowed
      PROVE  raw[i].id \in EventIds(r.events)
  <2>1. n = Len(raw)
    BY <1>1, <1>2, <1>t, <1>9
  <2>2. PICK k \in 1..Len(kept) : kept[k] = raw[i]
    BY <1>3, <1>9, <2>1
  <2>3. raw[i].id \in EventIds(new)
    BY <1>4, <2>2 DEF EventIds
  <2> QED BY <1>7, <2>3
<1> QED BY <1>7, <1>8, <1>9

IsQueue(d) ==
  /\ d = [items |-> d.items, drained |-> d.drained, shortened |-> d.shortened, hooks |-> d.hooks, buffer |-> d.buffer]
  /\ IsSeq(d.items) /\ IsSeq(d.buffer) /\ d.hooks \in Nat
  /\ d.drained \in Nat /\ (d.shortened \/ d.drained <= Len(d.items))

\* Those the property is about.
MustBeKept(d, i) == d.items[i].allowed /\ (d.items[i].wrapped \/ (i <= d.drained /\ ~d.shortened))

Accounted(d, rt) ==
  \A i \in 1..Len(d.items) :
    MustBeKept(d, i) => rt.truncated \/ d.items[i] \in Members(d.buffer) \/ d.items[i].id \in EventIds(rt.events)

QueueInv == IsQueue(doc) /\ IsRuntime(runtime) /\ Accounted(doc, runtime)

LEMMA PushAccounted ==
  ASSUME NEW d, IsQueue(d), NEW rt, Accounted(d, rt), NEW e, e.wrapped => d.hooks > 0
  PROVE  IsQueue(Pushes(d, e)) /\ Accounted(Pushes(d, e), rt)
<1> DEFINE copies == [i \in 1..d.hooks |-> e]
           w == Pushes(d, e)
<1>1. IsSeq(copies) /\ (d.hooks > 0 => e \in Members(copies))
  <2>1. copies \in [1..d.hooks -> {e}] /\ d.hooks \in Nat
    BY DEF IsQueue
  <2>2. copies \in Seq({e}) /\ Len(copies) = d.hooks
    BY <2>1
  <2>3. ASSUME d.hooks > 0 PROVE e \in Members(copies)
    <3>1. 1 \in 1..Len(copies) /\ copies[1] = e
      BY <2>1, <2>2, <2>3
    <3> QED BY <3>1 DEF Members
  <2> QED BY <2>2, <2>3 DEF IsSeq
<1>2. w = [items |-> Append(d.items, e), drained |-> d.drained, shortened |-> d.shortened, hooks |-> d.hooks,
           buffer |-> d.buffer \o copies]
  <2> DEFINE v == [d EXCEPT !.items = Append(@, e)]
  <2>1. v = [items |-> Append(d.items, e), drained |-> d.drained, shortened |-> d.shortened, hooks |-> d.hooks,
             buffer |-> d.buffer]
    BY DEF IsQueue
  <2>2. w = [v EXCEPT !.buffer = @ \o copies]
    BY DEF Pushes
  <2> HIDE DEF v, copies
  <2> QED BY <2>1, <2>2
<1> HIDE DEF copies, w
<1>3. /\ IsSeq(w.items) /\ Len(w.items) = Len(d.items) + 1 /\ Len(d.items) \in Nat
      /\ \A i \in 1..Len(d.items) : w.items[i] = d.items[i]
      /\ w.items[Len(d.items) + 1] = e
  BY <1>2, SeqGrows DEF IsQueue
<1>4. IsSeq(w.buffer) /\ Members(d.buffer) \subseteq Members(w.buffer) /\ Members(copies) \subseteq Members(w.buffer)
  <2>1. IsSeq(d.buffer) /\ w.buffer = d.buffer \o copies
    BY <1>2 DEF IsQueue
  <2> QED BY <1>1, <2>1, Joined, JoinedMembers
<1>5. /\ w.drained = d.drained /\ w.shortened = d.shortened /\ w.hooks = d.hooks
      /\ d.drained \in Nat /\ (d.shortened \/ d.drained <= Len(d.items)) /\ d.hooks \in Nat
  BY <1>2 DEF IsQueue
<1>6. IsQueue(w)
  BY <1>2, <1>3, <1>4, <1>5 DEF IsQueue
<1>7. ASSUME NEW i \in 1..Len(w.items), MustBeKept(w, i)
      PROVE  rt.truncated \/ w.items[i] \in Members(w.buffer) \/ w.items[i].id \in EventIds(rt.events)
  <2>1. CASE i \in 1..Len(d.items)
    <3>1. w.items[i] = d.items[i]
      BY <1>3, <2>1
    <3>2. MustBeKept(d, i)
      BY <1>5, <1>7, <3>1 DEF MustBeKept
    <3> QED BY <1>4, <2>1, <3>1, <3>2 DEF Accounted
  <2>2. CASE i = Len(d.items) + 1
    <3>1. ~(i <= w.drained /\ ~w.shortened) /\ w.items[i] = e
      BY <1>3, <1>5, <2>2
    <3>2. d.hooks > 0
      BY <1>7, <3>1 DEF MustBeKept
    <3> QED BY <1>1, <1>4, <3>1, <3>2
  <2> QED BY <1>3, <2>1, <2>2
<1>8. Accounted(w, rt)
  BY <1>7 DEF Accounted
<1> QED BY <1>6, <1>8 DEF w

LEMMA TakeoverAccounted ==
  ASSUME NEW d, IsQueue(d), NEW rt, NEW items, IsSeq(items), NEW hooks \in Nat
  PROVE  IsQueue(TakesOver(d, items, hooks)) /\ Accounted(TakesOver(d, items, hooks), rt)
<1> DEFINE w == TakesOver(d, items, hooks)
<1>1. w = [items |-> items, drained |-> Len(items), shortened |-> FALSE, hooks |-> hooks, buffer |-> d.buffer \o items]
  BY DEF TakesOver
<1> HIDE DEF w
<1>2. IsSeq(d.buffer) /\ w.buffer = d.buffer \o items
  BY <1>1 DEF IsQueue
<1>3. IsSeq(w.buffer) /\ Members(items) \subseteq Members(w.buffer) /\ Len(items) \in Nat
  BY <1>2, Joined, JoinedMembers
<1>4. IsQueue(w)
  BY <1>1, <1>3 DEF IsQueue
<1>5. Accounted(w, rt)
  BY <1>1, <1>3 DEF Accounted, Members
<1> QED BY <1>4, <1>5 DEF w

\* What is left of a shortened queue was there, and its count says nothing.
LEMMA ShortenedAccounted ==
  ASSUME NEW d, IsQueue(d), NEW rt, Accounted(d, rt),
         NEW from \in 1..Len(d.items), NEW to \in 1..Len(d.items), from <= to
  PROVE  IsQueue(Shortened(d, from, to)) /\ Accounted(Shortened(d, from, to), rt)
<1> DEFINE s == d.items
           before == SubSeq(s, 1, from - 1)
           after  == SubSeq(s, to + 1, Len(s))
           rest   == before \o after
           w      == Shortened(d, from, to)
<1>1. PICK S : s \in Seq(S)
  BY DEF IsQueue, IsSeq
<1>2. w = [items |-> rest, drained |-> d.drained, shortened |-> TRUE, hooks |-> d.hooks, buffer |-> d.buffer]
  <2> DEFINE v == [d EXCEPT !.items = rest]
  <2> HIDE DEF rest
  <2>1. v = [items |-> rest, drained |-> d.drained, shortened |-> d.shortened, hooks |-> d.hooks, buffer |-> d.buffer]
    BY DEF IsQueue
  <2>2. w = [v EXCEPT !.shortened = TRUE]
    BY DEF Shortened, rest
  <2> HIDE DEF v
  <2> QED BY <2>1, <2>2
<1>3. from \in 1..Len(s) /\ to \in 1..Len(s) /\ from <= to
  OBVIOUS
<1> HIDE DEF s, w
<1>4. before \in Seq(S) /\ \A i \in 1..Len(before) : \E j \in 1..Len(s) : before[i] = s[j]
  BY <1>1, <1>3
<1>5. after \in Seq(S) /\ \A i \in 1..Len(after) : \E j \in 1..Len(s) : after[i] = s[j]
  <2>1. after \in Seq(S) /\ Len(after) = Len(s) - to
    BY <1>1, <1>3
  <2>2. \A i \in 1..Len(after) : after[i] = s[to + i] /\ to + i \in 1..Len(s)
    BY <1>1, <1>3, <2>1
  <2> QED BY <2>1, <2>2
<1> HIDE DEF before, after
<1>6. rest \in Seq(S) /\ \A i \in 1..Len(rest) : \E j \in 1..Len(s) : rest[i] = s[j]
  <2>1. rest \in Seq(S) /\ Len(rest) = Len(before) + Len(after) /\ Len(before) \in Nat /\ Len(after) \in Nat
    BY <1>4, <1>5
  <2>2. ASSUME NEW i \in 1..Len(rest) PROVE \E j \in 1..Len(s) : rest[i] = s[j]
    <3>1. CASE i <= Len(before)
      <4>1. i \in 1..Len(before) /\ rest[i] = before[i]
        BY <1>4, <1>5, <2>1, <3>1
      <4> QED BY <1>4, <4>1
    <3>2. CASE i > Len(before)
      <4>1. i - Len(before) \in 1..Len(after) /\ rest[i] = after[i - Len(before)]
        BY <1>4, <1>5, <2>1, <3>2
      <4> QED BY <1>5, <4>1
    <3> QED BY <2>1, <3>1, <3>2
  <2> QED BY <2>1, <2>2
<1> HIDE DEF rest
<1>7. IsQueue(w)
  BY <1>2, <1>6 DEF IsQueue, IsSeq
<1>8. ASSUME NEW i \in 1..Len(w.items), MustBeKept(w, i)
      PROVE  rt.truncated \/ w.items[i] \in Members(w.buffer) \/ w.items[i].id \in EventIds(rt.events)
  <2>1. w.items = rest /\ w.shortened = TRUE /\ w.buffer = d.buffer
    BY <1>2
  <2>2. PICK j \in 1..Len(s) : w.items[i] = s[j]
    BY <1>6, <1>8, <2>1
  <2>3. j \in 1..Len(d.items) /\ w.items[i] = d.items[j]
    BY <2>2 DEF s
  <2>4. MustBeKept(d, j)
    BY <1>8, <2>1, <2>3 DEF MustBeKept
  <2> QED BY <2>1, <2>3, <2>4 DEF Accounted
<1>9. Accounted(w, rt)
  BY <1>8 DEF Accounted
<1> QED BY <1>7, <1>9 DEF w

LEMMA FreshAccounted == IsQueue(FreshDoc) /\ \A rt : Accounted(FreshDoc, rt)
<1>1. IsSeq(<< >>) /\ Len(<< >>) = 0
  BY DEF IsSeq
<1> QED BY <1>1 DEF FreshDoc, IsQueue, Accounted

LEMMA DrainAccounted ==
  ASSUME QueueInv, NEW r, r = Recorded(runtime, Arrived(doc), tracker),
         NEW d, d = [doc EXCEPT !.buffer = <<>>, !.drained = IF Len(doc.items) > @ THEN Len(doc.items) ELSE @]
  PROVE  IsQueue(d) /\ IsRuntime(r) /\ Accounted(d, r)
<1> DEFINE beyond == SubSeq(doc.items, doc.drained + 1, Len(doc.items))
           raw    == Arrived(doc)
           count  == IF Len(doc.items) > doc.drained THEN Len(doc.items) ELSE doc.drained
<1>1. /\ IsSeq(doc.items) /\ IsSeq(doc.buffer) /\ doc.drained \in Nat /\ (doc.shortened \/ doc.drained <= Len(doc.items))
      /\ Len(doc.items) \in Nat /\ doc.hooks \in Nat
  BY DEF QueueInv, IsQueue, IsSeq
<1>2. /\ IsSeq(beyond) /\ (doc.drained <= Len(doc.items) => Len(beyond) = Len(doc.items) - doc.drained)
      /\ \A i \in 1..Len(beyond) : beyond[i] = doc.items[doc.drained + i]
  <2>1. PICK S : doc.items \in Seq(S)
    BY <1>1 DEF IsSeq
  <2> DEFINE s == doc.items
             k == doc.drained
  <2>2. s \in Seq(S) /\ k \in Nat
    BY <1>1, <2>1
  <2> HIDE DEF s, k
  <2> DEFINE b == SubSeq(s, k + 1, Len(s))
  <2>3. b \in Seq(S) /\ (k <= Len(s) => Len(b) = Len(s) - k) /\ (k > Len(s) => Len(b) = 0)
    BY <2>2
  <2>4. \A i \in 1..Len(b) : b[i] = s[k + i]
    BY <2>2, <2>3
  <2> QED BY <2>3, <2>4 DEF IsSeq, s, k
<1> HIDE DEF beyond
<1>3. raw = doc.buffer \o beyond
  BY DEF Arrived, beyond
<1> HIDE DEF raw
<1>4. /\ IsSeq(raw)
      /\ \A j \in 1..Len(beyond) : Len(doc.buffer) + j \in 1..Len(raw) /\ raw[Len(doc.buffer) + j] = beyond[j]
      /\ \A j \in 1..Len(doc.buffer) : j \in 1..Len(raw) /\ raw[j] = doc.buffer[j]
  <2> DEFINE b == doc.buffer
  <2>1. IsSeq(b) /\ IsSeq(beyond) /\ raw = b \o beyond
    BY <1>1, <1>2, <1>3
  <2> HIDE DEF b
  <2>2. IsSeq(raw)
    BY <2>1, Joined
  <2>3. \A j \in 1..Len(beyond) : Len(b) + j \in 1..Len(raw) /\ raw[Len(b) + j] = beyond[j]
    BY <2>1, RightOf
  <2>4. \A j \in 1..Len(b) : j \in 1..Len(raw) /\ raw[j] = b[j]
    BY <2>1, LeftOf
  <2> QED BY <2>2, <2>3, <2>4 DEF b
<1>5. /\ IsRuntime(r)
      /\ runtime.truncated => r.truncated
      /\ EventIds(runtime.events) \subseteq EventIds(r.events)
      /\ ~r.truncated => \A i \in 1..Len(raw) : raw[i].allowed => raw[i].id \in EventIds(r.events)
  BY <1>4, DrainRecords DEF QueueInv, raw
<1>6. d = [items |-> doc.items, drained |-> count, shortened |-> doc.shortened, hooks |-> doc.hooks, buffer |-> <<>>]
  <2> DEFINE v == [doc EXCEPT !.buffer = <<>>]
  <2>1. v = [items |-> doc.items, drained |-> doc.drained, shortened |-> doc.shortened, hooks |-> doc.hooks,
             buffer |-> <<>>]
    BY DEF QueueInv, IsQueue
  <2>2. d = [v EXCEPT !.drained = IF Len(doc.items) > v.drained THEN Len(doc.items) ELSE v.drained]
    OBVIOUS
  <2>3. v.drained = doc.drained
    BY <2>1
  <2>4. d = [v EXCEPT !.drained = count]
    BY <2>2, <2>3
  <2> HIDE DEF v, count
  <2> QED BY <2>1, <2>4
<1>11. count \in Nat /\ (doc.shortened \/ count <= Len(doc.items))
  BY <1>1
<1> HIDE DEF count
<1>7. IsQueue(d)
  <2>1. IsSeq(<< >>)
    BY DEF IsSeq
  <2>2. d.items = doc.items /\ d.drained = count /\ d.shortened = doc.shortened /\ d.hooks = doc.hooks /\ d.buffer = <<>>
    <3> DEFINE x == [items |-> doc.items, drained |-> count, shortened |-> doc.shortened, hooks |-> doc.hooks,
                     buffer |-> <<>>]
    <3>1. /\ x.items = doc.items /\ x.drained = count /\ x.shortened = doc.shortened /\ x.hooks = doc.hooks
          /\ x.buffer = <<>>
      OBVIOUS
    <3> HIDE DEF x
    <3> QED BY <1>6, <3>1, Zenon DEF x
  <2>3. d = [items |-> d.items, drained |-> d.drained, shortened |-> d.shortened, hooks |-> d.hooks, buffer |-> d.buffer]
    BY <1>6, <2>2
  <2>4. IsSeq(d.items) /\ IsSeq(d.buffer) /\ d.hooks \in Nat /\ d.drained \in Nat /\ (d.shortened \/ d.drained <= Len(d.items))
    BY <1>1, <1>11, <2>1, <2>2
  <2> QED BY <2>3, <2>4 DEF IsQueue
<1>8. ASSUME NEW i \in 1..Len(doc.items), doc.items[i].allowed, doc.items[i].wrapped \/ ~doc.shortened, ~r.truncated
      PROVE  doc.items[i].id \in EventIds(r.events)
  <2>1. CASE i > doc.drained
    <3> DEFINE j == i - doc.drained
    <3>1. j \in 1..Len(beyond) /\ i = doc.drained + j
      BY <1>1, <1>2, <2>1
    <3> HIDE DEF j
    <3>2. Len(doc.buffer) + j \in 1..Len(raw) /\ raw[Len(doc.buffer) + j] = doc.items[i]
      BY <1>2, <1>4, <3>1
    <3> QED BY <1>5, <1>8, <3>2
  <2>2. CASE i <= doc.drained
    <3>1. MustBeKept(doc, i)
      BY <1>1, <1>8, <2>2 DEF MustBeKept
    <3>2. \/ doc.items[i] \in Members(doc.buffer)
          \/ doc.items[i].id \in EventIds(runtime.events)
      BY <1>5, <1>8, <3>1 DEF QueueInv, Accounted
    <3>3. ASSUME doc.items[i] \in Members(doc.buffer) PROVE doc.items[i].id \in EventIds(r.events)
      <4>1. PICK k \in 1..Len(doc.buffer) : doc.items[i] = doc.buffer[k]
        BY <3>3 DEF Members
      <4>2. k \in 1..Len(raw) /\ raw[k] = doc.items[i]
        BY <1>4, <4>1
      <4> QED BY <1>5, <1>8, <4>2
    <3> QED BY <1>5, <3>2, <3>3
  <2> QED BY <1>1, <2>1, <2>2
<1>9. d.items = doc.items /\ d.shortened = doc.shortened
  BY <1>6
<1>10. Accounted(d, r)
  BY <1>8, <1>9 DEF Accounted, MustBeKept
<1> QED BY <1>5, <1>7, <1>10

LEMMA StepQueue ==
  ASSUME QueueInv, [JourneyNext]_journeyVars
  PROVE  QueueInv'
<1>1. CASE UNCHANGED <<doc, runtime>>
  BY <1>1 DEF QueueInv, IsQueue, IsRuntime, Accounted, MustBeKept
<1>2. ASSUME NEW d, doc' = d, IsQueue(d), Accounted(d, runtime), UNCHANGED runtime PROVE QueueInv'
  BY <1>2 DEF QueueInv
<1>3. CASE PagePushes
  <2>1. PICK allowed \in BOOLEAN :
          doc' = Pushes(doc, [id |-> pushed + 1, allowed |-> allowed, wrapped |-> doc.hooks > 0]) /\ UNCHANGED runtime
    BY <1>3 DEF PagePushes
  <2> DEFINE e == [id |-> pushed + 1, allowed |-> allowed, wrapped |-> doc.hooks > 0]
  <2>2. e.wrapped => doc.hooks > 0
    OBVIOUS
  <2>3. doc' = Pushes(doc, e) /\ UNCHANGED runtime
    BY <2>1
  <2> HIDE DEF e
  <2> QED BY <1>2, <2>2, <2>3, PushAccounted DEF QueueInv
<1>4. CASE PageTampers
  <2>1. UNCHANGED runtime
    BY <1>4 DEF PageTampers
  <2>2. CASE doc' = TakesOver(doc, <<>>, 1)
    <3>1. IsSeq(<< >>)
      BY DEF IsSeq
    <3> QED BY <1>2, <2>1, <2>2, <3>1, TakeoverAccounted DEF QueueInv
  <2>3. CASE doc' = TakesOver(doc, doc.items, doc.hooks + 1)
    <3>1. IsSeq(doc.items) /\ doc.hooks + 1 \in Nat
      BY DEF QueueInv, IsQueue
    <3> QED BY <1>2, <2>1, <2>3, <3>1, TakeoverAccounted DEF QueueInv
  <2>4. CASE doc' = [doc EXCEPT !.hooks = 0]
    <3>1. doc' = [items |-> doc.items, drained |-> doc.drained, shortened |-> doc.shortened, hooks |-> 0,
                  buffer |-> doc.buffer]
      BY <2>4 DEF QueueInv, IsQueue
    <3>2. /\ doc'.items = doc.items /\ doc'.drained = doc.drained /\ doc'.shortened = doc.shortened /\ doc'.hooks = 0
          /\ doc'.buffer = doc.buffer
      BY <3>1
    <3>3. IsQueue(doc')
      BY <3>1, <3>2 DEF QueueInv, IsQueue
    <3>4. Accounted(doc', runtime)
      BY <3>2 DEF QueueInv, Accounted, MustBeKept
    <3> QED BY <1>2, <2>1, <3>3, <3>4
  <2>5. CASE doc' = FreshDoc
    BY <1>2, <2>1, <2>5, FreshAccounted
  <2>6. ASSUME NEW from \in 1..Len(doc.items), NEW to \in 1..Len(doc.items), from <= to,
               doc' = Shortened(doc, from, to)
        PROVE  QueueInv'
    <3>1. IsQueue(Shortened(doc, from, to)) /\ Accounted(Shortened(doc, from, to), runtime)
      BY <2>6, ShortenedAccounted DEF QueueInv
    <3> QED BY <1>2, <2>1, <2>6, <3>1
  <2> QED BY <1>4, <2>2, <2>3, <2>4, <2>5, <2>6 DEF PageTampers
<1>5. CASE InstallOnPage
  <2>1. UNCHANGED runtime /\ (doc' = doc \/ doc' = TakesOver(doc, doc.items, doc.hooks + 1))
    BY <1>5, Zenon DEF InstallOnPage
  <2>2. IsSeq(doc.items) /\ doc.hooks + 1 \in Nat
    BY DEF QueueInv, IsQueue
  <2> QED BY <1>1, <1>2, <2>1, <2>2, TakeoverAccounted DEF QueueInv
<1>6. CASE StepActs
  <2>1. UNCHANGED runtime /\ (doc' = doc \/ doc' = FreshDoc)
    BY <1>6, Zenon DEF StepActs
  <2> QED BY <1>1, <1>2, <2>1, FreshAccounted
<1>7. ASSUME NEW from, NEW to, Drain(from, to) PROVE QueueInv'
  <2>1. CASE UNCHANGED <<runtime, doc>>
    BY <1>1, <2>1
  <2>2. ASSUME runtime' = Recorded(runtime, Arrived(doc), tracker),
               doc' = [doc EXCEPT !.buffer = <<>>, !.drained = IF Len(doc.items) > @ THEN Len(doc.items) ELSE @]
        PROVE  QueueInv'
    <3>1. IsQueue(doc') /\ IsRuntime(runtime') /\ Accounted(doc', runtime')
      BY <2>2, DrainAccounted
    <3> QED BY <3>1 DEF QueueInv
  <2> QED BY <1>7, <2>1, <2>2 DEF Drain
<1>8. CASE \/ Launch \/ AdapterCaptures \/ Goto \/ InitialCheckpoint \/ StartStep \/ StepFails \/ StepCheckpoint
           \/ EndStep \/ FinishJourney \/ Settle \/ FinalCheckpoint \/ Content \/ Close
  BY <1>1, <1>8, Zenon DEF Launch, AdapterCaptures, Goto, InitialCheckpoint, StartStep, StepFails, StepCheckpoint,
                    EndStep, FinishJourney, Settle, FinalCheckpoint, Content, Close, pageVars
<1>9. ASSUME NEW r \in JourneyRequests, RequestSent(r) \/ ResponseArrives(r) \/ BodyArrives(r) \/ FailureArrives(r)
      PROVE  QueueInv'
  BY <1>1, <1>9, Zenon DEF RequestSent, ResponseArrives, BodyArrives, FailureArrives, pageVars
<1>10. CASE UNCHANGED journeyVars
  BY <1>1, <1>10 DEF journeyVars, pageVars
<1> QED BY <1>3, <1>4, <1>5, <1>6, <1>7, <1>8, <1>9, <1>10, Zenon DEF JourneyNext, CaptureNext, PageNext

LEMMA InitQueue == JourneyInit => QueueInv
<1> SUFFICES ASSUME JourneyInit PROVE QueueInv
  OBVIOUS
<1>1. IsSeq(<< >>)
  BY DEF IsSeq
<1> QED BY <1>1, FreshAccounted DEF JourneyInit, QueueInv, IsRuntime

LEMMA QueueHolds == QueueInv => QueueIsAccounted
<1> SUFFICES ASSUME QueueInv, NEW i \in 1..Len(doc.items), MustBeKept(doc, i), ~runtime.truncated
             PROVE  \/ \E k \in 1..Len(doc.buffer)     : doc.buffer[k].id = doc.items[i].id
                    \/ \E k \in 1..Len(runtime.events) : runtime.events[k].id = doc.items[i].id
  BY DEF QueueIsAccounted, MustBeKept
<1>1. doc.items[i] \in Members(doc.buffer) \/ doc.items[i].id \in EventIds(runtime.events)
  BY DEF QueueInv, Accounted
<1> QED BY <1>1 DEF Members, EventIds

-----------------------------------------------------------------------------
(***************************************************************************)
(* Observation runs and their comparison.  A sealed run has each profile   *)
(* once, and a render run that is complete has all of them, of its page.   *)
(* What is the last of its key is what `monitor` compares, and of one that *)
(* ended, the endpoint has what qualifies, or the receipt says that it     *)
(* failed.                                                                 *)
(***************************************************************************)
Rank(i, P) == Cardinality({j \in P : j < i})

LEMMA AtPositionsAll ==
  ASSUME NEW s, NEW P \in SUBSET Nat, IsFiniteSet(P)
  PROVE  /\ IsSeq(AtPositions(s, P)) /\ Len(AtPositions(s, P)) = Cardinality(P)
         /\ DOMAIN AtPositions(s, P) = 1..Cardinality(P) /\ Cardinality(P) \in Nat
         /\ \A k \in 1..Cardinality(P) :
              \E i \in P : AtPositions(s, P)[k] = s[i] /\ Rank(i, P) = k - 1
         /\ \A i \in P : \E k \in 1..Cardinality(P) : AtPositions(s, P)[k] = s[i]
<1> DEFINE n == Cardinality(P)
           place(k) == CHOOSE i \in P : Cardinality({j \in P : j < i}) = k - 1
           f == [k \in 1..n |-> s[place(k)]]
           V == {f[k] : k \in 1..n}
<1>1. n \in Nat
  BY FS_CardinalityType
<1>2. AtPositions(s, P) = f
  BY DEF AtPositions
<1>3. ASSUME NEW k \in 1..n PROVE place(k) \in P /\ Cardinality({j \in P : j < place(k)}) = k - 1
  <2>1. k - 1 \in Nat /\ k - 1 < Cardinality(P)
    BY <1>1
  <2>2. \E i \in P : Cardinality({j \in P : j < i}) = k - 1
    BY <2>1, RanksAreAll
  <2> QED BY <2>2
<1>4. f \in [1..n -> V] /\ DOMAIN f = 1..n /\ \A k \in 1..n : f[k] = s[place(k)]
  OBVIOUS
<1> HIDE DEF n, f, V, place
<1>5. f \in Seq(V) /\ Len(f) = n
  BY <1>1, <1>4
<1>6. \A k \in 1..n : \E i \in P : f[k] = s[i] /\ Rank(i, P) = k - 1
  BY <1>3, <1>4 DEF Rank
<1>7. ASSUME NEW i \in P PROVE \E k \in 1..n : f[k] = s[i]
  <2> DEFINE r == Cardinality({j \in P : j < i})
             k == r + 1
  <2>1. r \in Nat /\ r < n
    BY Ranks DEF n
  <2>2. k \in 1..n /\ k - 1 = r
    BY <1>1, <2>1
  <2>3. place(k) \in P /\ Cardinality({j \in P : j < place(k)}) = r
    BY <1>3, <2>2
  <2> HIDE DEF r, k
  <2> DEFINE p == place(k)
  <2> HIDE DEF p
  <2>4. p \in P /\ Cardinality({j \in P : j < p}) = r
    BY <2>3 DEF p
  <2>5. ~(p < i) /\ ~(i < p)
    <3>1. p < i => Cardinality({j \in P : j < p}) < Cardinality({j \in P : j < i})
      BY <2>4, Ranks
    <3>2. i < p => Cardinality({j \in P : j < i}) < Cardinality({j \in P : j < p})
      BY <2>4, Ranks
    <3> QED BY <2>1, <2>4, <3>1, <3>2 DEF r
  <2>6. p = i
    <3>1. p \in Nat /\ i \in Nat
      BY <2>4
    <3> QED BY <2>5, <3>1
  <2> QED BY <1>4, <2>2, <2>6 DEF p
<1> QED BY <1>1, <1>2, <1>4, <1>5, <1>6, <1>7 DEF IsSeq, n

LEMMA AtPositionsAre ==
  ASSUME NEW s, NEW P \in SUBSET Nat, IsFiniteSet(P)
  PROVE  /\ IsSeq(AtPositions(s, P)) /\ Len(AtPositions(s, P)) = Cardinality(P)
         /\ DOMAIN AtPositions(s, P) = 1..Cardinality(P) /\ Cardinality(P) \in Nat
BY AtPositionsAll

LEMMA AtPositionsFrom ==
  ASSUME NEW s, NEW P \in SUBSET Nat, IsFiniteSet(P), NEW k \in 1..Cardinality(P)
  PROVE  \E i \in P : AtPositions(s, P)[k] = s[i] /\ Rank(i, P) = k - 1
BY AtPositionsAll

LEMMA AtPositionsHas ==
  ASSUME NEW s, NEW P \in SUBSET Nat, IsFiniteSet(P), NEW i \in P
  PROVE  \E k \in 1..Cardinality(P) : AtPositions(s, P)[k] = s[i]
BY AtPositionsAll

\* Positions of different members are different.
LEMMA AtPositionsApart ==
  ASSUME NEW s, NEW P \in SUBSET Nat, IsFiniteSet(P),
         NEW k \in 1..Cardinality(P), NEW m \in 1..Cardinality(P), k # m
  PROVE  \E i, j \in P : i # j /\ AtPositions(s, P)[k] = s[i] /\ AtPositions(s, P)[m] = s[j]
<1>1. PICK i \in P : AtPositions(s, P)[k] = s[i] /\ Rank(i, P) = k - 1
  BY AtPositionsFrom
<1>2. PICK j \in P : AtPositions(s, P)[m] = s[j] /\ Rank(j, P) = m - 1
  BY AtPositionsFrom
<1>3. Cardinality(P) \in Nat
  BY AtPositionsAre
<1>4. i # j
  BY <1>1, <1>2, <1>3
<1> QED BY <1>1, <1>2, <1>4

ProfileNames == {"desktop", "mobile", "javascript_disabled"}

ProfilesOnce(obs) ==
  \A i, j \in 1..Len(obs) :
    /\ obs[i].kind = "render" /\ obs[j].kind = "render"
    /\ obs[i].part = obs[j].part /\ obs[i].part \in ProfileNames
    => i = j

PagesNamed(obs) == \A i \in 1..Len(obs) : obs[i].kind \in {"index", "canonical_freshness"} => obs[i].of # "none"

\* As --target and --interactions ask for it.
AsAsked(o, asked) == o.state = "observed" /\ o.of = asked.target /\ o.value = Captured(asked.interactions)

AllProfiles(obs, asked) ==
  \A p \in ProfileNames :
    \E j \in 1..Len(obs) :
      /\ obs[j].part = p /\ AsAsked(obs[j], asked)
      /\ \A i \in 1..Len(obs) : obs[i].part = p => i = j

Good(obs, whole, asked) ==
  /\ IsSeq(obs)
  /\ ProfilesOnce(obs)
  /\ PagesNamed(obs)
  /\ whole /\ (\E i \in 1..Len(obs) : obs[i].kind = "render") => AllProfiles(obs, asked)

ResultGood(r) == Good(r.obs, ~r.incomplete, r.asked)

LEMMA ObsIs ==
  ASSUME NEW kind, NEW of, NEW part, NEW state, NEW value
  PROVE  /\ Obs(kind, of, part, state, value).kind = kind /\ Obs(kind, of, part, state, value).of = of
         /\ Obs(kind, of, part, state, value).part = part /\ Obs(kind, of, part, state, value).state = state
         /\ Obs(kind, of, part, state, value).value = value
BY DEF Obs

\* Neither of a rendering nor of a page without a name.
Plain(o) == o.kind # "render" /\ (o.kind \in {"index", "canonical_freshness"} => o.of # "none")

LEMMA PlainGood ==
  ASSUME NEW obs, IsSeq(obs), \A i \in 1..Len(obs) : Plain(obs[i]), NEW whole, NEW asked
  PROVE  Good(obs, whole, asked)
BY DEF Good, ProfilesOnce, PagesNamed, Plain

\* A series has one observation for each part, with one of the outcomes.
LEMMA SeriesAre ==
  ASSUME NEW kind, NEW of, NEW parts, IsSeq(parts), NEW outcomes, NEW obs \in Series(kind, of, parts, outcomes)
  PROVE  /\ IsSeq(obs) /\ Len(obs) = Len(parts) /\ Len(parts) \in Nat
         /\ \A i \in 1..Len(obs) : /\ obs[i].kind = kind /\ obs[i].of = of /\ obs[i].part = parts[i]
                                   /\ \E c \in outcomes : obs[i].state = c[1] /\ obs[i].value = c[2]
<1>1. Len(parts) \in Nat /\ DOMAIN parts = 1..Len(parts)
  BY DEF IsSeq
<1>2. PICK c \in [1..Len(parts) -> outcomes] :
        obs = [i \in 1..Len(parts) |-> Obs(kind, of, parts[i], c[i][1], c[i][2])]
  BY <1>1 DEF Series
<1>3. \A i \in 1..Len(parts) : obs[i] = Obs(kind, of, parts[i], c[i][1], c[i][2])
  BY <1>2
<1> DEFINE V == {obs[i] : i \in 1..Len(parts)}
<1>4. obs \in [1..Len(parts) -> V]
  BY <1>2
<1> HIDE DEF V
<1>5. obs \in Seq(V) /\ Len(obs) = Len(parts)
  BY <1>1, <1>4
<1>6. ASSUME NEW i \in 1..Len(parts)
      PROVE  /\ obs[i].kind = kind /\ obs[i].of = of /\ obs[i].part = parts[i]
             /\ \E o \in outcomes : obs[i].state = o[1] /\ obs[i].value = o[2]
  <2>1. c[i] \in outcomes
    OBVIOUS
  <2>2. /\ obs[i].kind = kind /\ obs[i].of = of /\ obs[i].part = parts[i]
        /\ obs[i].state = c[i][1] /\ obs[i].value = c[i][2]
    BY <1>3, ObsIs
  <2> QED BY <2>1, <2>2
<1> QED BY <1>1, <1>5, <1>6 DEF IsSeq

LEMMA SeriesParts ==
  ASSUME NEW kind, NEW of, NEW parts, IsSeq(parts), NEW outcomes, NEW obs \in Series(kind, of, parts, outcomes)
  PROVE  /\ IsSeq(obs) /\ Len(obs) = Len(parts)
         /\ \A i \in 1..Len(obs) : obs[i].kind = kind /\ obs[i].of = of /\ obs[i].part = parts[i]
BY SeriesAre

LEMMA SeriesOutcome ==
  ASSUME NEW kind, NEW of, NEW parts, IsSeq(parts), NEW outcomes, NEW obs \in Series(kind, of, parts, outcomes),
         NEW i \in 1..Len(obs)
  PROVE  \E c \in outcomes : obs[i].state = c[1] /\ obs[i].value = c[2]
BY SeriesAre

LEMMA PagesAre ==
  ASSUME NEW kind, NEW outcomes, NEW obs \in OfPages(kind, outcomes)
  PROVE  /\ IsSeq(obs) /\ Len(obs) = Len(Targets)
         /\ \A i \in 1..Len(obs) : obs[i].kind = kind /\ obs[i].of = Targets[i] /\ obs[i].part = "page"
<1>1. Len(Targets) \in Nat /\ DOMAIN Targets = 1..Len(Targets)
  BY ObservationAssumption
<1>2. PICK c \in [1..Len(Targets) -> outcomes] :
        obs = [i \in 1..Len(Targets) |-> Obs(kind, Targets[i], "page", c[i][1], c[i][2])]
  BY <1>1 DEF OfPages
<1>3. \A i \in 1..Len(Targets) : obs[i] = Obs(kind, Targets[i], "page", c[i][1], c[i][2])
  BY <1>2
<1> DEFINE V == {obs[i] : i \in 1..Len(Targets)}
<1>4. obs \in [1..Len(Targets) -> V]
  BY <1>2
<1> HIDE DEF V
<1>5. obs \in Seq(V) /\ Len(obs) = Len(Targets)
  BY <1>1, <1>4
<1>6. \A i \in 1..Len(Targets) : obs[i].kind = kind /\ obs[i].of = Targets[i] /\ obs[i].part = "page"
  BY <1>3, ObsIs
<1> QED BY <1>1, <1>5, <1>6 DEF IsSeq

\* What is taken over from a run.
TakenOver(reused, asked) ==
  /\ IsSeq(reused)
  /\ \A i \in 1..Len(reused) :
       /\ reused[i].kind = "render" /\ reused[i].part \in ProfileNames
       /\ AsAsked(reused[i], asked)
  /\ \A i, j \in 1..Len(reused) : reused[i].part = reused[j].part => i = j

LEMMA ProfilesAre ==
  /\ DOMAIN Profiles = 1..3
  /\ Profiles[1] = "desktop" /\ Profiles[2] = "mobile" /\ Profiles[3] = "javascript_disabled"
BY DEF Profiles

\* The profiles that are captured anew.
LEMMA WantedAll ==
  ASSUME NEW reused, IsSeq(reused)
  PROVE  LET wanted == Wanted(reused) IN
         /\ IsSeq(wanted) /\ Len(wanted) \in Nat
         /\ \A k \in 1..Len(wanted) : /\ wanted[k] \in ProfileNames
                                      /\ \A i \in 1..Len(reused) : reused[i].part # wanted[k]
         /\ \A k, m \in 1..Len(wanted) : wanted[k] = wanted[m] => k = m
         /\ \A p \in ProfileNames : \/ \E i \in 1..Len(reused) : reused[i].part = p
                                    \/ \E k \in 1..Len(wanted) : wanted[k] = p
<1> DEFINE wanted == Wanted(reused)
<1> DEFINE P == {p \in DOMAIN Profiles : \A i \in DOMAIN reused : reused[i].part # Profiles[p]}
<1>1. DOMAIN reused = 1..Len(reused) /\ Len(reused) \in Nat
  BY DEF IsSeq
<1>2. P \in SUBSET (1..3)
  BY ProfilesAre
<1>4. \A p \in 1..3 : p \in P <=> \A i \in 1..Len(reused) : reused[i].part # Profiles[p]
  BY <1>1, ProfilesAre
<1> HIDE DEF P
<1>3. P \in SUBSET Nat /\ IsFiniteSet(P)
  BY <1>2, UpTo
<1>5. wanted = AtPositions(Profiles, P)
  BY DEF P, Wanted
<1> HIDE DEF wanted
<1>6. /\ IsSeq(wanted) /\ Len(wanted) = Cardinality(P) /\ Cardinality(P) \in Nat
  BY <1>3, <1>5, AtPositionsAre
<1>7. ASSUME NEW k \in 1..Len(wanted) PROVE \E p \in P : wanted[k] = Profiles[p]
  <2>1. k \in 1..Cardinality(P)
    BY <1>6
  <2>2. \E p \in P : AtPositions(Profiles, P)[k] = Profiles[p] /\ Rank(p, P) = k - 1
    BY <1>3, <2>1, AtPositionsFrom
  <2> QED BY <1>5, <2>2
<1>8. ASSUME NEW p \in P PROVE \E k \in 1..Len(wanted) : wanted[k] = Profiles[p]
  <2>1. \E k \in 1..Cardinality(P) : AtPositions(Profiles, P)[k] = Profiles[p]
    BY <1>3, AtPositionsHas
  <2> QED BY <1>5, <1>6, <2>1
<1>9. ASSUME NEW k \in 1..Len(wanted), NEW m \in 1..Len(wanted), k # m PROVE wanted[k] # wanted[m]
  <2>0. k \in 1..Cardinality(P) /\ m \in 1..Cardinality(P)
    BY <1>6
  <2>a. PICK i \in P : AtPositions(Profiles, P)[k] = Profiles[i] /\ Rank(i, P) = k - 1
    BY <1>3, <2>0, AtPositionsFrom
  <2>b. PICK j \in P : AtPositions(Profiles, P)[m] = Profiles[j] /\ Rank(j, P) = m - 1
    BY <1>3, <2>0, AtPositionsFrom
  <2>1. i # j /\ wanted[k] = Profiles[i] /\ wanted[m] = Profiles[j]
    BY <1>5, <1>9, <2>0, <2>a, <2>b
  <2>2. i \in {1, 2, 3} /\ j \in {1, 2, 3}
    BY <1>2
  <2> QED BY <2>1, <2>2, ProfilesAre
<1>10. ASSUME NEW k \in 1..Len(wanted)
       PROVE  wanted[k] \in ProfileNames /\ \A i \in 1..Len(reused) : reused[i].part # wanted[k]
  <2>1. PICK p \in P : wanted[k] = Profiles[p]
    BY <1>7
  <2>2. p \in {1, 2, 3}
    BY <1>2
  <2>3. wanted[k] \in ProfileNames
    BY <2>1, <2>2, ProfilesAre DEF ProfileNames
  <2>4. \A i \in 1..Len(reused) : reused[i].part # wanted[k]
    BY <1>4, <2>1, <2>2
  <2> QED BY <2>3, <2>4
<1>11. ASSUME NEW p \in ProfileNames, \A i \in 1..Len(reused) : reused[i].part # p
       PROVE  \E k \in 1..Len(wanted) : wanted[k] = p
  <2>1. PICK q \in 1..3 : Profiles[q] = p
    BY ProfilesAre DEF ProfileNames
  <2>2. q \in P
    BY <1>4, <1>11, <2>1
  <2> QED BY <1>8, <2>1, <2>2
<1>12. IsSeq(wanted) /\ Len(wanted) \in Nat
  BY <1>6
<1> QED BY <1>9, <1>10, <1>11, <1>12 DEF wanted

LEMMA RenderGood ==
  ASSUME NEW asked, NEW reused, TakenOver(reused, asked),
         NEW r \in RenderResults(asked, reused)
  PROVE  ResultGood(r)
<1> DEFINE wanted == Wanted(reused)
           of       == asked.target
           outcomes == {<<"observed", Captured(asked.interactions)>>, <<"failed", "none">>}
<1>1. PICK new \in Series("render", of, wanted, outcomes) :
        r = [obs |-> (reused \o new) \o <<Parity(of, reused \o new)>>,
             incomplete |-> "failed" \in States(new), asked |-> asked]
  BY DEF RenderResults
<1>0. IsSeq(reused)
  BY DEF TakenOver
<1>2. /\ IsSeq(wanted) /\ Len(wanted) \in Nat
      /\ \A k \in 1..Len(wanted) : /\ wanted[k] \in ProfileNames
                                   /\ \A i \in 1..Len(reused) : reused[i].part # wanted[k]
      /\ \A k, m \in 1..Len(wanted) : wanted[k] = wanted[m] => k = m
      /\ \A p \in ProfileNames : \/ \E i \in 1..Len(reused) : reused[i].part = p
                                 \/ \E k \in 1..Len(wanted) : wanted[k] = p
  BY <1>0, WantedAll
<1> HIDE DEF wanted
<1> DEFINE base == reused \o new
           last == <<Parity(of, base)>>
           obs  == base \o last
<1>3. /\ IsSeq(new) /\ Len(new) = Len(wanted)
      /\ \A i \in 1..Len(new) : /\ new[i].kind = "render" /\ new[i].part = wanted[i]
                                /\ AsAsked(new[i], asked) \/ new[i].state = "failed"
  <2>0. IsSeq(wanted)
    BY <1>2
  <2>b. new \in Series("render", of, wanted, outcomes)
    BY <1>1
  <2> HIDE DEF outcomes, of
  <2>1. /\ IsSeq(new) /\ Len(new) = Len(wanted)
        /\ \A i \in 1..Len(new) : new[i].kind = "render" /\ new[i].of = of /\ new[i].part = wanted[i]
    <3>1. PICK kind, whose, parts, o : kind = "render" /\ whose = of /\ parts = wanted /\ o = outcomes
      OBVIOUS
    <3>2. IsSeq(parts) /\ new \in Series(kind, whose, parts, o)
      BY <2>0, <2>b, <3>1
    <3>3. /\ IsSeq(new) /\ Len(new) = Len(parts)
          /\ \A i \in 1..Len(new) : new[i].kind = kind /\ new[i].of = whose /\ new[i].part = parts[i]
      BY <3>2, SeriesParts
    <3> QED BY <3>1, <3>3
  <2>2. ASSUME NEW i \in 1..Len(new) PROVE \E c \in outcomes : new[i].state = c[1] /\ new[i].value = c[2]
    BY <2>0, <2>b, SeriesOutcome
  <2>3. ASSUME NEW i \in 1..Len(new)
        PROVE  AsAsked(new[i], asked) \/ new[i].state = "failed"
    BY <2>1, <2>2 DEF outcomes, of, AsAsked
  <2> QED BY <2>1, <2>3
<1> HIDE DEF outcomes, of
<1>4. IsSeq(last) /\ Len(last) = 1 /\ last[1].kind = "render" /\ last[1].part \notin ProfileNames
  <2>1. Parity(of, base).kind = "render" /\ Parity(of, base).part = "parity"
    BY ObsIs DEF Parity
  <2>2. last \in Seq({Parity(of, base)}) /\ Len(last) = 1 /\ last[1] = Parity(of, base)
    OBVIOUS
  <2> QED BY <2>1, <2>2 DEF IsSeq, ProfileNames
<1>5. IsSeq(base) /\ Len(base) = Len(reused) + Len(new) /\ Len(reused) \in Nat /\ Len(new) \in Nat
  BY <1>0, <1>3, Joined
<1>b. base = reused \o new
  OBVIOUS
<1> HIDE DEF last, base
<1>6. ASSUME NEW i \in 1..Len(base)
      PROVE  /\ base[i].kind = "render" /\ base[i].part \in ProfileNames
             /\ \/ i \in 1..Len(reused) /\ base[i] = reused[i]
                \/ \E j \in 1..Len(new) : i = Len(reused) + j /\ base[i] = new[j]
  <2>1. \/ i \in 1..Len(reused) /\ base[i] = reused[i]
        \/ \E j \in 1..Len(new) : i = Len(reused) + j /\ base[i] = new[j]
    BY <1>0, <1>3, <1>b, JoinedCases
  <2>2. ASSUME NEW j \in 1..Len(reused)
        PROVE  reused[j].kind = "render" /\ reused[j].part \in ProfileNames
    BY DEF TakenOver
  <2>3. ASSUME NEW j \in 1..Len(new)
        PROVE  new[j].kind = "render" /\ new[j].part \in ProfileNames
    <3>1. j \in 1..Len(wanted)
      BY <1>3
    <3> QED BY <1>2, <1>3, <3>1
  <2> QED BY <2>1, <2>2, <2>3
<1>7. \A i, j \in 1..Len(base) : base[i].part = base[j].part => i = j
  <2> SUFFICES ASSUME NEW i \in 1..Len(base), NEW j \in 1..Len(base), base[i].part = base[j].part PROVE i = j
    OBVIOUS
  <2>1. CASE i \in 1..Len(reused) /\ base[i] = reused[i] /\ j \in 1..Len(reused) /\ base[j] = reused[j]
    BY <2>1 DEF TakenOver
  <2>2. ASSUME NEW k \in 1..Len(new), i = Len(reused) + k, base[i] = new[k],
               NEW m \in 1..Len(new), j = Len(reused) + m, base[j] = new[m]
        PROVE  i = j
    BY <1>2, <1>3, <2>2
  <2>3. ASSUME NEW a \in 1..Len(reused), NEW m \in 1..Len(new), reused[a].part = new[m].part
        PROVE  FALSE
    BY <1>2, <1>3, <2>3
  <2> QED BY <1>6, <2>1, <2>2, <2>3
<1>8. \A p \in ProfileNames : \E j \in 1..Len(base) : base[j].part = p
  <2> SUFFICES ASSUME NEW p \in ProfileNames PROVE \E j \in 1..Len(base) : base[j].part = p
    OBVIOUS
  <2>1. \/ \E i \in 1..Len(reused) : reused[i].part = p
        \/ \E k \in 1..Len(wanted) : wanted[k] = p
    BY <1>2
  <2>2. ASSUME NEW i \in 1..Len(reused), reused[i].part = p PROVE \E j \in 1..Len(base) : base[j].part = p
    BY <1>0, <1>3, <1>b, <2>2, LeftOf
  <2>3. ASSUME NEW k \in 1..Len(wanted), wanted[k] = p PROVE \E j \in 1..Len(base) : base[j].part = p
    <3>1. k \in 1..Len(new) /\ new[k].part = p
      BY <1>3, <2>3
    <3>2. Len(reused) + k \in 1..Len(base) /\ base[Len(reused) + k] = new[k]
      BY <1>0, <1>3, <1>b, <3>1, RightOf
    <3> QED BY <3>1, <3>2
  <2> QED BY <2>1, <2>2, <2>3
<1>o. obs = base \o last
  OBVIOUS
<1> HIDE DEF obs
<1>p. IsSeq(base) /\ IsSeq(last)
  BY <1>4, <1>5
<1>q. IsSeq(obs) /\ Len(obs) = Len(base) + Len(last)
  BY <1>p, <1>o, Joined
<1>9. IsSeq(obs) /\ Len(obs) = Len(base) + 1
  BY <1>4, <1>q
<1>10. ASSUME NEW i \in 1..Len(obs)
       PROVE  /\ obs[i].kind = "render"
              /\ \/ i \in 1..Len(base) /\ obs[i] = base[i]
                 \/ obs[i].part \notin ProfileNames
  <2>1. \/ i \in 1..Len(base) /\ obs[i] = base[i]
        \/ \E j \in 1..Len(last) : i = Len(base) + j /\ obs[i] = last[j]
    BY <1>p, <1>o, JoinedCases
  <2> QED BY <1>4, <1>6, <2>1
<1>11. \A i \in 1..Len(base) : i \in 1..Len(obs) /\ obs[i] = base[i]
  BY <1>p, <1>o, LeftOf
<1>12. r.obs = obs /\ r.asked = asked /\ r.incomplete = ("failed" \in States(new))
  BY <1>1 DEF obs, last, base
<1>13. ProfilesOnce(obs) /\ PagesNamed(obs)
  <2>1. ProfilesOnce(obs)
    BY <1>7, <1>10 DEF ProfilesOnce
  <2>2. PagesNamed(obs)
    BY <1>10 DEF PagesNamed
  <2> QED BY <2>1, <2>2
<1>14. ASSUME "failed" \notin States(new) PROVE AllProfiles(obs, asked)
  <2>1. \A i \in 1..Len(new) : AsAsked(new[i], asked)
    <3>1. DOMAIN new = 1..Len(new)
      BY <1>3 DEF IsSeq
    <3> QED BY <1>3, <1>14, <3>1 DEF States
  <2>2. ASSUME NEW i \in 1..Len(base) PROVE AsAsked(base[i], asked)
    <3>1. CASE i \in 1..Len(reused) /\ base[i] = reused[i]
      BY <3>1 DEF TakenOver
    <3>2. CASE \E j \in 1..Len(new) : i = Len(reused) + j /\ base[i] = new[j]
      BY <2>1, <3>2
    <3> QED BY <1>6, <3>1, <3>2
  <2>3. ASSUME NEW p \in ProfileNames
        PROVE  \E j \in 1..Len(obs) :
                 /\ obs[j].part = p /\ AsAsked(obs[j], asked)
                 /\ \A i \in 1..Len(obs) : obs[i].part = p => i = j
    <3>1. PICK j \in 1..Len(base) : base[j].part = p
      BY <1>8
    <3>2. \A i \in 1..Len(obs) : obs[i].part = p => i = j
      BY <1>7, <1>10, <3>1
    <3> QED BY <1>11, <2>2, <3>1, <3>2
  <2> QED BY <2>3 DEF AllProfiles
<1>15. ~r.incomplete => AllProfiles(obs, asked)
  BY <1>12, <1>14
<1> QED BY <1>9, <1>12, <1>13, <1>15 DEF ResultGood, Good

\* One observation, or none, is good unless it stands for a whole render run.
LEMMA OneIs ==
  ASSUME NEW o
  PROVE  IsSeq(<<o>>) /\ Len(<<o>>) = 1 /\ <<o>>[1] = o
<1>1. <<o>> \in Seq({o})
  OBVIOUS
<1> QED BY <1>1 DEF IsSeq

LEMMA TwoAre ==
  ASSUME NEW o, NEW n
  PROVE  IsSeq(<<o, n>>) /\ Len(<<o, n>>) = 2 /\ <<o, n>>[1] = o /\ <<o, n>>[2] = n
<1>1. <<o, n>> \in Seq({o, n})
  OBVIOUS
<1> QED BY <1>1, Zenon DEF IsSeq

LEMMA NoneAre == IsSeq(<<>>) /\ Len(<<>>) = 0
<1>1. <<>> \in Seq({})
  OBVIOUS
<1> QED BY <1>1 DEF IsSeq

LEMMA SingleGood ==
  ASSUME NEW o, NEW whole, NEW asked, whole => o.kind # "render",
         o.kind \in {"index", "canonical_freshness"} => o.of # "none"
  PROVE  Good(<<o>>, whole, asked)
<1> DEFINE obs == <<o>>
<1>1. IsSeq(obs) /\ Len(obs) = 1 /\ obs[1] = o
  BY OneIs
<1> HIDE DEF obs
<1>2. \A i \in 1..Len(obs) : i = 1
  BY <1>1
<1> QED BY <1>1, <1>2 DEF Good, ProfilesOnce, PagesNamed, obs

LEMMA EmptyGood ==
  ASSUME NEW whole, NEW asked
  PROVE  Good(<<>>, whole, asked)
<1> DEFINE obs == <<>>
<1>1. IsSeq(obs) /\ Len(obs) = 0
  BY NoneAre
<1> HIDE DEF obs
<1>2. \A i \in 1..Len(obs) : FALSE
  BY <1>1
<1> QED BY <1>1, <1>2 DEF Good, ProfilesOnce, PagesNamed, obs

LEMMA ResultIs ==
  ASSUME NEW obs, NEW incomplete, \A asked : Good(obs, ~incomplete, asked)
  PROVE  ResultGood(Result(obs, incomplete))
BY DEF ResultGood, Result

LEMMA PlainResult ==
  ASSUME NEW obs, IsSeq(obs), \A i \in 1..Len(obs) : Plain(obs[i]), NEW incomplete
  PROVE  ResultGood(Result(obs, incomplete))
<1>1. \A asked : Good(obs, ~incomplete, asked)
  BY PlainGood
<1> QED BY <1>1, ResultIs

LEMMA OneResult ==
  ASSUME NEW o, Plain(o), NEW incomplete
  PROVE  ResultGood(Result(<<o>>, incomplete))
<1> DEFINE obs == <<o>>
<1>1. IsSeq(obs) /\ Len(obs) = 1 /\ obs[1] = o
  BY OneIs
<1> HIDE DEF obs
<1>2. \A i \in 1..Len(obs) : Plain(obs[i])
  <2>1. \A i \in 1..Len(obs) : i = 1
    BY <1>1
  <2> QED BY <1>1, <2>1
<1> QED BY <1>1, <1>2, PlainResult DEF obs

LEMMA TwoResult ==
  ASSUME NEW o, Plain(o), NEW n, Plain(n), NEW incomplete
  PROVE  ResultGood(Result(<<o, n>>, incomplete))
<1> DEFINE obs == <<o, n>>
<1>1. IsSeq(obs) /\ Len(obs) = 2 /\ obs[1] = o /\ obs[2] = n
  BY TwoAre
<1> HIDE DEF obs
<1>2. \A i \in 1..Len(obs) : Plain(obs[i])
  <2>1. \A i \in 1..Len(obs) : i = 1 \/ i = 2
    BY <1>1
  <2> QED BY <1>1, <2>1
<1> QED BY <1>1, <1>2, PlainResult DEF obs

LEMMA NoneResult ==
  ASSUME NEW incomplete
  PROVE  ResultGood(Result(<<>>, incomplete))
BY EmptyGood, ResultIs

LEMMA SeriesPlain ==
  ASSUME NEW kind, kind \notin {"render", "index", "canonical_freshness"}, NEW of,
         NEW parts, IsSeq(parts), NEW outcomes, NEW obs \in Series(kind, of, parts, outcomes)
  PROVE  IsSeq(obs) /\ \A i \in 1..Len(obs) : Plain(obs[i])
BY SeriesParts DEF Plain

LEMMA PagesPlain ==
  ASSUME NEW kind, kind # "render", NEW outcomes, NEW obs \in OfPages(kind, outcomes)
  PROVE  IsSeq(obs) /\ \A i \in 1..Len(obs) : Plain(obs[i])
<1>1. /\ IsSeq(obs) /\ Len(obs) = Len(Targets)
      /\ \A i \in 1..Len(obs) : obs[i].kind = kind /\ obs[i].of = Targets[i] /\ obs[i].part = "page"
  BY PagesAre
<1>2. DOMAIN Targets = 1..Len(Targets) /\ \A i \in DOMAIN Targets : Targets[i] # "none"
  BY ObservationAssumption
<1> QED BY <1>1, <1>2 DEF Plain

LEMMA JoinedPlain ==
  ASSUME NEW first, IsSeq(first), \A i \in 1..Len(first) : Plain(first[i]),
         NEW rest, IsSeq(rest), \A i \in 1..Len(rest) : Plain(rest[i])
  PROVE  IsSeq(first \o rest) /\ \A i \in 1..Len(first \o rest) : Plain((first \o rest)[i])
<1> DEFINE obs == first \o rest
<1>1. obs = first \o rest
  OBVIOUS
<1> HIDE DEF obs
<1>2. IsSeq(obs)
  BY <1>1, Joined
<1>3. ASSUME NEW i \in 1..Len(obs) PROVE Plain(obs[i])
  <2>1. \/ i \in 1..Len(first) /\ obs[i] = first[i]
        \/ \E j \in 1..Len(rest) : i = Len(first) + j /\ obs[i] = rest[j]
    BY <1>1, JoinedCases, SMTT(30)
  <2> QED BY <2>1
<1> QED BY <1>2, <1>3 DEF obs

LEMMA SeriesKind ==
  ASSUME NEW kind, NEW of, NEW parts, IsSeq(parts), NEW outcomes, NEW obs \in Series(kind, of, parts, outcomes)
  PROVE  IsSeq(obs) /\ \A i \in 1..Len(obs) : obs[i].kind = kind
BY SeriesAre

\* Whatever a mode collects or imports is good.
LEMMA CollectedGood ==
  ASSUME NEW r \in JourneyResults \cup LogResults \cup BingResults \cup PassageResults
                   \cup LighthouseResults \cup ProbeResults \cup ImportResults
                   \cup AttributionResults \cup MediaResults
  PROVE  ResultGood(r)
<1>1. ASSUME NEW kind, kind \notin {"render", "index", "canonical_freshness"}, NEW of, NEW parts, IsSeq(parts),
             NEW outcomes, NEW obs \in Series(kind, of, parts, outcomes), NEW incomplete
      PROVE  ResultGood(Result(obs, incomplete))
  BY <1>1, SeriesPlain, PlainResult
<1>2. ASSUME NEW o, o.kind \notin {"render", "index", "canonical_freshness"}, NEW incomplete
      PROVE  ResultGood(Result(<<o>>, incomplete))
  BY <1>2, OneResult DEF Plain
<1>3. ASSUME NEW incomplete PROVE ResultGood(Result(<<>>, incomplete))
  BY NoneResult
<1>4. CASE r \in JourneyResults
  <2>1. PICK obs \in Series("browser_journey", Targets[1], <<"profile">>,
                    {<<"observed", "one">>, <<"observed", "another">>, <<"failed", "none">>}) :
          r = Result(obs, "failed" \in States(obs))
    BY <1>4 DEF JourneyResults
  <2>2. IsSeq(<<"profile">>)
    BY OneIs
  <2> QED BY <1>1, <2>1, <2>2
<1>5. CASE r \in LogResults
  <2>1. PICK f \in LogRows :
          r = Result(<<Obs("crawler_log", Targets[1], "row", "observed", VerificationStatus(f))>>,
                     VerificationStatus(f) # "fully_verified")
    BY <1>5 DEF LogResults
  <2>2. Obs("crawler_log", Targets[1], "row", "observed", VerificationStatus(f)).kind \notin {"render", "index", "canonical_freshness"}
    BY ObsIs
  <2> QED BY <1>2, <2>1, <2>2
<1>6. CASE r \in BingResults
  <2> DEFINE one(of, v) == Result(<<Obs("bing_webmaster", of, "row", "observed", v)>>, FALSE)
  <2>a. BingResults = {one(of, v) : of \in {Targets[1], "none"}, v \in {"good", "bad"}}
    BY SMT DEF BingResults
  <2> HIDE DEF one
  <2>b. r \in {one(of, v) : of \in {Targets[1], "none"}, v \in {"good", "bad"}}
    BY <1>6, <2>a
  <2>c. PICK of \in {Targets[1], "none"}, v \in {"good", "bad"} : r = one(of, v)
    BY SMT, <2>b
  <2>1. r = Result(<<Obs("bing_webmaster", of, "row", "observed", v)>>, FALSE)
    BY <2>c DEF one
  <2>2. Obs("bing_webmaster", of, "row", "observed", v).kind \notin {"render", "index", "canonical_freshness"}
    BY ObsIs
  <2> QED BY <1>2, <2>1, <2>2
<1>7. CASE r \in PassageResults
  <2> DEFINE o == Obs("passage", Targets[1], "first", "observed", "none")
             n == Obs("passage", Targets[1], "second", "observed", "none")
             w == Obs("passage", Targets[1], "page", "not_observed", "none")
  <2>1. r = Result(<<o, n>>, FALSE) \/ r = Result(<<w>>, FALSE)
    BY <1>7 DEF PassageResults
  <2>2. Plain(o) /\ Plain(n) /\ Plain(w)
    BY ObsIs DEF Plain
  <2> HIDE DEF o, n, w
  <2> QED BY <2>1, <2>2, TwoResult, OneResult
<1>8. CASE r \in LighthouseResults
  <2> DEFINE parts == [i \in 1..Repeats |-> "lab"]
  <2>1. PICK lab \in Series("performance", Targets[1], parts, {<<"observed", "none">>, <<"failed", "none">>}) :
          r = Result(Append(lab, Obs("performance", Targets[1], "lab_summary",
                       IF "observed" \in States(lab) THEN "observed" ELSE "not_evidenced", "none")),
                     "failed" \in States(lab))
    BY <1>8 DEF LighthouseResults
  <2>2. IsSeq(parts)
    <3>1. parts \in Seq({"lab"})
      BY ObservationAssumption
    <3> QED BY <3>1 DEF IsSeq
  <2> HIDE DEF parts
  <2> DEFINE state == IF "observed" \in States(lab) THEN "observed" ELSE "not_evidenced"
             last  == Obs("performance", Targets[1], "lab_summary", state, "none")
             obs   == Append(lab, last)
  <2>3. IsSeq(lab) /\ \A i \in 1..Len(lab) : lab[i].kind = "performance"
    BY <2>1, <2>2, SeriesKind
  <2>4. last.kind = "performance"
    BY ObsIs
  <2>e. r = Result(obs, "failed" \in States(lab))
    BY <2>1
  <2> HIDE DEF state, last
  <2>5. /\ IsSeq(obs) /\ Len(obs) = Len(lab) + 1 /\ Len(lab) \in Nat
        /\ obs[Len(lab) + 1] = last /\ \A i \in 1..Len(lab) : obs[i] = lab[i]
    BY <2>3, SeqGrows
  <2> HIDE DEF obs
  <2>6. ASSUME NEW i \in 1..Len(obs) PROVE Plain(obs[i])
    <3>1. i = Len(lab) + 1 \/ i \in 1..Len(lab)
      BY <2>5
    <3>2. obs[i].kind = "performance"
      BY <2>3, <2>4, <2>5, <3>1
    <3> QED BY <3>2 DEF Plain
  <2> QED BY <2>5, <2>6, <2>e, PlainResult
<1>9. CASE r \in ProbeResults
  <2> DEFINE outcomes == {<<"observed", EdgeClassification(s, ch, re)>> :
                  s \in {200, 403, 404, 503}, ch \in BOOLEAN, re \in BOOLEAN}
               \cup {<<"failed", "error">>}
  <2>1. PICK obs \in Series("crawler_probe", "target", Crawlers, outcomes) :
          r = Result(obs, "failed" \in States(obs))
    BY <1>9 DEF ProbeResults
  <2> HIDE DEF outcomes
  <2>2. IsSeq(Crawlers)
    BY ObservationAssumption DEF IsSeq
  <2> QED BY <1>1, <2>1, <2>2
<1>10. CASE r \in ImportResults
  <2> DEFINE one(k, v) == Result(<<Obs(k, "none", "row", "observed", v)>>, FALSE)
  <2>a. ImportResults = {one(k, v) : k \in {"corroboration", "regional_network"}, v \in {"good", "bad"}}
    BY SMT DEF ImportResults
  <2> HIDE DEF one
  <2>b. r \in {one(k, v) : k \in {"corroboration", "regional_network"}, v \in {"good", "bad"}}
    BY <1>10, <2>a
  <2>c. PICK k \in {"corroboration", "regional_network"}, v \in {"good", "bad"} : r = one(k, v)
    BY SMT, <2>b
  <2>1. r = Result(<<Obs(k, "none", "row", "observed", v)>>, FALSE)
    BY <2>c DEF one
  <2>2. Obs(k, "none", "row", "observed", v).kind \notin {"render", "index", "canonical_freshness"}
    BY ObsIs
  <2> QED BY <1>2, <2>1, <2>2
<1>11. CASE r \in AttributionResults
  <2>1. PICK t \in AnswerTexts :
          r = Result(IF t.mentioned
                     THEN <<Obs("attribution", "prompt", "entity",
                                IF AttributionStatus(t) = "distorted" THEN "review_required" ELSE "observed",
                                AttributionStatus(t))>>
                     ELSE <<>>, FALSE)
    BY <1>11 DEF AttributionResults
  <2> DEFINE o == Obs("attribution", "prompt", "entity",
                      IF AttributionStatus(t) = "distorted" THEN "review_required" ELSE "observed",
                      AttributionStatus(t))
  <2>2. o.kind \notin {"render", "index", "canonical_freshness"}
    BY ObsIs
  <2>3. r = Result(<<o>>, FALSE) \/ r = Result(<<>>, FALSE)
    BY <2>1
  <2> HIDE DEF o
  <2> QED BY <1>2, <1>3, <2>2, <2>3
<1>12. CASE r \in MediaResults
  <2>1. PICK s \in {"observed", "not_observed", "incomplete"} :
          r = Result(<<Obs("media_image", "none", "item", s, "none")>>, s = "incomplete")
    BY <1>12 DEF MediaResults
  <2>2. Obs("media_image", "none", "item", s, "none").kind \notin {"render", "index", "canonical_freshness"}
    BY ObsIs
  <2> QED BY <1>2, <2>1, <2>2
<1> QED BY <1>4, <1>5, <1>6, <1>7, <1>8, <1>9, <1>10, <1>11, <1>12

LEMMA PagesNames == \A x \in ObservedPages : x # "none"
BY ObservationAssumption DEF ObservedPages

LEMMA UnavailableGood ==
  ASSUME NEW kind, NEW of \in ObservedPages
  PROVE  ResultGood(Unavailable(kind, of))
<1> DEFINE o == Obs(kind, of, "page", "not_evidenced", "none")
<1>1. o.of # "none"
  BY PagesNames, ObsIs
<1> HIDE DEF o
<1>2. \A asked : Good(<<o>>, ~TRUE, asked)
  BY <1>1, SingleGood
<1>3. ResultGood(Result(<<o>>, TRUE))
  BY <1>2, ResultIs
<1> QED BY <1>3 DEF Unavailable, o

LEMMA IndexGood ==
  ASSUME NEW r \in IndexResults
  PROVE  ResultGood(r)
<1>1. ASSUME NEW of \in ObservedPages, r = Unavailable("index", of) PROVE ResultGood(r)
  BY <1>1, UnavailableGood
<1>2. ASSUME NEW of \in ObservedPages, NEW value, r = Inspected(of, value) PROVE ResultGood(r)
  <2> DEFINE o == Obs("index", of, "google", "observed", value)
  <2>1. Plain(o)
    BY PagesNames, ObsIs DEF Plain
  <2> HIDE DEF o
  <2> QED BY <1>2, <2>1, OneResult DEF Inspected, o
<1>3. ASSUME NEW rows \in IndexExports, r \in Exported(rows) PROVE ResultGood(r)
  <2>1. PICK values \in [DOMAIN rows -> {"good", "bad"}] :
          r = Result([i \in DOMAIN rows |-> Obs("index", rows[i].page, rows[i].engine, "observed", values[i])], FALSE)
    BY <1>3 DEF Exported
  <2> DEFINE obs == [i \in DOMAIN rows |-> Obs("index", rows[i].page, rows[i].engine, "observed", values[i])]
             V   == {obs[i] : i \in DOMAIN rows}
  <2>2. rows \in Seq([page : STRING, engine : STRING]) /\ \A i \in DOMAIN rows : rows[i].page # "none"
    BY ObservationAssumption
  <2>3. DOMAIN rows = 1..Len(rows) /\ Len(rows) \in Nat
    BY <2>2
  <2>4. ASSUME NEW i \in DOMAIN rows PROVE Plain(obs[i])
    <3> DEFINE o == Obs("index", rows[i].page, rows[i].engine, "observed", values[i])
    <3>1. Plain(o)
      BY <2>2, ObsIs DEF Plain
    <3>2. obs[i] = o
      OBVIOUS
    <3> HIDE DEF o, obs
    <3> QED BY <3>1, <3>2
  <2>5. obs \in [1..Len(rows) -> V]
    BY <2>3
  <2>r. r = Result(obs, FALSE)
    BY <2>1
  <2> HIDE DEF obs, V
  <2>6. obs \in Seq(V) /\ Len(obs) = Len(rows)
    BY <2>3, <2>5
  <2>7. IsSeq(obs) /\ \A i \in 1..Len(obs) : Plain(obs[i])
    BY <2>3, <2>4, <2>6 DEF IsSeq
  <2> QED BY <2>r, <2>7, PlainResult
<1>4. CASE r \in {Unavailable("index", of) : of \in ObservedPages}
  BY <1>1, <1>4
<1>5. CASE r \in {Inspected(of, value) : of \in ObservedPages, value \in {"good", "bad"}}
  <2>1. PICK of \in ObservedPages, value \in {"good", "bad"} : r = Inspected(of, value)
    BY <1>5
  <2> QED BY <1>2, <2>1
<1>6. CASE r \in UNION {Exported(rows) : rows \in IndexExports}
  BY <1>3, <1>6
<1>7. \/ r \in {Unavailable("index", of) : of \in ObservedPages}
      \/ r \in {Inspected(of, value) : of \in ObservedPages, value \in {"good", "bad"}}
      \/ r \in UNION {Exported(rows) : rows \in IndexExports}
  BY DEF IndexResults
<1> QED BY <1>4, <1>5, <1>6, <1>7

LEMMA StanceGood ==
  ASSUME NEW r \in StanceResults
  PROVE  ResultGood(r)
<1>1. \A x : Plain(StanceOf(x))
  BY ObsIs DEF Plain, StanceOf
<1> DEFINE one(x) == Result(<<StanceOf(x)>>, FALSE)
           two(x, y) == Result(<<StanceOf(x), StanceOf(y)>>, FALSE)
           naming == {x \in AnswerTexts : x.mentioned}
<1>2. \A x : ResultGood(one(x))
  BY <1>1, OneResult
<1>3. \A x, y : ResultGood(two(x, y))
  BY <1>1, TwoResult
<1> DEFINE ones == {one(x) : x \in naming}
           twos == {two(x, y) : x, y \in naming}
<1>4. StanceResults = {Result(<<>>, FALSE)} \cup ones \cup twos
  BY SMT DEF StanceResults
<1> HIDE DEF one, two, naming, ones, twos
<1>5. CASE r = Result(<<>>, FALSE)
  BY <1>5, NoneResult
<1>6. CASE r \in ones
  BY <1>2, <1>6 DEF ones
<1>7. CASE r \in twos
  <2>1. PICK x \in naming, y \in naming : r = two(x, y)
    BY <1>7 DEF twos
  <2> QED BY <1>3, <2>1
<1> QED BY <1>4, <1>5, <1>6, <1>7

LEMMA CitationGood ==
  ASSUME NEW r \in CitationResults
  PROVE  ResultGood(r)
<1> DEFINE outcomes == {<<"observed", "good">>, <<"observed", "bad">>}
           ones  == [i \in DOMAIN Samples |-> "1"]
           cites(numbers) == Series("citation", "prompt", numbers, outcomes)
           C == UNION {cites(numbers) : numbers \in {Samples, ones}}
           S == Series("citation_review", "source", <<"first">>,
                       {<<"observed", "none">>, <<"review_required", "none">>})
           both(c, s) == Result(c \o s, FALSE)
<1>1. CitationResults = {both(c, s) : c \in C, s \in S}
  BY SMT DEF CitationResults
<1>2. IsSeq(Samples) /\ IsSeq(ones)
  <2>1. Samples \in Seq(STRING)
    BY ObservationAssumption
  <2>2. DOMAIN Samples = 1..Len(Samples) /\ Len(Samples) \in Nat
    BY <2>1
  <2>3. ones \in [1..Len(Samples) -> {"1"}]
    BY <2>2
  <2>4. ones \in Seq({"1"})
    BY <2>2, <2>3
  <2> QED BY <2>1, <2>4 DEF IsSeq
<1> HIDE DEF C, S, both, outcomes, ones
<1>3. r \in {both(c, s) : c \in C, s \in S}
  BY <1>1
<1>4. PICK cited \in C, reviews \in S : r = both(cited, reviews)
  BY SMT, <1>3
<1>5. PICK numbers \in {Samples, ones} : cited \in cites(numbers)
  BY DEF C
<1>6. IsSeq(cited) /\ \A i \in 1..Len(cited) : Plain(cited[i])
  <2>1. IsSeq(numbers)
    BY <1>2
  <2>2. cited \in Series("citation", "prompt", numbers, outcomes)
    BY <1>5
  <2> QED BY <2>1, <2>2, SeriesPlain
<1>7. IsSeq(reviews) /\ \A i \in 1..Len(reviews) : Plain(reviews[i])
  <2>1. IsSeq(<<"first">>)
    BY OneIs
  <2> QED BY <2>1, SeriesPlain DEF S
<1>8. r = Result(cited \o reviews, FALSE)
  BY <1>4 DEF both
<1> QED BY <1>6, <1>7, <1>8, JoinedPlain, PlainResult

\* What is watched: pages by engine or one by one, answers, a surface by its
\* two paths.
LEMMA WatchedGood ==
  ASSUME NEW r \in ConsensusResults \cup PerformanceResults \cup RepresentationResults
  PROVE  ResultGood(r)
<1>1. CASE r \in ConsensusResults
  <2>1. PICK obs \in OfPages("canonical_freshness", {<<"observed", "good">>, <<"observed", "bad">>}) :
          r = Result(obs, FALSE)
    BY <1>1 DEF ConsensusResults
  <2> QED BY <2>1, PagesPlain, PlainResult
<1>2. CASE r \in PerformanceResults
  <2> DEFINE o == Obs("performance", Targets[1], "field", "observed", "none")
  <2>1. r = Unavailable("performance", Targets[1]) \/ r = Result(<<o>>, FALSE)
    BY <1>2 DEF PerformanceResults
  <2>2. Plain(o)
    BY ObsIs DEF Plain
  <2>3. 1 \in DOMAIN Targets
    BY ObservationAssumption
  <2>4. Targets[1] \in ObservedPages
    BY <2>3 DEF ObservedPages
  <2> HIDE DEF o
  <2> QED BY <2>1, <2>2, <2>4, UnavailableGood, OneResult
<1>3. CASE r \in RepresentationResults
  <2> DEFINE outcomes == {<<"observed", RepresentationState(s, h)>> :
                  s \in {200, 403, 500}, h \in {"none", "expected", "other"}}
               \cup {<<"failed", "failed">>}
             parts == <<"direct", "cache_busted">>
  <2>1. PICK obs \in Series("representation_drift", "surface", parts, outcomes) :
          r = Result(obs, "failed" \in States(obs))
    BY <1>3 DEF RepresentationResults
  <2> HIDE DEF outcomes
  <2>2. IsSeq(parts)
    BY TwoAre
  <2> HIDE DEF parts
  <2> QED BY <2>1, <2>2, SeriesPlain, PlainResult
<1> QED BY <1>1, <1>2, <1>3

LEMMA ResultsGood ==
  ASSUME NEW r \in Results
  PROVE  ResultGood(r)
<1>1. \A asked : TakenOver(<<>>, asked)
  <2> DEFINE none == <<>>
  <2>1. IsSeq(none) /\ Len(none) = 0
    BY NoneAre
  <2> HIDE DEF none
  <2>2. \A i \in 1..Len(none) : FALSE
    BY <2>1
  <2>3. \A asked : TakenOver(none, asked)
    BY <2>1, <2>2 DEF TakenOver
  <2> QED BY <2>3 DEF none
<1>2. ASSUME NEW asked \in RenderOptions, r \in RenderResults(asked, <<>>) PROVE ResultGood(r)
  <2>1. TakenOver(<<>>, asked)
    BY <1>1
  <2> QED BY <1>2, <2>1, RenderGood
<1>3. CASE r \in UNION {RenderResults(asked, <<>>) : asked \in RenderOptions}
  BY <1>2, <1>3
<1>4. CASE r \in {Unavailable("render", of) : of \in ObservedPages}
  BY <1>4, UnavailableGood
<1>5. CASE r \in JourneyResults \cup LogResults \cup BingResults \cup PassageResults
                   \cup LighthouseResults \cup ProbeResults \cup ImportResults
                   \cup AttributionResults \cup MediaResults
  BY <1>5, CollectedGood
<1>6. CASE r \in ConsensusResults \cup PerformanceResults \cup RepresentationResults
  BY <1>6, WatchedGood
<1>7. \/ r \in UNION {RenderResults(asked, <<>>) : asked \in RenderOptions}
      \/ r \in {Unavailable("render", of) : of \in ObservedPages}
      \/ r \in JourneyResults \/ r \in LogResults \/ r \in BingResults \/ r \in PassageResults
      \/ r \in LighthouseResults \/ r \in ProbeResults \/ r \in ImportResults
      \/ r \in AttributionResults \/ r \in MediaResults
      \/ r \in IndexResults \/ r \in CitationResults \/ r \in ConsensusResults \/ r \in PerformanceResults
      \/ r \in RepresentationResults \/ r \in StanceResults
  BY DEF Results
<1> QED BY <1>3, <1>4, <1>5, <1>6, <1>7, IndexGood, CitationGood, StanceGood

\* Of a run that is good a profile is taken over once at most.
LEMMA ReusedTaken ==
  ASSUME NEW r, IsSeq(r.obs), ProfilesOnce(r.obs), NEW asked
  PROVE  TakenOver(Reused(r, asked), asked)
<1> DEFINE obs == r.obs
           P   == {i \in DOMAIN obs : Reusable(obs[i], asked)}
           new == Reused(r, asked)
<1>1. DOMAIN obs = 1..Len(obs) /\ Len(obs) \in Nat
  BY DEF IsSeq
<1>2. ASSUME NEW i \in P
      PROVE  /\ i \in 1..Len(obs) /\ obs[i].kind = "render" /\ obs[i].part \in ProfileNames
             /\ AsAsked(obs[i], asked)
  <2>1. i \in 1..Len(obs) /\ Reusable(obs[i], asked)
    BY <1>1
  <2> HIDE DEF obs
  <2>2. obs[i].part \in ProfileNames
    <3>0. obs[i].part \in {Profiles[p] : p \in DOMAIN Profiles}
      BY <2>1 DEF Reusable
    <3>1. PICK p \in DOMAIN Profiles : obs[i].part = Profiles[p]
      BY <3>0
    <3>2. p \in {1, 2, 3}
      BY ProfilesAre
    <3> QED BY <3>1, <3>2, ProfilesAre DEF ProfileNames
  <2> QED BY <2>1, <2>2 DEF Reusable, AsAsked
<1>3. new = AtPositions(obs, P)
  BY DEF Reused
<1>4. P \in SUBSET (1..Len(obs))
  BY <1>1
<1>p. ProfilesOnce(obs)
  OBVIOUS
<1> HIDE DEF P, new, obs
<1>5. P \in SUBSET Nat /\ IsFiniteSet(P)
  BY <1>1, <1>4, UpTo
<1>6. IsSeq(new) /\ Len(new) = Cardinality(P) /\ Cardinality(P) \in Nat
  BY <1>3, <1>5, AtPositionsAre
<1>7. ASSUME NEW k \in 1..Len(new) PROVE \E i \in P : new[k] = obs[i] /\ Rank(i, P) = k - 1
  <2>1. k \in 1..Cardinality(P)
    BY <1>6
  <2>2. \E i \in P : AtPositions(obs, P)[k] = obs[i] /\ Rank(i, P) = k - 1
    BY <1>5, <2>1, AtPositionsFrom
  <2> QED BY <1>3, <2>2
<1>8. ASSUME NEW k \in 1..Len(new)
      PROVE  /\ new[k].kind = "render" /\ new[k].part \in ProfileNames
             /\ AsAsked(new[k], asked)
  <2>1. PICK i \in P : new[k] = obs[i]
    BY <1>7
  <2> QED BY <1>2, <2>1
<1>9. ASSUME NEW k \in 1..Len(new), NEW m \in 1..Len(new), new[k].part = new[m].part PROVE k = m
  <2>1. PICK i \in P : new[k] = obs[i] /\ Rank(i, P) = k - 1
    BY <1>7
  <2>2. PICK j \in P : new[m] = obs[j] /\ Rank(j, P) = m - 1
    BY <1>7
  <2>3. i = j
    BY <1>2, <1>9, <1>p, <2>1, <2>2 DEF ProfilesOnce
  <2>4. k - 1 = m - 1
    BY <2>1, <2>2, <2>3
  <2>5. k \in Int /\ m \in Int
    BY <1>6
  <2> QED BY <2>4, <2>5
<1> QED BY <1>6, <1>8, <1>9 DEF TakenOver, new

RunGood(r) ==
  /\ IsSeq(r.obs)
  /\ r.sealed => Good(r.obs, r.status = "completed", r.asked)
  /\ ~r.sealed => r.status = "none"

RunsGood(rs) == IsSeq(rs) /\ \A i \in 1..Len(rs) : RunGood(rs[i])

RunsInv == RunsGood(runs)

LEMMA WritesGood ==
  ASSUME RunsInv, NEW r, ResultGood(r), Writes(r)
  PROVE  RunsInv'
<1>1. ASSUME NEW run, RunGood(run), runs' = Append(runs, run) PROVE RunsInv'
  <2> DEFINE w == Append(runs, run)
  <2>1. /\ IsSeq(w) /\ Len(w) = Len(runs) + 1 /\ Len(runs) \in Nat
        /\ w[Len(runs) + 1] = run /\ \A i \in 1..Len(runs) : w[i] = runs[i]
    BY SeqGrows DEF RunsInv, RunsGood
  <2>2. runs' = w
    BY <1>1
  <2> HIDE DEF w
  <2>3. ASSUME NEW i \in 1..Len(w) PROVE RunGood(w[i])
    <3>1. i = Len(runs) + 1 \/ i \in 1..Len(runs)
      BY <2>1
    <3> QED BY <1>1, <2>1, <3>1 DEF RunsInv, RunsGood
  <2>4. RunsGood(w)
    BY <2>1, <2>3 DEF RunsGood
  <2> QED BY <2>2, <2>4 DEF RunsInv
<1>2. CASE runs' = Append(runs, [obs |-> r.obs, sealed |-> TRUE, asked |-> r.asked,
                                 status |-> IF r.incomplete THEN "incomplete" ELSE "completed"])
  <2> DEFINE run == [obs |-> r.obs, sealed |-> TRUE, asked |-> r.asked,
                     status |-> IF r.incomplete THEN "incomplete" ELSE "completed"]
  <2>1. run.obs = r.obs /\ run.sealed = TRUE /\ run.asked = r.asked
    OBVIOUS
  <2>2. run.status = "completed" => ~r.incomplete
    OBVIOUS
  <2>3. runs' = Append(runs, run)
    BY <1>2
  <2> HIDE DEF run
  <2>4. RunGood(run)
    BY <2>1, <2>2 DEF RunGood, ResultGood, Good
  <2> QED BY <1>1, <2>3, <2>4
<1>3. ASSUME NEW n \in 1..Len(r.obs),
             runs' = Append(runs, [obs |-> SubSeq(r.obs, 1, n), sealed |-> FALSE,
                                   asked |-> r.asked, status |-> "none"])
      PROVE  RunsInv'
  <2> DEFINE run == [obs |-> SubSeq(r.obs, 1, n), sealed |-> FALSE,
                     asked |-> r.asked, status |-> "none"]
  <2>1. run.obs = SubSeq(r.obs, 1, n) /\ run.sealed = FALSE /\ run.status = "none"
    OBVIOUS
  <2>2. IsSeq(SubSeq(r.obs, 1, n))
    <3>1. PICK S : r.obs \in Seq(S)
      BY DEF ResultGood, Good, IsSeq
    <3>2. SubSeq(r.obs, 1, n) \in Seq(S)
      BY <3>1
    <3> QED BY <3>2 DEF IsSeq
  <2>3. runs' = Append(runs, run)
    BY <1>3
  <2> HIDE DEF run
  <2>4. RunGood(run)
    BY <2>1, <2>2 DEF RunGood
  <2> QED BY <1>1, <2>3, <2>4
<1> QED BY <1>2, <1>3 DEF Writes

LEMMA StepRuns ==
  ASSUME RunsInv, ObserveNext
  PROVE  RunsInv'
<1>1. CASE Observe
  BY <1>1, ResultsGood, WritesGood DEF Observe
<1>2. CASE ObserveResumed
  <2>1. PICK i \in DOMAIN runs, asked \in RenderOptions :
          /\ runs[i].sealed /\ runs[i].obs # <<>>
          /\ \E r \in RenderResults(asked, Reused(runs[i], asked)) \cup {Unavailable("render", asked.target)} :
               Writes(r)
    BY <1>2 DEF ObserveResumed
  <2> DEFINE a == runs[i]
             x == Reused(a, asked)
  <2>2. RunGood(a)
    BY DEF RunsInv, RunsGood, IsSeq
  <2>3. TakenOver(x, asked)
    <3>1. IsSeq(a.obs) /\ ProfilesOnce(a.obs)
      BY <2>1, <2>2 DEF RunGood, Good
    <3> HIDE DEF a
    <3> QED BY <3>1, ReusedTaken
  <2>4. PICK r \in RenderResults(asked, x) \cup {Unavailable("render", asked.target)} : Writes(r)
    BY <2>1
  <2> HIDE DEF x
  <2>5. ResultGood(r)
    <3>1. asked.target \in ObservedPages
      BY DEF RenderOptions
    <3>2. ResultGood(Unavailable("render", asked.target))
      <4> DEFINE of == asked.target
      <4>1. of \in ObservedPages
        BY <3>1
      <4> HIDE DEF of
      <4>2. ResultGood(Unavailable("render", of))
        BY <4>1, UnavailableGood
      <4> QED BY <4>2 DEF of
    <3> QED BY <2>3, <2>4, <3>2, RenderGood
  <2> QED BY <2>4, <2>5, WritesGood
<1> QED BY <1>1, <1>2 DEF ObserveNext

LEMMA RunsKeep ==
  ASSUME RunsInv
  PROVE  ResumeKeeps
<1> SUFFICES ASSUME NEW i \in DOMAIN runs, runs[i].status = "completed", IsRender(runs[i]),
                    NEW p \in DOMAIN Profiles
             PROVE  LET of == {j \in DOMAIN runs[i].obs : runs[i].obs[j].part = Profiles[p]} IN
                    /\ Cardinality(of) = 1
                    /\ \A j \in of : /\ runs[i].obs[j].state = "observed"
                                     /\ runs[i].obs[j].of = runs[i].asked.target
                                     /\ runs[i].obs[j].value = Captured(runs[i].asked.interactions)
  BY DEF ResumeKeeps
<1> DEFINE r   == runs[i]
           obs == r.obs
           of  == {j \in DOMAIN obs : obs[j].part = Profiles[p]}
<1>1. RunGood(r)
  BY DEF RunsInv, RunsGood, IsSeq
<1>2. r.status = "completed" /\ IsRender(r)
  OBVIOUS
<1> HIDE DEF r
<1>3. Good(obs, r.status = "completed", r.asked)
  BY <1>1, <1>2 DEF RunGood
<1>4. DOMAIN obs = 1..Len(obs) /\ \E k \in 1..Len(obs) : obs[k].kind = "render"
  BY <1>2, <1>3 DEF IsRender, Good, IsSeq
<1>5. AllProfiles(obs, r.asked)
  BY <1>2, <1>3, <1>4 DEF Good
<1>6. Profiles[p] \in ProfileNames
  BY ProfilesAre DEF ProfileNames
<1>7. PICK j \in 1..Len(obs) : /\ obs[j].part = Profiles[p] /\ AsAsked(obs[j], r.asked)
                               /\ \A k \in 1..Len(obs) : obs[k].part = Profiles[p] => k = j
  BY <1>5, <1>6 DEF AllProfiles
<1>8. of = {j}
  BY <1>4, <1>7
<1>9. Cardinality(of) = 1
  BY <1>8, FS_Singleton
<1> QED BY <1>7, <1>8, <1>9 DEF r, AsAsked

Compares(c) ==
  /\ DOMAIN c = {"is", "a", "b", "alerts", "webhook", "ended"} /\ c.is = TRUE
  /\ c.a \in 1..Len(runs) /\ c.b \in 1..Len(runs)
  /\ c.alerts = Alerts(runs[c.a], runs[c.b])

\* What the receipt says of what the endpoint has.
Told(c) ==
  \/ Qualifying(c.alerts) = {}
  \/ receipt = "failure"
  \/ receipt = "success" /\ inbox = Qualifying(c.alerts)

MonitorInv ==
  /\ RunsInv
  /\ \/ compared = NotMonitored /\ posting = "no"
     \/ Compares(compared)
  /\ posting = "delivered" => inbox = Qualifying(compared.alerts)
  /\ posting = "no" /\ compared.is /\ compared.ended /\ compared.webhook => Told(compared)

LEMMA NewestIs ==
  ASSUME NEW S \in SUBSET Nat, IsFiniteSet(S), S # {}
  PROVE  Newest(S) \in S /\ \A j \in S : j =< Newest(S)
<1>1. \E i \in S : \A j \in S : j =< i
  BY GreatestNumber
<1> QED BY <1>1 DEF Newest

LEMMA LatestTwo ==
  ASSUME RunsInv, Cardinality(WithObservations) >= 2
  PROVE  /\ Newest(WithObservations) \in 1..Len(runs)
         /\ Newest(WithObservations \ {Newest(WithObservations)}) \in 1..Len(runs)
<1> DEFINE W == WithObservations
           b == Newest(W)
           R == W \ {b}
<1>1. DOMAIN runs = 1..Len(runs) /\ Len(runs) \in Nat
  BY DEF RunsInv, RunsGood, IsSeq
<1>2. W \in SUBSET (1..Len(runs))
  BY <1>1 DEF WithObservations
<1>c. Cardinality(W) >= 2
  OBVIOUS
<1> HIDE DEF W
<1>3. W \in SUBSET Nat /\ IsFiniteSet(W) /\ Cardinality(W) \in Nat
  BY <1>1, <1>2, UpTo
<1>4. W # {}
  BY <1>3, <1>c, FS_EmptySet
<1>5. b \in W
  BY <1>3, <1>4, NewestIs
<1> HIDE DEF b
<1>6. IsFiniteSet(R) /\ Cardinality(R) = Cardinality(W) - 1
  BY <1>3, <1>5, FS_RemoveElement
<1>7. R # {}
  <2>1. Cardinality(R) # 0
    BY <1>3, <1>6, <1>c
  <2> QED BY <1>6, <2>1, FS_EmptySet
<1>8. R \in SUBSET Nat /\ R \subseteq W
  BY <1>3
<1> HIDE DEF R
<1>9. Newest(R) \in R
  BY <1>6, <1>7, <1>8, NewestIs
<1> QED BY <1>2, <1>5, <1>8, <1>9 DEF W, R, b

LEMMA SameRuns ==
  ASSUME UNCHANGED runs, RunsInv
  PROVE  RunsInv'
BY DEF RunsInv

LEMMA InitMonitor == MonitoringInit => MonitorInv
<1> SUFFICES ASSUME MonitoringInit PROVE MonitorInv
  OBVIOUS
<1>1. RunsInv
  <2>1. IsSeq(runs) /\ Len(runs) = 0
    BY NoneAre DEF MonitoringInit
  <2> QED BY <2>1 DEF RunsInv, RunsGood
<1>2. compared.is = FALSE
  BY DEF MonitoringInit, NotMonitored
<1> QED BY <1>1, <1>2 DEF MonitoringInit, MonitorInv

LEMMA StepMonitor == MonitorInv /\ [MonitoringNext]_monitorVars => MonitorInv'
<1> SUFFICES ASSUME MonitorInv, [MonitoringNext]_monitorVars PROVE MonitorInv'
  OBVIOUS
<1>0. RunsInv
  BY DEF MonitorInv
<1>1. ASSUME ObserveNext, ~compared.is, UNCHANGED <<compared, posting, inbox, receipt>> PROVE MonitorInv'
  <2>1. RunsInv'
    BY <1>0, <1>1, StepRuns
  <2>2. compared = NotMonitored /\ posting = "no"
    BY <1>1 DEF MonitorInv, Compares
  <2>3. compared.is = FALSE
    BY <2>2 DEF NotMonitored
  <2>4. compared' = compared /\ posting' = posting
    BY <1>1
  <2> QED BY <2>1, <2>2, <2>3, <2>4 DEF MonitorInv
<1>2. ASSUME Monitor PROVE MonitorInv'
  <2> DEFINE b == Newest(WithObservations)
             a == Newest(WithObservations \ {b})
             alerts == Alerts(runs[a], runs[b])
  <2>1. PICK webhook \in BOOLEAN :
          /\ compared' = [is |-> TRUE, a |-> a, b |-> b, alerts |-> alerts, webhook |-> webhook, ended |-> TRUE]
          /\ posting' = IF webhook /\ Qualifying(alerts) # {} THEN "validating" ELSE "no"
    BY <1>2 DEF Monitor
  <2>2. a \in 1..Len(runs) /\ b \in 1..Len(runs)
    <3>1. Cardinality(WithObservations) >= 2
      BY <1>2 DEF Monitor
    <3> QED BY <1>0, <3>1, LatestTwo
  <2>al. alerts = Alerts(runs[a], runs[b])
    OBVIOUS
  <2>3. UNCHANGED runs
    BY <1>2 DEF Monitor
  <2> HIDE DEF a, b, alerts
  <2>4. /\ DOMAIN compared' = {"is", "a", "b", "alerts", "webhook", "ended"} /\ compared'.is = TRUE
        /\ compared'.a = a /\ compared'.b = b /\ compared'.alerts = alerts /\ compared'.webhook = webhook
    BY <2>1
  <2>5. Compares(compared)'
    BY <2>2, <2>3, <2>4, <2>al DEF Compares
  <2>6. RunsInv'
    BY <1>0, <2>3, SameRuns
  <2>7. posting' = "no" /\ webhook => Qualifying(alerts) = {}
    BY <2>1
  <2>8. (posting = "no" /\ compared.is /\ compared.ended /\ compared.webhook => Told(compared))'
    BY <2>4, <2>7 DEF Told, Qualifying
  <2>9. posting' # "delivered"
    BY <2>1
  <2> QED BY <2>5, <2>6, <2>8, <2>9 DEF MonitorInv
<1>3. ASSUME WebhookValidated \/ MonitorDies PROVE MonitorInv'
  <2>1. /\ posting # "no" /\ UNCHANGED <<runs, inbox, receipt>>
        /\ \/ posting' = "posting" /\ UNCHANGED compared
           \/ posting' = "no" /\ compared' = [compared EXCEPT !.ended = FALSE]
    BY <1>3 DEF WebhookValidated, MonitorDies
  <2>2. Compares(compared)
    BY <2>1 DEF MonitorInv
  <2>3. RunsInv'
    BY <1>0, <2>1, SameRuns
  <2>4. CASE posting' = "posting" /\ UNCHANGED compared
    <3>1. Compares(compared)'
      BY <2>1, <2>2, <2>4 DEF Compares
    <3> QED BY <2>3, <2>4, <3>1 DEF MonitorInv
  <2>5. CASE posting' = "no" /\ compared' = [compared EXCEPT !.ended = FALSE]
    <3>1. /\ DOMAIN compared' = DOMAIN compared /\ compared'.is = compared.is /\ compared'.a = compared.a
          /\ compared'.b = compared.b /\ compared'.alerts = compared.alerts
      BY <2>5
    <3>2. compared'.ended = FALSE
      BY <2>2, <2>5 DEF Compares
    <3>3. Compares(compared)'
      BY <2>1, <2>2, <3>1 DEF Compares
    <3> QED BY <2>3, <2>5, <3>2, <3>3 DEF MonitorInv
  <2> QED BY <2>1, <2>4, <2>5
<1>4. ASSUME WebhookPosted PROVE MonitorInv'
  <2>1. /\ posting = "posting" /\ UNCHANGED <<runs, compared, receipt>>
        /\ \E got, ok \in BOOLEAN :
             /\ ok => got
             /\ inbox' = IF got THEN Qualifying(compared.alerts) ELSE inbox
             /\ posting' = IF ok THEN "delivered" ELSE "undelivered"
    BY <1>4 DEF WebhookPosted
  <2>2. RunsInv' /\ Compares(compared)'
    <3>1. RunsInv'
      BY <1>0, <2>1, SameRuns
    <3>2. Compares(compared)
      BY <2>1 DEF MonitorInv
    <3> QED BY <2>1, <3>1, <3>2 DEF Compares
  <2>3. posting' # "no" /\ (posting' = "delivered" => inbox' = Qualifying(compared.alerts))
    BY <2>1
  <2>4. (posting = "delivered" => inbox = Qualifying(compared.alerts))'
    BY <2>1, <2>3 DEF Qualifying
  <2> QED BY <2>2, <2>3, <2>4 DEF MonitorInv
<1>5. ASSUME ReceiptWritten PROVE MonitorInv'
  <2>1. /\ posting \in {"delivered", "undelivered"} /\ posting' = "no" /\ UNCHANGED <<runs, compared, inbox>>
        /\ receipt' = IF posting = "delivered" THEN "success" ELSE "failure"
    BY <1>5 DEF ReceiptWritten
  <2>2. RunsInv' /\ Compares(compared)'
    <3>1. RunsInv'
      BY <1>0, <2>1, SameRuns
    <3>2. Compares(compared)
      BY <2>1 DEF MonitorInv
    <3> QED BY <2>1, <3>1, <3>2 DEF Compares
  <2>3. receipt' = "failure" \/ (receipt' = "success" /\ inbox = Qualifying(compared.alerts))
    BY <2>1 DEF MonitorInv
  <2>4. Told(compared)'
    BY <2>1, <2>3 DEF Told, Qualifying
  <2> QED BY <2>1, <2>2, <2>4 DEF MonitorInv
<1>6. CASE UNCHANGED monitorVars
  <2>1. UNCHANGED <<runs, compared, posting, inbox, receipt>>
    BY <1>6 DEF monitorVars
  <2>2. RunsInv'
    BY <1>0, <2>1, SameRuns
  <2> QED BY <2>1, <2>2 DEF MonitorInv, Compares, Told, Qualifying
<1> QED BY <1>1, <1>2, <1>3, <1>4, <1>5, <1>6 DEF MonitoringNext

-----------------------------------------------------------------------------
\* The last file of a subject is the one that counts.
LEMMA LatestIs ==
  ASSUME NEW r, IsSeq(r.obs), NEW i \in 1..Len(r.obs), LastOfItsKey(r, i)
  PROVE  Latest(r, ObservationKey(r.obs[i])) = r.obs[i] /\ ObservationKey(r.obs[i]) \in Keys(r)
<1> DEFINE k  == ObservationKey(r.obs[i])
           its == {j \in DOMAIN r.obs : ObservationKey(r.obs[j]) = k}
<1>1. DOMAIN r.obs = 1..Len(r.obs) /\ Len(r.obs) \in Nat
  BY DEF IsSeq
<1>2. i \in its /\ its \in SUBSET (1..Len(r.obs))
  BY <1>1
<1>3. Latest(r, k) = r.obs[Newest(its)]
  BY DEF Latest
<1>4. k \in Keys(r)
  BY <1>1 DEF Keys
<1>5. ASSUME NEW j \in its PROVE j =< i
  <2>1. ~(j > i)
    BY <1>1 DEF LastOfItsKey
  <2> QED BY <1>1, <2>1
<1> HIDE DEF its, k
<1>6. its \in SUBSET Nat /\ IsFiniteSet(its)
  BY <1>1, <1>2, UpTo
<1>7. Newest(its) \in its /\ \A j \in its : j =< Newest(its)
  BY <1>2, <1>6, NewestIs
<1>8. Newest(its) = i
  <2>1. Newest(its) =< i /\ i =< Newest(its)
    BY <1>2, <1>5, <1>7
  <2>2. Newest(its) \in Nat /\ i \in Nat
    BY <1>2, <1>6, <1>7
  <2> QED BY <2>1, <2>2
<1> QED BY <1>3, <1>4, <1>8 DEF k

\* The ranks of severity that the default minimum lets pass.
LEMMA SeverityIs ==
  /\ SeverityRank["informational"] = 1 /\ SeverityRank["medium"] = 2
  /\ SeverityRank["high"] = 3 /\ SeverityRank["critical"] = 4
BY DEF SeverityRank

LEMMA AlertIs ==
  ASSUME NEW severity, NEW type, NEW k
  PROVE  Alert(severity, type, k).severity = severity /\ Alert(severity, type, k).key = k
BY DEF Alert

LEMMA WorseAlerts ==
  ASSUME NEW k, NEW o, NEW n, Worse(o, n)
  PROVE  \E x \in ValueAlerts(k, o, n) : x.severity \in {"medium", "high"} /\ x.key = k
<1> USE AlertIs
<1>1. CASE o.kind = "index" /\ o.value = "good" /\ n.value = "bad"
  <2>1. Alert("high", "index_loss", k) \in ValueAlerts(k, o, n)
    BY <1>1 DEF Worse, ValueAlerts
  <2> QED BY <2>1
<1>2. CASE o.kind = "canonical_freshness" /\ o.value = "good" /\ n.value = "bad"
  <2>1. Alert("high", "canonical_regression", k) \in ValueAlerts(k, o, n)
    BY <1>2 DEF Worse, ValueAlerts
  <2> QED BY <2>1
<1>3. CASE o.kind = "citation" /\ o.value = "good" /\ n.value = "bad"
  <2>1. Alert("medium", "citation_presence_change", k) \in ValueAlerts(k, o, n)
    BY <1>3 DEF Worse, ValueAlerts
  <2> QED BY <2>1
<1>4. CASE o.kind = "representation_drift" /\ o.value = "consistent" /\ n.value = "divergent"
  <2>1. Alert("high", "representation_divergence_observed", k) \in ValueAlerts(k, o, n)
    BY <1>4 DEF Worse, ValueAlerts
  <2> QED BY <2>1
<1>5. CASE o.kind = "stance" /\ o.value = "favorable" /\ n.value \in {"unfavorable", "mixed"}
  <2>1. Alert("high", "stance_regression", k) \in ValueAlerts(k, o, n)
    BY <1>5 DEF Worse, ValueAlerts
  <2> QED BY <2>1
<1> QED BY <1>1, <1>2, <1>3, <1>4, <1>5 DEF Worse

LEMMA SameKey ==
  ASSUME NEW o, NEW n, Worse(o, n), o.kind \in {"index", "canonical_freshness"} => o.of # "none"
  PROVE  ObservationKey(o) = ObservationKey(n)
<1>1. o.kind = n.kind /\ o.of = n.of /\ o.part = n.part
  BY DEF Worse
<1>2. CASE o.kind \in {"index", "canonical_freshness"}
  BY <1>1, <1>2 DEF ObservationKey
<1>3. CASE o.kind \in {"citation", "representation_drift", "stance"}
  BY <1>1, <1>3 DEF ObservationKey
<1> QED BY <1>2, <1>3 DEF Worse

LEMMA MonitorHolds ==
  ASSUME MonitorInv, MinSeverity \in {"informational", "medium"}
  PROVE  RegressionIsDelivered
<1> SUFFICES ASSUME compared.is, compared.webhook, compared.ended, posting = "no",
                    NEW a, a = runs[compared.a], NEW b, b = runs[compared.b], a.sealed, b.sealed,
                    NEW i \in DOMAIN a.obs, NEW j \in DOMAIN b.obs, Worse(a.obs[i], b.obs[j]),
                    LastOfItsKey(a, i), LastOfItsKey(b, j)
             PROVE  \/ receipt = "failure"
                    \/ receipt = "success" /\ \E x \in inbox : x.key = ObservationKey(b.obs[j])
  BY DEF RegressionIsDelivered
<1> DEFINE o == a.obs[i]
           n == b.obs[j]
           k == ObservationKey(n)
<1>1. Compares(compared)
  BY DEF MonitorInv, NotMonitored
<1>2. Told(compared)
  BY DEF MonitorInv
<1>3. RunGood(a) /\ RunGood(b)
  BY <1>1 DEF Compares, MonitorInv, RunsInv, RunsGood
<1>4. IsSeq(a.obs) /\ PagesNamed(a.obs) /\ IsSeq(b.obs)
  BY <1>3 DEF RunGood, Good
<1>5. i \in 1..Len(a.obs) /\ j \in 1..Len(b.obs)
  BY <1>4 DEF IsSeq
<1>6. ObservationKey(o) = k
  BY <1>4, <1>5, SameKey DEF PagesNamed
<1>7. Latest(a, k) = o /\ k \in Keys(a)
  <2>1. Latest(a, ObservationKey(o)) = o /\ ObservationKey(o) \in Keys(a)
    BY <1>4, <1>5, LatestIs
  <2> QED BY <1>6, <2>1
<1>8. Latest(b, k) = n /\ k \in Keys(b)
  BY <1>4, <1>5, LatestIs
<1>9. PICK x \in ValueAlerts(k, o, n) : x.severity \in {"medium", "high"} /\ x.key = k
  BY WorseAlerts
<1> HIDE DEF o, n, k
<1>10. x \in ChangeAlerts(k, a, b)
  BY <1>7, <1>8 DEF ChangeAlerts
<1>11. x \in Alerts(a, b)
  BY <1>8, <1>10 DEF Alerts
<1>12. x \in Qualifying(compared.alerts)
  <2>1. compared.alerts = Alerts(a, b)
    BY <1>1 DEF Compares
  <2>2. SeverityRank[x.severity] >= SeverityRank[MinSeverity]
    BY <1>9, SeverityIs
  <2> QED BY <1>11, <2>1, <2>2 DEF Qualifying
<1>13. receipt = "failure" \/ (receipt = "success" /\ inbox = Qualifying(compared.alerts))
  BY <1>2, <1>12 DEF Told
<1> QED BY <1>9, <1>12, <1>13 DEF k, n

-----------------------------------------------------------------------------
(***************************************************************************)
(* The client of MCP servers.  What the client knows is what its answered  *)
(* handshakes leave it with, and of a client that is ready, or of which    *)
(* some caller is past a handshake, there is one: this is what the         *)
(* envelope takes over.                                                    *)
(***************************************************************************)
PastHandshake(c) == caller[c].at \in {"notify", "ask", "refused", "answer"}

KnowsTheLast ==
  /\ IsSeq(handshakes)
  /\ VersionAfter(Len(handshakes), client.version)
  /\ handshakes # <<>> => client.capabilities = handshakes[Len(handshakes)].capabilities

SessionInv ==
  /\ client \in [initialized : BOOLEAN, version : {client.version},
                 capabilities : {client.capabilities}, closed : BOOLEAN]
  /\ caller = [c \in Callers |-> [at |-> caller[c].at, tool |-> caller[c].tool]]
  /\ KnowsTheLast
  /\ client.initialized => handshakes # <<>>
  /\ \A c \in Callers : PastHandshake(c) => handshakes # <<>>
  /\ EnvelopesAreTrue

\* A further answer adds to what was known after the ones before it.
LEMMA VersionsKept ==
  ASSUME IsSeq(handshakes), NEW answer, handshakes' = Append(handshakes, answer),
         NEW version
  PROVE  /\ \A i \in 0..Len(handshakes) : VersionAfter(i, version) => VersionAfter(i, version)'
         /\ VersionAfter(Len(handshakes), version) =>
              VersionAfter(Len(handshakes), IF answer.version = Unstated THEN version ELSE answer.version)'
<1>1. /\ Len(handshakes) \in Nat /\ Len(handshakes') = Len(handshakes) + 1
      /\ handshakes'[Len(handshakes) + 1] = answer
      /\ \A j \in 1..Len(handshakes) : handshakes'[j] = handshakes[j]
  BY SeqGrows
<1>2. ASSUME NEW i \in 0..Len(handshakes), VersionAfter(i, version) PROVE VersionAfter(i, version)'
  <2>1. \A j \in 1..i : handshakes'[j] = handshakes[j]
    BY <1>1
  <2> QED BY <1>2, <2>1 DEF VersionAfter
<1>3. ASSUME VersionAfter(Len(handshakes), version), answer.version = Unstated
      PROVE  VersionAfter(Len(handshakes), version)'
  BY <1>1, <1>3 DEF VersionAfter
<1>4. ASSUME answer.version # Unstated PROVE VersionAfter(Len(handshakes), answer.version)'
  BY <1>1, <1>4 DEF VersionAfter
<1> QED BY <1>2, <1>3, <1>4

\* A caller that stays behind the handshake, or follows another past it.
LEMMA CallerMoves ==
  ASSUME SessionInv, NEW c \in Callers, NEW phase, NEW tool,
         caller' = [caller EXCEPT ![c] = [at |-> phase, tool |-> tool]],
         UNCHANGED <<client, handshakes, envelopes>>,
         phase \in {"notify", "ask", "refused", "answer"} => handshakes # <<>>
  PROVE  SessionInv'
<1>1. /\ caller'[c].at = phase /\ caller'[c].tool = tool
      /\ \A d \in Callers \ {c} : caller'[d] = caller[d]
      /\ caller' = [d \in Callers |-> [at |-> caller'[d].at, tool |-> caller'[d].tool]]
  BY DEF SessionInv
<1>2. \A d \in Callers : PastHandshake(d)' => handshakes' # <<>>
  BY <1>1 DEF SessionInv, PastHandshake
<1>3. KnowsTheLast'
  BY DEF SessionInv, KnowsTheLast, VersionAfter
<1>4. EnvelopesAreTrue'
  BY DEF SessionInv, EnvelopesAreTrue, VersionAfter
<1> QED BY <1>1, <1>2, <1>3, <1>4 DEF SessionInv

LEMMA GoesTo ==
  ASSUME SessionInv, NEW c \in Callers, NEW phase, Goes(c, phase)
  PROVE  caller' = [caller EXCEPT ![c] = [at |-> phase, tool |-> caller[c].tool]]
<1>1. caller[c] = [at |-> caller[c].at, tool |-> caller[c].tool]
  BY DEF SessionInv
<1>2. [caller[c] EXCEPT !.at = phase] = [at |-> phase, tool |-> caller[c].tool]
  BY <1>1
<1>3. caller' = [caller EXCEPT ![c] = [caller[c] EXCEPT !.at = phase]]
  BY DEF Goes
<1> QED BY <1>2, <1>3

LEMMA StepSession ==
  ASSUME SessionInv, [SessionNext]_sessionVars
  PROVE  SessionInv'
<1>1. ASSUME UNCHANGED <<client, handshakes, caller, envelopes>> PROVE SessionInv'
  BY <1>1 DEF SessionInv, PastHandshake, KnowsTheLast, VersionAfter, EnvelopesAreTrue
<1>2. CASE UNCHANGED sessionVars
  BY <1>1, <1>2 DEF sessionVars
<1>3. ASSUME NEW c \in Callers, NEW tool \in DOMAIN Tools \cup {"list"}, Begin(c, tool) PROVE SessionInv'
  <2> DEFINE phase == IF client.initialized THEN Sent ELSE "initialize"
             refused == (tool # "list" /\ ~Allowed(tool)) \/ (~client.initialized /\ client.closed)
  <2>1. CASE refused
    BY <1>1, <1>3, <2>1 DEF Begin, Ready
  <2>2. CASE ~refused
    <3>1. caller' = [caller EXCEPT ![c] = [at |-> phase, tool |-> tool]]
      BY <1>3, <2>2 DEF Begin, Ready
    <3>2. phase \in {"notify", "ask", "refused", "answer"} => handshakes # <<>>
      BY DEF SessionInv
    <3> HIDE DEF phase
    <3> QED BY <1>3, <3>1, <3>2, CallerMoves DEF Begin
  <2> QED BY <2>1, <2>2
<1>4. ASSUME NEW c \in Callers, HandshakeFails(c) \/ ListEnds(c) PROVE SessionInv'
  BY <1>4, CallerMoves DEF HandshakeFails, ListEnds, Throws, AtRest
<1>5. ASSUME NEW c \in Callers, HandshakeAnswered(c) PROVE SessionInv'
  <2>1. PICK answer \in ServerAnswers :
          handshakes' = Append(handshakes, answer) /\ client' = Handshaken(client, answer)
    BY <1>5 DEF HandshakeAnswered
  <2>2. caller' = [caller EXCEPT ![c] = [at |-> "notify", tool |-> caller[c].tool]] /\ UNCHANGED envelopes
    BY <1>5, GoesTo DEF HandshakeAnswered
  <2>3. /\ client'.version = (IF answer.version = Unstated THEN client.version ELSE answer.version)
        /\ client'.capabilities = answer.capabilities
        /\ client'.initialized = client.initialized /\ client'.closed = client.closed
        /\ client' \in [initialized : BOOLEAN, version : {client'.version},
                        capabilities : {client'.capabilities}, closed : BOOLEAN]
    BY <2>1 DEF Handshaken, SessionInv
  <2>4. /\ IsSeq(handshakes) /\ IsSeq(handshakes') /\ Len(handshakes) \in Nat
        /\ Len(handshakes') = Len(handshakes) + 1 /\ handshakes' # <<>>
        /\ handshakes'[Len(handshakes')] = answer
        /\ \A i \in 1..Len(handshakes) : handshakes'[i] = handshakes[i]
    BY <2>1, SeqGrows DEF SessionInv, KnowsTheLast
  <2>5. VersionAfter(Len(handshakes), client.version)'
    <3>1. PICK version : version = client.version OBVIOUS
    <3>2. VersionAfter(Len(handshakes), version)
      BY <3>1 DEF SessionInv, KnowsTheLast
    <3>3. VersionAfter(Len(handshakes), IF answer.version = Unstated THEN version ELSE answer.version)'
      BY <2>1, <2>4, <3>2, VersionsKept
    <3> QED BY <2>3, <3>1, <3>3
  <2>6. KnowsTheLast'
    BY <2>3, <2>4, <2>5 DEF KnowsTheLast
  <2>7. caller' = [d \in Callers |-> [at |-> caller'[d].at, tool |-> caller'[d].tool]]
    BY <2>2 DEF SessionInv
  <2>8. EnvelopesAreTrue'
    <3> SUFFICES ASSUME NEW e \in envelopes'
                 PROVE  /\ e.status = "success" => e.served \in {"result", "nothing"}
                        /\ \E i \in DOMAIN handshakes' : /\ e.capabilities = handshakes'[i].capabilities
                                                         /\ VersionAfter(i, e.version)'
      BY DEF EnvelopesAreTrue
    <3>1. PICK i \in DOMAIN handshakes : /\ e.capabilities = handshakes[i].capabilities
                                         /\ VersionAfter(i, e.version)
      BY <2>2 DEF SessionInv, EnvelopesAreTrue
    <3>2. DOMAIN handshakes = 1..Len(handshakes) /\ DOMAIN handshakes' = 1..Len(handshakes')
      BY <2>4 DEF IsSeq
    <3>3. VersionAfter(i, e.version)'
      BY <2>1, <2>4, <3>1, <3>2, VersionsKept
    <3> QED BY <2>2, <2>4, <3>1, <3>2, <3>3 DEF SessionInv, EnvelopesAreTrue
  <2> QED BY <2>3, <2>4, <2>6, <2>7, <2>8 DEF SessionInv
<1>6. ASSUME NEW c \in Callers, Notified(c) PROVE SessionInv'
  <2>1. caller[c].at = "notify" /\ client' = [client EXCEPT !.initialized = TRUE] /\ UNCHANGED <<handshakes, envelopes>>
    BY <1>6 DEF Notified
  <2>2. caller' = [caller EXCEPT ![c] = [at |-> Sent, tool |-> caller[c].tool]]
    BY <1>6, GoesTo DEF Notified
  <2>3. /\ client'.version = client.version /\ client'.capabilities = client.capabilities
        /\ client' \in [initialized : BOOLEAN, version : {client'.version},
                        capabilities : {client'.capabilities}, closed : BOOLEAN]
    BY <2>1 DEF SessionInv
  <2>4. handshakes # <<>>
    BY <2>1 DEF SessionInv, PastHandshake
  <2>5. caller' = [d \in Callers |-> [at |-> caller'[d].at, tool |-> caller'[d].tool]]
    BY <2>2 DEF SessionInv
  <2>6. EnvelopesAreTrue'
    BY <2>1 DEF SessionInv, EnvelopesAreTrue, VersionAfter
  <2>7. KnowsTheLast'
    BY <2>1, <2>3 DEF SessionInv, KnowsTheLast, VersionAfter
  <2> QED BY <2>1, <2>3, <2>4, <2>5, <2>6, <2>7 DEF SessionInv
<1>7. ASSUME NEW c \in Callers, Serve(c) PROVE SessionInv'
  <2>1. /\ caller' = [caller EXCEPT ![c] = [at |-> "answer", tool |-> caller[c].tool]]
        /\ UNCHANGED <<client, handshakes, envelopes>> /\ PastHandshake(c)
    BY <1>7, GoesTo DEF Serve, PastHandshake
  <2> QED BY <2>1, CallerMoves DEF SessionInv
<1>8. ASSUME NEW c \in Callers, CallAnswered(c) \/ CallFails(c) PROVE SessionInv'
  <2>1. PICK status : Return(c, status) /\ (status = "success" => served[c] \in {"result", "nothing"})
    <3>1. CASE CallFails(c)
      BY <3>1 DEF CallFails
    <3>2. CASE CallAnswered(c)
      BY <3>2 DEF CallAnswered, Verdict
    <3> QED BY <1>8, <3>1, <3>2
  <2>2. handshakes # <<>>
    BY <1>8 DEF CallAnswered, CallFails, SessionInv, PastHandshake
  <2>3. /\ caller' = [caller EXCEPT ![c] = [at |-> "idle", tool |-> "none"]]
        /\ UNCHANGED <<client, handshakes>>
    BY <2>1 DEF Return, Throws, AtRest
  <2>4. EnvelopesAreTrue'
    <3>1. /\ Len(handshakes) \in DOMAIN handshakes
          /\ client.capabilities = handshakes[Len(handshakes)].capabilities
          /\ VersionAfter(Len(handshakes), client.version)
      BY <2>2 DEF SessionInv, KnowsTheLast, IsSeq
    <3>2. envelopes' = envelopes \/ envelopes' = envelopes \cup {Envelope(c, status)}
      BY <2>1 DEF Return
    <3>3. ASSUME NEW e \in envelopes'
          PROVE  /\ e.status = "success" => e.served \in {"result", "nothing"}
                 /\ \E i \in DOMAIN handshakes : /\ e.capabilities = handshakes[i].capabilities
                                                 /\ VersionAfter(i, e.version)
      <4>1. CASE e \in envelopes
        BY <4>1 DEF SessionInv, EnvelopesAreTrue
      <4>2. CASE e = Envelope(c, status)
        <5>1. /\ e.status = status /\ e.served = served[c]
              /\ e.version = client.version /\ e.capabilities = client.capabilities
          BY <4>2 DEF Envelope
        <5> QED BY <2>1, <3>1, <5>1
      <4> QED BY <3>2, <4>1, <4>2
    <3> QED BY <2>3, <3>3 DEF EnvelopesAreTrue, VersionAfter
  <2>5. caller' = [d \in Callers |-> [at |-> caller'[d].at, tool |-> caller'[d].tool]]
    BY <2>3 DEF SessionInv
  <2>6. KnowsTheLast'
    BY <2>3 DEF SessionInv, KnowsTheLast, VersionAfter
  <2> QED BY <2>2, <2>3, <2>4, <2>5, <2>6 DEF SessionInv
<1>9. CASE CloseSession
  <2>1. client' = [client EXCEPT !.closed = TRUE] /\ UNCHANGED <<handshakes, caller, envelopes>>
    BY <1>9 DEF CloseSession
  <2>2. /\ client'.version = client.version /\ client'.capabilities = client.capabilities
        /\ client'.initialized = client.initialized
        /\ client' \in [initialized : BOOLEAN, version : {client'.version},
                        capabilities : {client'.capabilities}, closed : BOOLEAN]
    BY <2>1 DEF SessionInv
  <2>3. EnvelopesAreTrue' /\ KnowsTheLast'
    BY <2>1, <2>2 DEF SessionInv, EnvelopesAreTrue, KnowsTheLast, VersionAfter
  <2> QED BY <2>1, <2>2, <2>3 DEF SessionInv, PastHandshake
<1> QED BY <1>2, <1>3, <1>4, <1>5, <1>6, <1>7, <1>8, <1>9 DEF SessionNext

LEMMA InitSession == SessionInit => SessionInv
BY DEF SessionInit, SessionInv, PastHandshake, KnowsTheLast, VersionAfter, IsSeq, AtRest, EnvelopesAreTrue

-----------------------------------------------------------------------------
(***************************************************************************)
(* Each part by itself, and the whole.  A step of the whole is a step of   *)
(* the part in use and leaves the others alone.                            *)
(***************************************************************************)
OutreachSpec == OutreachInit /\ [][CampaignNext \/ ProspectNext \/ LinkNext]_outreachVars
ConnectSpec  == ConnectInit /\ [][ConnectNext]_connectVars
PublishSpec  == PublishInit /\ [][CmsNext \/ IndexNowNext]_publishVars
JourneySpec  == JourneyInit /\ [][JourneyNext]_journeyVars
MonitorSpec  == MonitoringInit /\ [][MonitoringNext]_monitorVars
SessionSpec  == SessionInit /\ [][SessionNext]_sessionVars

\* What is true of one of these parts is true of the program.
THEOREM OutsideIsItsParts ==
  OutsideSpec => /\ OutreachSpec /\ ConnectSpec /\ PublishSpec
                 /\ JourneySpec /\ MonitorSpec /\ SessionSpec /\ TopologySpec /\ BudgetSpec
<1>1. OutsideInit => /\ OutreachInit /\ ConnectInit /\ PublishInit
                     /\ JourneyInit /\ MonitoringInit /\ SessionInit /\ TopologyInit /\ BudgetInit
  BY DEF OutsideInit
<1>2. [OutsideNext]_outsideVars =>
        /\ [CampaignNext \/ ProspectNext \/ LinkNext]_outreachVars
        /\ [ConnectNext]_connectVars
        /\ [CmsNext \/ IndexNowNext]_publishVars
        /\ [JourneyNext]_journeyVars
        /\ [MonitoringNext]_monitorVars
        /\ [SessionNext]_sessionVars
        /\ [TopologyNext]_topologyVars
        /\ [BudgetNext]_budgetVars
  BY DEF OutsideNext, OutreachInUse, ConnectorsInUse, PublishingInUse, MonitorInUse, JourneyInUse,
         SourcesInUse, outsideVars, sourceVars
<1> QED BY <1>1, <1>2, PTL DEF OutsideSpec, OutreachSpec, ConnectSpec, PublishSpec, JourneySpec, MonitorSpec,
                               SessionSpec, TopologySpec, BudgetSpec

\* Nobody is written to twice about the same within a cooldown, by whichever
\* agents, and whatever reservations expired, letters failed or days passed
\* (reserve, authorize and release of the exclusion registry).
THEOREM PublishersContactedOnce == OutreachSpec => []ContactedOnce
<1>1. ContactInv => ContactedOnce
  BY DEF ContactInv
<1> QED BY <1>1, InitContact, StepContact, PTL DEF OutreachSpec

\* A collection that is recorded as complete, of a provider that stayed as it
\* was, has everything the provider had, through every page, redirect of the
\* cursor, failed request and limit of pages (the four connectors).
THEOREM CompleteCollectionsAreWhole == ConnectSpec => []CompleteIsAll
<1>1. ConnectInv => CompleteIsAll
  BY DEF ConnectInv
<1> QED BY <1>1, InitConnect, StepConnect, PTL DEF ConnectSpec

\* A receipt of IndexNow that says success is of batches that all arrived.
THEOREM ReceiptsAreTrue == PublishSpec => []ReceiptIsTrue
<1>1. PublishInv => ReceiptIsTrue
  BY DEF PublishInv, DeliveredArrived
<1>2. PublishInv /\ [CmsNext \/ IndexNowNext]_publishVars => PublishInv'
  BY StepCms, StepIndexNow DEF PublishInv
<1> QED BY <1>1, <1>2, InitPublish, PTL DEF PublishSpec

\* What a write to a content system overwrites shows what the reviewer saw,
\* unless it was changed after the command had read it (`connect apply`).
THEOREM OnlyReviewedIsOverwritten == PublishSpec => ReviewedIsOverwritten
<1>1. PublishInv /\ [CmsNext \/ IndexNowNext]_publishVars =>
        [\A p \in Operators : ApplyWrites(p) =>
           \A f \in Hashed : content'[f] # content[f] /\ AsShown(content)[f] # AsShown(spec.seen)[f]
                        => AsShown(content)[f] # apply[p].current[f]]_publishVars
  BY Zenon DEF PublishInv, WritersReadReviewed, ApplyWrites
<1>2. PublishInv /\ [CmsNext \/ IndexNowNext]_publishVars => PublishInv'
  BY StepCms, StepIndexNow DEF PublishInv
<1> QED BY <1>1, <1>2, InitPublish, PTL DEF PublishSpec, ReviewedIsOverwritten

\* A response or failure that a journey attributes to a step belongs to a request
\* of the same step and phase; what came later says so (the network collector).
THEOREM RequestsAreAttributed == JourneySpec => []CompletionIsAttributed
BY AttributionHolds, InitJourney, StepJourney, PTL DEF JourneySpec

\* What counts as drained and is in scope was recorded or waits in the buffer,
\* or the artifact says that it is truncated, whether it came by a wrapper or by
\* polling.  Of a queue the page has shortened this is only so of what came by a
\* wrapper: polling skips what lies below the old count (the collector of
\* runtime events).
THEOREM QueuesAreAccounted == JourneySpec => []QueueIsAccounted
BY QueueHolds, InitQueue, StepQueue, PTL DEF JourneySpec

\* A render run that says it is complete has every profile of the page asked
\* for once, captured the way it says, however often runs were resumed from
\* runs, also from those of other pages (`observe render`).
THEOREM ResumedRunsAreWhole == MonitorSpec => []ResumeKeeps
<1>1. MonitorInv => ResumeKeeps
  BY RunsKeep DEF MonitorInv
<1> QED BY <1>1, InitMonitor, StepMonitor, PTL DEF MonitorSpec

\* A regression between two whole runs, of observations that are the last of
\* their key in their runs, is delivered or the receipt says that it was not,
\* where the minimum is not above the severities that regressions have; the
\* default is "medium" (`monitor`).
THEOREM RegressionsAreDelivered ==
  ASSUME MinSeverity \in {"informational", "medium"}
  PROVE  MonitorSpec => []RegressionIsDelivered
<1>1. MonitorInv => RegressionIsDelivered
  BY MonitorHolds
<1> QED BY <1>1, InitMonitor, StepMonitor, PTL DEF MonitorSpec

\* An envelope carries the capabilities of one answer of the server and the
\* version it had stated last by then, whichever callers share the client and
\* whatever the answers leave out (the client of MCP servers).
THEOREM EnvelopesAreOfOneHandshake == SessionSpec => []EnvelopesAreTrue
<1>1. SessionInv => EnvelopesAreTrue
  BY DEF SessionInv
<1> QED BY <1>1, InitSession, StepSession, PTL DEF SessionSpec

\* So of the program towards the world outside; what holds of TopologySpec is
\* in UrlCollection_proofs.
THEOREM OutsideHolds ==
  OutsideSpec => /\ []ContactedOnce /\ []CompleteIsAll
                 /\ []ReceiptIsTrue /\ ReviewedIsOverwritten
                 /\ []CompletionIsAttributed /\ []QueueIsAccounted
                 /\ []ResumeKeeps /\ []EnvelopesAreTrue
                 /\ []OverrunIsBounded
BY OutsideIsItsParts, PublishersContactedOnce, CompleteCollectionsAreWhole, ReceiptsAreTrue,
   OnlyReviewedIsOverwritten, RequestsAreAttributed, QueuesAreAccounted, ResumedRunsAreWhole,
   EnvelopesAreOfOneHandshake, Overrun, PTL
=============================================================================
