--------------------------- MODULE Workspace_proofs ---------------------------
(***************************************************************************)
(* What holds of a workspace for every set of findings, audits, files,     *)
(* reviewers and plans: the index of findings is the history of the audits *)
(* that were run, a page snapshot survives, a failed apply is undone, a    *)
(* verified repair was observed, and a decision stays current.             *)
(***************************************************************************)
EXTENDS Workspace, FiniteSetTheorems, WellFoundedInduction, TLAPS

-----------------------------------------------------------------------------
(* Least and greatest numbers, and sums over finite sets.  What is wrong   *)
(* for some finite set is wrong for a smallest one, which is how a sum is  *)
(* reasoned about: FS_StrictSubsetOrderingWellFounded and WFMin give it.   *)

LEMMA MinIs ==
  ASSUME NEW S \in SUBSET Nat, NEW m \in S, \A x \in S : m <= x
  PROVE  Min(S) = m
<1> DEFINE k == CHOOSE x \in S : \A y \in S : x =< y
<1>1. k \in S /\ \A y \in S : k <= y OBVIOUS
<1> HIDE DEF k
<1>2. k = m BY <1>1
<1> QED BY <1>2 DEF Min, k

LEMMA MaxIs ==
  ASSUME NEW S \in SUBSET Nat, NEW m \in S, \A x \in S : x <= m
  PROVE  Max(S) = m
<1> DEFINE k == CHOOSE x \in S : \A y \in S : x >= y
<1>1. k \in S /\ \A y \in S : k >= y OBVIOUS
<1> HIDE DEF k
<1>2. k = m BY <1>1
<1> QED BY <1>2 DEF Max, k

LEMMA LeastNumber ==
  ASSUME NEW S \in SUBSET Nat, S # {}
  PROVE  Min(S) \in S /\ \A x \in S : Min(S) <= x
<1> DEFINE R == OpToRel(<, Nat)
<1>1. IsWellFoundedOn(R, Nat)
  BY NatLessThanWellFounded
<1>2. \A x, y \in Nat : <<y, x>> \in R <=> y < x
  BY DEF OpToRel
<1> HIDE DEF R
<1>3. PICK m \in S : \A y \in S : ~(<<y, m>> \in R)
  BY <1>1, WFMin
<1>4. \A y \in S : ~(y < m)
  BY <1>2, <1>3
<1> QED BY <1>4, MinIs

\* A number that is none of the smaller ones goes in last.
LEMMA LatestAdded ==
  ASSUME NEW S \in SUBSET Nat, NEW m \in Nat, \A x \in S : x <= m
  PROVE  /\ Max(S \cup {m}) = m
         /\ Min(S \cup {m}) = IF S = {} THEN m ELSE Min(S)
<1> DEFINE U == S \cup {m}
<1>1. U \in SUBSET Nat /\ m \in U /\ \A x \in U : x <= m
  OBVIOUS
<1>2. Max(U) = m
  BY <1>1, MaxIs
<1>3. S = {} => Min(U) = m
  BY <1>1, MinIs
<1>4. S # {} => Min(U) = Min(S)
  <2> SUFFICES ASSUME S # {} PROVE Min(U) = Min(S)
    OBVIOUS
  <2>1. Min(S) \in S /\ \A x \in S : Min(S) <= x
    BY LeastNumber
  <2>2. Min(S) \in U /\ \A x \in U : Min(S) <= x
    BY <2>1
  <2> QED BY <1>1, <2>2, MinIs
<1> QED BY <1>2, <1>3, <1>4

Chosen(s) == CHOOSE x \in s : TRUE

\* g adds F up over every subset of S, the chosen element first.
Adds(g, F, S) ==
  g = [s \in SUBSET S |-> IF s = {} THEN 0 ELSE F[Chosen(s)] + g[s \ {Chosen(s)}]]

LEMMA ChosenIsIn == ASSUME NEW s, s # {} PROVE Chosen(s) \in s
BY DEF Chosen

\* Among sets of finite sets there is one none of whose proper subsets is one.
LEMMA SmallestSet ==
  ASSUME NEW S, IsFiniteSet(S), NEW T, T \subseteq SUBSET S, T # {}
  PROVE  \E s \in T : \A t \in T : ~(t \subseteq s /\ t # s)
<1>1. T \subseteq FiniteSubsetsOf(S)
  BY FS_Subset DEF FiniteSubsetsOf
<1>2. PICK s \in T : \A t \in T : ~(<<t, s>> \in StrictSubsetOrdering(S))
  BY <1>1, FS_StrictSubsetOrderingWellFounded, WFMin
<1>3. \A t \in T : t \subseteq s /\ t # s => <<t, s>> \in StrictSubsetOrdering(S)
  BY DEF StrictSubsetOrdering
<1>4. \A t \in T : ~(t \subseteq s /\ t # s)
  BY <1>2, <1>3
<1> QED BY <1>4

LEMMA AddsStep ==
  ASSUME NEW F, NEW S, NEW g, Adds(g, F, S), NEW s \in SUBSET S
  PROVE  g[s] = IF s = {} THEN 0 ELSE F[Chosen(s)] + g[s \ {Chosen(s)}]
BY DEF Adds

LEMMA AddsOnce ==
  ASSUME NEW F, NEW S, IsFiniteSet(S), NEW g, NEW h, Adds(g, F, S), Adds(h, F, S)
  PROVE  g = h
<1> DEFINE T == {s \in SUBSET S : g[s] # h[s]}
<1>0. T \subseteq SUBSET S /\ \A s \in SUBSET S : s \in T <=> g[s] # h[s]
  OBVIOUS
<1> HIDE DEF T
<1>1. CASE T # {}
  <2>1. PICK s \in T : \A t \in T : ~(t \subseteq s /\ t # s)
    BY <1>0, <1>1, SmallestSet
  <2>s. s \in SUBSET S
    BY <1>0
  <2>g. g[s] = IF s = {} THEN 0 ELSE F[Chosen(s)] + g[s \ {Chosen(s)}]
    BY <2>s, AddsStep
  <2>h. h[s] = IF s = {} THEN 0 ELSE F[Chosen(s)] + h[s \ {Chosen(s)}]
    BY <2>s, AddsStep
  <2>3. s # {} /\ Chosen(s) \in s
    BY <1>0, <2>g, <2>h, ChosenIsIn
  <2>4. g[s \ {Chosen(s)}] = h[s \ {Chosen(s)}]
    BY <1>0, <2>1, <2>3
  <2> QED BY <1>0, <2>g, <2>h, <2>3, <2>4
<1>2. CASE T = {}
  <2>1. DOMAIN g = SUBSET S /\ DOMAIN h = SUBSET S /\ g = [s \in SUBSET S |-> g[s]] /\ h = [s \in SUBSET S |-> h[s]]
    BY DEF Adds
  <2> QED BY <1>0, <1>2, <2>1
<1> QED BY <1>1, <1>2

LEMMA AddsRestricted ==
  ASSUME NEW F, NEW S, NEW g, Adds(g, F, S), NEW s \in SUBSET S
  PROVE  Adds([t \in SUBSET s |-> g[t]], F, s)
<1> DEFINE h == [t \in SUBSET s |-> g[t]]
<1>1. ASSUME NEW t \in SUBSET s
      PROVE  h[t] = IF t = {} THEN 0 ELSE F[Chosen(t)] + h[t \ {Chosen(t)}]
  <2>1. g[t] = IF t = {} THEN 0 ELSE F[Chosen(t)] + g[t \ {Chosen(t)}]
    BY AddsStep
  <2>2. h[t] = g[t] /\ h[t \ {Chosen(t)}] = g[t \ {Chosen(t)}]
    OBVIOUS
  <2> QED BY <2>1, <2>2
<1>2. h = [t \in SUBSET s |-> IF t = {} THEN 0 ELSE F[Chosen(t)] + h[t \ {Chosen(t)}]]
  BY <1>1
<1> QED BY <1>2 DEF Adds

LEMMA SumExists ==
  ASSUME NEW F, NEW S, IsFiniteSet(S)
  PROVE  \E g : Adds(g, F, S)
<1> DEFINE T == {s \in SUBSET S : ~\E g : Adds(g, F, s)}
<1>0. T \subseteq SUBSET S /\ \A s \in SUBSET S : s \in T <=> ~\E g : Adds(g, F, s)
  OBVIOUS
<1>1. SUFFICES ASSUME T # {} PROVE FALSE
  OBVIOUS
<1> HIDE DEF T
<1>2. PICK s \in T : \A t \in T : ~(t \subseteq s /\ t # s)
  BY <1>0, <1>1, SmallestSet
<1> DEFINE G(t) == CHOOSE g : Adds(g, F, t)
<1>3. ASSUME NEW t \in SUBSET s, t # s PROVE Adds(G(t), F, t) /\ IsFiniteSet(t)
  BY <1>0, <1>2, <1>3, FS_Subset
<1> HIDE DEF G
<1>4. ASSUME NEW t \in SUBSET s, t # s, NEW u \in SUBSET t PROVE G(t)[u] = G(u)[u]
  <2>1. Adds([v \in SUBSET u |-> G(t)[v]], F, u)
    BY <1>3, <1>4, AddsRestricted
  <2>2. u # s /\ Adds(G(u), F, u) /\ IsFiniteSet(u)
    BY <1>3, <1>4
  <2>3. G(u) = [v \in SUBSET u |-> G(t)[v]]
    BY <2>1, <2>2, AddsOnce
  <2> QED BY <2>3
<1> DEFINE rest(t) == t \ {Chosen(t)}
           h == [t \in SUBSET s |-> IF t = {} THEN 0 ELSE F[Chosen(t)] + G(rest(t))[rest(t)]]
<1>5. ASSUME NEW t \in SUBSET s, t # {} PROVE h[rest(t)] = G(rest(t))[rest(t)]
  <2>1. rest(t) \in SUBSET s /\ rest(t) # s
    BY <1>5, ChosenIsIn
  <2>2. G(rest(t))[rest(t)] = IF rest(t) = {} THEN 0
                               ELSE F[Chosen(rest(t))] + G(rest(t))[rest(rest(t))]
    <3> DEFINE r == rest(t)
    <3>1. r \in SUBSET r /\ Adds(G(r), F, r)
      BY <2>1, <1>3
    <3> HIDE DEF r
    <3>2. G(r)[r] = IF r = {} THEN 0 ELSE F[Chosen(r)] + G(r)[r \ {Chosen(r)}]
      BY <3>1, AddsStep
    <3> QED BY <3>2 DEF r
  <2>3. rest(t) # {} => G(rest(t))[rest(rest(t))] = G(rest(rest(t)))[rest(rest(t))]
    BY <2>1, <1>4
  <2> QED BY <2>1, <2>2, <2>3
<1>6. h = [t \in SUBSET s |-> IF t = {} THEN 0 ELSE F[Chosen(t)] + h[t \ {Chosen(t)}]]
  BY <1>5
<1>7. Adds(h, F, s)
  BY <1>6 DEF Adds
<1> QED BY <1>0, <1>2, <1>7

LEMMA SumIs ==
  ASSUME NEW F, NEW S, IsFiniteSet(S), NEW g, Adds(g, F, S)
  PROVE  SumOf(F, S) = g[S]
<1>1. \A h : Adds(h, F, S) => h = g
  BY AddsOnce
<1> QED BY <1>1 DEF SumOf, MapThenSumSet, MapThenFoldSet, Adds, Chosen

\* What a sum over a finite set is made of.
LEMMA SumStep ==
  ASSUME NEW F, NEW S, IsFiniteSet(S)
  PROVE  SumOf(F, S) = IF S = {} THEN 0 ELSE F[Chosen(S)] + SumOf(F, S \ {Chosen(S)})
<1>1. PICK g : Adds(g, F, S)
  BY SumExists
<1>2. SumOf(F, S) = IF S = {} THEN 0 ELSE F[Chosen(S)] + g[S \ {Chosen(S)}]
  BY <1>1, SumIs, AddsStep
<1> DEFINE R == S \ {Chosen(S)}
<1>3. IsFiniteSet(R) /\ R \in SUBSET S
  BY FS_Subset
<1> HIDE DEF R
<1>4. Adds([t \in SUBSET R |-> g[t]], F, R)
  BY <1>1, <1>3, AddsRestricted
<1>5. SumOf(F, R) = [t \in SUBSET R |-> g[t]][R]
  BY <1>3, <1>4, SumIs
<1>6. SumOf(F, R) = g[R]
  BY <1>5
<1> QED BY <1>2, <1>6 DEF R

LEMMA SumType ==
  ASSUME NEW S, IsFiniteSet(S), NEW F, \A x \in S : F[x] \in Nat
  PROVE  SumOf(F, S) \in Nat
<1> DEFINE T == {s \in SUBSET S : SumOf(F, s) \notin Nat}
<1>0. T \subseteq SUBSET S /\ \A s \in SUBSET S : s \in T <=> SumOf(F, s) \notin Nat
  OBVIOUS
<1>1. SUFFICES ASSUME T # {} PROVE FALSE
  OBVIOUS
<1> HIDE DEF T
<1>2. PICK s \in T : \A t \in T : ~(t \subseteq s /\ t # s)
  BY <1>0, <1>1, SmallestSet
<1>3. SumOf(F, s) = IF s = {} THEN 0 ELSE F[Chosen(s)] + SumOf(F, s \ {Chosen(s)})
  BY <1>0, <1>2, FS_Subset, SumStep
<1>4. s # {} => Chosen(s) \in s
  BY ChosenIsIn
<1>5. s # {} => SumOf(F, s \ {Chosen(s)}) \in Nat
  BY <1>0, <1>2, <1>4
<1> QED BY <1>0, <1>2, <1>3, <1>4, <1>5

LEMMA SumWithout ==
  ASSUME NEW S, IsFiniteSet(S), NEW F, \A x \in S : F[x] \in Nat, NEW y \in S
  PROVE  SumOf(F, S) = F[y] + SumOf(F, S \ {y})
<1> DEFINE T == {s \in SUBSET S : \E x \in s : SumOf(F, s) # F[x] + SumOf(F, s \ {x})}
<1>0. /\ T \subseteq SUBSET S
      /\ \A s \in SUBSET S : s \in T <=> \E x \in s : SumOf(F, s) # F[x] + SumOf(F, s \ {x})
  OBVIOUS
<1>1. SUFFICES ASSUME T # {} PROVE FALSE
  OBVIOUS
<1> HIDE DEF T
<1>2. PICK s \in T : \A t \in T : ~(t \subseteq s /\ t # s)
  BY <1>0, <1>1, SmallestSet
<1>3. PICK x \in s : SumOf(F, s) # F[x] + SumOf(F, s \ {x})
  BY <1>0, <1>2
<1>4. PICK p \in s : SumOf(F, s) = F[p] + SumOf(F, s \ {p})
  BY <1>0, <1>2, <1>3, ChosenIsIn, FS_Subset, SumStep
<1>5. p # x
  BY <1>3, <1>4
<1>6. ASSUME NEW q \in s, NEW z \in s \ {q}
      PROVE  SumOf(F, s \ {q}) = F[z] + SumOf(F, (s \ {q}) \ {z})
  <2>1. s \ {q} \in SUBSET S /\ s \ {q} \notin T
    BY <1>0, <1>2
  <2> QED BY <1>0, <2>1
<1> DEFINE r == SumOf(F, (s \ {p}) \ {x})
<1>7. SumOf(F, s \ {p}) = F[x] + r
  BY <1>5, <1>6
<1>8. SumOf(F, s \ {x}) = F[p] + r
  <2>1. (s \ {p}) \ {x} = (s \ {x}) \ {p}
    OBVIOUS
  <2> QED BY <1>5, <1>6, <2>1
<1>9. r \in Nat
  <2>1. IsFiniteSet((s \ {p}) \ {x}) /\ s \subseteq S
    BY <1>0, <1>2, FS_Subset
  <2> QED BY <2>1, SumType
<1>10. F[p] \in Nat /\ F[x] \in Nat
  BY <1>0, <1>2
<1> HIDE DEF r
<1>11. F[p] + (F[x] + r) = F[x] + (F[p] + r)
  BY <1>9, <1>10
<1> QED BY <1>3, <1>4, <1>7, <1>8, <1>11
\* Functions that agree on a set have one sum over it.
LEMMA SumAgrees ==
  ASSUME NEW S, IsFiniteSet(S), NEW F, NEW G, \A x \in S : F[x] = G[x]
  PROVE  SumOf(F, S) = SumOf(G, S)
<1>1. PICK g : Adds(g, F, S)
  BY SumExists
<1>2. Adds(g, G, S)
  <2>1. \A s \in SUBSET S : s # {} => F[Chosen(s)] = G[Chosen(s)]
    BY ChosenIsIn
  <2>2. g = [s \in SUBSET S |-> IF s = {} THEN 0 ELSE F[Chosen(s)] + g[s \ {Chosen(s)}]]
    BY <1>1 DEF Adds
  <2>3. g = [s \in SUBSET S |-> IF s = {} THEN 0 ELSE G[Chosen(s)] + g[s \ {Chosen(s)}]]
    BY <2>1, <2>2
  <2> QED BY <2>3 DEF Adds
<1> QED BY <1>1, <1>2, SumIs

-----------------------------------------------------------------------------
(* The index of findings.                                                  *)

LEMMA NothingIsIndex == NoFindings \in Indexes /\ NoFindings \in Counts /\ DOMAIN NoFindings = {}
<1>1. \A S : NoFindings \in [{} -> S]
  BY DEF NoFindings
<1>2. {} \in SUBSET FindingIds
  OBVIOUS
<1> QED BY <1>1, <1>2 DEF Indexes, Counts, NoFindings

LEMMA IndexShape ==
  ASSUME NEW x \in Indexes
  PROVE  DOMAIN x \in SUBSET FindingIds /\ x \in [DOMAIN x -> Entry]
<1>1. PICK D \in SUBSET FindingIds : x \in [D -> Entry]
  BY DEF Indexes
<1> QED BY <1>1

LEMMA CountShape ==
  ASSUME NEW x \in Counts
  PROVE  DOMAIN x \in SUBSET FindingIds /\ x \in [DOMAIN x -> 1..MaxHits]
<1>1. PICK D \in SUBSET FindingIds : x \in [D -> 1..MaxHits]
  BY DEF Counts
<1> QED BY <1>1

LEMMA EntryType ==
  ASSUME NEW copy \in Indexes, NEW a \in Audits, NEW time \in Nat, NEW f \in FindingIds,
         NEW hits \in Nat \ {0}
  PROVE  Observed(copy, f, a, time, hits) \in Entry
<1>1. f \in DOMAIN copy => copy[f] \in Entry
  BY IndexShape
<1>2. \A n \in Nat : Persistence(n) \in {"TRANSIENT", "RECURRENT", "PERSISTENT"}
  BY DEF Persistence
<1> QED BY <1>1, <1>2 DEF Observed, Entry

LEMMA ReconciledType ==
  ASSUME NEW copy \in Indexes, NEW a \in Audits, NEW time \in Nat, NEW found \in Counts
  PROVE  Reconciled(copy, a, time, found) \in Indexes
<1> DEFINE D == DOMAIN copy \cup DOMAIN found
           r == Reconciled(copy, a, time, found)
<1>1. DOMAIN r = D /\ r = [f \in D |-> r[f]]
  BY DEF Reconciled
<1>d. D \in SUBSET FindingIds
  BY IndexShape, CountShape
<1>2. ASSUME NEW f \in D PROVE r[f] \in Entry
  <2>1. CASE f \in DOMAIN found
    <3>1. found[f] \in Nat \ {0} /\ f \in FindingIds
      BY <2>1, CountShape, IndexAssumption
    <3>2. r[f] = Observed(copy, f, a, time, found[f])
      BY <2>1 DEF Reconciled
    <3> QED BY <3>1, <3>2, EntryType
  <2>2. CASE f \notin DOMAIN found
    BY <2>2, IndexShape DEF Reconciled
  <2> QED BY <2>1, <2>2
<1> HIDE DEF r
<1>3. r \in [D -> Entry]
  BY <1>1, <1>2
<1> QED BY <1>d, <1>3 DEF Indexes, r

LEMMA AuditFields ==
  ASSUME NEW s \in Audit, NEW p \in Pcs
  PROVE  /\ [s EXCEPT !.pc = p] \in Audit
         /\ \A t \in Nat : [s EXCEPT !.pc = p, !.time = t] \in Audit
         /\ \A x \in Counts : [s EXCEPT !.pc = p, !.found = x] \in Audit
         /\ \A x \in Indexes : [s EXCEPT !.pc = p, !.copy = x] \in Audit
         /\ [s EXCEPT !.pc = p, !.counted = TRUE] \in Audit
BY DEF Audit

\* Every state of the index, the snapshots and the audits is well formed
\* (findings-index.json, pages-latest.json and the variables of `audit`).
THEOREM IndexTypeCorrect == IndexSpec => []IndexTypeOK
<1>1. IndexInit => IndexTypeOK
  <2> SUFFICES ASSUME IndexInit PROVE IndexTypeOK
    OBVIOUS
  <2>1. Idle \in Audit
    BY NothingIsIndex DEF Audit, Idle, Pcs
  <2>2. audit \in [Audits -> Audit]
    BY <2>1 DEF IndexInit
  <2> QED BY <2>2, NothingIsIndex DEF IndexInit, IndexTypeOK
<1>2. IndexTypeOK /\ [IndexNext]_indexVars => IndexTypeOK'
  <2> SUFFICES ASSUME IndexTypeOK, [IndexNext]_indexVars PROVE IndexTypeOK'
    OBVIOUS
  <2>0. /\ live \subseteq FindingIds /\ changes \in Nat /\ clock \in Nat /\ index \in Indexes
        /\ latest \in Audits \cup {"none", "empty", "torn"}
        /\ previous \subseteq Audits \cup {"empty", "torn"}
        /\ audit \in [Audits -> Audit] /\ overlapped \in BOOLEAN /\ crossed \in BOOLEAN
    BY DEF IndexTypeOK
  <2>1. CASE ChangeSite
    BY <2>0, <2>1 DEF ChangeSite, IndexTypeOK
  <2>2. ASSUME NEW a \in Audits, AuditStep(a) PROVE IndexTypeOK'
    <3> DEFINE s == audit[a]
    <3>0. s \in Audit /\ s.found \in Counts /\ s.copy \in Indexes /\ s.time \in Nat
      BY <2>0 DEF Audit
    <3>a. ASSUME NEW t \in Audit, audit' = [audit EXCEPT ![a] = t] PROVE audit' \in [Audits -> Audit]
      BY <2>0, <3>a
    <3>1. CASE Collect(a)
      <4>1. PICK hits \in [live -> 1..MaxHits] :
              audit' = [audit EXCEPT ![a] = [s EXCEPT !.pc = "collected", !.found = hits]]
        BY <3>1 DEF Collect
      <4>2. hits \in Counts
        BY <2>0 DEF Counts
      <4>3. [s EXCEPT !.pc = "collected", !.found = hits] \in Audit
        BY <3>0, <4>2, AuditFields DEF Pcs
      <4> QED BY <2>0, <3>1, <3>a, <4>1, <4>3 DEF Collect, IndexTypeOK
    <3>2. CASE Create(a)
      <4>1. audit' = [audit EXCEPT ![a] = [s EXCEPT !.pc = "created", !.time = clock + 1]]
        BY <3>2 DEF Create
      <4>2. [s EXCEPT !.pc = "created", !.time = clock + 1] \in Audit
        <5>1. clock + 1 \in Nat /\ "created" \in Pcs
          BY <2>0 DEF Pcs
        <5> QED BY <3>0, <5>1, AuditFields
      <4> QED BY <2>0, <3>2, <3>a, <4>1, <4>2 DEF Create, IndexTypeOK
    <3>3. CASE LoadIndex(a)
      <4>1. audit' = [audit EXCEPT ![a] = [s EXCEPT !.pc = "loaded", !.copy = index]]
        BY <3>3 DEF LoadIndex
      <4>2. [s EXCEPT !.pc = "loaded", !.copy = index] \in Audit
        BY <2>0, <3>0, AuditFields DEF Pcs
      <4> QED BY <2>0, <3>3, <3>a, <4>1, <4>2 DEF LoadIndex, IndexTypeOK
    <3>4. CASE WriteIndex(a)
      <4>1. audit' = [audit EXCEPT ![a] = [s EXCEPT !.pc = "indexed", !.counted = TRUE]]
        BY <3>4 DEF WriteIndex
      <4>2. [s EXCEPT !.pc = "indexed", !.counted = TRUE] \in Audit
        BY <3>0, AuditFields DEF Pcs
      <4>3. index' \in Indexes
        BY <3>0, <3>4, ReconciledType, NothingIsIndex DEF WriteIndex
      <4> QED BY <2>0, <3>4, <3>a, <4>1, <4>2, <4>3 DEF WriteIndex, IndexTypeOK
    <3>5. ASSUME NEW p \in Pcs, audit' = [audit EXCEPT ![a].pc = p] PROVE audit' \in [Audits -> Audit]
      <4>1. audit' = [audit EXCEPT ![a] = [s EXCEPT !.pc = p]]
        BY <3>5
      <4>2. [s EXCEPT !.pc = p] \in Audit
        BY <3>0, <3>5, AuditFields DEF Pcs
      <4> QED BY <3>a, <4>1, <4>2
    <3>6. CASE EmptyIndex(a) \/ PutAside(a) \/ Kill(a)
      <4>1. audit' \in [Audits -> Audit]
        BY <3>5, <3>6 DEF EmptyIndex, PutAside, Kill, Pcs
      <4>2. index' \in Indexes /\ previous' \subseteq Audits \cup {"empty", "torn"}
        BY <2>0, <3>6, NothingIsIndex DEF EmptyIndex, PutAside, Kill
      <4>3. overlapped' \in BOOLEAN /\ crossed' \in BOOLEAN
        BY <2>0, <3>6 DEF EmptyIndex, PutAside, Kill
      <4>4. latest' \in Audits \cup {"none", "empty", "torn"}
        BY <2>0, <3>6 DEF EmptyIndex, PutAside, Kill, Interrupted
      <4> QED BY <2>0, <3>6, <4>1, <4>2, <4>3, <4>4 DEF EmptyIndex, PutAside, Kill, IndexTypeOK
    <3>7. CASE RefuseCoverage(a) \/ FailLate(a) \/ OpenSnapshot(a) \/ Snapshot(a) \/ Seal(a)
      <4>1. audit' \in [Audits -> Audit]
        BY <3>5, <3>7 DEF RefuseCoverage, FailLate, OpenSnapshot, Snapshot, Seal, Pcs
      <4>2. latest' \in Audits \cup {"none", "empty", "torn"}
        BY <2>0, <3>7 DEF RefuseCoverage, FailLate, OpenSnapshot, Snapshot, Seal, Interrupted
      <4> QED BY <2>0, <2>2, <3>7, <4>1, <4>2
              DEF RefuseCoverage, FailLate, OpenSnapshot, Snapshot, Seal, IndexTypeOK
    <3> QED BY <2>2, <3>1, <3>2, <3>3, <3>4, <3>6, <3>7 DEF AuditStep
  <2>3. CASE UNCHANGED indexVars
    BY <2>0, <2>3 DEF indexVars, IndexTypeOK
  <2> QED BY <2>1, <2>2, <2>3 DEF IndexNext
<1> QED BY <1>1, <1>2, PTL DEF IndexSpec

\* While no two audits replace the snapshot at one time: what is put aside is
\* there when the file is opened, and nobody else writes it until it is whole.
Left   == \E a \in Audits : audit[a].pc \in {"snapshot", "sealed"}
OnDisk == latest \in Audits \/ previous \cap Audits # {}

SnapshotInv ==
  ~crossed =>
    /\ \A a, b \in Replacing : a = b
    /\ \A a \in Audits : audit[a].pc = "put aside" => latest \notin Audits \/ latest \in previous
    /\ \A a \in Audits : audit[a].pc = "opened" => latest = "empty"
    /\ Left => OnDisk

LEMMA StepSnapshot ==
  ASSUME IndexTypeOK, SnapshotInv, [IndexNext]_indexVars
  PROVE  SnapshotInv'
<1>0. audit \in [Audits -> Audit]
  BY DEF IndexTypeOK
<1>1. SUFFICES ASSUME ~crossed' PROVE SnapshotInv'
  BY DEF SnapshotInv
<1>2. /\ ~crossed /\ (\A a, b \in Replacing : a = b) /\ (Left => OnDisk)
      /\ \A a \in Audits : audit[a].pc = "put aside" => latest \notin Audits \/ latest \in previous
      /\ \A a \in Audits : audit[a].pc = "opened" => latest = "empty"
  <2>1. ASSUME NEW a \in Audits, AuditStep(a) PROVE ~crossed
    <3>1. CASE Collect(a) \/ Create(a) \/ RefuseCoverage(a) \/ LoadIndex(a) \/ EmptyIndex(a) \/ WriteIndex(a)
      BY <1>1, <3>1 DEF Collect, Create, RefuseCoverage, LoadIndex, EmptyIndex, WriteIndex
    <3>2. CASE PutAside(a) \/ OpenSnapshot(a) \/ Snapshot(a) \/ FailLate(a) \/ Seal(a) \/ Kill(a)
      BY <1>1, <3>2 DEF PutAside, OpenSnapshot, Snapshot, FailLate, Seal, Kill
    <3> QED BY <2>1, <3>1, <3>2 DEF AuditStep
  <2>2. ~crossed
    BY <1>1, <2>1 DEF IndexNext, ChangeSite, indexVars
  <2> QED BY <2>2 DEF SnapshotInv
<1>3. ASSUME NEW a \in Audits, NEW p \in Pcs \ {"put aside", "opened", "snapshot"},
             \A b \in Audits : b # a => audit'[b] = audit[b], audit'[a].pc = p,
             p = "sealed" => audit[a].pc = "snapshot",
             UNCHANGED previous, latest' = latest \/ audit[a].pc = "opened"
      PROVE  SnapshotInv'
  <2>1. \A b \in Replacing' : b # a /\ b \in Replacing
    BY <1>3 DEF Replacing
  <2>2. Left' => Left
    BY <1>3 DEF Left
  <2>3. OnDisk => OnDisk'
    BY <1>2, <1>3, IndexAssumption DEF OnDisk
  <2>4. latest' = latest \/ Replacing' = {}
    BY <1>2, <1>3, <2>1 DEF Replacing
  <2>5. \A b \in Audits : audit'[b].pc \in {"put aside", "opened"} => b \in Replacing' /\ audit'[b] = audit[b]
    BY <1>3, <2>1 DEF Replacing
  <2>6. /\ \A b, c \in Replacing' : b = c
        /\ Left' => OnDisk'
    BY <1>2, <2>1, <2>2, <2>3
  <2>7. \A b \in Audits : audit'[b].pc = "put aside" => latest' \notin Audits \/ latest' \in previous'
    BY <1>2, <1>3, <2>4, <2>5
  <2>8. \A b \in Audits : audit'[b].pc = "opened" => latest' = "empty"
    BY <1>2, <1>3, <2>4, <2>5
  <2> QED BY <2>6, <2>7, <2>8 DEF SnapshotInv
<1>4. ASSUME NEW a \in Audits, Collect(a) \/ Create(a) \/ LoadIndex(a) \/ WriteIndex(a)
      PROVE  SnapshotInv'
  <2>1. PICK p \in Pcs \ {"put aside", "opened", "snapshot", "sealed"} :
          audit'[a].pc = p /\ \A b \in Audits : b # a => audit'[b] = audit[b]
    BY <1>0, <1>4 DEF Collect, Create, LoadIndex, WriteIndex, Audit, Pcs
  <2>2. UNCHANGED <<previous, latest>>
    BY <1>4 DEF Collect, Create, LoadIndex, WriteIndex
  <2> QED BY <1>3, <2>1, <2>2
<1>5. ASSUME NEW a \in Audits, RefuseCoverage(a) \/ EmptyIndex(a) \/ FailLate(a) \/ Seal(a) \/ Kill(a)
      PROVE  SnapshotInv'
  <2>1. PICK p \in Pcs \ {"put aside", "opened", "snapshot"} :
          /\ audit'[a].pc = p /\ \A b \in Audits : b # a => audit'[b] = audit[b]
          /\ p = "sealed" => audit[a].pc = "snapshot"
    BY <1>0, <1>5 DEF RefuseCoverage, EmptyIndex, FailLate, Seal, Kill, Audit, Pcs
  <2>2. UNCHANGED previous /\ (latest' = latest \/ audit[a].pc = "opened")
    BY <1>5 DEF RefuseCoverage, EmptyIndex, FailLate, Seal, Kill, Interrupted
  <2> QED BY <1>3, <2>1, <2>2
<1>6. ASSUME NEW a \in Audits, PutAside(a) PROVE SnapshotInv'
  <2>1. /\ audit'[a].pc = "put aside" /\ \A b \in Audits : b # a => audit'[b] = audit[b]
        /\ Replacing = {} /\ previous' = previous \cup ({latest} \ {"none"}) /\ latest' = latest
    BY <1>0, <1>1, <1>6 DEF PutAside, Audit
  <2>2. \A b \in Audits : audit'[b].pc \in {"put aside", "opened"} => b = a
    BY <2>1 DEF Replacing
  <2>3. Left' => Left
    BY <2>1 DEF Left
  <2>4. OnDisk => OnDisk'
    BY <2>1 DEF OnDisk
  <2>5. latest' \in Audits => latest' \in previous'
    BY <2>1, IndexAssumption
  <2> QED BY <1>2, <2>1, <2>2, <2>3, <2>4, <2>5 DEF SnapshotInv, Replacing
<1>7. ASSUME NEW a \in Audits, OpenSnapshot(a) PROVE SnapshotInv'
  <2>1. /\ audit[a].pc = "put aside" /\ audit'[a].pc = "opened"
        /\ \A b \in Audits : b # a => audit'[b] = audit[b]
        /\ previous' = previous /\ latest' = "empty"
    BY <1>0, <1>7 DEF OpenSnapshot, Audit
  <2>2. \A b \in Audits : audit'[b].pc \in {"put aside", "opened"} => b = a
    BY <1>2, <2>1 DEF Replacing
  <2>3. Left' => Left
    BY <2>1 DEF Left
  <2>4. OnDisk => OnDisk'
    BY <1>2, <2>1 DEF OnDisk
  <2> QED BY <1>2, <2>1, <2>2, <2>3, <2>4 DEF SnapshotInv, Replacing
<1>8. ASSUME NEW a \in Audits, Snapshot(a) PROVE SnapshotInv'
  <2>1. /\ audit[a].pc = "opened" /\ audit'[a].pc = "snapshot"
        /\ \A b \in Audits : b # a => audit'[b] = audit[b]
    BY <1>0, <1>8 DEF Snapshot, Audit
  <2>2. Replacing = {a} /\ latest = "empty"
    BY <1>2, <2>1 DEF Replacing
  <2>3. latest' = a
    BY <1>8, <2>2 DEF Snapshot
  <2>4. \A b \in Audits : audit'[b].pc \notin {"put aside", "opened"}
    <3>1. \A b \in Audits : audit[b].pc \in {"put aside", "opened"} => b \in Replacing
      BY DEF Replacing
    <3>2. \A b \in Audits : b # a => audit[b].pc \notin {"put aside", "opened"}
      BY <2>2, <3>1
    <3> QED BY <2>1, <3>2
  <2> QED BY <2>3, <2>4 DEF SnapshotInv, Replacing, OnDisk
<1>9. CASE ChangeSite \/ UNCHANGED indexVars
  <2>1. UNCHANGED <<audit, latest, previous, crossed>>
    BY <1>9 DEF ChangeSite, indexVars
  <2> QED BY <1>2, <2>1 DEF SnapshotInv, Replacing, Left, OnDisk
<1> QED BY <1>4, <1>5, <1>6, <1>7, <1>8, <1>9 DEF IndexNext, AuditStep

\* Once an audit has left a page snapshot, a whole one is on disk, whatever
\* audits fail or are killed, as long as no two replace it at one time.
THEOREM SnapshotStays == IndexSpec => []SnapshotSurvives
<1>1. IndexInit => SnapshotInv
  <2> SUFFICES ASSUME IndexInit PROVE SnapshotInv
    OBVIOUS
  <2>1. \A a \in Audits : audit[a].pc = "idle"
    BY DEF IndexInit, Idle
  <2> QED BY <2>1 DEF SnapshotInv, Replacing, Left
<1>2. SnapshotInv => SnapshotSurvives
  BY DEF SnapshotInv, SnapshotSurvives, Left, OnDisk
<1> QED BY <1>1, <1>2, StepSnapshot, IndexTypeCorrect, PTL DEF IndexSpec

-----------------------------------------------------------------------------
(* The index as the history of the audits.                                 *)

\* What an entry says of those who saw its finding, when and how often.
Agrees(e, O, T, H) == e.first = Min(T) /\ e.last = Max(T) /\ e.count = SumOf(H, O)

Before == {"idle", "collected", "created", "loaded", "emptied"}

\* Of audits that do not overlap, one at most is updating the index, and what
\* it loaded is the history of the audits before it.
OneUpdate ==
  /\ \A a, b \in Updating : a = b
  /\ \A a \in Audits : audit[a].pc = "emptied" => index = NoFindings
  /\ \A a \in Updating : audit[a].time = clock
  /\ (\A a \in Audits : audit[a].pc # "emptied") => IsHistory(index)
  /\ \A a \in Audits : audit[a].pc \in {"loaded", "emptied"} => IsHistory(audit[a].copy)

\* What every entry of an index tells is so.
AllAttested(x) == \A f \in DOMAIN x : Attested(x[f], f)

HistoryInv ==
  /\ \A a \in Audits : audit[a].pc \in Before => ~audit[a].counted
  /\ \A a \in Audits : audit[a].time <= clock
  /\ AllAttested(index)
  /\ \A a \in Audits : AllAttested(audit[a].copy)
  /\ ~overlapped => OneUpdate

LEMMA HistoryOf ==
  ASSUME NEW x
  PROVE  IsHistory(x) <=> /\ DOMAIN x = {f \in FindingIds : Observers(f) # {}}
                          /\ \A f \in DOMAIN x : Agrees(x[f], Observers(f), Times(f), Hits(f))
BY DEF IsHistory, Agrees

LEMMA HistoryOfNext ==
  /\ IsHistory(index)' <=>
       /\ DOMAIN index' = {f \in FindingIds : Observers(f)' # {}}
       /\ \A f \in DOMAIN index' : Agrees(index'[f], Observers(f)', Times(f)', Hits(f)')
  /\ \A a : IsHistory(audit[a].copy)' <=>
       /\ DOMAIN audit'[a].copy = {f \in FindingIds : Observers(f)' # {}}
       /\ \A f \in DOMAIN audit'[a].copy :
            Agrees(audit'[a].copy[f], Observers(f)', Times(f)', Hits(f)')
BY DEF IsHistory, Agrees

\* An entry whose runs are among O, saw its finding at these times, and have
\* s hits of it together.
Speaks(e, O, seenFirst, seenLast, s) ==
  /\ e.firstRun \in O /\ e.lastRun \in O
  /\ e.first = seenFirst /\ e.last = seenLast /\ e.count <= s

LEMMA AttestedOf ==
  ASSUME NEW x
  PROVE  AllAttested(x) <=>
           \A f \in DOMAIN x :
             Speaks(x[f], Observers(f), audit[x[f].firstRun].time, audit[x[f].lastRun].time,
                    SumOf(Hits(f), Observers(f)))
BY DEF AllAttested, Attested, Speaks

LEMMA AttestedOfNext ==
  /\ AllAttested(index)' <=>
       \A f \in DOMAIN index' :
         Speaks(index'[f], Observers(f)', audit'[index'[f].firstRun].time,
                audit'[index'[f].lastRun].time, SumOf(Hits(f)', Observers(f)'))
  /\ \A a : AllAttested(audit[a].copy)' <=>
       \A f \in DOMAIN audit'[a].copy :
         Speaks(audit'[a].copy[f], Observers(f)', audit'[audit'[a].copy[f].firstRun].time,
                audit'[audit'[a].copy[f].lastRun].time, SumOf(Hits(f)', Observers(f)'))
BY DEF AllAttested, Attested, Speaks

\* The history is what it was when no other audit was entered into the index.
SameCounted ==
  \A b \in Audits :
    /\ audit'[b].counted = audit[b].counted
    /\ audit[b].counted => audit'[b].time = audit[b].time /\ audit'[b].found = audit[b].found

LEMMA SameHistory ==
  ASSUME SameCounted
  PROVE  /\ index' = index => (IsHistory(index)' <=> IsHistory(index))
         /\ \A a : audit'[a].copy = audit[a].copy =>
              (IsHistory(audit[a].copy)' <=> IsHistory(audit[a].copy))
         /\ \A a : audit'[a].copy = index => (IsHistory(audit[a].copy)' <=> IsHistory(index))
         /\ index' = index /\ AllAttested(index) => AllAttested(index)'
         /\ \A a : audit'[a].copy = audit[a].copy /\ AllAttested(audit[a].copy)
                    => AllAttested(audit[a].copy)'
         /\ \A a : audit'[a].copy = index /\ AllAttested(index) => AllAttested(audit[a].copy)'
<1>1. \A f : Observers(f)' = Observers(f)
  BY DEF SameCounted, Observers
<1>2. \A f : Times(f)' = Times(f) /\ Hits(f)' = Hits(f)
  BY <1>1 DEF SameCounted, Observers, Times, Hits
<1>3. \A f : \A b \in Observers(f) : audit'[b].time = audit[b].time
  BY DEF SameCounted, Observers
<1>4. ASSUME NEW e, NEW f,
             Speaks(e, Observers(f), audit[e.firstRun].time, audit[e.lastRun].time,
                    SumOf(Hits(f), Observers(f)))
      PROVE  Speaks(e, Observers(f)', audit'[e.firstRun].time, audit'[e.lastRun].time,
                    SumOf(Hits(f)', Observers(f)'))
  BY <1>1, <1>2, <1>3, <1>4 DEF Speaks
<1>5. index' = index /\ AllAttested(index) => AllAttested(index)'
  <2>1. SUFFICES ASSUME index' = index, AllAttested(index) PROVE AllAttested(index)'
    OBVIOUS
  <2>2. \A f \in DOMAIN index :
          Speaks(index[f], Observers(f), audit[index[f].firstRun].time,
                 audit[index[f].lastRun].time, SumOf(Hits(f), Observers(f)))
    BY <2>1, AttestedOf
  <2> QED BY <1>4, <2>1, <2>2, AttestedOfNext
<1>6. ASSUME NEW a, NEW x, audit'[a].copy = x, AllAttested(x)
      PROVE  AllAttested(audit[a].copy)'
  <2>1. \A f \in DOMAIN x :
          Speaks(x[f], Observers(f), audit[x[f].firstRun].time, audit[x[f].lastRun].time,
                 SumOf(Hits(f), Observers(f)))
    BY <1>6, AttestedOf
  <2> QED BY <1>4, <1>6, <2>1, AttestedOfNext
<1>7. \A a : (audit'[a].copy = audit[a].copy /\ AllAttested(audit[a].copy))
                \/ (audit'[a].copy = index /\ AllAttested(index))
              => AllAttested(audit[a].copy)'
  BY <1>6
<1> QED BY <1>1, <1>2, <1>5, <1>7, HistoryOf, HistoryOfNext

\* A step outside the update of the index, or that leaves it.
LEMMA Calm ==
  ASSUME OneUpdate, SameCounted, index' = index, clock' = clock,
         \A b \in Audits : audit'[b].pc \in {"created", "loaded", "emptied"} => audit'[b] = audit[b],
         \A b \in Audits : audit[b].pc = "emptied" => audit'[b].pc = "emptied"
  PROVE  OneUpdate'
BY SameHistory DEF OneUpdate, Updating

\* An audit that enters its findings adds itself to their observers, and its
\* hits to theirs.
LEMMA WriteCounts ==
  ASSUME IndexTypeOK, NEW a \in Audits, WriteIndex(a), ~audit[a].counted, NEW f
  PROVE  /\ IsFiniteSet(Observers(f)) /\ SumOf(Hits(f), Observers(f)) \in Nat
         /\ a \notin Observers(f)
         /\ f \notin DOMAIN audit[a].found =>
              Observers(f)' = Observers(f) /\ Hits(f)' = Hits(f)
         /\ f \in DOMAIN audit[a].found =>
              /\ Observers(f)' = Observers(f) \cup {a}
              /\ SumOf(Hits(f)', Observers(f)')
                   = audit[a].found[f] + SumOf(Hits(f), Observers(f))
<1> DEFINE O == Observers(f)
           H == Hits(f)'
           found == audit[a].found
<1>0. audit \in [Audits -> Audit] /\ found \in Counts
  BY DEF IndexTypeOK, Audit
<1>1. /\ \A b \in Audits : b # a => audit'[b] = audit[b]
      /\ audit'[a].counted /\ audit'[a].found = found
  BY <1>0 DEF WriteIndex, Audit
<1>2. /\ a \notin O
      /\ Observers(f)' = IF f \in DOMAIN found THEN O \cup {a} ELSE O
  BY <1>1 DEF Observers
<1>3. IsFiniteSet(O) /\ IsFiniteSet(O \cup {a})
  BY IndexAssumption, FS_Subset DEF Observers
<1>4. ASSUME NEW b \in O
      PROVE  /\ Hits(f)[b] = audit[b].found[f] /\ Hits(f)[b] \in Nat
             /\ audit'[b].found[f] = audit[b].found[f]
  <2>1. b \in Audits /\ b # a /\ f \in DOMAIN audit[b].found /\ audit[b].found \in Counts
    BY <1>0, <1>2 DEF Observers, Audit
  <2>2. audit[b].found[f] \in Nat
    BY <2>1, CountShape
  <2>3. Hits(f)[b] = audit[b].found[f]
    BY DEF Hits
  <2> QED BY <1>1, <2>1, <2>2, <2>3
<1>5. SumOf(Hits(f), O) \in Nat
  BY <1>3, <1>4, SumType
<1>6. CASE f \notin DOMAIN found
  <2>1. Hits(f)' = [b \in O |-> audit'[b].found[f]] /\ Hits(f) = [b \in O |-> audit[b].found[f]]
    BY <1>2, <1>6 DEF Hits
  <2>2. Hits(f)' = Hits(f)
    BY <1>4, <2>1
  <2> QED BY <1>2, <1>3, <1>5, <1>6, <2>2
<1>7. CASE f \in DOMAIN found
  <2>1. H = [b \in O \cup {a} |-> audit'[b].found[f]] /\ found[f] \in Nat
    BY <1>0, <1>2, <1>7, CountShape DEF Hits
  <2>2. H[a] = found[f] /\ \A b \in O : H[b] = Hits(f)[b] /\ H[b] \in Nat
    BY <1>1, <1>4, <2>1
  <2> HIDE DEF H, O
  <2>3. SumOf(H, O) = SumOf(Hits(f), O)
    BY <1>3, <2>2, SumAgrees
  <2>4. a \notin O /\ (O \cup {a}) \ {a} = O
    BY <1>2 DEF O
  <2>5. SumOf(H, O \cup {a}) = found[f] + SumOf(Hits(f), O)
    <3>1. \A b \in O \cup {a} : H[b] \in Nat
      BY <2>1, <2>2
    <3>2. SumOf(H, O \cup {a}) = H[a] + SumOf(H, (O \cup {a}) \ {a})
      BY <1>3, <3>1, SumWithout
    <3> QED BY <2>2, <2>3, <2>4, <3>2
  <2> QED BY <1>2, <1>3, <1>5, <1>7, <2>5 DEF H, O
<1> QED BY <1>6, <1>7

\* What is written tells of runs that observed the finding, if what was loaded
\* did; and so does what any audit holds.
LEMMA WriteAttests ==
  ASSUME IndexTypeOK, HistoryInv, NEW a \in Audits, WriteIndex(a)
  PROVE  AllAttested(index)' /\ \A b \in Audits : AllAttested(audit[b].copy)'
<1> DEFINE copy == audit[a].copy
           found == audit[a].found
<1>0. /\ audit \in [Audits -> Audit] /\ copy \in Indexes /\ found \in Counts
      /\ ~audit[a].counted /\ AllAttested(copy)
      /\ \A b \in Audits : AllAttested(audit[b].copy)
  BY DEF IndexTypeOK, Audit, WriteIndex, HistoryInv, Before
<1>1. \A b \in Audits : audit'[b].time = audit[b].time /\ audit'[b].copy = audit[b].copy
  BY <1>0 DEF WriteIndex, Audit
<1>2. ASSUME NEW f
      PROVE  /\ Observers(f) \subseteq Observers(f)' /\ Observers(f) \subseteq Audits
             /\ SumOf(Hits(f), Observers(f)) \in Nat
             /\ SumOf(Hits(f)', Observers(f)') \in Nat
             /\ SumOf(Hits(f), Observers(f)) <= SumOf(Hits(f)', Observers(f)')
  <2>1. f \in DOMAIN found => found[f] \in Nat
    BY <1>0, CountShape
  <2>2. Observers(f) \subseteq Audits
    BY DEF Observers
  <2> QED BY <1>0, <2>1, <2>2, WriteCounts
<1>3. ASSUME NEW x \in Indexes, AllAttested(x), NEW f \in DOMAIN x
      PROVE  Speaks(x[f], Observers(f)', audit'[x[f].firstRun].time, audit'[x[f].lastRun].time,
                    SumOf(Hits(f)', Observers(f)'))
  <2>1. x[f].count \in Nat
    BY IndexShape DEF Entry
  <2>2. Speaks(x[f], Observers(f), audit[x[f].firstRun].time, audit[x[f].lastRun].time,
               SumOf(Hits(f), Observers(f)))
    BY <1>3, AttestedOf
  <2> QED BY <1>1, <1>2, <2>1, <2>2 DEF Speaks
<1>4. ASSUME NEW b \in Audits PROVE AllAttested(audit[b].copy)'
  <2>1. PICK x : x = audit[b].copy
    OBVIOUS
  <2>2. x \in Indexes /\ AllAttested(x) /\ audit'[b].copy = x
    BY <1>0, <1>1, <2>1 DEF Audit
  <2> QED BY <1>3, <2>2, AttestedOfNext
<1>5. AllAttested(index)'
  <2>1. CASE index' = NoFindings
    BY <2>1, AttestedOfNext, NothingIsIndex
  <2>2. CASE index' = Reconciled(copy, a, audit[a].time, found)
    <3>1. ASSUME NEW f \in DOMAIN index', f \notin DOMAIN found
          PROVE  f \in DOMAIN copy /\ index'[f] = copy[f]
      BY <2>2, <3>1 DEF Reconciled
    <3>2. ASSUME NEW f \in DOMAIN found
          PROVE  Speaks(index'[f], Observers(f)', audit'[index'[f].firstRun].time,
                        audit'[index'[f].lastRun].time, SumOf(Hits(f)', Observers(f)'))
      <4>1. index'[f] = Observed(copy, f, a, audit[a].time, found[f])
        BY <2>2 DEF Reconciled
      <4>2. /\ found[f] \in Nat /\ a \in Observers(f)'
            /\ SumOf(Hits(f)', Observers(f)') = found[f] + SumOf(Hits(f), Observers(f))
            /\ SumOf(Hits(f), Observers(f)) \in Nat
        BY <1>0, CountShape, WriteCounts
      <4>3. CASE f \in DOMAIN copy
        <5>1. copy[f].count \in Nat
          BY <1>0, <4>3, IndexShape DEF Entry
        <5>2. Speaks(copy[f], Observers(f), audit[copy[f].firstRun].time,
                     audit[copy[f].lastRun].time, SumOf(Hits(f), Observers(f)))
          BY <1>0, <4>3, AttestedOf
        <5>3. /\ index'[f].firstRun = copy[f].firstRun /\ index'[f].first = copy[f].first
              /\ index'[f].lastRun = a /\ index'[f].last = audit[a].time
              /\ index'[f].count = copy[f].count + found[f]
          BY <4>1, <4>3 DEF Observed
        <5> QED BY <1>1, <1>2, <4>2, <5>1, <5>2, <5>3 DEF Speaks
      <4>4. CASE f \notin DOMAIN copy
        <5>1. /\ index'[f].firstRun = a /\ index'[f].first = audit[a].time
              /\ index'[f].lastRun = a /\ index'[f].last = audit[a].time
              /\ index'[f].count = found[f]
          BY <4>1, <4>4 DEF Observed
        <5> QED BY <1>1, <4>2, <5>1 DEF Speaks
      <4> QED BY <4>3, <4>4
    <3>3. ASSUME NEW f \in DOMAIN index'
          PROVE  Speaks(index'[f], Observers(f)', audit'[index'[f].firstRun].time,
                        audit'[index'[f].lastRun].time, SumOf(Hits(f)', Observers(f)'))
      <4>1. CASE f \notin DOMAIN found
        BY <1>0, <1>3, <3>1, <4>1
      <4> QED BY <3>2, <4>1
    <3> QED BY <3>3, AttestedOfNext
  <2> QED BY <2>1, <2>2 DEF WriteIndex
<1> QED BY <1>4, <1>5

\* The audit that writes the index is the latest, and was not entered before.
LEMMA WriteKeeps ==
  ASSUME IndexTypeOK, HistoryInv, OneUpdate, NEW a \in Audits, WriteIndex(a)
  PROVE  IsHistory(index)'
<1> DEFINE copy == audit[a].copy
           found == audit[a].found
<1>0. /\ audit \in [Audits -> Audit] /\ clock \in Nat
      /\ copy \in Indexes /\ found \in Counts
  BY DEF IndexTypeOK, Audit
<1>1. /\ audit' = [audit EXCEPT ![a].pc = "indexed", ![a].counted = TRUE]
      /\ ~audit[a].counted /\ audit[a].time = clock /\ IsHistory(copy)
      /\ index' = Reconciled(copy, a, clock, found)
  <2>1. /\ audit[a].pc = "emptied" /\ index = NoFindings
        /\ \A b \in Audits \ {a} : audit[b].pc # "emptied"
    BY DEF WriteIndex, OneUpdate, Updating
  <2> QED BY <2>1 DEF WriteIndex, HistoryInv, OneUpdate, Updating, Before
<1>2. /\ \A b \in Audits : b # a => audit'[b] = audit[b]
      /\ audit'[a].counted /\ audit'[a].time = clock /\ audit'[a].found = found
  BY <1>0, <1>1 DEF Audit
<1>3. /\ DOMAIN copy = {f \in FindingIds : Observers(f) # {}}
      /\ \A f \in DOMAIN copy : Agrees(copy[f], Observers(f), Times(f), Hits(f))
  BY <1>1, HistoryOf
<1>4. ASSUME NEW f
      PROVE  /\ a \notin Observers(f)
             /\ Observers(f)' = IF f \in DOMAIN found THEN Observers(f) \cup {a} ELSE Observers(f)
  BY <1>1, <1>2 DEF Observers
<1>5. DOMAIN index' = {f \in FindingIds : Observers(f)' # {}}
  <2>1. DOMAIN index' = DOMAIN copy \cup DOMAIN found
    BY <1>1 DEF Reconciled
  <2>2. DOMAIN found \subseteq FindingIds
    BY <1>0, CountShape
  <2> QED BY <1>3, <1>4, <2>1, <2>2
<1>6. ASSUME NEW f \in DOMAIN index', f \notin DOMAIN found
      PROVE  Agrees(index'[f], Observers(f)', Times(f)', Hits(f)')
  <2>1. f \in DOMAIN copy /\ index'[f] = copy[f]
    BY <1>1, <1>6 DEF Reconciled
  <2>2. Observers(f)' = Observers(f)
    BY <1>4, <1>6
  <2>3. Times(f)' = Times(f) /\ Hits(f)' = Hits(f)
    <3>1. \A b \in Observers(f) : b \in Audits /\ b # a
      BY <1>4 DEF Observers
    <3>2. \A b \in Observers(f) : audit'[b] = audit[b]
      BY <1>2, <3>1
    <3> QED BY <2>2, <3>2 DEF Times, Hits
  <2> QED BY <1>3, <2>1, <2>2, <2>3
<1>7. ASSUME NEW f \in DOMAIN found
      PROVE  Agrees(index'[f], Observers(f)', Times(f)', Hits(f)')
  <2> DEFINE O == Observers(f)
             e == index'[f]
             H == Hits(f)'
  <2>1. e = Observed(copy, f, a, clock, found[f])
    BY <1>1 DEF Reconciled
  <2>2. found[f] \in Nat /\ f \in FindingIds
    BY <1>0, CountShape
  <2>3. /\ Times(f) \in SUBSET Nat /\ (\A t \in Times(f) : t <= clock)
        /\ Times(f)' = Times(f) \cup {clock} /\ (Times(f) = {} <=> O = {})
    <3>1. \A b \in O : b \in Audits /\ audit[b].time \in Nat /\ audit[b].time <= clock
      BY <1>0 DEF Observers, HistoryInv, Audit
    <3>2. Times(f)' = {audit'[b].time : b \in O \cup {a}}
      BY <1>4 DEF Times
    <3>3. (\A b \in O : audit'[b].time = audit[b].time) /\ audit'[a].time = clock
      BY <1>2, <1>4, <3>1
    <3> QED BY <3>1, <3>2, <3>3 DEF Times
  <2>4. e.last = Max(Times(f)')
    BY <1>0, <2>1, <2>3, LatestAdded DEF Observed
  <2>5. e.first = Min(Times(f)')
    <3>1. f \in DOMAIN copy <=> Times(f) # {}
      BY <1>3, <2>2, <2>3
    <3>2. f \in DOMAIN copy => copy[f].first = Min(Times(f))
      BY <1>3 DEF Agrees
    <3>3. Min(Times(f)') = IF Times(f) = {} THEN clock ELSE Min(Times(f))
      BY <1>0, <2>3, LatestAdded
    <3> QED BY <2>1, <3>1, <3>2, <3>3 DEF Observed
  <2>6. e.count = SumOf(H, O \cup {a})
    <3>6. SumOf(H, O \cup {a}) = found[f] + SumOf(Hits(f), O)
      BY <1>1, <1>4, <1>7, WriteCounts
    <3>7. SumOf(Hits(f), O) \in Nat /\ IsFiniteSet(O)
      BY <1>1, WriteCounts
    <3> HIDE DEF H, O
    <3>8. f \in DOMAIN copy => copy[f].count = SumOf(Hits(f), O)
      BY <1>3 DEF Agrees, O
    <3>9. f \notin DOMAIN copy => SumOf(Hits(f), O) = 0
      <4>1. f \notin DOMAIN copy => O = {}
        BY <1>3, <2>2 DEF O
      <4> QED BY <3>7, <4>1, SumStep
    <3> QED BY <2>1, <2>2, <3>6, <3>7, <3>8, <3>9 DEF Observed
  <2> QED BY <1>4, <1>7, <2>4, <2>5, <2>6 DEF Agrees
<1> QED BY <1>5, <1>6, <1>7, HistoryOfNext

\* The audits before their update are not entered; no run has a later time
\* than the clock.
LEMMA StepHistory ==
  ASSUME IndexTypeOK, IndexTypeOK', HistoryInv, [IndexNext]_indexVars
  PROVE  HistoryInv'
<1>0. audit \in [Audits -> Audit] /\ clock \in Nat
  BY DEF IndexTypeOK
<1>t. \A b \in Audits : audit[b].time \in Nat /\ audit[b].time <= clock
  BY <1>0 DEF Audit, HistoryInv
<1>c. \A b \in Audits : audit[b].pc \in Before => ~audit[b].counted
  BY DEF HistoryInv
<1>o. ~overlapped => OneUpdate
  BY DEF HistoryInv
<1> DEFINE First == /\ \A b \in Audits : audit[b].pc \in Before => ~audit[b].counted
                    /\ \A b \in Audits : audit[b].time <= clock
           Told  == AllAttested(index) /\ \A b \in Audits : AllAttested(audit[b].copy)
<1>a. AllAttested(index) /\ \A b \in Audits : AllAttested(audit[b].copy)
  BY DEF HistoryInv
<1>1. ASSUME First', Told', ~overlapped' => ~overlapped /\ OneUpdate' PROVE HistoryInv'
  BY <1>1 DEF HistoryInv
<1>n. AllAttested(NoFindings)' /\ (index' = NoFindings => AllAttested(index)')
  BY NothingIsIndex, AttestedOfNext DEF AllAttested
<1>b. ASSUME SameCounted, index' \in {index, NoFindings},
             \A b \in Audits : audit'[b].copy = audit[b].copy \/ audit'[b].copy = index
      PROVE  Told'
  <2>1. AllAttested(index)'
    BY <1>a, <1>b, <1>n, SameHistory
  <2>2. ASSUME NEW b \in Audits PROVE AllAttested(audit[b].copy)'
    BY <1>a, <1>b, SameHistory
  <2> QED BY <2>1, <2>2
<1>2. ASSUME NEW a \in Audits, Collect(a) PROVE HistoryInv'
  <2>1. /\ \A b \in Audits : b # a => audit'[b] = audit[b]
        /\ audit[a].pc = "idle" /\ audit'[a].pc = "collected"
        /\ audit'[a].time = audit[a].time /\ audit'[a].counted = audit[a].counted
        /\ audit'[a].copy = audit[a].copy
        /\ index' = index /\ clock' = clock /\ overlapped' = overlapped
    BY <1>0, <1>2 DEF Collect, Audit
  <2>2. First'
    BY <1>t, <1>c, <2>1 DEF Before
  <2>3. SameCounted
    BY <1>c, <2>1 DEF SameCounted, Before
  <2>4. ~overlapped => OneUpdate'
    BY <1>o, <2>1, <2>3, Calm
  <2>a. Told'
    BY <1>b, <2>1, <2>3
  <2> QED BY <2>a, <1>1, <2>1, <2>2, <2>4
<1>3. ASSUME NEW a \in Audits, Create(a) PROVE HistoryInv'
  <2>1. /\ \A b \in Audits : b # a => audit'[b] = audit[b]
        /\ audit[a].pc = "collected" /\ audit'[a].pc = "created"
        /\ audit'[a].time = clock + 1 /\ audit'[a].counted = audit[a].counted
        /\ audit'[a].found = audit[a].found /\ audit'[a].copy = audit[a].copy
        /\ index' = index /\ clock' = clock + 1
        /\ ~overlapped' => ~overlapped /\ Updating = {}
    BY <1>0, <1>3 DEF Create, Audit
  <2>2. First'
    BY <1>0, <1>t, <1>c, <2>1 DEF Before
  <2>3. SameCounted
    BY <1>c, <2>1 DEF SameCounted, Before
  <2>4. ASSUME ~overlapped' PROVE OneUpdate'
    <3>1. Updating = {} /\ OneUpdate
      BY <1>o, <2>1, <2>4
    <3>2. \A b \in Audits : audit[b].pc \notin {"created", "loaded", "emptied"}
      BY <3>1 DEF Updating
    <3>3. \A b \in Updating' : b = a
      BY <2>1, <3>2 DEF Updating
    <3>4. IsHistory(index)'
      BY <2>1, <2>3, <3>1, <3>2, SameHistory DEF OneUpdate
    <3>5. \A b \in Audits : audit'[b].pc \notin {"loaded", "emptied"}
      BY <2>1, <3>2
    <3> QED BY <2>1, <3>3, <3>4, <3>5 DEF OneUpdate
  <2>a. Told'
    BY <1>b, <2>1, <2>3
  <2> QED BY <2>a, <1>1, <2>1, <2>2, <2>4
<1>4. ASSUME NEW a \in Audits, LoadIndex(a) PROVE HistoryInv'
  <2>1. /\ \A b \in Audits : b # a => audit'[b] = audit[b]
        /\ audit[a].pc = "created" /\ audit'[a].pc = "loaded" /\ audit'[a].copy = index
        /\ audit'[a].time = audit[a].time /\ audit'[a].counted = audit[a].counted
        /\ audit'[a].found = audit[a].found
        /\ index' = index /\ clock' = clock /\ overlapped' = overlapped
    BY <1>0, <1>4 DEF LoadIndex, Audit
  <2>2. First'
    BY <1>t, <1>c, <2>1 DEF Before
  <2>3. SameCounted
    BY <1>c, <2>1 DEF SameCounted, Before
  <2>4. ASSUME OneUpdate PROVE OneUpdate'
    <3>1. \A b \in Audits : audit[b].pc \in {"created", "loaded", "emptied"} => b = a
      BY <2>1, <2>4 DEF OneUpdate, Updating
    <3>2. /\ \A b \in Audits : audit'[b].pc \in {"created", "loaded", "emptied"} => b = a
          /\ audit'[a].time = clock'
      BY <2>1, <2>4, <3>1 DEF OneUpdate, Updating
    <3>3. IsHistory(index)
      BY <2>1, <2>4, <3>1 DEF OneUpdate
    <3>4. IsHistory(index)' /\ IsHistory(audit[a].copy)'
      BY <2>1, <2>3, <3>3, SameHistory
    <3> QED BY <2>1, <3>2, <3>4 DEF OneUpdate, Updating
  <2>a. Told'
    BY <1>b, <2>1, <2>3
  <2> QED BY <2>a, <1>1, <1>o, <2>1, <2>2, <2>4
<1>5. ASSUME NEW a \in Audits, EmptyIndex(a) PROVE HistoryInv'
  <2>1. /\ \A b \in Audits : b # a => audit'[b] = audit[b]
        /\ audit[a].pc = "loaded" /\ audit'[a].pc = "emptied" /\ audit'[a].copy = audit[a].copy
        /\ audit'[a].time = audit[a].time /\ audit'[a].counted = audit[a].counted
        /\ audit'[a].found = audit[a].found
        /\ index' = NoFindings /\ clock' = clock /\ overlapped' = overlapped
    BY <1>0, <1>5 DEF EmptyIndex, Audit
  <2>2. First'
    BY <1>t, <1>c, <2>1 DEF Before
  <2>3. SameCounted
    BY <1>c, <2>1 DEF SameCounted, Before
  <2>4. ASSUME OneUpdate PROVE OneUpdate'
    <3>1. \A b \in Audits : audit[b].pc \in {"created", "loaded", "emptied"} => b = a
      BY <2>1, <2>4 DEF OneUpdate, Updating
    <3>2. /\ \A b \in Audits : audit'[b].pc \in {"created", "loaded", "emptied"} => b = a
          /\ audit'[a].time = clock'
      BY <2>1, <2>4, <3>1 DEF OneUpdate, Updating
    <3>3. IsHistory(audit[a].copy)
      BY <2>1, <2>4 DEF OneUpdate
    <3>4. IsHistory(audit[a].copy)'
      BY <2>1, <2>3, <3>3, SameHistory
    <3> QED BY <2>1, <3>2, <3>4 DEF OneUpdate, Updating
  <2>a. Told'
    BY <1>b, <1>5, <2>1, <2>3 DEF EmptyIndex
  <2> QED BY <2>a, <1>1, <1>o, <2>1, <2>2, <2>4
<1>6. ASSUME NEW a \in Audits, WriteIndex(a) PROVE HistoryInv'
  <2>1. /\ \A b \in Audits : b # a => audit'[b] = audit[b]
        /\ audit[a].pc = "emptied" /\ audit'[a].pc = "indexed"
        /\ audit'[a].time = audit[a].time
        /\ clock' = clock /\ overlapped' = overlapped
    BY <1>0, <1>6 DEF WriteIndex, Audit
  <2>2. First'
    BY <1>t, <1>c, <2>1 DEF Before
  <2>4. ASSUME OneUpdate PROVE OneUpdate'
    <3>1. \A b \in Audits : audit[b].pc \in {"created", "loaded", "emptied"} => b = a
      BY <2>1, <2>4 DEF OneUpdate, Updating
    <3>2. \A b \in Audits : audit'[b].pc \notin {"created", "loaded", "emptied"}
      BY <2>1, <3>1
    <3>3. IsHistory(index)'
      BY <1>6, <2>4, WriteKeeps
    <3> QED BY <3>2, <3>3 DEF OneUpdate, Updating
  <2>a. Told'
    BY <1>6, WriteAttests
  <2> QED BY <2>a, <1>1, <1>o, <2>1, <2>2, <2>4
<1>7. ASSUME NEW a \in Audits, NEW p \in Pcs \ Before,
             audit' = [audit EXCEPT ![a].pc = p], index' = index, clock' = clock,
             overlapped' = (overlapped \/ audit[a].pc = "emptied")
      PROVE  HistoryInv'
  <2>1. /\ \A b \in Audits : b # a => audit'[b] = audit[b]
        /\ audit'[a].pc = p /\ audit'[a].time = audit[a].time
        /\ audit'[a].counted = audit[a].counted /\ audit'[a].found = audit[a].found
        /\ audit'[a].copy = audit[a].copy
    BY <1>0, <1>7 DEF Audit
  <2>2. First'
    BY <1>t, <1>c, <1>7, <2>1
  <2>3. SameCounted
    BY <2>1 DEF SameCounted
  <2>4. ASSUME ~overlapped' PROVE OneUpdate'
    BY <1>o, <1>7, <2>1, <2>3, <2>4, Calm DEF Before
  <2>a. Told'
    BY <1>b, <1>7, <2>1, <2>3
  <2> QED BY <2>a, <1>1, <1>7, <2>2, <2>4
<1>8. ASSUME NEW a \in Audits,
             RefuseCoverage(a) \/ FailLate(a) \/ PutAside(a) \/ OpenSnapshot(a) \/ Snapshot(a)
             \/ Seal(a) \/ Kill(a)
      PROVE  HistoryInv'
  <2>1. overlapped' = (overlapped \/ audit[a].pc = "emptied")
    BY <1>8 DEF RefuseCoverage, FailLate, PutAside, OpenSnapshot, Snapshot, Seal, Kill, IndexTypeOK
  <2> QED BY <1>7, <1>8, <2>1 DEF RefuseCoverage, FailLate, PutAside, OpenSnapshot, Snapshot, Seal, Kill, Pcs, Before
<1>9. CASE ChangeSite \/ UNCHANGED indexVars
  <2>1. audit' = audit /\ index' = index /\ clock' = clock /\ overlapped' = overlapped
    BY <1>9 DEF ChangeSite, indexVars
  <2>2. First' /\ SameCounted
    BY <1>t, <1>c, <2>1 DEF SameCounted
  <2>3. ~overlapped => OneUpdate'
    BY <1>o, <2>1, <2>2, Calm
  <2>a. Told'
    BY <1>b, <2>1, <2>2
  <2> QED BY <2>a, <1>1, <2>1, <2>2, <2>3
<1> QED BY <1>2, <1>3, <1>4, <1>5, <1>6, <1>8, <1>9 DEF IndexNext, AuditStep

\* The inductive invariant, of which the next theorem is a part.
THEOREM Histories == IndexSpec => []HistoryInv
<1>1. IndexInit => HistoryInv
  <2> SUFFICES ASSUME IndexInit PROVE HistoryInv
    OBVIOUS
  <2>1. \A a \in Audits : audit[a].pc = "idle" /\ ~audit[a].counted /\ audit[a].time = 0
    BY DEF IndexInit, Idle
  <2>2. Updating = {} /\ \A f : Observers(f) = {}
    BY <2>1 DEF Updating, Observers
  <2>3. IsHistory(index)
    BY <2>2, HistoryOf, NothingIsIndex DEF IndexInit
  <2>4. AllAttested(index) /\ \A a \in Audits : AllAttested(audit[a].copy)
    BY NothingIsIndex DEF IndexInit, Idle, AllAttested
  <2> QED BY <2>1, <2>2, <2>3, <2>4 DEF IndexInit, HistoryInv, OneUpdate, Before
<1> QED BY <1>1, StepHistory, IndexTypeCorrect, PTL DEF IndexSpec

\* Whatever audits overlap, the entries of the index tell of runs that observed
\* their finding; while audits do not overlap they are the history of them all.
THEOREM HistoryIsTrue == IndexSpec => []IndexIsHistory
<1>1. HistoryInv => IndexIsHistory
  BY DEF HistoryInv, AllAttested, OneUpdate, IndexIsHistory, Quiet, Updating
<1> QED BY <1>1, Histories, PTL

-----------------------------------------------------------------------------
(* The repairs.                                                            *)

\* The changes under way are those of the plan, each with the text the plan
\* was reviewed against; operations on one file were reviewed against one text.
Matches ==
  /\ Len(apply.pending) = Len(plan) /\ Len(plan) \in Nat
  /\ apply.written \in 0..Len(plan) /\ apply.undone \in 0..apply.written
  /\ \A i \in 1..Len(plan) :
       /\ plan[i].file \in Files
       /\ apply.pending[i].file = plan[i].file /\ apply.pending[i].before = plan[i].expected
  /\ \A i, j \in 1..Len(plan) : plan[i].file = plan[j].file => plan[i].expected = plan[j].expected

\* The changes taken back so far have left their files as the reviewer saw
\* them, where no one else wrote.
Restored ==
  \A i \in 1..apply.written :
    i > apply.written - apply.undone /\ plan[i].file \notin touched
      => source[plan[i].file] = plan[i].expected

RepairInv ==
  /\ run \subseteq Findings
  /\ DOMAIN source = Files
  /\ plan = << >> \/ (Len(plan) \in Nat \ {0} /\ DOMAIN plan = 1..Len(plan))
  /\ \A i \in DOMAIN plan : plan[i].file \in Files
  /\ apply = Applying(apply.pc, apply.pending, apply.written, apply.undone)
  /\ apply.pc # "idle" => plan # << >>
  /\ apply.pc \in {"writing", "undoing", "failed"} => Matches
  /\ apply.pc = "writing" => apply.undone = 0
  /\ apply.pc = "failed" => apply.undone = apply.written
  /\ apply.pc \in {"undoing", "failed"} => Restored
  /\ verify.pc = "recheck" => verify.status = "none" /\ verify.finding \in Findings

\* Others write only files that count as touched.
LEMMA OthersTouch ==
  ASSUME RepairInv, UNCHANGED <<run, plan, apply, verify>>, DOMAIN source' = Files,
         touched \subseteq touched',
         apply.pc = "idle" \/ \A F \in Files : source'[F] = source[F] \/ F \in touched'
  PROVE  RepairInv'
<1>1. Matches => Matches'
  BY DEF Matches
<1>2. ASSUME apply.pc \in {"undoing", "failed"} PROVE Restored'
  <2>1. Matches /\ Restored /\ \A F \in Files : source'[F] = source[F] \/ F \in touched'
    BY <1>2 DEF RepairInv
  <2>2. \A i \in 1..apply.written : plan[i].file \in Files
    BY <2>1 DEF Matches
  <2> QED BY <2>1, <2>2 DEF Restored
<1> QED BY <1>1, <1>2 DEF RepairInv

LEMMA StepRepair ==
  ASSUME RepairInv, [Next]_vars
  PROVE  RepairInv'
<1>1. ASSUME UNCHANGED <<run, plan, apply, verify, source, touched>> PROVE RepairInv'
  BY <1>1, OthersTouch DEF RepairInv
<1>2. CASE SiteNext \/ (\E f \in Findings : PatchRead(f)) \/ PatchCopy \/ PatchRecord \/ UNCHANGED vars
  BY <1>1, <1>2 DEF SiteNext, Build, Upgrade, DropPage, PatchRead, PatchCopy, PatchRecord, vars
<1>w. ASSUME NEW F \in Files, Touch(F), NEW t, source' \in {source, [source EXCEPT ![F] = t]},
             UNCHANGED <<run, plan, apply, verify>>
      PROVE  RepairInv'
  <2>1. DOMAIN source' = Files /\ touched \subseteq touched'
    BY <1>w DEF Touch, RepairInv
  <2>2. ASSUME apply.pc # "idle", NEW G \in Files PROVE source'[G] = source[G] \/ G \in touched'
    BY <1>w, <2>2 DEF Touch, RepairInv
  <2> QED BY <1>w, <2>1, <2>2, OthersTouch
<1>e. ASSUME NEW F \in Files, Edit(F) PROVE RepairInv'
  <2>1. PICK D \in SUBSET DefectsOf(F) :
          source' = [source EXCEPT ![F] = [defects |-> D, edit |-> edits + 1, whole |-> TRUE]]
    BY <1>e DEF Edit
  <2>2. PICK t : source' = [source EXCEPT ![F] = t]
    BY <2>1
  <2>3. Touch(F) /\ UNCHANGED <<run, plan, apply, verify>>
    BY <1>e DEF Edit
  <2>4. source' \in {source, [source EXCEPT ![F] = t]}
    BY <2>2
  <2> QED BY <1>w, <2>3, <2>4
<1>p. CASE PatchWrite \/ PatchKill
  <2>0. PICK F : F = Home[patch.finding]
    OBVIOUS
  <2>1. CASE F \in Files
    <3>1. PICK t : source' \in {source, [source EXCEPT ![F] = t]}
      BY <1>p, <2>0 DEF PatchWrite, PatchKill
    <3> QED BY <1>p, <1>w, <2>0, <2>1, <3>1 DEF PatchWrite, PatchKill
  <2>2. CASE F \notin Files
    <3>1. /\ UNCHANGED <<run, plan, apply, verify>> /\ touched \subseteq touched'
          /\ DOMAIN source' = Files /\ \A G \in Files : source'[G] = source[G]
      BY <1>p, <2>0, <2>2 DEF PatchWrite, PatchKill, Touch, RepairInv
    <3> QED BY <3>1, OthersTouch
  <2> QED BY <2>1, <2>2
<1>3. CASE WritePlan
  <2>0. PICK n \in 1..MaxOps : \E fs \in [1..n -> run] :
          plan' = [i \in 1..n |-> [finding |-> fs[i], file |-> Home[fs[i]],
                                   expected |-> source[Home[fs[i]]]]]
    BY <1>3 DEF WritePlan
  <2>1. PICK fs \in [1..n -> run] :
          plan' = [i \in 1..n |-> [finding |-> fs[i], file |-> Home[fs[i]],
                                   expected |-> source[Home[fs[i]]]]]
    BY <2>0
  <2>2. n \in Nat \ {0}
    BY RemediationAssumption
  <2>3. DOMAIN plan' = 1..n /\ Len(plan') = n
    BY <2>1, <2>2
  <2>4. \A i \in DOMAIN plan' : plan'[i].file \in Files
    BY <2>1, RemediationAssumption DEF RepairInv
  <2>5. plan = << >> /\ UNCHANGED <<run, apply, verify, source, touched>>
    BY <1>3 DEF WritePlan
  <2>6. apply.pc = "idle"
    BY <2>5 DEF RepairInv
  <2> QED BY <2>2, <2>3, <2>4, <2>5, <2>6 DEF RepairInv
<1>4. CASE ApplyCheck
  <2> DEFINE n == Len(plan)
  <2>1. n \in Nat \ {0} /\ DOMAIN plan = 1..n
    BY <1>4 DEF ApplyCheck, RepairInv
  <2>2. /\ apply'.pc = "writing" /\ apply'.written = 0 /\ apply'.undone = 0
        /\ apply'.pending = [i \in 1..n |->
              [file |-> plan[i].file, finding |-> plan[i].finding, before |-> source[plan[i].file],
               after |-> Fixed(source[plan[i].file], plan[i].finding)]]
        /\ apply' = Applying(apply'.pc, apply'.pending, apply'.written, apply'.undone)
        /\ UNCHANGED <<run, plan, verify, source>> /\ plan # << >>
    BY <1>4, <2>1 DEF ApplyCheck, Applying
  <2>3. \A i \in 1..n : source[plan[i].file] = plan[i].expected
    BY <1>4, <2>1 DEF ApplyCheck, Accepted
  <2>4. Len(apply'.pending) = n
    BY <2>1, <2>2
  <2>5. \A i \in 1..n : apply'.pending[i].file = plan[i].file /\ apply'.pending[i].before = plan[i].expected
    BY <2>2, <2>3
  <2>6. \A i, j \in 1..n : plan[i].file = plan[j].file => plan[i].expected = plan[j].expected
    BY <2>3
  <2>7. Matches'
    BY <2>1, <2>2, <2>4, <2>5, <2>6 DEF RepairInv, Matches
  <2> QED BY <2>2, <2>7 DEF RepairInv
<1>5. CASE ApplyWrite
  <2>1. /\ apply' = Applying("writing", apply.pending, apply.written + 1, apply.undone)
        /\ apply.pc = "writing" /\ apply.written < Len(apply.pending) /\ apply.undone = 0
        /\ UNCHANGED <<run, plan, verify>> /\ DOMAIN source' = Files
    BY <1>5 DEF ApplyWrite, Applying, RepairInv
  <2>2. /\ apply'.pc = "writing" /\ apply'.pending = apply.pending /\ apply'.written = apply.written + 1
        /\ apply'.undone = 0
        /\ apply' = Applying(apply'.pc, apply'.pending, apply'.written, apply'.undone)
    BY <2>1 DEF Applying
  <2>3. Matches'
    BY <2>1, <2>2 DEF RepairInv, Matches
  <2> QED BY <2>1, <2>2, <2>3 DEF RepairInv
<1>6. CASE ApplyFail
  <2>1. /\ apply' = Applying("undoing", apply.pending, apply.written, apply.undone)
        /\ apply.pc = "writing" /\ apply.undone = 0 /\ Matches
        /\ UNCHANGED <<run, plan, verify>> /\ DOMAIN source' = Files
    BY <1>6 DEF ApplyFail, Applying, RepairInv, CutShort
  <2>2. /\ apply'.pc = "undoing" /\ apply'.pending = apply.pending /\ apply'.written = apply.written
        /\ apply'.undone = 0
        /\ apply' = Applying(apply'.pc, apply'.pending, apply'.written, apply'.undone)
    BY <2>1 DEF Applying
  <2>3. Matches'
    BY <2>1, <2>2 DEF Matches
  <2>4. Restored'
    BY <2>1, <2>2 DEF Matches, Restored
  <2> QED BY <2>1, <2>2, <2>3, <2>4 DEF RepairInv
<1>u. CASE ApplyUndo
  <2>0. PICK k : k = apply.written - apply.undone
    OBVIOUS
  <2>1. /\ apply' = Applying("undoing", apply.pending, apply.written, apply.undone + 1)
        /\ apply.pc = "undoing" /\ apply.undone < apply.written /\ Matches /\ Restored
        /\ source' = [source EXCEPT ![apply.pending[k].file] = apply.pending[k].before]
        /\ UNCHANGED <<run, plan, verify, touched>> /\ DOMAIN source = Files
    BY <1>u, <2>0 DEF ApplyUndo, Applying, RepairInv, ToUndo
  <2>2. /\ apply'.pc = "undoing" /\ apply'.pending = apply.pending /\ apply'.written = apply.written
        /\ apply'.undone = apply.undone + 1
        /\ apply' = Applying(apply'.pc, apply'.pending, apply'.written, apply'.undone)
    BY <2>1 DEF Applying
  <2>3. Matches' /\ k \in 1..Len(plan) /\ k \in 1..apply.written
    <3>1. /\ apply.undone \in 0..apply.written /\ apply.undone < apply.written
          /\ apply.written \in 0..Len(plan) /\ Len(plan) \in Nat
      BY <2>1 DEF Matches
    <3>2. apply.undone + 1 \in 0..apply.written
      BY <3>1
    <3>3. k \in 1..apply.written /\ k \in 1..Len(plan)
      BY <2>0, <3>1
    <3>4. Matches'
      BY <2>1, <2>2, <3>2 DEF Matches
    <3> QED BY <3>3, <3>4
  <2>4. ASSUME NEW i \in 1..apply.written, i > apply.written - (apply.undone + 1),
               plan[i].file \notin touched
        PROVE  source'[plan[i].file] = plan[i].expected
    <3>1. i \in 1..Len(plan) /\ i \in Int /\ (i = k \/ i > apply.written - apply.undone)
      BY <2>0, <2>1, <2>3, <2>4 DEF Matches
    <3>2. CASE plan[i].file = plan[k].file
      BY <2>1, <2>3, <3>1, <3>2 DEF Matches
    <3>3. CASE plan[i].file # plan[k].file
      <4>1. source[plan[i].file] = plan[i].expected
        BY <2>1, <2>4, <3>1, <3>3 DEF Restored
      <4> QED BY <2>1, <2>3, <3>1, <3>3, <4>1 DEF Matches
    <3> QED BY <3>2, <3>3
  <2>5. Restored'
    BY <2>1, <2>2, <2>4 DEF Restored
  <2> QED BY <2>1, <2>2, <2>3, <2>5 DEF RepairInv
<1>d. CASE ApplyUndone
  <2>1. /\ apply' = Applying("failed", apply.pending, apply.written, apply.undone)
        /\ apply.pc = "undoing" /\ apply.undone = apply.written /\ Matches /\ Restored
        /\ UNCHANGED <<run, plan, verify, touched, source>>
    BY <1>d DEF ApplyUndone, Applying, RepairInv
  <2>2. /\ apply'.pc = "failed" /\ apply'.pending = apply.pending /\ apply'.written = apply.written
        /\ apply'.undone = apply.undone
        /\ apply' = Applying(apply'.pc, apply'.pending, apply'.written, apply'.undone)
    BY <2>1 DEF Applying
  <2>3. Matches' /\ Restored'
    BY <2>1, <2>2 DEF Matches, Restored
  <2> QED BY <2>1, <2>2, <2>3 DEF RepairInv
<1>s. CASE ApplyStrand \/ ApplyKill \/ ApplyDone
  <2>1. PICK p \in {"stranded", "killed", "done"} : apply' = [apply EXCEPT !.pc = p]
    BY <1>s DEF ApplyStrand, ApplyKill, ApplyDone
  <2>2. apply.pc \in {"writing", "undoing"} /\ UNCHANGED <<run, plan, verify>> /\ DOMAIN source' = Files
    BY <1>s DEF ApplyStrand, ApplyKill, ApplyDone, CutShort, RepairInv
  <2>3. apply'.pc = p /\ apply' = Applying(apply'.pc, apply'.pending, apply'.written, apply'.undone)
    BY <2>1 DEF RepairInv, Applying
  <2> QED BY <2>2, <2>3 DEF RepairInv
<1>7. ASSUME NEW f \in Findings, VerifyBlocked(f) \/ VerifyRefused(f) \/ VerifyStart(f)
      PROVE  RepairInv'
  BY <1>7 DEF VerifyBlocked, VerifyRefused, VerifyStart, Verifying, RepairInv, Matches, Restored
<1>8. CASE Recheck
  BY <1>8 DEF Recheck, Verifying, RepairInv, Matches, Restored
<1> QED
  BY <1>2, <1>e, <1>p, <1>3, <1>4, <1>5, <1>6, <1>u, <1>d, <1>s, <1>7, <1>8
     DEF Next, SourceNext, PatchNext, RepairNext, VerifyNext

LEMMA InitRepair == Init => RepairInv
<1> SUFFICES ASSUME Init PROVE RepairInv
  OBVIOUS
<1>1. run \subseteq Findings /\ DOMAIN source = Files
  BY DEF Init, DefectsOf
<1>2. plan = << >> /\ DOMAIN plan = {} /\ apply.pc = "idle" /\ verify.pc = "idle"
      /\ apply = Applying(apply.pc, apply.pending, apply.written, apply.undone)
  BY DEF Init, Applying, Verifying
<1> QED BY <1>1, <1>2 DEF RepairInv

\* An `apply --write` that reports its writes rolled back has left every file
\* it had written, and no one else wrote, as the reviewer saw it.
THEOREM FailureIsUndone == Spec => []FailureUndone
<1>1. RepairInv => FailureUndone
  <2> SUFFICES ASSUME RepairInv, apply.pc = "failed", NEW i \in 1..apply.written,
                      plan[i].file \notin touched
               PROVE  source[plan[i].file] = plan[i].expected
    BY DEF FailureUndone
  <2>1. Matches /\ Restored /\ apply.undone = apply.written
    BY DEF RepairInv
  <2>2. i > apply.written - apply.undone
    BY <2>1 DEF Matches
  <2> QED BY <2>1, <2>2 DEF Restored
<1> QED BY <1>1, InitRepair, StepRepair, PTL DEF Spec

\* A finding is reported verified only when its detector, in the version that
\* reported it, ran on its page as the site was by then and found nothing.
THEOREM VerifiedWasRepaired == Spec => VerifiedIsRepaired
<1>1. ASSUME RepairInv, [Next]_vars, verify.pc = "recheck", verify'.status = "verified"
      PROVE  /\ site[Home[verify.finding]].whole
             /\ verify.finding \notin site[Home[verify.finding]].defects
             /\ version.run = version.tool
  <2>1. verify' # verify
    BY <1>1 DEF RepairInv
  <2>2. Recheck
    BY <1>1, <2>1
       DEF Next, RepairNext, VerifyNext, SourceNext, SiteNext, PatchNext, Edit, Build, Upgrade,
           DropPage, WritePlan, PatchRead, PatchCopy, PatchRecord, PatchWrite, PatchKill, ApplyCheck,
           ApplyWrite, ApplyFail, ApplyUndo, ApplyStrand, ApplyUndone, ApplyKill, ApplyDone,
           VerifyBlocked, VerifyRefused, VerifyStart, vars
  <2>3. Answer(verify.finding) = "verified"
    BY <1>1, <2>2 DEF Recheck, Verifying
  <2>4. Home[verify.finding] \in Files
    BY <1>1, RemediationAssumption DEF RepairInv
  <2> QED BY <2>3, <2>4 DEF Answer, Found
<1>2. RepairInv /\ [Next]_vars =>
        [verify.pc = "recheck" /\ verify'.status = "verified" =>
           /\ site[Home[verify.finding]].whole
           /\ verify.finding \notin site[Home[verify.finding]].defects
           /\ version.run = version.tool]_vars
  BY <1>1
<1> QED BY <1>2, InitRepair, StepRepair, PTL DEF Spec, VerifiedIsRepaired


-----------------------------------------------------------------------------
(* The reviews.                                                            *)

\* An item has its six fields, and a slot for the decision of each reviewer.
Item(hash, inputs, priority, assigned, decisions, adjudication) ==
  [hash |-> hash, inputs |-> inputs, priority |-> priority, assigned |-> assigned,
   decisions |-> decisions, adjudication |-> adjudication]

IsItem(x) ==
  /\ x = Item(x.hash, x.inputs, x.priority, x.assigned, x.decisions, x.adjudication)
  /\ x.decisions = [r \in Reviewers |-> x.decisions[r]]

ReviewInv ==
  /\ items = [f \in DOMAIN items |-> items[f]]
  /\ DOMAIN items \subseteq Reviewable
  /\ \A f \in DOMAIN items : IsItem(items[f])

\* What a command may make of an item: rank it again, note a decision of the
\* item as it is, or adjudicate it.  The owner may change its inputs or its
\* reviewers.
Step(x, y) ==
  \/ y = x
  \/ y = [x EXCEPT !.priority = Priority(x.inputs, sealed)]
  \/ y = [x EXCEPT !.inputs = @ + 1]
  \/ \E R \in SUBSET Reviewers : R # x.assigned /\ y = [x EXCEPT !.assigned = R]
  \/ \E r \in Reviewers, v \in Verdicts :
       y = [x EXCEPT !.decisions[r] = [on |-> TRUE, verdict |-> v, binding |-> Binding(x)]]
  \/ \E r \in Reviewers, v \in Verdicts :
       y = [x EXCEPT !.adjudication =
              [on |-> TRUE, reviewer |-> r, verdict |-> v, binding |-> Binding(x)]]

LEMMA StepItem ==
  ASSUME NEW x, IsItem(x), NEW y, Step(x, y)
  PROVE  IsItem(y)
<1>1. CASE y = x
  BY <1>1
<1>2. CASE y = [x EXCEPT !.priority = Priority(x.inputs, sealed)]
  BY <1>2 DEF IsItem, Item
<1>3. CASE y = [x EXCEPT !.inputs = @ + 1]
  BY <1>3 DEF IsItem, Item
<1>4. ASSUME NEW R, y = [x EXCEPT !.assigned = R] PROVE IsItem(y)
  BY <1>4 DEF IsItem, Item
<1>5. ASSUME NEW r \in Reviewers, NEW d, y = [x EXCEPT !.decisions[r] = d] PROVE IsItem(y)
  <2>1. /\ y.decisions = [x.decisions EXCEPT ![r] = d]
        /\ y = Item(y.hash, y.inputs, y.priority, y.assigned, y.decisions, y.adjudication)
    BY <1>5 DEF IsItem, Item
  <2>2. y.decisions = [s \in Reviewers |-> IF s = r THEN d ELSE x.decisions[s]]
    BY <2>1 DEF IsItem
  <2> QED BY <2>1, <2>2 DEF IsItem
<1>6. ASSUME NEW d, y = [x EXCEPT !.adjudication = d] PROVE IsItem(y)
  BY <1>6 DEF IsItem, Item
<1> QED BY <1>1, <1>2, <1>3, <1>4, <1>5, <1>6 DEF Step

\* Every step keeps the items there are, and takes each one step further; it
\* may add items no one has decided.
LEMMA StepReview ==
  ASSUME ReviewInv, [ReviewNext]_reviewVars
  PROVE  /\ ReviewInv'
         /\ DOMAIN items \subseteq DOMAIN items'
         /\ \A f \in DOMAIN items : Step(items[f], items'[f])
<1>1. CASE UNCHANGED items
  BY <1>1 DEF ReviewInv, Step
<1>2. CASE RunChanges \/ RegisterPlan \/ SelectSample \/ (\E r \in Reviewers : Deactivate(r))
           \/ UNCHANGED reviewVars
  BY <1>1, <1>2 DEF RunChanges, RegisterPlan, SelectSample, Deactivate, reviewVars
<1>3. ASSUME DOMAIN items' = DOMAIN items, items' = [f \in DOMAIN items |-> items'[f]],
             \A f \in DOMAIN items : Step(items[f], items'[f])
      PROVE  ReviewInv'
  BY <1>3, StepItem DEF ReviewInv
<1>4. CASE Queue
  <2> DEFINE created == Reviewable \ DOMAIN items
             New == Item(sealed, 0, Priority(0, sealed), {}, Undecided, NoAdjudication)
  <2>1. items' = [f \in DOMAIN items \cup created |->
                    IF f \in DOMAIN items THEN items[f] ELSE New]
    BY <1>4 DEF Queue, Item
  <2>2. IsItem(New)
    BY DEF IsItem, Item, Undecided
  <2>3. DOMAIN items' = DOMAIN items \cup created
    BY <2>1
  <2> HIDE DEF New
  <2>4. \A f \in DOMAIN items' : IsItem(items'[f])
    BY <2>1, <2>2, <2>3 DEF ReviewInv
  <2>5. items' = [f \in DOMAIN items' |-> items'[f]]
    BY <2>1, <2>3
  <2>6. \A f \in DOMAIN items : Step(items[f], items'[f])
    BY <2>1, <2>3 DEF Step
  <2> QED BY <2>3, <2>4, <2>5, <2>6 DEF ReviewInv
<1>5. CASE Prioritize
  <2>1. /\ items' = [f \in DOMAIN items |->
                       [items[f] EXCEPT !.priority = Priority(items[f].inputs, sealed)]]
        /\ UNCHANGED sealed
    BY <1>5 DEF Prioritize
  <2>2. DOMAIN items' = DOMAIN items /\ items' = [f \in DOMAIN items |-> items'[f]]
    BY <2>1
  <2>3. \A f \in DOMAIN items : Step(items[f], items'[f])
    BY <2>1 DEF Step
  <2> QED BY <1>3, <2>2, <2>3
<1>6. ASSUME NEW f \in Reviewable, SetInputs(f) \/ Assign(f)
             \/ \E r \in Reviewers : Decide(f, r) \/ Adjudicate(f, r)
      PROVE  /\ ReviewInv'
             /\ DOMAIN items \subseteq DOMAIN items'
             /\ \A g \in DOMAIN items : Step(items[g], items'[g])
  <2>1. f \in DOMAIN items
    BY <1>6 DEF SetInputs, Assign, Decide, Adjudicate
  <2>2. PICK y : items' = [items EXCEPT ![f] = y] /\ Step(items[f], y)
    <3>1. CASE SetInputs(f)
      <4>1. items' = [items EXCEPT ![f] = [items[f] EXCEPT !.inputs = @ + 1]]
        BY <3>1 DEF SetInputs
      <4> QED BY <4>1 DEF Step
    <3>2. CASE Assign(f)
      <4>1. PICK R \in SUBSET Reviewers :
              R # items[f].assigned /\ items' = [items EXCEPT ![f].assigned = R]
        BY <3>2 DEF Assign
      <4>2. items' = [items EXCEPT ![f] = [items[f] EXCEPT !.assigned = R]]
        BY <4>1
      <4> QED BY <4>1, <4>2 DEF Step
    <3>3. ASSUME NEW r \in Reviewers, Decide(f, r)
          PROVE  \E y : items' = [items EXCEPT ![f] = y] /\ Step(items[f], y)
      <4>1. PICK v \in Verdicts :
              items' = [items EXCEPT ![f].decisions[r] =
                          [on |-> TRUE, verdict |-> v, binding |-> Binding(items[f])]]
        BY <3>3 DEF Decide
      <4> DEFINE d == [on |-> TRUE, verdict |-> v, binding |-> Binding(items[f])]
      <4>2. items' = [items EXCEPT ![f] = [items[f] EXCEPT !.decisions[r] = d]]
        BY <4>1
      <4>3. Step(items[f], [items[f] EXCEPT !.decisions[r] = d])
        BY DEF Step
      <4> QED BY <4>2, <4>3
    <3>4. ASSUME NEW r \in Reviewers, Adjudicate(f, r)
          PROVE  \E y : items' = [items EXCEPT ![f] = y] /\ Step(items[f], y)
      <4>1. PICK v \in Verdicts :
              items' = [items EXCEPT ![f].adjudication =
                          [on |-> TRUE, reviewer |-> r, verdict |-> v,
                           binding |-> Binding(items[f])]]
        BY <3>4 DEF Adjudicate
      <4> DEFINE d == [on |-> TRUE, reviewer |-> r, verdict |-> v, binding |-> Binding(items[f])]
      <4>2. items' = [items EXCEPT ![f] = [items[f] EXCEPT !.adjudication = d]]
        BY <4>1
      <4>3. Step(items[f], [items[f] EXCEPT !.adjudication = d])
        BY DEF Step
      <4> QED BY <4>2, <4>3
    <3> QED BY <1>6, <3>1, <3>2, <3>3, <3>4
  <2>3. DOMAIN items' = DOMAIN items /\ items' = [g \in DOMAIN items |-> items'[g]]
    BY <2>2
  <2>4. ASSUME NEW g \in DOMAIN items PROVE Step(items[g], items'[g])
    <3>1. CASE g = f
      BY <2>1, <2>2, <3>1
    <3>2. CASE g # f
      BY <2>2, <3>2 DEF Step
    <3> QED BY <3>1, <3>2
  <2> QED BY <1>3, <2>3, <2>4
<1> QED BY <1>2, <1>4, <1>5, <1>6 DEF ReviewNext

LEMMA InitReview == ReviewInit => ReviewInv
<1> SUFFICES ASSUME ReviewInit PROVE ReviewInv
  OBVIOUS
<1>1. items = NoItems /\ DOMAIN items = {}
  BY DEF ReviewInit, NoItems
<1> QED BY <1>1 DEF ReviewInv, NoItems

\* A decision that is current stays so when the item keeps what its hash covers
\* and a decision is replaced by none but one of the item as it is.
LEMMA StaysCurrent ==
  ASSUME NEW x, NEW y, Binding(y) = Binding(x),
         \A r \in Reviewers : \/ y.decisions[r] = x.decisions[r]
                              \/ y.decisions[r].on /\ y.decisions[r].binding = Binding(y)
  PROVE  CurrentDecisions(x) \subseteq CurrentDecisions(y)
BY DEF CurrentDecisions, Decided, StaleDecision

LEMMA StepStaysCurrent ==
  ASSUME NEW x, IsItem(x), Settled(x), NEW y, Step(x, y),
         y.inputs = x.inputs, y.assigned = x.assigned
  PROVE  CurrentDecisions(x) \subseteq CurrentDecisions(y)
<1>1. CASE y = x
  BY <1>1
<1>2. CASE y = [x EXCEPT !.priority = Priority(x.inputs, sealed)]
  <2>1. y.decisions = x.decisions /\ Binding(y) = Binding(x)
    BY <1>2 DEF IsItem, Item, Binding, Settled
  <2> QED BY <2>1, StaysCurrent
<1>3. CASE y = [x EXCEPT !.inputs = @ + 1]
  <2>1. y.decisions = x.decisions /\ Binding(y) = Binding(x)
    BY <1>3 DEF IsItem, Item, Binding
  <2> QED BY <2>1, StaysCurrent
<1>4. ASSUME NEW R, y = [x EXCEPT !.assigned = R]
      PROVE  CurrentDecisions(x) \subseteq CurrentDecisions(y)
  <2>1. y.decisions = x.decisions /\ Binding(y) = Binding(x)
    BY <1>4 DEF IsItem, Item, Binding
  <2> QED BY <2>1, StaysCurrent
<1>5. ASSUME NEW r \in Reviewers, NEW v,
             y = [x EXCEPT !.decisions[r] = [on |-> TRUE, verdict |-> v, binding |-> Binding(x)]]
      PROVE  CurrentDecisions(x) \subseteq CurrentDecisions(y)
  <2> DEFINE d == [on |-> TRUE, verdict |-> v, binding |-> Binding(x)]
  <2>1. d.on /\ d.binding = Binding(x)
    OBVIOUS
  <2> HIDE DEF d
  <2>2. y = [x EXCEPT !.decisions[r] = d]
    BY <1>5 DEF d
  <2>3. y.decisions = [x.decisions EXCEPT ![r] = d] /\ Binding(y) = Binding(x)
    BY <2>2 DEF IsItem, Item, Binding
  <2>4. \A s \in Reviewers : y.decisions[s] = IF s = r THEN d ELSE x.decisions[s]
    BY <2>3 DEF IsItem
  <2> QED BY <2>1, <2>3, <2>4, StaysCurrent
<1>6. ASSUME NEW d, y = [x EXCEPT !.adjudication = d]
      PROVE  CurrentDecisions(x) \subseteq CurrentDecisions(y)
  <2>1. y.decisions = x.decisions /\ Binding(y) = Binding(x)
    BY <1>6 DEF IsItem, Item, Binding
  <2> QED BY <2>1, StaysCurrent
<1> QED BY <1>1, <1>2, <1>3, <1>4, <1>5, <1>6 DEF Step

\* A decision on an item that is ranked stays current until the inputs, the
\* reviewers or the run of the item change.
THEOREM DecisionsKept == ReviewSpec => DecisionsStayCurrent
<1>1. ReviewInv /\ [ReviewNext]_reviewVars =>
        [\A f \in DOMAIN items :
           Settled(items[f]) /\ sealed' = sealed
           /\ items'[f].inputs = items[f].inputs /\ items'[f].assigned = items[f].assigned
             => CurrentDecisions(items[f]) \subseteq CurrentDecisions(items'[f])]_reviewVars
  BY StepReview, StepStaysCurrent DEF ReviewInv
<1> QED BY <1>1, InitReview, StepReview, PTL DEF ReviewSpec, DecisionsStayCurrent

-----------------------------------------------------------------------------
\* What is true of the index, of the repairs and of the reviews is true of a
\* workspace: each of its steps is one of theirs, or leaves them as they are.
THEOREM WorkspaceIsThree == WorkspaceSpec => IndexSpec /\ Spec /\ ReviewSpec
<1>1. WorkspaceInit => IndexInit /\ Init /\ ReviewInit
  BY DEF WorkspaceInit
<1>2. [WorkspaceNext]_workspaceVars =>
        [IndexNext]_indexVars /\ [Next]_vars /\ [ReviewNext]_reviewVars
  BY DEF WorkspaceNext, AuditInUse, RepairInUse, VerifyInUse, ReviewInUse, workspaceVars,
         Next, RepairNext
<1> QED BY <1>1, <1>2, PTL DEF WorkspaceSpec, IndexSpec, Spec, ReviewSpec

\* So of a workspace: the index tells of what was observed, and of all of it
\* while audits do not overlap; a page snapshot stays while no two replace it; a
\* failed apply is undone, a repair is verified by looking, and a decision on a
\* ranked item stays current.
THEOREM WorkspaceHolds ==
  WorkspaceSpec => /\ []IndexTypeOK /\ []IndexIsHistory
                   /\ []SnapshotSurvives /\ []FailureUndone /\ VerifiedIsRepaired
                   /\ DecisionsStayCurrent
BY WorkspaceIsThree, IndexTypeCorrect, HistoryIsTrue, SnapshotStays, FailureIsUndone,
   VerifiedWasRepaired, DecisionsKept, PTL
=============================================================================
