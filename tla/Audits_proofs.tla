---------------------------- MODULE Audits_proofs ----------------------------
(***************************************************************************)
(* Proofs about audits: AuditComparison and SiteAudit.                     *)
(*                                                                         *)
(* AuditComparison: types, that a failure of the collector is never one of *)
(* the site, and what a comparison may conclude.  All rest on one          *)
(* invariant: each sealed run is Sound, that is, its coverage is what      *)
(* became of its pages and its report obeys ReportSound, and the result is *)
(* the comparison of the two sealed runs.                                  *)
(*                                                                         *)
(* SiteAudit: the findings of a crawl stand, however much of the site is   *)
(* still to be read.  One invariant says what a retrieval adds to what was *)
(* read (CrawlInv); what it adds makes no detector take back a hit         *)
(* (ChecksGrow, one step for each detector), and leaves out a hit only for *)
(* a failure of the retrieval itself (HitsKept).                           *)
(***************************************************************************)
EXTENDS AuditComparison, SiteAudit, FiniteSetTheorems, WellFoundedInduction, TLAPS

-----------------------------------------------------------------------------
(***************************************************************************)
(* AuditComparison.                                                        *)
(***************************************************************************)
AuditSound(a) ==
  /\ a \in Audits /\ a.envelope \in Envelopes
  /\ a.closed => \A p \in Pages : a.outcome[p] \in Valid
  /\ a.envelope.kind # "url" => \A p \in Pages : a.outcome[p] = "read"

\* The coverage the detectors are given, and the one that is sealed.
Provisional(a) == IF a.envelope.kind = "url"
                  THEN CoverageOf(a.outcome, a.closed, FALSE) ELSE NoCoverage
Final(a) == IF a.envelope.kind = "url"
            THEN CoverageOf(a.outcome, a.closed, TRUE) ELSE NoCoverage

ReportSound(a, r) ==
  /\ r \in Reports
  /\ \A c \in Conditions, p \in Pages :
       /\ r.findings[c][p] # <<>> =>
            ~CollectorFailed(a.outcome, p) /\ p \in Retrieved(a.outcome)
            /\ c \in r.ran
       /\ r.findings[c][p] # <<>> <=> r.determinations[c][p] = "FAIL"
       /\ c \in r.ran /\ ~CollectorFailed(a.outcome, p) =>
            r.findings[c][p] = r.hits[c][p]
  /\ \A c \in Conditions, s \in Subjects :
       r.determinations[c][s] = "PASS" => a.envelope.kind # "url"

Sound(r) == /\ r \in Runs
            /\ AuditSound(r.audit)
            /\ r.coverage = Final(r.audit)
            /\ ReportSound(r.audit, r.report)

InHand == /\ pc \in {"detecting", "sealing"} =>
               AuditSound(audit) /\ coverage = Provisional(audit)
          /\ pc = "sealing" => ReportSound(audit, report)

Sealed == /\ runs \in Seq(Runs) /\ Len(runs) =< 2
          /\ \A i \in 1..Len(runs) : Sound(runs[i])
          /\ pc \in {"comparing", "compared"} <=> Len(runs) = 2

Places == /\ pc \in {"collecting", "detecting", "sealing", "comparing",
                     "compared"}
          /\ audit \in Audits /\ coverage \in Coverages /\ report \in Reports

Compared == pc = "compared" => result = CompareSnapshots(runs[1], runs[2])

IInv == Places /\ InHand /\ Sealed /\ Compared

-----------------------------------------------------------------------------
(* Coverage and reports.                                                   *)

LEMMA CoverageType ==
  ASSUME NEW o \in [Pages -> Outcomes], NEW closed \in BOOLEAN,
         NEW evaluated \in BOOLEAN
  PROVE  CoverageOf(o, closed, evaluated) \in Coverages
<1>1. ASSUME NEW p \in Pages PROVE StateOf(o[p], evaluated) \in States
  BY DEF StateOf, States, Outcomes, Valid
<1>2. [p \in Pages |-> StateOf(o[p], evaluated)] \in [Pages -> States]
  BY <1>1
<1> QED BY <1>2 DEF CoverageOf, Coverages

LEMMA NoCoverageType == NoCoverage \in Coverages
  BY DEF NoCoverage, Coverages, States

\* In a sealed coverage a page is evaluated just if it was read as valid.
LEMMA EvaluatedIsValid ==
  ASSUME NEW a, AuditSound(a), NEW p \in Pages,
         Final(a).state[p] = "evaluated"
  PROVE  a.outcome[p] \in Valid /\ Final(a).present
<1>1. a.envelope.kind = "url"
  BY DEF Final, NoCoverage
<1>2. Final(a).state[p] = StateOf(a.outcome[p], TRUE) /\ Final(a).present
  BY <1>1 DEF Final, CoverageOf
<1>3. a.outcome[p] \in Outcomes
  BY DEF AuditSound, Audits
<1> QED BY <1>2, <1>3 DEF StateOf, Outcomes, Valid

\* It is complete only if all were and the discovery was closed.
LEMMA CompleteIsValid ==
  ASSUME NEW a, AuditSound(a), Final(a).complete
  PROVE  a.closed /\ \A p \in Pages : a.outcome[p] \in Valid
<1>1. a.envelope.kind = "url" /\ a.closed
  BY DEF Final, NoCoverage, CoverageOf
<1> QED BY <1>1 DEF AuditSound

\* The coverage of a preview supports no absence.
LEMMA PreviewSupportsNothing ==
  ASSUME NEW a, AuditSound(a), a.envelope.kind = "url",
         NEW c \in Conditions, NEW s \in Subjects
  PROVE  Provisional(a).present /\ ~Supported(c, s, Provisional(a))
<1>1. ASSUME NEW p \in Pages
      PROVE  Provisional(a).state[p] # "evaluated"
  BY DEF Provisional, CoverageOf, StateOf, Valid
<1>2. ~Provisional(a).complete
  BY <1>1, AuditAssumption DEF Provisional, CoverageOf
<1>3. Provisional(a).present
  BY DEF Provisional, CoverageOf
<1>4. (IF s = Site THEN Home ELSE s) \in Pages
  BY AuditAssumption DEF Subjects
<1> QED BY <1>1, <1>2, <1>3, <1>4 DEF Supported

LEMMA DeterminationType ==
  ASSUME NEW c, NEW s, NEW how, NEW o, NEW hits, NEW cov
  PROVE  DeterminationOn(c, s, how, o, hits, cov) \in Statuses
<1>1. AbsenceStatus(c, s, cov) \in {"INDETERMINATE", "PASS"}
  BY DEF AbsenceStatus
<1>2. StatusOn(c, s, o, hits, cov) \in Statuses
  BY <1>1 DEF StatusOn, Statuses
<1> QED BY <1>2 DEF DeterminationOn, Statuses

\* A determination of PASS needs coverage that supports it, or none at all.
LEMMA PassIsSupported ==
  ASSUME NEW c, NEW s, NEW how, NEW o, NEW hits, NEW cov,
         DeterminationOn(c, s, how, o, hits, cov) = "PASS"
  PROVE  ~cov.present \/ Supported(c, s, cov)
<1>1. StatusOn(c, s, o, hits, cov) = "PASS"
  BY DEF DeterminationOn
<1>2. AbsenceStatus(c, s, cov) = "PASS"
  BY <1>1 DEF StatusOn
<1> QED BY <1>2 DEF AbsenceStatus

\* A page's determination is FAIL just if the detectors ran, the collector
\* did not fail and there is a hit.
LEMMA FailIsHit ==
  ASSUME NEW c \in Conditions, NEW p \in Pages, NEW how, NEW o, NEW hits,
         NEW cov, hits[c][p] # <<>> => p \in Retrieved(o)
  PROVE  DeterminationOn(c, p, how, o, hits, cov) = "FAIL"
           <=> /\ how[c] = "checked" /\ ~CollectorFailed(o, p)
               /\ hits[c][p] # <<>>
<1>0. p # Site
  BY AuditAssumption
<1>1. AbsenceStatus(c, p, cov) # "FAIL"
  BY DEF AbsenceStatus
<1>2. StatusOn(c, p, o, hits, cov) = "FAIL"
        <=> ~CollectorFailed(o, p) /\ hits[c][p] # <<>>
  BY <1>1 DEF StatusOn
<1>3. CASE how[c] = "checked" /\ p \in Retrieved(o)
  <2>1. DeterminationOn(c, p, how, o, hits, cov) = StatusOn(c, p, o, hits, cov)
    BY <1>3, <1>0 DEF DeterminationOn
  <2> QED BY <2>1, <1>2, <1>3
<1>4. CASE ~(how[c] = "checked" /\ p \in Retrieved(o))
  <2>1. DeterminationOn(c, p, how, o, hits, cov) = "none"
    BY <1>4, <1>0 DEF DeterminationOn
  <2> QED BY <2>1, <1>4
<1> QED BY <1>3, <1>4

LEMMA ReportIsSound ==
  ASSUME NEW a, AuditSound(a), NEW how \in Modes, NEW hits \in Hits,
         hits = Reported(hits, how, a.outcome)
  PROVE  ReportSound(a, ReportOf(how, a.outcome, hits, Provisional(a)))
<1> DEFINE o == a.outcome
           cov == Provisional(a)
           r == ReportOf(how, o, hits, cov)
<1>1. hits \in [Conditions -> [Pages -> HitLists]]
  BY AuditAssumption
<1>2. ASSUME NEW c \in Conditions, NEW p \in Pages
      PROVE  /\ r.findings[c][p] = FindingsOn(c, p, how, o, hits)
             /\ r.hits[c][p] = hits[c][p]
             /\ c \in r.ran <=> how[c] = "checked"
             /\ r.determinations[c][p]
                  = DeterminationOn(c, p, how, o, hits, cov)
  BY DEF ReportOf, Subjects
<1>3. ASSUME NEW c \in Conditions, NEW p \in Pages
      PROVE  hits[c][p] # <<>> => p \in Retrieved(o)
  <2>1. hits[c][p] = Reported(hits, how, o)[c][p]
    OBVIOUS
  <2> QED BY <2>1 DEF Reported
<1>4. r \in Reports
  <2>1. <<>> \in HitLists
    <3>1. 0 \in 0..MaxHits
      BY AuditAssumption
    <3>2. <<>> \in [1..0 -> Observations]
      OBVIOUS
    <3> QED BY <3>1, <3>2 DEF HitLists
  <2>2. ASSUME NEW c \in Conditions, NEW p \in Pages
        PROVE  FindingsOn(c, p, how, o, hits) \in HitLists
    BY <1>1, <2>1 DEF FindingsOn
  <2>3. r.findings \in [Conditions -> [Pages -> HitLists]]
    BY <2>2 DEF ReportOf
  <2>4. r.determinations \in [Conditions -> [Subjects -> Statuses]]
    BY DeterminationType DEF ReportOf
  <2>5. r.ran \in SUBSET Conditions /\ r.hits = hits
    BY DEF ReportOf
  <2>6. r = [ran |-> r.ran, hits |-> r.hits,
             determinations |-> r.determinations, findings |-> r.findings]
    BY DEF ReportOf
  <2> HIDE DEF r
  <2> QED BY <2>3, <2>4, <2>5, <2>6, <1>1 DEF Reports
<1>5. ASSUME NEW c \in Conditions, NEW p \in Pages
      PROVE  /\ r.findings[c][p] # <<>> =>
                  ~CollectorFailed(o, p) /\ p \in Retrieved(o) /\ c \in r.ran
             /\ r.findings[c][p] # <<>> <=> r.determinations[c][p] = "FAIL"
             /\ c \in r.ran /\ ~CollectorFailed(o, p) =>
                  r.findings[c][p] = r.hits[c][p]
  <2> HIDE DEF r, o, cov
  <2>1. r.determinations[c][p] = "FAIL"
          <=> /\ how[c] = "checked" /\ ~CollectorFailed(o, p)
              /\ hits[c][p] # <<>>
    BY <1>2, <1>3, FailIsHit
  <2> QED BY <2>1, <1>2, <1>3 DEF FindingsOn
<1>6. ASSUME NEW c \in Conditions, NEW s \in Subjects,
             r.determinations[c][s] = "PASS"
      PROVE  a.envelope.kind # "url"
  <2>1. DeterminationOn(c, s, how, o, hits, cov) = "PASS"
    BY <1>6 DEF ReportOf
  <2>2. ~cov.present \/ Supported(c, s, cov)
    BY <2>1, PassIsSupported
  <2> QED BY <2>2, PreviewSupportsNothing
<1> HIDE DEF r
<1>7. ReportSound(a, r)
  BY <1>4, <1>5, <1>6 DEF ReportSound
<1> QED BY <1>7 DEF r

-----------------------------------------------------------------------------
(* The invariant.                                                          *)

LEMMA EmptyTypes ==
  NoAudit \in Audits /\ NoCoverage \in Coverages /\ NoReport \in Reports
<1>1. NoAudit \in Audits
  BY DEF NoAudit, Audits, Outcomes
<1>2. <<>> \in HitLists
  <2>1. 0 \in 0..MaxHits
    BY AuditAssumption
  <2>2. <<>> \in [1..0 -> Observations]
    OBVIOUS
  <2> QED BY <2>1, <2>2 DEF HitLists
<1>3. NoReport \in Reports
  BY <1>2 DEF NoReport, Reports, Statuses
<1> QED BY <1>1, <1>3, NoCoverageType

LEMMA InitInvariant == Init => IInv
<1> SUFFICES ASSUME Init PROVE IInv
  OBVIOUS
<1>1. Places
  BY EmptyTypes DEF Init, Places
<1>2. InHand /\ Compared
  BY DEF Init, InHand, Compared
<1>3. Sealed
  BY DEF Init, Sealed
<1> QED BY <1>1, <1>2, <1>3 DEF IInv

LEMMA NextInvariant == IInv /\ [Next]_vars => IInv'
<1> SUFFICES ASSUME IInv, [Next]_vars PROVE IInv'
  OBVIOUS
<1>1. ASSUME NEW e \in Envelopes, NEW o \in Collections,
             NEW closed \in BOOLEAN, BuildContext(e, o, closed)
      PROVE  IInv'
  <2>0. o \in [Pages -> Outcomes] /\ e.kind \in {"url", "built_output"}
    BY AuditAssumption
  <2>1. audit' \in Audits
    BY <1>1, <2>0 DEF BuildContext, Audits
  <2>2. AuditSound(audit')
    BY <1>1, <2>0, <2>1 DEF BuildContext, AuditSound
  <2>3. coverage' = Provisional(audit')
    BY <1>1 DEF BuildContext, Provisional
  <2>4. coverage' \in Coverages
    BY <2>0, <1>1, CoverageType, NoCoverageType DEF BuildContext
  <2>5. pc = "collecting" /\ pc' = "detecting"
        /\ UNCHANGED <<report, runs, result>>
    BY <1>1 DEF BuildContext
  <2>6. Places'
    BY <2>1, <2>4, <2>5 DEF IInv, Places
  <2>7. InHand'
    BY <2>2, <2>3, <2>5 DEF InHand
  <2>8. Sealed' /\ Compared'
    BY <2>5 DEF IInv, Sealed, Compared
  <2> QED BY <2>6, <2>7, <2>8 DEF IInv
<1>2. ASSUME NEW how \in Modes, NEW hits \in Hits, RunDetectors(how, hits)
      PROVE  IInv'
  <2>1. AuditSound(audit) /\ coverage = Provisional(audit)
    BY <1>2 DEF IInv, InHand, RunDetectors
  <2>2. ReportSound(audit, report')
    BY <1>2, <2>1, ReportIsSound DEF RunDetectors
  <2>3. pc = "detecting" /\ pc' = "sealing"
        /\ UNCHANGED <<audit, coverage, runs, result>>
    BY <1>2 DEF RunDetectors
  <2>4. Places'
    BY <2>2, <2>3 DEF IInv, Places, ReportSound
  <2>5. InHand'
    BY <2>1, <2>2, <2>3 DEF InHand
  <2>6. Sealed' /\ Compared'
    BY <2>3 DEF IInv, Sealed, Compared
  <2> QED BY <2>4, <2>5, <2>6 DEF IInv
<1>3. CASE FinalizeCoverage
  <2> DEFINE final == IF coverage.present
                      THEN CoverageOf(audit.outcome, audit.closed, TRUE)
                      ELSE NoCoverage
             run == [audit |-> audit, coverage |-> final, report |-> report]
  <2>1. AuditSound(audit) /\ coverage = Provisional(audit)
        /\ ReportSound(audit, report)
    BY <1>3 DEF IInv, InHand, FinalizeCoverage
  <2>2. final = Final(audit)
    BY <2>1 DEF Provisional, Final, CoverageOf, NoCoverage
  <2>3. final \in Coverages
    BY <2>1, CoverageType, NoCoverageType DEF AuditSound, Audits
  <2>4. run \in Runs
    BY <2>1, <2>3 DEF Runs, AuditSound, ReportSound
  <2>5. Sound(run)
    BY <2>1, <2>2, <2>4 DEF Sound
  <2>6. runs' = Append(runs, run) /\ pc = "sealing"
        /\ pc' = (IF runs = <<>> THEN "collecting" ELSE "comparing")
        /\ audit' = NoAudit /\ coverage' = NoCoverage /\ report' = NoReport
    BY <1>3 DEF FinalizeCoverage, AfterSealing
  <2> HIDE DEF run
  <2>7. runs \in Seq(Runs) /\ Len(runs) \in {0, 1}
        /\ \A i \in 1..Len(runs) : Sound(runs[i])
    <3>1. Len(runs) # 2 /\ runs \in Seq(Runs) /\ Len(runs) =< 2
          /\ \A i \in 1..Len(runs) : Sound(runs[i])
      BY <2>6 DEF IInv, Sealed
    <3>2. runs \in Seq(Runs) => Len(runs) \in Nat
      OBVIOUS
    <3>3. ASSUME NEW n \in Nat, n =< 2, n # 2 PROVE n \in {0, 1}
      BY <3>3
    <3>4. Len(runs) \in {0, 1}
      BY <3>1, <3>2, <3>3
    <3> QED BY <3>1, <3>4
  <2>8. /\ runs' \in Seq(Runs) /\ Len(runs') = Len(runs) + 1
        /\ runs'[Len(runs')] = run
        /\ \A i \in 1..Len(runs) : runs'[i] = runs[i]
    BY <2>4, <2>6, <2>7
  <2>9. Sealed'
    <3>1. ASSUME NEW i \in 1..Len(runs') PROVE Sound(runs'[i])
      <4>1. CASE i = Len(runs')
        BY <4>1, <2>8, <2>5
      <4>2. CASE i # Len(runs')
        <5>1. i \in 1..Len(runs)
          BY <4>2, <2>7, <2>8
        <5> QED BY <5>1, <2>7, <2>8
      <4> QED BY <4>1, <4>2
    <3>2. pc' \in {"comparing", "compared"} <=> Len(runs') = 2
      BY <2>6, <2>7, <2>8
    <3>3. Len(runs') =< 2
      BY <2>7, <2>8
    <3> QED BY <3>1, <3>2, <3>3, <2>8 DEF Sealed
  <2>10. Places' /\ InHand' /\ Compared'
    BY <2>6, EmptyTypes DEF Places, InHand, Compared
  <2> QED BY <2>9, <2>10 DEF IInv
<1>4. CASE Compare
  <2>1. Places' /\ InHand' /\ Sealed'
    BY <1>4 DEF IInv, Compare, Places, InHand, Sealed
  <2>2. Compared'
    BY <1>4 DEF Compare, Compared
  <2> QED BY <2>1, <2>2 DEF IInv
<1>5. CASE UNCHANGED vars
  BY <1>5 DEF IInv, Places, InHand, Sealed, Compared, vars
<1> QED BY <1>1, <1>2, <1>3, <1>4, <1>5 DEF Next

LEMMA Invariance == Spec => []IInv
<1> QED BY InitInvariant, NextInvariant, PTL DEF Spec

\* What the invariant says of a comparison.
LEMMA BothSound ==
  ASSUME IInv, pc = "compared"
  PROVE  /\ Sound(runs[1]) /\ Sound(runs[2])
         /\ result = CompareSnapshots(runs[1], runs[2])
<1>1. Len(runs) = 2 /\ \A i \in 1..Len(runs) : Sound(runs[i])
  BY DEF IInv, Sealed
<1> QED BY <1>1 DEF IInv, Compared

-----------------------------------------------------------------------------
(* The theorems.                                                           *)

\* Types: every finding of either run gets a state of the comparison.
THEOREM TypeCorrect == Spec => []TypeOK
<1>1. ASSUME IInv PROVE TypeOK
  <2>1. ASSUME pc = "compared"
        PROVE  /\ result.later \in [FindingsOf(runs[2]) -> LaterStates]
               /\ result.gone \in
                    [FindingsOf(runs[1]) \ FindingsOf(runs[2]) -> GoneStates]
    <3> DEFINE a == runs[1]
               b == runs[2]
    <3>1. ASSUME NEW f
          PROVE  NewState(a, f) \in LaterStates /\ KeptState(a, b, f) \in LaterStates
      BY DEF NewState, KeptState, LaterStates
    <3>2. ASSUME NEW f PROVE GoneState(a, b, f) \in GoneStates
      BY DEF GoneState, Reobservation, GoneStates
    <3>3. result = CompareSnapshots(a, b)
      BY <1>1, <2>1, BothSound
    <3> HIDE DEF a, b
    <3>4. /\ result.later \in [FindingsOf(b) -> LaterStates]
          /\ result.gone \in [FindingsOf(a) \ FindingsOf(b) -> GoneStates]
      BY <3>1, <3>2, <3>3 DEF CompareSnapshots
    <3> QED BY <3>4 DEF a, b
  <2> QED BY <1>1, <2>1 DEF TypeOK, IInv, Places, Sealed
<1> QED BY <1>1, Invariance, PTL

\* B-014: a run holds no finding of a page the collector failed on.
THEOREM CollectorFailuresAreNotFindings == Spec => []FailuresAreOfTheSite
<1>1. ASSUME IInv PROVE FailuresAreOfTheSite
  <2>1. ASSUME NEW i \in DOMAIN runs, NEW c \in Conditions, NEW p \in Pages
        PROVE  /\ runs[i].report.findings[c][p] # <<>> =>
                    Clean(runs[i], p) /\ c \in runs[i].report.ran
               /\ runs[i].report.findings[c][p] # <<>>
                    <=> runs[i].report.determinations[c][p] = "FAIL"
    <3>1. Sound(runs[i])
      BY <1>1 DEF IInv, Sealed
    <3> DEFINE r == runs[i]
    <3>2. ReportSound(r.audit, r.report)
      BY <3>1 DEF Sound
    <3> HIDE DEF r
    <3>3. r.report.findings[c][p] # <<>> => Clean(r, p)
      <4>1. SUFFICES ASSUME r.report.findings[c][p] # <<>> PROVE Clean(r, p)
        OBVIOUS
      <4>2. ~CollectorFailed(r.audit.outcome, p) /\ p \in Retrieved(r.audit.outcome)
        BY <3>2, <4>1 DEF ReportSound
      <4>3. p # Site
        BY AuditAssumption
      <4> QED BY <4>2, <4>3 DEF Clean, CollectorFailed, Retrieved, Valid
    <3>4. /\ r.report.findings[c][p] # <<>> => c \in r.report.ran
          /\ r.report.findings[c][p] # <<>>
               <=> r.report.determinations[c][p] = "FAIL"
      BY <3>2 DEF ReportSound
    <3> QED BY <3>3, <3>4 DEF r
  <2> QED BY <2>1 DEF FailuresAreOfTheSite
<1> QED BY <1>1, Invariance, PTL

\* Nothing is resolved but by a run that could have seen it again.
THEOREM ResolvedNeedsReobservation == Spec => []ResolvedWasReobserved
<1>1. ASSUME IInv, pc = "compared", NEW f \in DOMAIN result.gone,
             result.gone[f] = "resolved"
      PROVE  /\ runs[2].audit.envelope = runs[1].audit.envelope
             /\ f[1] \in runs[2].report.ran
             /\ runs[2].audit.outcome[f[2]] \in Valid
             /\ Requirement[f[1]] = "exhaustive_requested_scope" =>
                  runs[2].audit.closed
                  /\ \A p \in Pages : runs[2].audit.outcome[p] \in Valid
  <2> DEFINE a == runs[1]
             b == runs[2]
  <2>1. Sound(a) /\ Sound(b) /\ result = CompareSnapshots(a, b)
    BY <1>1, BothSound
  <2> HIDE DEF a, b
  <2>2. f \in FindingsOf(a) /\ GoneState(a, b, f) = "resolved"
    BY <1>1, <2>1 DEF CompareSnapshots
  <2>3. Comparable(a, b) /\ Reobservation(b, f[1], f[2]) = "resolved"
    BY <2>2 DEF GoneState
  <2>4. f[1] \in Conditions /\ f[2] \in Pages /\ f[3] \in 1..MaxHits
        /\ f[3] =< Len(a.report.findings[f[1]][f[2]])
    BY <2>2 DEF FindingsOf
  <2>5. a.report.findings[f[1]][f[2]] # <<>>
    BY <2>4, AuditAssumption
  <2>6. f[1] \in a.report.ran
    BY <2>1, <2>4, <2>5 DEF Sound, ReportSound
  <2>7. b.coverage.state[f[2]] = "evaluated"
        /\ (Requirement[f[1]] = "exhaustive_requested_scope" =>
              b.coverage.complete)
    BY <2>3 DEF Reobservation
  <2>8. b.coverage = Final(b.audit) /\ AuditSound(b.audit)
    BY <2>1 DEF Sound
  <2>9. b.audit.outcome[f[2]] \in Valid
    BY <2>4, <2>7, <2>8, EvaluatedIsValid
  <2>10. Requirement[f[1]] = "exhaustive_requested_scope" =>
           b.audit.closed /\ \A p \in Pages : b.audit.outcome[p] \in Valid
    BY <2>7, <2>8, CompleteIsValid
  <2> QED BY <2>3, <2>6, <2>9, <2>10 DEF Comparable, a, b
<1>2. IInv => ResolvedWasReobserved
  BY <1>1 DEF ResolvedWasReobserved
<1> QED BY <1>2, Invariance, PTL

\* No regression is claimed against a page the baseline did not evaluate.
THEOREM RegressionsHaveBaselines == Spec => []RegressionHadBaseline
<1>1. ASSUME IInv, pc = "compared", NEW f \in DOMAIN result.later,
             result.later[f] = "regression"
      PROVE  runs[1].audit.outcome[f[2]] \in Valid
  <2> DEFINE a == runs[1]
             b == runs[2]
  <2>1. Sound(a) /\ Sound(b) /\ result = CompareSnapshots(a, b)
    BY <1>1, BothSound
  <2> HIDE DEF a, b
  <2>2. f \in FindingsOf(b) /\ NewState(a, f) = "regression"
    <3>1. f \in FindingsOf(b)
      BY <1>1, <2>1 DEF CompareSnapshots
    <3>2. result.later[f] = IF f \in FindingsOf(a) THEN KeptState(a, b, f)
                                                   ELSE NewState(a, f)
      BY <2>1, <3>1 DEF CompareSnapshots
    <3>3. KeptState(a, b, f) # "regression"
      BY DEF KeptState
    <3> QED BY <1>1, <3>1, <3>2, <3>3
  <2>3. f[1] \in Conditions /\ f[2] \in Pages
    BY <2>2 DEF FindingsOf
  <2>4. \/ DeterminationOf(a, f[1], f[2]) = "PASS"
        \/ a.coverage.state[f[2]] = "evaluated"
    BY <2>2 DEF NewState
  <2>5. CASE DeterminationOf(a, f[1], f[2]) = "PASS"
    <3>1. \E s \in Subjects : a.report.determinations[f[1]][s] = "PASS"
      BY <2>3, <2>5 DEF DeterminationOf, Subjects
    <3>2. a.audit.envelope.kind # "url"
      BY <3>1, <2>1, <2>3 DEF Sound, ReportSound
    <3> QED BY <3>2, <2>1, <2>3 DEF Sound, AuditSound, Valid, a
  <2>6. CASE a.coverage.state[f[2]] = "evaluated"
    <3>1. a.audit.outcome[f[2]] \in Valid
      BY <2>6, <2>1, <2>3, EvaluatedIsValid DEF Sound
    <3> QED BY <3>1 DEF a
  <2> QED BY <2>4, <2>5, <2>6
<1>2. IInv => RegressionHadBaseline
  BY <1>1 DEF RegressionHadBaseline
<1> QED BY <1>2, Invariance, PTL

\* What both runs saw alike, with nothing in the way, persists.
THEOREM UnchangedSitesPersist == Spec => []UnchangedPersists
<1>1. ASSUME IInv, pc = "compared", Comparable(runs[1], runs[2]),
             NEW c \in runs[1].report.ran, NEW p \in Pages,
             Clean(runs[1], p), Clean(runs[2], p),
             runs[1].report.hits[c][p] = runs[2].report.hits[c][p]
      PROVE  /\ \A f \in DOMAIN result.later :
                  f[1] = c /\ f[2] = p => result.later[f] = "persisted"
             /\ \A f \in DOMAIN result.gone : ~(f[1] = c /\ f[2] = p)
  <2> DEFINE a == runs[1]
             b == runs[2]
  <2>1. Sound(a) /\ Sound(b) /\ result = CompareSnapshots(a, b)
    BY <1>1, BothSound
  <2>2. Comparable(a, b) /\ Clean(a, p) /\ Clean(b, p) /\ c \in a.report.ran
        /\ a.report.hits[c][p] = b.report.hits[c][p]
    BY <1>1
  <2> HIDE DEF a, b
  <2>3. c \in Conditions /\ c \in b.report.ran
    BY <2>1, <2>2 DEF Comparable, Sound, ReportSound, Reports
  <2>4. ASSUME NEW r, Clean(r, p) PROVE ~CollectorFailed(r.audit.outcome, p)
    BY <2>4, AuditAssumption DEF Clean, CollectorFailed
  <2>5. a.report.findings[c][p] = b.report.findings[c][p]
    <3>1. a.report.findings[c][p] = a.report.hits[c][p]
      BY <2>1, <2>2, <2>3, <2>4 DEF Sound, ReportSound
    <3>2. b.report.findings[c][p] = b.report.hits[c][p]
      BY <2>1, <2>2, <2>3, <2>4 DEF Sound, ReportSound
    <3> QED BY <3>1, <3>2, <2>2
  <2>6. ASSUME NEW f, f[1] = c, f[2] = p
        PROVE  /\ f \in FindingsOf(a) <=> f \in FindingsOf(b)
               /\ ObservationOf(a, f) = ObservationOf(b, f)
    BY <2>5, <2>6 DEF FindingsOf, ObservationOf
  <2>7. ASSUME NEW f \in DOMAIN result.later, f[1] = c, f[2] = p
        PROVE  result.later[f] = "persisted"
    <3>1. f \in FindingsOf(b)
      BY <2>1 DEF CompareSnapshots
    <3>2. f \in FindingsOf(a) /\ ObservationOf(a, f) = ObservationOf(b, f)
      BY <2>6, <2>7, <3>1
    <3>3. result.later[f] = KeptState(a, b, f)
      BY <2>1, <3>1, <3>2 DEF CompareSnapshots
    <3> QED BY <2>2, <3>2, <3>3 DEF KeptState
  <2>8. ASSUME NEW f \in DOMAIN result.gone, f[1] = c, f[2] = p
        PROVE  FALSE
    <3>1. f \in FindingsOf(a) /\ f \notin FindingsOf(b)
      BY <2>1 DEF CompareSnapshots
    <3> QED BY <2>6, <2>8, <3>1
  <2> QED BY <2>7, <2>8
<1>2. IInv => UnchangedPersists
  BY <1>1 DEF UnchangedPersists
<1> QED BY <1>2, Invariance, PTL

-----------------------------------------------------------------------------
(***************************************************************************)
(* SiteAudit.  First numbers, and functions each value of which is made of *)
(* the one before.                                                         *)
(***************************************************************************)
\* A set of numbers that is not empty has a least one.
LEMMA LeastNumber ==
  ASSUME NEW T \in SUBSET Nat, T # {}
  PROVE  \E n \in T : \A m \in T : n <= m
<1> DEFINE Less == {ss \in Nat \X Nat : ss[1] < ss[2]}
<1>1. IsWellFoundedOn(Less, Nat)
  BY NatLessThanWellFounded DEF OpToRel
<1>2. \A m, n \in Nat : m < n => <<m, n>> \in Less
  OBVIOUS
<1> HIDE DEF Less
<1>3. PICK n \in T : \A m \in T : ~(<<m, n>> \in Less)
  BY <1>1, WFMin
<1>4. \A m \in T : m \in Nat /\ n \in Nat /\ ~(m < n)
  BY <1>2, <1>3
<1> QED BY <1>4

\* A set of numbers that has 0, and with a number the next one, has all: the
\* least number that it lacks has a predecessor that it has.
LEMMA Counting ==
  ASSUME NEW N \in Nat, NEW Counted \in SUBSET (0..N), 0 \in Counted,
         \A n \in 1..N : n - 1 \in Counted => n \in Counted
  PROVE  \A n \in 0..N : n \in Counted
<1> DEFINE Lacks == (0..N) \ Counted
<1>1. SUFFICES ASSUME Lacks # {} PROVE FALSE
  OBVIOUS
<1>2. Lacks \in SUBSET Nat
  OBVIOUS
<1>3. PICK n \in Lacks : \A m \in Lacks : n <= m
  <2> HIDE DEF Lacks
  <2> QED BY <1>1, <1>2, LeastNumber
<1>4. n \in 1..N /\ n - 1 \in 0..N /\ ~(n <= n - 1)
  OBVIOUS
<1>5. n - 1 \in Counted
  BY <1>3, <1>4
<1> QED BY <1>4, <1>5

Builds(it, N, A, base, f) ==
  /\ it = [n \in 0..N |-> IF n = 0 THEN base ELSE f[n][it[n - 1]]]
  /\ \A n \in 0..N : it[n] \in A

\* A function each value of which is made of the one before, up to N, is there.
LEMMA BuildsUp ==
  ASSUME NEW N \in Nat, NEW A, NEW base \in A, NEW f, \A n \in 1..N, a \in A : f[n][a] \in A
  PROVE  \E it : Builds(it, N, A, base, f)
<1> DEFINE Counted == {n \in 0..N : \E it : Builds(it, n, A, base, f)}
<1>1. 0 \in Counted
  <2> DEFINE it == [n \in 0..0 |-> base]
  <2>1. it = [n \in 0..0 |-> IF n = 0 THEN base ELSE f[n][it[n - 1]]] /\ \A n \in 0..0 : it[n] \in A
    OBVIOUS
  <2> HIDE DEF it
  <2> QED BY <2>1 DEF Builds
<1>2. ASSUME NEW n \in 1..N, n - 1 \in Counted PROVE n \in Counted
  <2>1. PICK it : Builds(it, n - 1, A, base, f)
    BY <1>2
  <2> DEFINE more == [m \in 0..n |-> IF m = n THEN f[n][it[n - 1]] ELSE it[m]]
  <2>2. ASSUME NEW m \in 0..n PROVE more[m] = IF m = 0 THEN base ELSE f[m][more[m - 1]]
    <3>1. CASE m = n
      <4>1. more[m] = f[m][it[m - 1]] /\ more[m - 1] = it[m - 1] /\ m # 0
        BY <3>1
      <4> HIDE DEF more
      <4> QED BY <4>1
    <3>2. CASE m \in 1..(n - 1)
      <4>1. more[m] = it[m] /\ more[m - 1] = it[m - 1] /\ m # 0
        BY <3>2
      <4>2. it[m] = f[m][it[m - 1]]
        BY <2>1, <3>2 DEF Builds
      <4> HIDE DEF more
      <4> QED BY <4>1, <4>2
    <3>3. CASE m = 0
      BY <2>1, <3>3 DEF Builds
    <3> QED BY <3>1, <3>2, <3>3
  <2>3. \A m \in 0..n : more[m] \in A
    BY <2>1 DEF Builds
  <2>4. more = [m \in 0..n |-> more[m]]
    OBVIOUS
  <2> HIDE DEF more
  <2>5. more = [m \in 0..n |-> IF m = 0 THEN base ELSE f[m][more[m - 1]]]
    BY <2>2, <2>4
  <2> QED BY <2>3, <2>5 DEF Builds
<1>3. N \in Counted
  <2> HIDE DEF Counted
  <2>1. Counted \in SUBSET (0..N)
    BY DEF Counted
  <2> QED BY <1>1, <1>2, <2>1, Counting
<1> QED BY <1>3

-----------------------------------------------------------------------------
(***************************************************************************)
(* What a reading grows by.                                                *)
(***************************************************************************)
\* d is what reading one page more for the first time makes of c.
Grows(c, d) ==
  /\ c.mode = "url" /\ d.mode = "url"
  /\ c.pages \subseteq d.pages
  /\ \A p \in d.pages : p.n \in Nat
  /\ \A p \in d.pages \ c.pages :
       /\ \A q \in c.pages : q.n < p.n /\ q.url # p.url
       /\ c.states[p.url] # "failed"
  /\ \A u \in c.sitemaps : c.states[u] = "failed" => d.states[u] = "failed"
  /\ d.robots = c.robots /\ d.sitemaps = c.sitemaps /\ d.sitemapFound = c.sitemapFound
  /\ d.registries = c.registries /\ d.observations = c.observations
  /\ d.promptResults = c.promptResults /\ d.snapshot = c.snapshot
  /\ d.facts = c.facts /\ d.maxDepth = c.maxDepth /\ d.rivals = c.rivals
  /\ d.today = c.today /\ d.llms = c.llms

Targets(c, d) ==
  /\ c.pages \subseteq d.pages
  /\ IndexTargets(c) \subseteq IndexTargets(d)
  /\ LiveTargets(c) \subseteq LiveTargets(d)
  /\ HtmlIndexTargets(c) \subseteq HtmlIndexTargets(d)
  /\ LiveHtml(c) \subseteq LiveHtml(d)
  /\ \A p : RegistryPageFor(c, p) = RegistryPageFor(d, p)

\* The pages a detector looks at are among those it looks at later.
LEMMA TargetsGrow ==
  ASSUME NEW c, NEW d, Grows(c, d)
  PROVE  Targets(c, d)
<1>1. \A p : RegistryPageFor(c, p) = RegistryPageFor(d, p)
  BY DEF Grows, RegistryPageFor
<1>2. c.pages \subseteq d.pages
  BY DEF Grows
<1>3. IndexTargets(c) \subseteq IndexTargets(d)
  BY <1>1, <1>2 DEF IndexTargets
<1>4. HtmlIndexTargets(c) \subseteq HtmlIndexTargets(d)
  BY <1>3 DEF HtmlIndexTargets
<1> QED BY <1>1, <1>2, <1>3, <1>4 DEF Targets, LiveTargets, LiveHtml, Live

\* What was found at a URL stays what is found there.
AtKept(c, d) == \A u : At(c, u) # {} => At(d, u) = At(c, u)

LEMMA AtStays ==
  ASSUME NEW c, NEW d, Grows(c, d)
  PROVE  AtKept(c, d)
<1> SUFFICES ASSUME NEW u, At(c, u) # {} PROVE At(d, u) = At(c, u)
  BY DEF AtKept
<1>1. {p \in c.pages : p.url = u} = {p \in d.pages : p.url = u}
  BY DEF Grows, At, Latest
<1> QED BY <1>1 DEF At

\* The first page that fits stays the first.
FirstKept(c, d) ==
  \A S, T : (S = T \cap c.pages /\ T \subseteq d.pages) => First(S) \subseteq First(T)

LEMMA FirstStays ==
  ASSUME NEW c, NEW d, Grows(c, d)
  PROVE  FirstKept(c, d)
<1> SUFFICES ASSUME NEW S, NEW T, S = T \cap c.pages, T \subseteq d.pages, NEW p \in First(S)
             PROVE  p \in First(T)
  BY DEF FirstKept
<1>1. p \in S /\ \A q \in S : p.n <= q.n
  BY DEF First
<1>2. ASSUME NEW q \in T PROVE p.n <= q.n
  BY <1>1, <1>2 DEF Grows
<1> QED BY <1>1, <1>2 DEF First

\* A walk over redirects has begun at u and taken n hops or ended before.
WalkStart(u) == [at |-> u, hops |-> 0, seen |-> {u}, loop |-> FALSE]
IsWalk(w) == w.hops \in Nat /\ w = [at |-> w.at, hops |-> w.hops, seen |-> w.seen, loop |-> w.loop]
Walks(e, u, walk) ==
  /\ walk[0] = WalkStart(u)
  /\ \A n \in 1..10 : walk[n] = Hop(e, walk[n - 1])
  /\ \A n \in 0..10 : IsWalk(walk[n])
  /\ Walk(e, u) = walk[10]

\* Walk is defined by such a walk.
LEMMA WalkIs ==
  ASSUME NEW e, NEW u
  PROVE  \E walk : Walks(e, u, walk)
<1> DEFINE Onto(v) == (CHOOSE t \in At(e, v) : TRUE).location
           V == {u, NoUrl} \cup {Onto(p.url) : p \in e.pages}
           A == [at : V, hops : Nat, seen : SUBSET V, loop : BOOLEAN]
           f == [n \in 1..10 |-> [a \in A |-> Hop(e, a)]]
           walk == CHOOSE walk : walk = [n \in 0..10 |->
                     IF n = 0 THEN [at |-> u, hops |-> 0, seen |-> {u}, loop |-> FALSE] ELSE Hop(e, walk[n - 1])]
<1>1. ASSUME NEW a \in A PROVE Hop(e, a) \in A
  <2> DEFINE here == At(e, a.at)
             next == (CHOOSE t \in here : TRUE).location
  <2>1. ASSUME \E t \in here : IsRedirect(t) PROVE next \in V
    <3>1. PICK p \in e.pages : p.url = a.at
      BY <2>1 DEF At, Latest
    <3>2. next = Onto(a.at)
      OBVIOUS
    <3> HIDE DEF Onto, next
    <3> QED BY <3>1, <3>2
  <2> HIDE DEF V
  <2>2. CASE a.loop \/ ~\E t \in here : IsRedirect(t)
    BY <2>2 DEF Hop
  <2>3. CASE ~a.loop /\ (\E t \in here : IsRedirect(t)) /\ next = NoUrl
    <3>1. NoUrl \in V
      BY DEF V
    <3>2. Hop(e, a) = [a EXCEPT !.at = NoUrl, !.hops = @ + 1]
      BY <2>3 DEF Hop
    <3>3. a.hops + 1 \in Nat /\ a.seen \in SUBSET V /\ a.loop \in BOOLEAN
      OBVIOUS
    <3>4. Hop(e, a) = [at |-> NoUrl, hops |-> a.hops + 1, seen |-> a.seen, loop |-> a.loop]
      BY <3>2
    <3> HIDE DEF V
    <3> QED BY <3>1, <3>3, <3>4
  <2>4. CASE ~a.loop /\ (\E t \in here : IsRedirect(t)) /\ next # NoUrl
    <3>1. Hop(e, a) = [at |-> next, hops |-> a.hops + 1, seen |-> a.seen \cup {next}, loop |-> next \in a.seen]
      BY <2>4 DEF Hop
    <3>2. next \in V
      BY <2>1, <2>4
    <3> HIDE DEF next
    <3> QED BY <3>1, <3>2
  <2> QED BY <2>2, <2>3, <2>4
<1>2. WalkStart(u) \in A
  BY DEF WalkStart
<1>3. Walk(e, u) = walk[10]
  BY Zenon DEF Walk
<1> HIDE DEF A
<1>4. \E it : it = [n \in 0..10 |-> IF n = 0 THEN WalkStart(u) ELSE Hop(e, it[n - 1])]
  <2>1. \A n \in 1..10, a \in A : f[n][a] = Hop(e, a) /\ f[n][a] \in A
    BY <1>1
  <2> HIDE DEF f
  <2>2. PICK it : Builds(it, 10, A, WalkStart(u), f)
    BY <1>2, <2>1, BuildsUp
  <2>3. \A n \in 0..10 : (IF n = 0 THEN WalkStart(u) ELSE f[n][it[n - 1]])
                         = (IF n = 0 THEN WalkStart(u) ELSE Hop(e, it[n - 1]))
    BY <2>1, <2>2 DEF Builds
  <2> QED BY <2>2, <2>3 DEF Builds
<1>5. walk = [n \in 0..10 |-> IF n = 0 THEN WalkStart(u) ELSE Hop(e, walk[n - 1])]
  BY <1>4 DEF WalkStart
<1> HIDE DEF walk
<1>6. walk[0] = WalkStart(u) /\ \A n \in 1..10 : walk[n] = Hop(e, walk[n - 1])
  BY <1>5
<1>7. \A n \in 0..10 : walk[n] \in A
  <2> DEFINE Counted == {n \in 0..10 : walk[n] \in A}
  <2>1. 0 \in Counted
    BY <1>2, <1>6
  <2>2. ASSUME NEW n \in 1..10, n - 1 \in Counted PROVE n \in Counted
    BY <1>1, <1>6, <2>2
  <2>3. Counted \in SUBSET (0..10)
    OBVIOUS
  <2> HIDE DEF Counted
  <2>4. \A n \in 0..10 : n \in Counted
    BY <2>1, <2>2, <2>3, Counting
  <2> QED BY <2>4 DEF Counted
<1>8. \A n \in 0..10 : IsWalk(walk[n])
  BY <1>7 DEF A, IsWalk
<1> QED BY <1>3, <1>6, <1>8 DEF Walks

\* A page more lengthens a walk at most, where it ended.
Ends(e, w) == ~w.loop /\ ~\E t \in At(e, w.at) : IsRedirect(t)

LEMMA HopGrows ==
  ASSUME NEW c, NEW d, Grows(c, d), NEW v, NEW w, IsWalk(v), IsWalk(w),
         w = v \/ (Ends(c, v) /\ w.hops >= v.hops)
  PROVE  Hop(d, w) = Hop(c, v) \/ (Ends(c, Hop(c, v)) /\ Hop(d, w).hops >= Hop(c, v).hops)
<1>0. Hop(d, w).hops \in {w.hops, w.hops + 1}
  BY DEF IsWalk, Hop
<1>1. CASE Ends(c, v)
  BY <1>0, <1>1 DEF Ends, Hop, IsWalk
<1>2. CASE ~Ends(c, v) /\ v.loop
  BY <1>2 DEF Hop
<1>3. CASE ~Ends(c, v) /\ ~v.loop
  <2>1. At(d, w.at) = At(c, v.at)
    BY <1>3, AtStays DEF Ends, AtKept
  <2> QED BY <1>3, <2>1 DEF Ends, Hop
<1> QED BY <1>1, <1>2, <1>3

WalkKept(c, d) == \A u : (Walk(c, u).loop \/ Walk(c, u).hops >= 2) => (Walk(d, u).loop \/ Walk(d, u).hops >= 2)

LEMMA WalkGrows ==
  ASSUME NEW c, NEW d, Grows(c, d)
  PROVE  WalkKept(c, d)
<1> SUFFICES ASSUME NEW u PROVE (Walk(c, u).loop \/ Walk(c, u).hops >= 2) => (Walk(d, u).loop \/ Walk(d, u).hops >= 2)
  BY DEF WalkKept
<1>1. PICK v : Walks(c, u, v)
  BY WalkIs
<1>2. PICK w : Walks(d, u, w)
  BY WalkIs
<1> DEFINE Along(n) == w[n] = v[n] \/ (Ends(c, v[n]) /\ w[n].hops >= v[n].hops)
           Counted == {n \in 0..10 : Along(n)}
<1>3. 0 \in Counted
  BY <1>1, <1>2 DEF Walks
<1>4. ASSUME NEW n \in 1..10, n - 1 \in Counted PROVE n \in Counted
  BY <1>1, <1>2, <1>4, HopGrows DEF Walks
<1>5. 10 \in Counted
  <2>1. Counted \in SUBSET (0..10)
    OBVIOUS
  <2> HIDE DEF Counted
  <2> QED BY <1>3, <1>4, <2>1, Counting
<1>6. Along(10) /\ v[10].hops \in Nat /\ w[10].hops \in Nat
  BY <1>1, <1>2, <1>5 DEF Walks, IsWalk
<1>7. Walk(c, u) = v[10] /\ Walk(d, u) = w[10]
  BY <1>1, <1>2 DEF Walks
<1> QED BY <1>6, <1>7 DEF Ends

-----------------------------------------------------------------------------
(***************************************************************************)
(* What a check reports of what was read it goes on reporting: one step    *)
(* for each detector, from what it asks of a page, of the page found at a  *)
(* URL and of what the project declares.                                   *)
(***************************************************************************)
Widens(f, g) == DOMAIN f = DOMAIN g /\ \A x \in DOMAIN f \ CorpusWide : f[x] \subseteq g[x]

\* The detectors of tech.js, crawl.js, link.js and arch.js.
LEMMA TechGrows ==
  ASSUME NEW c, NEW d, Grows(c, d)
  PROVE  Widens(TechChecks(c), TechChecks(d))
<1>0. Targets(c, d) /\ AtKept(c, d) /\ FirstKept(c, d)
  BY TargetsGrow, AtStays, FirstStays
<1>1. TECH_001(c) \subseteq TECH_001(d)
  BY <1>0 DEF Targets, TECH_001, PageSubjects
<1>2. TECH_002(c) \subseteq TECH_002(d)
  BY <1>0 DEF Targets, TECH_002, PageSubjects, With
<1>3. TECH_003(c) \subseteq TECH_003(d)
  BY <1>0 DEF Grows, Targets, TECH_003, PageSubjects
<1>4. TECH_004(c) \subseteq TECH_004(d)
  BY <1>0 DEF Targets, TECH_004, PageSubjects
<1>5. TECH_005(c) \subseteq TECH_005(d)
  BY <1>0 DEF Targets, AtKept, TECH_005, CanonicalTargetProblem, PageSubjects
<1>6. TECH_006(c) \subseteq TECH_006(d)
  BY <1>0 DEF Targets, AtKept, TECH_006, CanonicalTargetProblem, PageSubjects
<1>7. TECH_007(c) \subseteq TECH_007(d)
  BY <1>0 DEF Targets, AtKept, TECH_007, CanonicalTargetProblem, PageSubjects
<1>8. TECH_008(c) \subseteq TECH_008(d)
  BY <1>0 DEF Grows, AtKept, TECH_008, SitemapEntryProblem
<1>9. TECH_009(c) \subseteq TECH_009(d)
  BY <1>0 DEF Grows, AtKept, TECH_009
<1>10. TECH_010(c) \subseteq TECH_010(d)
  <2>1. ASSUME NEW u \in c.sitemaps, Unresolved(c, u) PROVE u \in d.sitemaps /\ Unresolved(d, u)
    <3>1. CASE At(c, u) # {}
      BY <1>0, <2>1, <3>1 DEF Grows, AtKept, Unresolved
    <3>2. CASE At(c, u) = {} /\ At(d, u) # {}
      <4>1. PICK p \in d.pages : p.url = u
        BY <3>2 DEF At, Latest
      <4>2. c.states[u] = "failed"
        BY <2>1, <3>2 DEF Grows, Unresolved
      <4>3. p \in c.pages
        BY <4>1, <4>2 DEF Grows
      <4>4. At(d, u) = At(c, u)
        BY <4>1, <4>2 DEF Grows, At, Latest
      <4> QED BY <3>2, <4>4
    <3>3. CASE At(c, u) = {} /\ At(d, u) = {}
      BY <2>1, <3>3 DEF Grows, Unresolved
    <3> QED BY <3>1, <3>2, <3>3
  <2> QED BY <2>1 DEF TECH_010
<1>11. TECH_011(c) \subseteq TECH_011(d)
  BY <1>0 DEF Targets, TECH_011, PageSubjects
<1>12. TECH_012(c) \subseteq TECH_012(d)
  BY <1>0 DEF Targets, TECH_012, PageSubjects
<1>13. TECH_013(c) \subseteq TECH_013(d)
  BY <1>0 DEF Targets, TECH_013, PageSubjects
<1>14. TECH_014(c) \subseteq TECH_014(d)
  <2>1. With(Live(c.pages), "not-found wording") \subseteq With(Live(d.pages), "not-found wording")
    <3>1. Live(c.pages) \subseteq Live(d.pages)
      BY <1>0 DEF Targets, Live
    <3> QED BY <3>1 DEF With
  <2> QED BY <2>1 DEF TECH_014, PageSubjects
<1>15. TECH_015(c) \subseteq TECH_015(d)
  BY <1>0 DEF Grows, Targets, TECH_015, Without, Live
<1>16. TECH_016(c) \subseteq TECH_016(d)
  BY DEF Grows, TECH_016
<1>17. TECH_017(c) \subseteq TECH_017(d)
  BY <1>0 DEF Targets, TECH_017, PageSubjects, With
<1>18. TECH_018(c) \subseteq TECH_018(d)
  BY <1>0 DEF Targets, TECH_018, PageSubjects, Without
<1>19. TECH_019(c) \subseteq TECH_019(d)
  BY <1>0 DEF Targets, TECH_019, PageSubjects
<1>20. TECH_020(c) \subseteq TECH_020(d)
  BY <1>0 DEF Targets, AtKept, TECH_020, PageSubjects
<1>21. TECH_021(c) \subseteq TECH_021(d)
  BY <1>0 DEF Targets, TECH_021, PageSubjects
<1>22. TECH_022(c) \subseteq TECH_022(d)
  BY <1>0 DEF Targets, AtKept, TECH_022, PageSubjects
<1>23. TECH_023(c) \subseteq TECH_023(d)
  BY <1>0 DEF Targets, TECH_023, PageSubjects, With
<1>24. TECH_024(c) \subseteq TECH_024(d)
  BY <1>0 DEF Targets, TECH_024, PageSubjects
<1>25. TECH_025(c) \subseteq TECH_025(d)
  BY <1>0 DEF Targets, TECH_025, PageSubjects, With
<1>26. CRAWL_001(c) \subseteq CRAWL_001(d)
  BY DEF Grows, CRAWL_001, Entries, EntrySubject, Active, Deployed
<1>27. CRAWL_002(c) \subseteq CRAWL_002(d)
  BY DEF Grows, CRAWL_002, SearchVendors, TrainingOf, Entries, EntrySubject
<1>28. CRAWL_003(c) \subseteq CRAWL_003(d)
  BY DEF Grows, CRAWL_003
<1>29. CRAWL_004(c) \subseteq CRAWL_004(d)
  BY DEF Grows, CRAWL_004
<1>30. CRAWL_005(c) \subseteq CRAWL_005(d)
  BY DEF Grows, CRAWL_005, Entries, EntrySubject, Active
<1>31. CRAWL_006(c) \subseteq CRAWL_006(d)
  BY DEF Grows, CRAWL_006, Entries, EntrySubject
<1>32. CRAWL_007(c) \subseteq CRAWL_007(d)
  BY DEF Grows, CRAWL_007
<1>33. LINK_002(c) \subseteq LINK_002(d)
  BY <1>0 DEF Targets, AtKept, LINK_002, PageSubjects
<1>34. LINK_003(c) \subseteq LINK_003(d)
  BY <1>0 DEF Targets, LINK_003, PageSubjects
<1>35. LINK_005(c) \subseteq LINK_005(d)
  BY <1>0, WalkGrows DEF Targets, WalkKept, LINK_005, PageSubjects
<1>36. LINK_006(c) \subseteq LINK_006(d)
  BY <1>0 DEF Targets, LINK_006, PageSubjects
<1>37. ARCH_002(c) \subseteq ARCH_002(d)
  BY <1>0 DEF Targets, ARCH_002, PageSubjects
<1>38. ARCH_004(c) \subseteq ARCH_004(d)
  BY DEF Grows, ARCH_004, Active
<1>39. ARCH_005(c) \subseteq ARCH_005(d)
  BY DEF Grows, ARCH_005, Active, EntrySubject
<1>40. ARCH_006(c) \subseteq ARCH_006(d)
  BY <1>0 DEF Grows, Targets, ARCH_006, Active, PageSubjects, SitePageFor
<1> QED BY <1>1, <1>2, <1>3, <1>4, <1>5, <1>6, <1>7, <1>8, <1>9, <1>10, <1>11, <1>12, <1>13, <1>14,
       <1>15, <1>16, <1>17, <1>18, <1>19, <1>20, <1>21, <1>22, <1>23, <1>24, <1>25, <1>26, <1>27,
       <1>28, <1>29, <1>30, <1>31, <1>32, <1>33, <1>34, <1>35, <1>36, <1>37, <1>38, <1>39,
       <1>40 DEF TechChecks, Widens, CorpusWide

\* The detectors of page.js, entity.js, claim.js and evd.js.
LEMMA ContentGrows ==
  ASSUME NEW c, NEW d, Grows(c, d)
  PROVE  Widens(ContentChecks(c), ContentChecks(d))
<1>0. Targets(c, d) /\ AtKept(c, d) /\ FirstKept(c, d)
  BY TargetsGrow, AtStays, FirstStays
<1>1. PAGE_001(c) \subseteq PAGE_001(d)
  BY <1>0 DEF Targets, PAGE_001, PageSubjects
<1>2. PAGE_002(c) \subseteq PAGE_002(d)
  BY <1>0 DEF Targets, PAGE_002, Shared
<1>3. PAGE_003(c) \subseteq PAGE_003(d)
  BY <1>0 DEF Targets, PAGE_003, PageSubjects
<1>4. PAGE_004(c) \subseteq PAGE_004(d)
  BY <1>0 DEF Targets, PAGE_004, Shared
<1>5. PAGE_005(c) \subseteq PAGE_005(d)
  BY <1>0 DEF Targets, PAGE_005, PageSubjects
<1>6. PAGE_006(c) \subseteq PAGE_006(d)
  BY <1>0 DEF Targets, PAGE_006, PageSubjects
<1>7. PAGE_007(c) \subseteq PAGE_007(d)
  BY <1>0 DEF Targets, PAGE_007, PageSubjects, With
<1>8. PAGE_008(c) \subseteq PAGE_008(d)
  BY <1>0 DEF Targets, PAGE_008, PageSubjects
<1>9. PAGE_009(c) \subseteq PAGE_009(d)
  BY <1>0 DEF Targets, PAGE_009, PageSubjects, With
<1>10. PAGE_010(c) \subseteq PAGE_010(d)
  BY <1>0 DEF Targets, PAGE_010, PageSubjects
<1>11. PAGE_011(c) \subseteq PAGE_011(d)
  BY <1>0 DEF Grows, Targets, PAGE_011, PageSubjects, OpenClaims
<1>12. ENTITY_001(c) \subseteq ENTITY_001(d)
  BY DEF Grows, ENTITY_001, Entries, EntrySubject, Without, Active
<1>13. ENTITY_002(c) \subseteq ENTITY_002(d)
  <2> DEFINE Of(r, p) == 
           LET entities == {e \in r.entities : e.type \in {"organization", "product",
       "product_family"}}
               misnamed(b) == /\ b.type \in NamingTypes /\ b.name # ""
                              /\ \A e \in entities : b.name \notin e.names
                              /\ \E e \in entities : b.name \in e.near
           IN {SchemaSubject(p, b.name) : b \in {b \in p.schema : misnamed(b)}}
  <2>1. \A e : ENTITY_002(e) = UNION {Of(e.registries, p) : p \in e.pages}
    BY DEF ENTITY_002
  <2> HIDE DEF Of
  <2> QED BY <1>0, <2>1 DEF Grows, Targets
<1>14. ENTITY_003(c) \subseteq ENTITY_003(d)
  <2>1. Blocks(c) \subseteq Blocks(d)
    BY <1>0 DEF Targets, Blocks
  <2> QED BY <2>1 DEF ENTITY_003
<1>15. ENTITY_004(c) \subseteq ENTITY_004(d)
  <2> DEFINE Of(r, p) == {SchemaSubject(p, "sameAs") : b \in {b \in p.schema : b.name # "" /\
           \E e \in {e \in r.entities : b.name \in e.names} : ~ b.sameAs \subseteq e.profiles}}
  <2>1. \A e : ENTITY_004(e) = UNION {Of(e.registries, p) : p \in e.pages}
    BY DEF ENTITY_004, Named
  <2> HIDE DEF Of
  <2> QED BY <1>0, <2>1 DEF Grows, Targets
<1>16. ENTITY_005(c) \subseteq ENTITY_005(d)
  BY DEF Grows, ENTITY_005, Entries, EntrySubject, Without, Active
<1>17. ENTITY_006(c) \subseteq ENTITY_006(d)
  BY <1>0 DEF Grows, Targets, ENTITY_006, PageSubjects
<1>18. ENTITY_007(c) \subseteq ENTITY_007(d)
  BY DEF Grows, ENTITY_007, Entries, EntrySubject, Without
<1>19. CLAIM_001(c) \subseteq CLAIM_001(d)
  BY DEF Grows, CLAIM_001, Entries, EntrySubject, VerifiedClaims
<1>20. CLAIM_002(c) \subseteq CLAIM_002(d)
  BY DEF Grows, CLAIM_002, Entries, EntrySubject, VerifiedClaims, EvidenceOf
<1>21. CLAIM_003(c) \subseteq CLAIM_003(d)
  BY DEF Grows, CLAIM_003, Entries, EntrySubject, With, OpenClaims
<1>22. CLAIM_004(c) \subseteq CLAIM_004(d)
  BY DEF Grows, CLAIM_004, Entries, EntrySubject, OpenClaims
<1>23. CLAIM_005(c) \subseteq CLAIM_005(d)
  BY DEF Grows, CLAIM_005, Entries, EntrySubject, VerifiedClaims
<1>24. CLAIM_006(c) \subseteq CLAIM_006(d)
  BY DEF Grows, CLAIM_006, Entries, EntrySubject, Without
<1>25. CLAIM_007(c) \subseteq CLAIM_007(d)
  BY <1>0 DEF Grows, Targets, CLAIM_007, PageSubjects, With
<1>26. CLAIM_008(c) \subseteq CLAIM_008(d)
  <2>1. ASSUME NEW s PROVE First({q \in c.pages : OnSurface(q,
       s)}) \subseteq First({q \in d.pages : OnSurface(q, s)})
    <3> DEFINE T == {q \in d.pages : OnSurface(q, s)}
    <3>1. {q \in c.pages : OnSurface(q, s)} = T \cap c.pages
      BY <1>0 DEF Targets
    <3> QED BY <1>0, <3>1 DEF FirstKept
  <2>2. d.registries = c.registries
    BY DEF Grows
  <2>3. Without(d.registries.claims, "few keywords") = Without(c.registries.claims, "few keywords")
    BY <2>2
  <2> QED BY <2>1, <2>3 DEF CLAIM_008, Entries
<1>27. CLAIM_009(c) \subseteq CLAIM_009(d)
  BY DEF Grows, CLAIM_009, Entries, EntrySubject, Without, VerifiedClaims
<1>28. EVD_001(c) \subseteq EVD_001(d)
  BY DEF Grows, EVD_001, Entries, EntrySubject, With
<1>29. EVD_002(c) \subseteq EVD_002(d)
  BY DEF Grows, EVD_002, Entries, EntrySubject
<1>30. EVD_003(c) \subseteq EVD_003(d)
  BY DEF Grows, EVD_003, Entries, EntrySubject, EvidenceOf
<1>31. EVD_004(c) \subseteq EVD_004(d)
  BY DEF Grows, EVD_004, Entries, EntrySubject, With
<1>32. EVD_005(c) \subseteq EVD_005(d)
  BY DEF Grows, EVD_005, Entries, EntrySubject
<1>33. EVD_006(c) \subseteq EVD_006(d)
  BY DEF Grows, EVD_006, Entries, EntrySubject, Without
<1>34. EVD_007(c) \subseteq EVD_007(d)
  BY DEF Grows, EVD_007, Entries, EntrySubject, OpenClaims
<1>35. EVD_009(c) \subseteq EVD_009(d)
  BY DEF Grows, EVD_009, Entries, EntrySubject, Without, With
<1> QED BY <1>1, <1>2, <1>3, <1>4, <1>5, <1>6, <1>7, <1>8, <1>9, <1>10, <1>11, <1>12, <1>13, <1>14,
       <1>15, <1>16, <1>17, <1>18, <1>19, <1>20, <1>21, <1>22, <1>23, <1>24, <1>25, <1>26, <1>27,
       <1>28, <1>29, <1>30, <1>31, <1>32, <1>33, <1>34, <1>35 DEF ContentChecks, Widens, CorpusWide

\* The detectors of ans.js, geoReco.js and lifeMeas.js.
LEMMA AnswersGrow ==
  ASSUME NEW c, NEW d, Grows(c, d)
  PROVE  Widens(AnswerChecks(c), AnswerChecks(d))
<1>0. Targets(c, d) /\ AtKept(c, d) /\ FirstKept(c, d)
  BY TargetsGrow, AtStays, FirstStays
<1>1. \A types : Registered(c, types) \subseteq Registered(d, types)
  BY <1>0 DEF Targets, Registered
<1>2. ANS_001(c) \subseteq ANS_001(d)
  BY <1>0 DEF Targets, ANS_001, PageSubjects
<1>3. ANS_002(c) \subseteq ANS_002(d)
  BY <1>0 DEF Targets, ANS_002, PageSubjects, SomeSection
<1>4. ANS_003(c) \subseteq ANS_003(d)
  BY <1>0 DEF Targets, ANS_003, PageSubjects
<1>5. ANS_004(c) \subseteq ANS_004(d)
  BY <1>0 DEF Targets, ANS_004, PageSubjects, SomePassage
<1>6. ANS_005(c) \subseteq ANS_005(d)
  BY <1>0 DEF Targets, ANS_005, PageSubjects, SomePassage
<1>7. ANS_006(c) \subseteq ANS_006(d)
  BY <1>1 DEF ANS_006, PageSubjects, Live
<1>8. ANS_007(c) \subseteq ANS_007(d)
  BY <1>1 DEF ANS_007, PageSubjects, Live
<1>9. ANS_008(c) \subseteq ANS_008(d)
  BY <1>1 DEF ANS_008, PageSubjects, Without, Live
<1>10. ANS_009(c) \subseteq ANS_009(d)
  BY <1>0 DEF Targets, ANS_009, PageSubjects
<1>11. ANS_010(c) \subseteq ANS_010(d)
  BY <1>0 DEF Targets, ANS_010, PageSubjects
<1>12. ANS_011(c) \subseteq ANS_011(d)
  BY <1>0 DEF Targets, ANS_011, PageSubjects, SomeSection
<1>13. ANS_012(c) \subseteq ANS_012(d)
  BY <1>0 DEF Targets, ANS_012, PageSubjects, SomePassage
<1>14. ANS_013(c) \subseteq ANS_013(d)
  BY <1>0 DEF Targets, ANS_013, PageSubjects, SomeSection
<1>15. ANS_014(c) \subseteq ANS_014(d)
  BY <1>0 DEF Targets, ANS_014, PageSubjects, SomePassage
<1>16. ANS_015(c) \subseteq ANS_015(d)
  BY <1>0 DEF Targets, ANS_015, PageSubjects, Registered
<1>17. ANS_016(c) \subseteq ANS_016(d)
  <2>1. Without(LiveTargets(c), "summary heading") \subseteq Without(LiveTargets(d), "summary heading")
    BY <1>0 DEF Targets, Without
  <2> DEFINE Long(p) == (IF p.rawWords = 0 THEN p.words ELSE p.rawWords) >= 1200
  <2>2. \A e : ANS_016(e) = PageSubjects({p \in Without(LiveTargets(e), "summary heading") : Long(p)})
    BY DEF ANS_016
  <2> HIDE DEF Long
  <2> QED BY <2>1, <2>2 DEF PageSubjects
<1>18. EXT_001(c) \subseteq EXT_001(d)
  BY DEF Grows, EXT_001, Entries, EntrySubject, OwnSource
<1>19. EXT_002(c) \subseteq EXT_002(d)
  BY DEF Grows, EXT_002, Entries, EntrySubject
<1>20. GEO_001(c) \subseteq GEO_001(d)
  BY <1>0 DEF Targets, GEO_001, PageSubjects, With
<1>21. GEO_002(c) \subseteq GEO_002(d)
  BY DEF Grows, GEO_002, Entries, EntrySubject, Unretired
<1>22. GEO_003(c) \subseteq GEO_003(d)
  <2>1. \A e : CategoryPages(c, e) \subseteq CategoryPages(d, e)
    <3> SUFFICES ASSUME NEW e, NEW p \in CategoryPages(c, e) PROVE p \in CategoryPages(d, e)
      OBVIOUS
    <3>1. d.registries = c.registries /\ c.pages \subseteq d.pages
      BY DEF Grows
    <3>2. PICK r \in {r \in Unretired(c.registries.pages) : r.type = "category" /\ e.category \in r.entities} :
            p \in SitePageFor(c, r)
      BY DEF CategoryPages
    <3>3. p \in SitePageFor(d, r)
      BY <3>1, <3>2 DEF SitePageFor
    <3> QED BY <3>1, <3>2, <3>3 DEF CategoryPages
  <2>2. d.registries = c.registries
    BY DEF Grows
  <2> QED BY <2>1, <2>2 DEF GEO_003, Entries
<1>23. GEO_004(c) \subseteq GEO_004(d)
  BY <1>0 DEF Targets, GEO_004, With
<1>24. GEO_005(c) \subseteq GEO_005(d)
  BY <1>0 DEF Targets, GEO_005, PageSubjects
<1>25. GEO_006(c) \subseteq GEO_006(d)
  BY DEF Grows, GEO_006, Entries, EntrySubject
<1>26. GEO_007(c) \subseteq GEO_007(d)
  BY DEF Grows, GEO_007, Entries, EntrySubject, Entities, Unretired, Unfavorable, With, Answered
<1>27. GEO_008(c) \subseteq GEO_008(d)
  BY DEF Grows, GEO_008, Entities, Unretired, Answered, With, EntrySubject
<1>28. GEO_009(c) \subseteq GEO_009(d)
  BY DEF Grows, GEO_009, EntrySubject, Probes
<1>29. GEO_010(c) \subseteq GEO_010(d)
  BY DEF Grows, GEO_010, Entities, Unretired, EntrySubject
<1>30. GEO_011(c) \subseteq GEO_011(d)
  BY <1>0 DEF Targets, GEO_011, PageSubjects
<1>31. GEO_012(c) \subseteq GEO_012(d)
  BY <1>0 DEF Targets, GEO_012, PageSubjects, With
<1>32. GEO_013(c) \subseteq GEO_013(d)
  BY DEF Grows, GEO_013, EntrySubject
<1>33. RECO_001(c) \subseteq RECO_001(d)
  BY <1>1 DEF RECO_001, Recommendation, PageSubjects, Without, Live
<1>34. RECO_002(c) \subseteq RECO_002(d)
  BY <1>1 DEF RECO_002, Recommendation, PageSubjects, Without, Live
<1>35. RECO_003(c) \subseteq RECO_003(d)
  BY <1>1 DEF RECO_003, Recommendation, PageSubjects, Without, Live
<1>36. RECO_004(c) \subseteq RECO_004(d)
  BY <1>1 DEF RECO_004, Recommendation, PageSubjects, Without, Live
<1>37. RECO_005(c) \subseteq RECO_005(d)
  BY <1>1 DEF RECO_005, Recommendation, PageSubjects, Without, Live
<1>38. RECO_006(c) \subseteq RECO_006(d)
  BY <1>1 DEF RECO_006, Recommendation, PageSubjects, Without, Live
<1>39. LIFE_001(c) \subseteq LIFE_001(d)
  BY DEF Grows, LIFE_001, Entries, EntrySubject, Without, ActivePages
<1>40. LIFE_002(c) \subseteq LIFE_002(d)
  BY DEF Grows, LIFE_002, Entries, EntrySubject, Without, With, ActivePages
<1>41. LIFE_003(c) \subseteq LIFE_003(d)
  BY DEF Grows, LIFE_003, Entries, EntrySubject, With, ActivePages
<1>42. LIFE_004(c) \subseteq LIFE_004(d)
  BY DEF Grows, LIFE_004, Entries, EntrySubject, Without, ActivePages
<1>43. LIFE_005(c) \subseteq LIFE_005(d)
  BY DEF Grows, LIFE_005, Entries, EntrySubject, Without, ActivePages
<1>44. LIFE_006(c) \subseteq LIFE_006(d)
  BY <1>0 DEF Grows, Targets, LIFE_006, PageSubjects
<1>45. MEAS_001(c) \subseteq MEAS_001(d)
  BY DEF Grows, MEAS_001
<1>46. MEAS_002(c) \subseteq MEAS_002(d)
  BY DEF Grows, MEAS_002, Entries, EntrySubject
<1>47. MEAS_003(c) \subseteq MEAS_003(d)
  BY DEF Grows, MEAS_003, Entries, EntrySubject
<1> QED BY <1>1, <1>2, <1>3, <1>4, <1>5, <1>6, <1>7, <1>8, <1>9, <1>10, <1>11, <1>12, <1>13, <1>14,
       <1>15, <1>16, <1>17, <1>18, <1>19, <1>20, <1>21, <1>22, <1>23, <1>24, <1>25, <1>26, <1>27,
       <1>28, <1>29, <1>30, <1>31, <1>32, <1>33, <1>34, <1>35, <1>36, <1>37, <1>38, <1>39, <1>40,
       <1>41, <1>42, <1>43, <1>44, <1>45, <1>46, <1>47 DEF AnswerChecks, Widens, CorpusWide

\* The detectors of schemaData.js.
LEMMA SchemaGrows ==
  ASSUME NEW c, NEW d, Grows(c, d)
  PROVE  Widens(SchemaChecks(c), SchemaChecks(d))
<1>0. Targets(c, d) /\ AtKept(c, d) /\ FirstKept(c, d)
  BY TargetsGrow, AtStays, FirstStays
<1>1. SCHEMA_001(c) \subseteq SCHEMA_001(d)
  BY <1>0 DEF Targets, SCHEMA_001, With
<1>2. SCHEMA_002(c) \subseteq SCHEMA_002(d)
  <2> DEFINE Of(p) == {SchemaSubject(p, b.type) : b \in {b \in p.schema :
           b.type \in Article \cup {"WebPage"} /\ "headline" \in b.has /\ "visible headline" \notin b.has}}
  <2>1. \A e : SCHEMA_002(e) = UNION {Of(p) : p \in IndexTargets(e)}
    BY DEF SCHEMA_002, Typed
  <2> HIDE DEF Of
  <2> QED BY <1>0, <2>1 DEF Targets
<1>3. SCHEMA_003(c) \subseteq SCHEMA_003(d)
  BY <1>0 DEF Targets, SCHEMA_003, BlockSubjects
<1>4. SCHEMA_004(c) \subseteq SCHEMA_004(d)
  BY <1>0 DEF Grows, Targets, SCHEMA_004, BlockSubjects
<1>5. SCHEMA_005(c) \subseteq SCHEMA_005(d)
  BY <1>0 DEF Targets, SCHEMA_005, BlockSubjects, Without
<1>6. SCHEMA_006(c) \subseteq SCHEMA_006(d)
  BY <1>0 DEF Targets, SCHEMA_006, BlockSubjects
<1>7. SCHEMA_007(c) \subseteq SCHEMA_007(d)
  BY <1>0 DEF Targets, SCHEMA_007, BlockSubjects
<1>8. SCHEMA_008(c) \subseteq SCHEMA_008(d)
  BY <1>0 DEF Targets, SCHEMA_008
<1>9. SCHEMA_009(c) \subseteq SCHEMA_009(d)
  BY <1>0 DEF Targets, SCHEMA_009
<1>10. SCHEMA_011(c) \subseteq SCHEMA_011(d)
  BY <1>0 DEF Targets, SCHEMA_011, Typed
<1>11. SCHEMA_012(c) \subseteq SCHEMA_012(d)
  BY <1>0 DEF Targets, SCHEMA_012, BlockSubjects
<1>12. SCHEMA_013(c) \subseteq SCHEMA_013(d)
  <2> DEFINE Of(p) == {SchemaSubject(p, b.type) : b \in {b \in p.schema :
           b.type \in {"VideoObject"} /\ 
           (b.name = "" \/ ~ {"description", "uploadDate", "thumbnail",
       "content"} \subseteq b.has)}}
  <2>1. \A e : SCHEMA_013(e) = UNION {Of(p) : p \in IndexTargets(e)}
    BY DEF SCHEMA_013, Typed
  <2> HIDE DEF Of
  <2> QED BY <1>0, <2>1 DEF Targets
<1>13. SCHEMA_014(c) \subseteq SCHEMA_014(d)
  <2> DEFINE Of(p) == {SchemaSubject(p, b.type) : b \in {b \in p.schema :
           b.type \in Organization \cup {"LocalBusiness"} /\ 
           Cardinality({f \in {"url", "logo", "anchor"} : f \notin b.has}
                         \cup (IF b.name = "" THEN {"name"} ELSE {})) >= 2}}
  <2>1. \A e : SCHEMA_014(e) = UNION {Of(p) : p \in IndexTargets(e)}
    BY DEF SCHEMA_014, Typed
  <2> HIDE DEF Of
  <2> QED BY <1>0, <2>1 DEF Targets
<1>14. SCHEMA_015(c) \subseteq SCHEMA_015(d)
  <2> DEFINE Of(p) == {SchemaSubject(p, b.id) : b \in {b \in p.schema : b.id # "" /\ b.id \in b.refs}}
  <2>1. \A e : SCHEMA_015(e) = UNION {Of(p) : p \in IndexTargets(e)}
    BY DEF SCHEMA_015
  <2> HIDE DEF Of
  <2> QED BY <1>0, <2>1 DEF Targets
<1>15. SCHEMA_016(c) \subseteq SCHEMA_016(d)
  <2> DEFINE Of(p) == {SchemaSubject(p, b.type) : b \in {b \in p.schema :
                         b.type \in Article \cup {"Review"} /\ "author without profile" \in b.has}}
  <2>1. \A e : SCHEMA_016(e) = UNION {Of(p) : p \in IndexTargets(e)}
    BY DEF SCHEMA_016, Typed
  <2> HIDE DEF Of
  <2> QED BY <1>0, <2>1 DEF Targets
<1> QED BY <1>1, <1>2, <1>3, <1>4, <1>5, <1>6, <1>7, <1>8, <1>9, <1>10, <1>11, <1>12, <1>13, <1>14,
       <1>15 DEF SchemaChecks, Widens, CorpusWide

\* The detectors of agent.js.
LEMMA AgentGrows ==
  ASSUME NEW c, NEW d, Grows(c, d)
  PROVE  Widens(AgentChecks(c), AgentChecks(d))
<1>0. Targets(c, d) /\ AtKept(c, d) /\ FirstKept(c, d)
  BY TargetsGrow, AtStays, FirstStays
<1>1. AGENT_001(c) \subseteq AGENT_001(d)
  BY DEF AGENT_001, RobotsText
<1>2. AGENT_004(c) \subseteq AGENT_004(d)
  BY DEF AGENT_004, Somewhere, PathOf
<1>3. AGENT_005(c) \subseteq AGENT_005(d)
  BY DEF AGENT_005, Somewhere, PathOf
<1>4. AGENT_007(c) \subseteq AGENT_007(d)
  BY <1>0 DEF Targets, FirstKept, AGENT_007, RobotsText, HomeWithout, Homepage
<1>5. AGENT_008(c) \subseteq AGENT_008(d)
  BY DEF AGENT_008, StructuredData
<1>6. AGENT_009(c) \subseteq AGENT_009(d)
  BY DEF AGENT_009, Somewhere, PathOf
<1>7. AGENT_010(c) \subseteq AGENT_010(d)
  BY DEF AGENT_010, Somewhere, PathOf
<1>8. AGENT_014(c) \subseteq AGENT_014(d)
  BY <1>0 DEF Targets, AGENT_014, EntrySubject, WebTools
<1>9. AGENT_015(c) \subseteq AGENT_015(d)
  BY <1>0 DEF Targets, AGENT_015, PageSubjects
<1>10. AGENT_016(c) \subseteq AGENT_016(d)
  BY <1>0 DEF Targets, AGENT_016, PageSubjects
<1> QED BY <1>1, <1>2, <1>3, <1>4, <1>5, <1>6, <1>7, <1>8, <1>9, <1>10 DEF AgentChecks, Widens,
       CorpusWide

\* The detectors of cro.js and cwv.js.
LEMMA CroGrows ==
  ASSUME NEW c, NEW d, Grows(c, d)
  PROVE  Widens(CroChecks(c), CroChecks(d))
<1>0. Targets(c, d) /\ AtKept(c, d) /\ FirstKept(c, d)
  BY TargetsGrow, AtStays, FirstStays
<1>1. CRO_001(c) \subseteq CRO_001(d)
  BY <1>0 DEF Targets, CRO_001, PageSubjects
<1>2. CRO_002(c) \subseteq CRO_002(d)
  BY <1>0 DEF Targets, CRO_002, PageSubjects
<1>3. CRO_003(c) \subseteq CRO_003(d)
  BY <1>0 DEF Targets, CRO_003, PageSubjects, Declared
<1>4. CRO_004(c) \subseteq CRO_004(d)
  BY <1>0 DEF Targets, AtKept, CRO_004, PageSubjects
<1>5. CRO_005(c) \subseteq CRO_005(d)
  <2>1. Live(IndexTargets(c)) \subseteq Live(IndexTargets(d))
    BY <1>0 DEF Targets, Live
  <2>2. \A p, types : Declared(c, p, types) <=> Declared(d, p, types)
    BY <1>0 DEF Targets, Declared
  <2> QED BY <2>1, <2>2 DEF CRO_005, PageSubjects
<1>6. CRO_006(c) \subseteq CRO_006(d)
  BY <1>0 DEF Targets, CRO_006, PageSubjects, Without
<1>7. CRO_007(c) \subseteq CRO_007(d)
  BY <1>0 DEF Targets, CRO_007, PageSubjects
<1>8. CRO_008(c) \subseteq CRO_008(d)
  BY <1>0 DEF Targets, CRO_008, PageSubjects
<1>9. CRO_009(c) \subseteq CRO_009(d)
  BY <1>0 DEF Targets, CRO_009, PageSubjects
<1>10. CRO_010(c) \subseteq CRO_010(d)
  BY <1>0 DEF Targets, CRO_010, PageSubjects, Live, CommercialPages, Declared
<1>11. CRO_011(c) \subseteq CRO_011(d)
  BY <1>0 DEF Targets, CRO_011, PageSubjects, Live, CommercialPages, Declared
<1>12. CRO_012(c) \subseteq CRO_012(d)
  BY <1>0 DEF Targets, CRO_012, PageSubjects, Live, CommercialPages, Declared, With
<1>13. CRO_013(c) \subseteq CRO_013(d)
  BY <1>0 DEF Targets, CRO_013, PageSubjects
<1>14. CRO_014(c) \subseteq CRO_014(d)
  BY <1>0 DEF Targets, CRO_014, PageSubjects, Without, Live
<1>15. CRO_015(c) \subseteq CRO_015(d)
  BY <1>0 DEF Targets, CRO_015, PageSubjects
<1>16. CRO_016(c) \subseteq CRO_016(d)
  BY <1>0 DEF Targets, CRO_016, PageSubjects, With
<1>17. CRO_018(c) \subseteq CRO_018(d)
  <2>1. ASSUME NEW s
        PROVE  First({q \in c.pages : q.url.path \in s.pattern})
               \subseteq First({q \in d.pages : q.url.path \in s.pattern})
    <3> DEFINE T == {q \in d.pages : q.url.path \in s.pattern}
    <3>1. {q \in c.pages : q.url.path \in s.pattern} = T \cap c.pages
      BY <1>0 DEF Targets
    <3> QED BY <1>0, <3>1 DEF FirstKept
  <2>2. \A s : StepPage(c, s) \subseteq StepPage(d, s)
    BY <2>1 DEF StepPage
  <2>3. ActiveFunnels(d) = ActiveFunnels(c) /\ c.pages \subseteq d.pages
    BY DEF Grows, ActiveFunnels
  <2> QED BY <2>2, <2>3 DEF CRO_018, PageSubjects
<1>18. CRO_019(c) \subseteq CRO_019(d)
  <2>1. ASSUME NEW o PROVE First({q \in c.pages : Cites(o,
       q)}) \subseteq First({q \in d.pages : Cites(o, q)})
    <3> DEFINE T == {q \in d.pages : Cites(o, q)}
    <3>1. {q \in c.pages : Cites(o, q)} = T \cap c.pages
      BY <1>0 DEF Targets
    <3> QED BY <1>0, <3>1 DEF FirstKept
  <2>2. d.observations = c.observations /\ c.pages \subseteq d.pages
    BY DEF Grows
  <2> QED BY <2>1, <2>2 DEF CRO_019, PageSubjects
<1>19. CRO_020(c) \subseteq CRO_020(d)
  BY DEF Grows, CRO_020, Entries, EntrySubject
<1>20. CRO_021(c) \subseteq CRO_021(d)
  BY <1>0 DEF Targets, CRO_021, PageSubjects, Without, Declared
<1>21. CWV_004(c) \subseteq CWV_004(d)
  BY <1>0 DEF Targets, CWV_004, PageSubjects
<1> QED BY <1>1, <1>2, <1>3, <1>4, <1>5, <1>6, <1>7, <1>8, <1>9, <1>10, <1>11, <1>12, <1>13, <1>14,
       <1>15, <1>16, <1>17, <1>18, <1>19, <1>20, <1>21 DEF CroChecks, Widens, CorpusWide

LEMMA JoinedWidens ==
  ASSUME NEW f, NEW f2, NEW g, NEW g2, Widens(f, f2), Widens(g, g2)
  PROVE  Widens(Joined(f, g), Joined(f2, g2))
<1>1. DOMAIN Joined(f, g) = DOMAIN Joined(f2, g2)
  BY DEF Joined, Widens
<1>2. ASSUME NEW x \in DOMAIN Joined(f, g) \ CorpusWide PROVE Joined(f, g)[x] \subseteq Joined(f2, g2)[x]
  BY DEF Joined, Widens
<1> QED BY <1>1, <1>2 DEF Widens

LEMMA ChecksGrow ==
  ASSUME NEW c, NEW d, Grows(c, d)
  PROVE  Widens(Checks(c), Checks(d))
<1>1. Widens(TechChecks(c), TechChecks(d)) /\ Widens(ContentChecks(c), ContentChecks(d))
  BY TechGrows, ContentGrows
<1>2. Widens(AnswerChecks(c), AnswerChecks(d)) /\ Widens(SchemaChecks(c), SchemaChecks(d))
  BY AnswersGrow, SchemaGrows
<1>3. Widens(AgentChecks(c), AgentChecks(d)) /\ Widens(CroChecks(c), CroChecks(d))
  BY AgentGrows, CroGrows
<1>4. Widens(Joined(TechChecks(c), ContentChecks(c)), Joined(TechChecks(d), ContentChecks(d)))
  BY <1>1, JoinedWidens
<1>5. Widens(Joined(AnswerChecks(c), SchemaChecks(c)), Joined(AnswerChecks(d), SchemaChecks(d)))
  BY <1>2, JoinedWidens
<1>6. Widens(Joined(AgentChecks(c), CroChecks(c)), Joined(AgentChecks(d), CroChecks(d)))
  BY <1>3, JoinedWidens
<1> QED BY <1>4, <1>5, <1>6, JoinedWidens DEF Checks

\* A site that looks like a shop or a service goes on looking like one.
LEMMA ApplicableGrows ==
  ASSUME NEW c, NEW d, Grows(c, d), NEW x, Applicable(x, c)
  PROVE  Applicable(x, d)
<1>1. c.pages \subseteq d.pages
  BY DEF Grows
<1> QED BY <1>1 DEF Applicable, Profile

\* A finding is left out after a retrieval only for what that retrieval met.
LEMMA HitsKept ==
  ASSUME NEW c, NEW d, Grows(c, d),
         NEW x \in DOMAIN Findings(c) \ CorpusWide, NEW s \in Findings(c)[x] \ Findings(d)[x]
  PROVE  \/ \E u \in d.errors \ c.errors : PartOf(Ident(s), u)
         \/ AsPage(s) /\ \E p \in d.pages \ c.pages : p.url = s.url /\ FailedOn(p)
<1>1. x \in DOMAIN Checks(c) /\ s \in Checks(c)[x] /\ Applicable(x, c) /\ ~RetrievalFailed(c, s)
  BY DEF Findings
<1>2. x \in DOMAIN Checks(d) /\ s \in Checks(d)[x]
  BY <1>1, ChecksGrow DEF Widens
<1>3. Applicable(x, d)
  BY <1>1, ApplicableGrows
<1>4. RetrievalFailed(d, s)
  BY <1>2, <1>3 DEF Findings
<1>5. CASE \E u \in d.errors : PartOf(Ident(s), u)
  BY <1>1, <1>5 DEF RetrievalFailed
<1>6. CASE AsPage(s) /\ \E p \in First({p \in d.pages : p.url = s.url}) : FailedOn(p)
  <2>1. PICK p \in First({q \in d.pages : q.url = s.url}) : FailedOn(p)
    BY <1>6
  <2>2. p \in d.pages /\ p.url = s.url /\ \A q \in d.pages : q.url = s.url => p.n <= q.n
    BY <2>1 DEF First
  <2>3. ASSUME p \in c.pages PROVE FALSE
    <3>1. p \in First({q \in c.pages : q.url = s.url})
      BY <2>2, <2>3 DEF First, Grows
    <3> QED BY <1>1, <1>6, <2>1, <3>1 DEF RetrievalFailed
  <2> QED BY <1>6, <2>1, <2>2, <2>3
<1> QED BY <1>4, <1>5, <1>6 DEF RetrievalFailed

-----------------------------------------------------------------------------
(***************************************************************************)
(* The frontier.                                                           *)
(***************************************************************************)
Lists(W) == {s \in Seq(W) : \A i, j \in DOMAIN s : s[i] = s[j] => i = j}

\* A list of distinct URLs with one that is not in it put at its end.
LEMMA AppendNew ==
  ASSUME NEW W, NEW s \in Lists(W), NEW x \in W \ ToSet(s)
  PROVE  Append(s, x) \in Lists(W)
<1> DEFINE t == Append(s, x)
<1>1. t \in Seq(W) /\ Len(t) = Len(s) + 1 /\ t[Len(s) + 1] = x /\ \A i \in 1..Len(s) : t[i] = s[i]
  BY DEF Lists
<1>2. \A i \in 1..Len(s) : s[i] # x
  BY DEF Lists, ToSet
<1>3. \A i, j \in 1..Len(s) : s[i] = s[j] => i = j
  BY DEF Lists
<1> HIDE DEF t
<1>4. \A i, j \in DOMAIN t : t[i] = t[j] => i = j
  BY <1>1, <1>2, <1>3 DEF Lists
<1> QED BY <1>1, <1>4 DEF Lists, t

LEMMA DistinctIs ==
  ASSUME NEW candidates, Len(candidates) \in Nat, NEW wanted
  PROVE  Distinct(candidates, wanted) \in Lists(wanted)
<1> DEFINE N == Len(candidates)
           A == Lists(wanted)
           More(n, s) == IF candidates[n] \in wanted \ ToSet(s) THEN Append(s, candidates[n]) ELSE s
           f == [n \in 1..N |-> [s \in A |-> More(n, s)]]
           found == CHOOSE found : found = [i \in 0..Len(candidates) |->
                      IF i = 0 THEN << >>
                      ELSE IF candidates[i] \in wanted \ ToSet(found[i - 1])
                           THEN Append(found[i - 1], candidates[i]) ELSE found[i - 1]]
<1>1. Distinct(candidates, wanted) = found[N]
  BY Zenon DEF Distinct
<1>2. << >> \in A
  BY DEF Lists
<1>3. ASSUME NEW n \in 1..N, NEW s \in A PROVE More(n, s) \in A
  BY AppendNew
<1> HIDE DEF A
<1>4. \E it : it = [i \in 0..N |-> IF i = 0 THEN << >> ELSE More(i, it[i - 1])]
  <2>1. \A n \in 1..N, s \in A : f[n][s] = More(n, s) /\ f[n][s] \in A
    BY <1>3
  <2> HIDE DEF f, More, N
  <2>2. N \in Nat
    BY DEF N
  <2>3. PICK it : Builds(it, N, A, << >>, f)
    BY <1>2, <2>1, <2>2, BuildsUp
  <2>4. \A n \in 0..N : (IF n = 0 THEN << >> ELSE f[n][it[n - 1]])
                        = (IF n = 0 THEN << >> ELSE More(n, it[n - 1]))
    BY <2>1, <2>2, <2>3 DEF Builds
  <2>5. [i \in 0..N |-> IF i = 0 THEN << >> ELSE f[i][it[i - 1]]]
        = [i \in 0..N |-> IF i = 0 THEN << >> ELSE More(i, it[i - 1])]
    BY <2>4
  <2>6. it = [i \in 0..N |-> IF i = 0 THEN << >> ELSE f[i][it[i - 1]]]
    BY <2>3, Zenon DEF Builds
  <2> QED BY <2>5, <2>6, Zenon
<1>5. found = [i \in 0..N |-> IF i = 0 THEN << >> ELSE More(i, found[i - 1])]
  BY <1>4
<1> HIDE DEF found, More
<1>6. N \in 0..N
  OBVIOUS
<1> DEFINE Counted == {n \in 0..N : found[n] \in A}
<1>7. 0 \in Counted
  BY <1>2, <1>5
<1>8. ASSUME NEW n \in 1..N, n - 1 \in Counted PROVE n \in Counted
  <2>1. found[n] = More(n, found[n - 1])
    BY <1>5
  <2> QED BY <1>3, <1>8, <2>1
<1>9. N \in Counted
  <2>1. Counted \in SUBSET (0..N)
    OBVIOUS
  <2> HIDE DEF Counted
  <2> QED BY <1>6, <1>7, <1>8, <2>1, Counting
<1> QED BY <1>1, <1>9 DEF A

\* What is queued is distinct, of the site and was unknown before.
LEMMA EnqueueIs ==
  ASSUME NEW known, NEW candidates, Len(candidates) \in Nat
  PROVE  /\ Enqueue(known, candidates) \in Lists(Urls)
         /\ \A i \in DOMAIN Enqueue(known, candidates) : known[Enqueue(known, candidates)[i]] = "unknown"
<1> DEFINE W == {u \in Urls : ~IsUtility(u) /\ known[u] = "unknown"}
<1>1. Enqueue(known, candidates) \in Lists(W)
  BY DistinctIs DEF Enqueue
<1> QED BY <1>1 DEF Lists

\* The start and what the sitemaps list.
LEMMA SeedsAreFinite ==
  ASSUME NEW S, IsFiniteSet(S), NEW u
  PROVE  Len(<<u>> \o SetToSeq(S)) \in Nat
<1>1. PICK n \in Nat : ExistsBijection(1..n, S)
  BY FS_NatBijection
<1>2. Cardinality(S) = n
  BY <1>1, FS_CountingElements
<1>3. \E f \in [1..n -> S] : IsInjective(f)
  BY <1>1, Zenon DEF ExistsBijection, Bijection, Injection
<1>4. SetToSeq(S) \in [1..n -> S]
  BY <1>2, <1>3 DEF SetToSeq
<1>5. SetToSeq(S) \in Seq(S \cup {u}) /\ <<u>> \in Seq(S \cup {u})
  BY <1>4
<1> HIDE DEF SetToSeq
<1>6. <<u>> \o SetToSeq(S) \in Seq(S \cup {u})
  BY <1>5
<1> QED BY <1>6

-----------------------------------------------------------------------------
(***************************************************************************)
(* The invariant: what a crawl has read is numbered in order and is what   *)
(* it had read before with at most one page more; what waits has never     *)
(* been read or tried, so a failure stays one.                             *)
(***************************************************************************)
SiteIsWhole ==
  /\ site.web = [u \in Urls |-> site.web[u]]
  /\ \A u \in Urls : IsPage(site.web[u])
  /\ site.sitemaps \subseteq Urls

QueueIsFresh ==
  /\ ledger = [u \in Urls |-> ledger[u]]
  /\ queue \in Lists(Urls)
  /\ \A i \in DOMAIN queue : ledger[queue[i]] = "eligible"
  /\ mode = "built_output" => queue = << >>

IsList(s) == Len(s) \in Nat /\ DOMAIN s = 1..Len(s)
ReadInOrder ==
  /\ IsList(read) /\ IsList(before.read)
  /\ \A i \in DOMAIN read : read[i].n = i
  /\ \/ read = before.read
     \/ /\ Len(read) = Len(before.read) + 1
        /\ \A i \in DOMAIN before.read : before.read[i] = read[i]
FailuresStay == \A u \in Urls : before.ledger[u] = "failed" => ledger[u] = "failed"

CrawlInv ==
  /\ mode \in {"url", "built_output"}
  /\ SiteIsWhole
  /\ QueueIsFresh
  /\ mode = "url" => ReadInOrder /\ FailuresStay

LEMMA CrawlInit == SiteInit => CrawlInv
<1> SUFFICES ASSUME SiteInit PROVE CrawlInv
  OBVIOUS
<1>1. SiteIsWhole /\ IsFiniteSet(site.sitemaps)
  BY SitesAreWhole DEF SiteInit, SiteIsWhole
<1>2. queue \in Lists(Urls) /\ mode = "built_output" => queue = << >>
  BY DEF SiteInit
<1>3. queue \in Lists(Urls)
  <2>1. CASE mode = "url"
    <3>1. PICK c : c = <<site.start>> \o SetToSeq(site.sitemaps)
      OBVIOUS
    <3>2. Len(c) \in Nat
      <4>1. PICK S : S = site.sitemaps
        OBVIOUS
      <4>2. PICK u : u = site.start
        OBVIOUS
      <4> QED BY <1>1, <3>1, <4>1, <4>2, SeedsAreFinite
    <3>3. queue = Enqueue(Unknown, c)
      BY <2>1, <3>1 DEF SiteInit
    <3> QED BY <3>2, <3>3, EnqueueIs
  <2>2. CASE mode # "url"
    BY <2>2 DEF SiteInit, Lists
  <2> QED BY <2>1, <2>2
<1>4. ledger = [u \in Urls |-> ledger[u]] /\ \A i \in DOMAIN queue : ledger[queue[i]] = "eligible"
  BY <1>3 DEF SiteInit, Discover, Lists, ToSet
<1>5. QueueIsFresh
  BY <1>2, <1>3, <1>4 DEF QueueIsFresh, SiteInit
<1>6. ReadInOrder /\ FailuresStay
  BY DEF SiteInit, ReadInOrder, FailuresStay, IsList
<1> QED BY <1>1, <1>5, <1>6 DEF CrawlInv, SiteInit

\* What is left of the queue, followed by what was found.
LEMMA QueueGoesOn ==
  ASSUME NEW q \in Lists(Urls), q # << >>, NEW found \in Lists(Urls),
         \A i \in DOMAIN found : found[i] \notin ToSet(q)
  PROVE  /\ Tail(q) \in Lists(Urls)
         /\ Tail(q) \o found \in Lists(Urls)
         /\ \A i \in DOMAIN Tail(q) : Tail(q)[i] \in ToSet(q) \ {Head(q)}
         /\ \A i \in DOMAIN (Tail(q) \o found) :
              (Tail(q) \o found)[i] \in (ToSet(q) \ {Head(q)}) \cup ToSet(found)
<1> DEFINE t == Tail(q)
           r == t \o found
<1>1. q \in Seq(Urls) /\ found \in Seq(Urls) /\ Len(q) \in Nat /\ Len(found) \in Nat
  BY DEF Lists
<1>2. t \in Seq(Urls) /\ Len(t) = Len(q) - 1 /\ \A i \in 1..(Len(q) - 1) : t[i] = q[i + 1]
  BY <1>1
<1>3. \A i, j \in 1..Len(q) : q[i] = q[j] => i = j
  BY DEF Lists
<1>4. Head(q) = q[1] /\ Len(q) >= 1
  BY <1>1
<1>5. \A i \in 1..Len(q) : q[i] \in ToSet(q)
  BY <1>1 DEF ToSet
<1>6. \A i, j \in 1..Len(found) : found[i] = found[j] => i = j
  BY DEF Lists
<1>7. \A i \in 1..Len(found) : found[i] \in ToSet(found) /\ found[i] \notin ToSet(q)
  BY <1>1 DEF ToSet
<1> HIDE DEF t
<1>8. r \in Seq(Urls) /\ Len(r) = Len(t) + Len(found)
      /\ (\A i \in 1..Len(t) : r[i] = t[i]) /\ (\A i \in 1..Len(found) : r[Len(t) + i] = found[i])
  <2>1. t \in Seq(Urls) /\ found \in Seq(Urls)
    BY <1>1, <1>2
  <2>1b. t \o found \in Seq(Urls) /\ Len(t \o found) = Len(t) + Len(found)
    BY <2>1
  <2>2. \A i \in 1..Len(t) : (t \o found)[i] = t[i]
    BY <1>1, <1>2
  <2>3. \A i \in 1..Len(found) : (t \o found)[Len(t) + i] = found[i]
    BY <1>1, <1>2
  <2> QED BY <2>1b, <2>2, <2>3
<1>9. \A i \in 1..Len(t) : t[i] \in ToSet(q) \ {Head(q)} /\ \A j \in 1..Len(t) : t[i] = t[j] => i = j
  BY <1>1, <1>2, <1>3, <1>4, <1>5
<1> HIDE DEF r
<1>10. ASSUME NEW i \in 1..Len(r) PROVE i \in 1..Len(t) \/ i - Len(t) \in 1..Len(found)
  BY <1>1, <1>2, <1>8
<1>11. ASSUME NEW i \in 1..Len(r) PROVE r[i] \in (ToSet(q) \ {Head(q)}) \cup ToSet(found)
  <2>1. CASE i \in 1..Len(t)
    BY <1>8, <1>9, <2>1
  <2>2. CASE i - Len(t) \in 1..Len(found)
    <3>1. r[i] = found[i - Len(t)]
      BY <1>1, <1>2, <1>8, <2>2
    <3> QED BY <1>7, <2>2, <3>1
  <2> QED BY <1>10, <2>1, <2>2
<1>12. ASSUME NEW i \in 1..Len(r), NEW j \in 1..Len(r), r[i] = r[j] PROVE i = j
  <2>1. ASSUME NEW k \in 1..Len(r), k - Len(t) \in 1..Len(found) PROVE r[k] = found[k - Len(t)]
    BY <1>1, <1>2, <1>8, <2>1
  <2>2. CASE i \in 1..Len(t) /\ j \in 1..Len(t)
    BY <1>8, <1>9, <1>12, <2>2
  <2>3. CASE i \in 1..Len(t) /\ j - Len(t) \in 1..Len(found)
    BY <1>7, <1>8, <1>9, <1>12, <2>1, <2>3
  <2>4. CASE i - Len(t) \in 1..Len(found) /\ j \in 1..Len(t)
    BY <1>7, <1>8, <1>9, <1>12, <2>1, <2>4
  <2>5. CASE i - Len(t) \in 1..Len(found) /\ j - Len(t) \in 1..Len(found)
    <3>1. i - Len(t) = j - Len(t)
      BY <1>6, <1>12, <2>1, <2>5
    <3> QED BY <1>1, <1>2, <3>1
  <2> QED BY <1>10, <2>2, <2>3, <2>4, <2>5
<1>13. t \in Lists(Urls)
  BY <1>1, <1>2, <1>9 DEF Lists
<1>14. r \in Lists(Urls)
  BY <1>8, <1>12 DEF Lists
<1>15. DOMAIN t = 1..Len(t) /\ DOMAIN r = 1..Len(r)
  BY <1>2, <1>8
<1> QED BY <1>9, <1>11, <1>13, <1>14, <1>15 DEF r, t

\* A page has finitely many links.
LEMMA LinksAreListed ==
  ASSUME NEW p, IsPage(p)
  PROVE  Len(Links(p)) \in Nat
<1> DEFINE l == p.links
<1>1. l \in Seq(ToSet(l))
  BY DEF IsPage
<1> HIDE DEF l
<1>2. Len([i \in DOMAIN l |-> l[i].to]) \in Nat
  BY <1>1
<1> QED BY <1>2 DEF Links, l

\* Every step keeps the invariant.
LEMMA CrawlStep == CrawlInv /\ [SiteNext]_siteVars => CrawlInv'
<1> SUFFICES ASSUME CrawlInv, [SiteNext]_siteVars PROVE CrawlInv'
  OBVIOUS
<1>1. CASE ReadPage
  <2> DEFINE u == Head(queue)
             p == PageAt(u)
             known == [ledger EXCEPT ![u] = IF ValidResource(p) THEN "valid_resource" ELSE "indeterminate"]
             found == Enqueue(known, Links(p))
  <2>0. queue # << >> /\ queue \in Lists(Urls) /\ mode = "url" /\ u \in Urls /\ u \in ToSet(queue)
    BY <1>1 DEF CrawlInv, QueueIsFresh, ReadPage, Lists, ToSet
  <2>1. IsPage(p) /\ p.n = Len(read) + 1
    <3>1. FinalUrl(u) \in Urls
      BY <1>1 DEF ReadPage, Answers
    <3>2. IsPage(site.web[FinalUrl(u)])
      BY <3>1 DEF CrawlInv, SiteIsWhole
    <3> QED BY <3>2 DEF PageAt, IsPage
  <2>2. read' = Append(read, p) /\ ledger' = Discover(known, found) /\ queue' = Tail(queue) \o found
        /\ before' = [read |-> read, ledger |-> ledger, errors |-> errors] /\ UNCHANGED <<mode, site, changes>>
    BY <1>1 DEF ReadPage
  <2>3. found \in Lists(Urls) /\ \A i \in DOMAIN found : known[found[i]] = "unknown"
    <3>1. PICK k : k = known
      OBVIOUS
    <3>2. PICK c : c = Links(p)
      OBVIOUS
    <3>3. Len(c) \in Nat
      <4>1. PICK q : q = p
        OBVIOUS
      <4> HIDE DEF p
      <4> QED BY <2>1, <3>2, <4>1, LinksAreListed
    <3> HIDE DEF known, p
    <3> QED BY <3>1, <3>2, <3>3, EnqueueIs
  <2>4. \A v \in Urls : v # u => known[v] = ledger[v]
    BY DEF CrawlInv, QueueIsFresh
  <2>4a. known[u] \in {"valid_resource", "indeterminate"}
    BY <2>0 DEF CrawlInv, QueueIsFresh
  <2>5. \A v \in ToSet(queue) : ledger[v] = "eligible" /\ v \in Urls
    <3>1. \A i \in DOMAIN queue : ledger[queue[i]] = "eligible"
      BY DEF CrawlInv, QueueIsFresh
    <3>2. \A i \in DOMAIN queue : queue[i] \in Urls
      BY <2>0 DEF Lists
    <3> QED BY <3>1, <3>2 DEF ToSet
  <2> HIDE DEF known, found, p, u
  <2>6. \A i \in DOMAIN found : found[i] \notin ToSet(queue)
    BY <2>3, <2>4, <2>4a, <2>5
  <2>7. QueueIsFresh'
    <3>1. PICK q : q = queue
      OBVIOUS
    <3>2. PICK g : g = found
      OBVIOUS
    <3>3. Tail(q) \o g \in Lists(Urls)
          /\ \A i \in DOMAIN (Tail(q) \o g) : (Tail(q) \o g)[i] \in (ToSet(q) \ {Head(q)}) \cup ToSet(g)
      BY <2>0, <2>3, <2>6, <3>1, <3>2, QueueGoesOn
    <3>4. queue' \in Lists(Urls) /\ \A i \in DOMAIN queue' : queue'[i] \in (ToSet(queue) \ {u}) \cup ToSet(found)
      BY <2>2, <3>1, <3>2, <3>3 DEF u
    <3>5. ledger' = [v \in Urls |-> IF v \in ToSet(found) THEN "eligible" ELSE known[v]]
      BY <2>2 DEF Discover
    <3>6. \A i \in DOMAIN queue' : queue'[i] \in Urls
      BY <3>4 DEF Lists
    <3>7. \A i \in DOMAIN queue' : ledger'[queue'[i]] = "eligible"
      BY <2>4, <2>5, <3>4, <3>5, <3>6
    <3>8. ledger' = [v \in Urls |-> ledger'[v]]
      BY <3>5
    <3> QED BY <2>0, <2>2, <3>4, <3>7, <3>8 DEF QueueIsFresh
  <2>8. ReadInOrder'
    <3>1. IsList(read) /\ \A i \in DOMAIN read : read[i].n = i
      BY <2>0 DEF CrawlInv, ReadInOrder
    <3> QED BY <2>1, <2>2, <3>1 DEF ReadInOrder, IsList
  <2>9. FailuresStay'
    <3>1. ASSUME NEW v \in Urls, ledger[v] = "failed" PROVE ledger'[v] = "failed"
      <4>1. v # u
        BY <2>0, <2>5, <3>1
      <4>2. known[v] = "failed"
        BY <2>4, <3>1, <4>1
      <4>3. v \notin ToSet(found)
        BY <2>3, <4>2 DEF ToSet
      <4> QED BY <2>2, <4>2, <4>3 DEF Discover
    <3> QED BY <2>2, <3>1 DEF FailuresStay
  <2> QED BY <2>0, <2>2, <2>7, <2>8, <2>9 DEF CrawlInv, SiteIsWhole
<1>2. CASE ReadFails
  <2> DEFINE u == Head(queue)
  <2>0. queue # << >> /\ queue \in Lists(Urls) /\ mode = "url" /\ u \in Urls
    BY <1>2 DEF CrawlInv, QueueIsFresh, ReadFails, Lists
  <2>1. ledger' = [ledger EXCEPT ![u] = "failed"] /\ queue' = Tail(queue) /\ read' = read
        /\ before' = [read |-> read, ledger |-> ledger, errors |-> errors] /\ UNCHANGED <<mode, site>>
    BY <1>2 DEF ReadFails
  <2>2. Tail(queue) \in Lists(Urls) /\ \A i \in DOMAIN Tail(queue) : Tail(queue)[i] \in ToSet(queue) \ {u}
    <3>1. PICK q : q = queue
      OBVIOUS
    <3>2. << >> \in Lists(Urls) /\ DOMAIN << >> = {}
      BY DEF Lists
    <3> QED BY <2>0, <3>1, <3>2, QueueGoesOn
  <2>3. \A v \in ToSet(queue) : ledger[v] = "eligible" /\ v \in Urls
    <3>1. \A i \in DOMAIN queue : ledger[queue[i]] = "eligible"
      BY DEF CrawlInv, QueueIsFresh
    <3>2. \A i \in DOMAIN queue : queue[i] \in Urls
      BY <2>0 DEF Lists
    <3> QED BY <3>1, <3>2 DEF ToSet
  <2>4. ledger = [v \in Urls |-> ledger[v]]
    BY DEF CrawlInv, QueueIsFresh
  <2>5. \A v \in Urls : ledger'[v] = IF v = u THEN "failed" ELSE ledger[v]
    BY <2>1, <2>4
  <2>6. ledger' = [v \in Urls |-> ledger'[v]]
    BY <2>1, <2>4
  <2> HIDE DEF u
  <2>7. QueueIsFresh'
    BY <2>0, <2>1, <2>2, <2>3, <2>5, <2>6 DEF QueueIsFresh
  <2>8. ReadInOrder'
    BY <2>0, <2>1 DEF CrawlInv, ReadInOrder
  <2>9. FailuresStay'
    BY <2>1, <2>5 DEF FailuresStay
  <2> QED BY <2>0, <2>1, <2>7, <2>8, <2>9 DEF CrawlInv, SiteIsWhole
<1>3. CASE ReadBuild
  BY <1>3 DEF ReadBuild, CrawlInv, SiteIsWhole, QueueIsFresh
<1>4. CASE \E c \in Changes : ChangePage(c)
  <2>1. PICK c \in Changes : ChangePage(c)
    BY <1>4
  <2>2. site' = [site EXCEPT !.web[c.at] = Changed(site.web[c.at], c.what)]
        /\ IsPage(Changed(site.web[c.at], c.what))
        /\ UNCHANGED <<mode, queue, read, ledger, before>>
    BY <2>1 DEF ChangePage
  <2>3. SiteIsWhole'
    BY <2>2 DEF CrawlInv, SiteIsWhole
  <2> QED BY <2>2, <2>3 DEF CrawlInv, QueueIsFresh, ReadInOrder, FailuresStay
<1>5. CASE UNCHANGED siteVars
  BY <1>5 DEF siteVars, CrawlInv, SiteIsWhole, QueueIsFresh, ReadInOrder, FailuresStay
<1> QED BY <1>1, <1>2, <1>3, <1>4, <1>5 DEF SiteNext

-----------------------------------------------------------------------------
(***************************************************************************)
(* The findings of a crawl.                                                *)
(***************************************************************************)
\* What a first retrieval makes of what the detectors are given.
LEMMA RetrievalGrows ==
  ASSUME CrawlInv, mode = "url", FirstRetrieval
  PROVE  Grows(Earlier, Context)
<1>1. ReadInOrder /\ FailuresStay /\ SiteIsWhole
  BY DEF CrawlInv
<1>0. Len(read) \in Nat /\ DOMAIN read = 1..Len(read)
      /\ Len(before.read) \in Nat /\ DOMAIN before.read = 1..Len(before.read)
  BY <1>1 DEF ReadInOrder, IsList
<1>2. ToSet(before.read) \subseteq ToSet(read)
  <2>1. CASE read = before.read
    BY <2>1
  <2>2. CASE read # before.read
    <3>0. Len(read) = Len(before.read) + 1 /\ \A i \in DOMAIN before.read : before.read[i] = read[i]
      BY <1>1, <2>2 DEF ReadInOrder
    <3>1. \A i \in DOMAIN before.read : i \in DOMAIN read /\ before.read[i] = read[i]
      BY <1>0, <3>0
    <3> QED BY <3>1 DEF ToSet
  <2> QED BY <2>1, <2>2
<1>3. \A p \in ToSet(read) : p.n \in Nat
  <2>1. \A i \in DOMAIN read : read[i].n = i
    BY <1>1 DEF ReadInOrder
  <2>2. \A i \in DOMAIN read : read[i].n \in Nat
    BY <1>0, <2>1
  <2> QED BY <2>2 DEF ToSet
<1>4. ASSUME NEW p \in ToSet(read) \ ToSet(before.read), NEW q \in ToSet(before.read) PROVE q.n < p.n
  <2>1. Len(read) = Len(before.read) + 1 /\ \A i \in DOMAIN before.read : before.read[i] = read[i]
    BY <1>1, <1>4 DEF ReadInOrder
  <2>2. PICK i \in DOMAIN read : p = read[i]
    BY DEF ToSet
  <2>3. PICK j \in DOMAIN before.read : q = before.read[j]
    BY DEF ToSet
  <2>4. i \notin DOMAIN before.read
    BY <2>1, <2>2 DEF ToSet
  <2>5. p.n = i /\ q.n = j /\ i \in 1..Len(read) /\ j \in 1..Len(before.read) /\ Len(before.read) \in Nat
    BY <1>1, <2>1, <2>2, <2>3 DEF ReadInOrder, IsList
  <2>6. i \notin 1..Len(before.read)
    BY <1>1, <2>4 DEF ReadInOrder, IsList
  <2> QED BY <2>1, <2>5, <2>6
<1>5. \A p \in ToSet(read) \ ToSet(before.read) :
        (\A q \in ToSet(before.read) : q.url # p.url) /\ before.ledger[p.url] # "failed"
  BY DEF FirstRetrieval
<1>6. Earlier.pages = ToSet(before.read) /\ Context.pages = ToSet(read)
      /\ Earlier.mode = "url" /\ Context.mode = "url"
      /\ Earlier.states = before.ledger /\ Context.states = ledger
      /\ Earlier.sitemaps = site.sitemaps /\ Context.sitemaps = site.sitemaps
  BY DEF Earlier, Context, ContextOf
<1>7. /\ Context.robots = Earlier.robots /\ Context.sitemapFound = Earlier.sitemapFound
      /\ Context.registries = Earlier.registries /\ Context.observations = Earlier.observations
      /\ Context.promptResults = Earlier.promptResults /\ Context.snapshot = Earlier.snapshot
      /\ Context.facts = Earlier.facts /\ Context.maxDepth = Earlier.maxDepth
      /\ Context.rivals = Earlier.rivals /\ Context.today = Earlier.today /\ Context.llms = Earlier.llms
  BY DEF Earlier, Context, ContextOf
<1>8. \A u \in site.sitemaps : before.ledger[u] = "failed" => ledger[u] = "failed"
  BY <1>1 DEF FailuresStay, SiteIsWhole
<1> QED BY <1>2, <1>3, <1>4, <1>5, <1>6, <1>7, <1>8 DEF Grows

\* What the invariant is for.
LEMMA InvHitsStand == CrawlInv => HitsStand
<1> SUFFICES ASSUME CrawlInv, mode = "url", FirstRetrieval,
                    NEW x \in DOMAIN Findings(Earlier) \ CorpusWide,
                    NEW s \in Findings(Earlier)[x] \ Findings(Context)[x]
             PROVE  TakenBack(s)
  BY DEF HitsStand
<1>1. PICK c : c = Earlier
  OBVIOUS
<1>2. PICK d : d = Context
  OBVIOUS
<1>3. Grows(c, d)
  BY <1>1, <1>2, RetrievalGrows
<1>4. x \in DOMAIN Findings(c) \ CorpusWide /\ s \in Findings(c)[x] \ Findings(d)[x]
  BY <1>1, <1>2
<1>5. \/ \E u \in d.errors \ c.errors : PartOf(Ident(s), u)
      \/ AsPage(s) /\ \E p \in d.pages \ c.pages : p.url = s.url /\ FailedOn(p)
  BY <1>3, <1>4, HitsKept
<1>6. c.errors = before.errors /\ d.errors = errors /\ c.pages = ToSet(before.read) /\ d.pages = ToSet(read)
  BY <1>1, <1>2 DEF Earlier, Context, ContextOf
<1> QED BY <1>5, <1>6 DEF TakenBack

\* A finding of a crawl is not taken back when the crawl goes on
\* (buildSiteFromUrl, src/extractor/site.js; evaluateDeterminations,
\* src/conditions/determinationEngine.js), unless the last retrieval failed in
\* a way that names its subject: for every site, every order of links, every
\* change of a page meanwhile and every failure, and every detector but the
\* CorpusWide ones.
THEOREM FindingsStand == SiteSpec => []HitsStand
<1>1. CrawlInv /\ [SiteNext]_siteVars => CrawlInv'
  BY CrawlStep
<1> QED BY CrawlInit, <1>1, InvHitsStand, PTL DEF SiteSpec
==============================================================================
