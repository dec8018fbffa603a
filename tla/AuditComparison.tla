---------------------------- MODULE AuditComparison ----------------------------
(***************************************************************************)
(* Two audits of one site and what is concluded from their difference:     *)
(* evaluateDeterminations (src/conditions/determinationEngine.js),         *)
(* detectCollectorFailure (src/conditions/collectorFailure.js),            *)
(* evaluateRequirement (src/evidence/determination.js), the order in which *)
(* the audit previews coverage, runs its detectors and seals coverage      *)
(* (src/commands/audit.js), and compareSnapshots                           *)
(* (src/commands/compareSnapshots.js).                                     *)
(*                                                                         *)
(* Between the audits everything may change: the site, what the collection *)
(* of it met, which conditions could be checked, the configuration.  Of a  *)
(* collection (module UrlCrawl) what is kept is what became of each page:  *)
(*   read       retrieved and valid                                        *)
(*   retried    the same, after an attempt that timed out                  *)
(*   walled     retrieved, indeterminate: 403, 429 or a challenge          *)
(*   odd        retrieved, indeterminate for another reason                *)
(*   timedout   failed, with an error that names the page and a timeout    *)
(*   failed     failed otherwise                                           *)
(*   unvisited  not fetched, or not discovered                             *)
(* A condition is checked, throws, does not apply to the site's profile or *)
(* is not tested (its domain is disabled, its context missing).  The       *)
(* conditions are those about pages; a hit is its observation.  Warnings   *)
(* count as failures.  Errors of sitemap documents are left out.           *)
(***************************************************************************)
EXTENDS Naturals, Sequences, FiniteSets

CONSTANTS
  Pages, Home,       \* URLs of the site, and the one at path "/"
  Site,              \* the default subject of type "site"
  Within,            \* <<p, q>>: the URL of p is a part of the URL of q
  Conditions,        \* detectors that require the site
  Requirement,       \* coverage_requirement of each
  Observations,      \* what a hit reports
  MaxHits,           \* bound: hits of one detector on one page
  Envelopes,         \* target kind and configuration of a run
  Collections,       \* what may become of the pages
  Modes,             \* what may become of the conditions
  Hits               \* what the detectors may report of the pages

Outcomes == {"read", "retried", "walled", "odd", "timedout", "failed",
             "unvisited"}
HitLists == UNION {[1..n -> Observations] : n \in 0..MaxHits}

ASSUME AuditAssumption ==
  /\ Home \in Pages /\ Site \notin Pages /\ MaxHits \in Nat
  /\ Within \subseteq Pages \X Pages /\ \A p \in Pages : <<p, p>> \in Within
  /\ Requirement \in
       [Conditions -> {"page_resource", "exhaustive_requested_scope"}]
  /\ \A e \in Envelopes : e.kind \in {"url", "built_output"}
  /\ Collections \subseteq [Pages -> Outcomes]
  /\ Modes \subseteq
       [Conditions -> {"checked", "throws", "inapplicable", "untested"}]
  /\ Hits \subseteq [Conditions -> [Pages -> HitLists]]

VARIABLES
  pc,        \* "collecting", "detecting", "sealing", "comparing", "compared"
  audit,     \* the run in hand: its envelope, what became of the pages
  coverage,  \* ctx.coverage, then coverage.json
  report,    \* what its detectors came to
  runs,      \* the sealed runs: the baseline, then the one compared with it
  result     \* of compareSnapshots

vars == <<pc, audit, coverage, report, runs, result>>

Subjects == Pages \cup {Site}
Valid == {"read", "retried"}
Retrieved(outcome) ==
  {p \in Pages : outcome[p] \in Valid \cup {"walled", "odd"}}

-----------------------------------------------------------------------------
(* Coverage.                                                               *)

NoCoverage == [present |-> FALSE, state |-> [p \in Pages |-> "unvisited"],
               complete |-> FALSE]

\* The state of a resource in the ledger, and in a preview of it.
StateOf(o, evaluated) ==
  CASE o \in Valid -> IF evaluated THEN "evaluated"
                                   ELSE "valid_but_unevaluated"
    [] o \in {"walled", "odd"} -> "indeterminate"
    [] o \in {"timedout", "failed"} -> "failed"
    [] OTHER -> "unvisited"

\* closed: the frontier was exhausted and every sitemap read.
CoverageOf(outcome, closed, evaluated) ==
  LET state == [p \in Pages |-> StateOf(outcome[p], evaluated)]
  IN [present |-> TRUE, state |-> state,
      complete |-> closed /\ \A p \in Pages : state[p] = "evaluated"]

\* evaluateRequirement: does the coverage support a conclusion of absence?
Supported(c, subject, cov) ==
  IF Requirement[c] = "page_resource"
  THEN cov.state[IF subject = Site THEN Home ELSE subject] = "evaluated"
  ELSE cov.complete

-----------------------------------------------------------------------------
(* The detectors.                                                          *)

\* The errors of the collection are matched by their text, in which the URL
\* of a page may be a part of another's.
CollectorFailed_OwnErrors(outcome, subject) ==
  \/ subject \in Pages /\ outcome[subject] = "retried"
  \/ /\ subject = Site
     /\ \E q \in Pages : outcome[q] = "timedout" /\ <<Home, q>> \in Within
CollectorFailed(outcome, subject) ==
  \/ subject \in Pages /\ outcome[subject] \in {"retried", "walled"}
  \/ \E q \in Pages :
       /\ outcome[q] = "timedout"
       /\ <<IF subject = Site THEN Home ELSE subject, q>> \in Within

\* No hit: PASS, unless the coverage the detectors were given leaves it open.
AbsenceStatus(c, subject, cov) ==
  IF cov.present /\ ~Supported(c, subject, cov) THEN "INDETERMINATE"
                                                ELSE "PASS"

StatusOn(c, subject, outcome, hits, cov) ==
  IF CollectorFailed(outcome, subject)
  THEN IF subject \in Pages /\ outcome[subject] = "walled"
       THEN "NOT_TESTED" ELSE "ERROR"
  ELSE IF subject \in Pages /\ hits[c][subject] # <<>>
       THEN "FAIL" ELSE AbsenceStatus(c, subject, cov)

\* A condition that is not checked has one determination, about the site; one
\* that is checked has them about the pages retrieved, or the site if none.
DeterminationOn(c, subject, mode, outcome, hits, cov) ==
  CASE mode[c] = "inapplicable" /\ subject = Site -> "NOT_APPLICABLE"
    [] mode[c] = "untested" /\ subject = Site -> "NOT_TESTED"
    [] mode[c] = "throws" /\ subject = Site -> "ERROR"
    [] mode[c] = "checked"
         /\ subject \in (IF Retrieved(outcome) = {} THEN {Site}
                                                    ELSE Retrieved(outcome))
       -> StatusOn(c, subject, outcome, hits, cov)
    [] OTHER -> "none"

\* Findings are the hits of the failed determinations.
FindingsOn_Unfiltered(c, p, mode, outcome, hits) ==
  IF mode[c] = "checked" THEN hits[c][p] ELSE <<>>
FindingsOn(c, p, mode, outcome, hits) ==
  IF mode[c] = "checked" /\ ~CollectorFailed(outcome, p) THEN hits[c][p]
                                                        ELSE <<>>

ReportOf(mode, outcome, hits, cov) ==
  [ran |-> {c \in Conditions : mode[c] = "checked"},
   hits |-> hits,
   determinations |->
     [c \in Conditions |-> [s \in Subjects |->
        DeterminationOn(c, s, mode, outcome, hits, cov)]],
   findings |->
     [c \in Conditions |-> [p \in Pages |->
        FindingsOn(c, p, mode, outcome, hits)]]]

\* What detectors report of the pages they are given.
Reported(hits, mode, outcome) ==
  [c \in Conditions |-> [p \in Pages |->
     IF mode[c] = "checked" /\ p \in Retrieved(outcome) THEN hits[c][p]
                                                        ELSE <<>>]]

-----------------------------------------------------------------------------
(* compareSnapshots.                                                       *)

Comparable_AnyDetectors(a, b) == a.audit.envelope = b.audit.envelope
Comparable(a, b) ==
  /\ a.audit.envelope = b.audit.envelope
  /\ a.report.ran = b.report.ran

\* findMatchingDetermination.  The path of the site is that of its home page.
DeterminationOf(r, c, p) ==
  LET own == r.report.determinations[c][p]
  IN IF own = "none" /\ p = Home THEN r.report.determinations[c][Site]
                                 ELSE own

SiteDeterminationOf(r, c) ==
  LET own == r.report.determinations[c][Site]
  IN IF own = "none" THEN r.report.determinations[c][Home] ELSE own

\* The findings of a run, each named by its condition, its page and its place
\* among those of that condition there.  A finding of the later run matches
\* the first unmatched one of the same condition and page: the k-th the k-th.
FindingsOf(r) ==
  {f \in Conditions \X Pages \X (1..MaxHits) :
     f[3] =< Len(r.report.findings[f[1]][f[2]])}

ObservationOf(r, f) == r.report.findings[f[1]][f[2]][f[3]]

\* A finding of b that matches none of a.
NewState(a, f) ==
  LET before == DeterminationOf(a, f[1], f[2]) IN
  CASE before = "PASS" -> "regression"
    [] before = "NOT_APPLICABLE" -> "newly_applicable"
    [] before = "none" /\ a.coverage.present
         /\ a.coverage.state[f[2]] = "evaluated" -> "regression"
    [] OTHER -> "new_failure"

\* One that matches a finding of a.
KeptState_Swapped(a, b, f) ==
  CASE ~Comparable(a, b) -> "not_comparable"
    [] ObservationOf(a, <<f[1], f[2], 1>>) # ObservationOf(b, f) -> "changed"
    [] OTHER -> "persisted"
KeptState(a, b, f) ==
  CASE ~Comparable(a, b) -> "not_comparable"
    [] ObservationOf(a, f) # ObservationOf(b, f) -> "changed"
    [] OTHER -> "persisted"

\* assessReobservation, by the coverage of the later run alone.
Reobservation_NoScope(b, c, p) ==
  CASE ~b.coverage.present -> "not_reobserved"
    [] b.coverage.state[p] = "indeterminate" -> "indeterminate"
    [] b.coverage.state[p] # "evaluated" -> "not_reobserved"
    [] OTHER -> "resolved"
Reobservation(b, c, p) ==
  CASE ~b.coverage.present -> "not_reobserved"
    [] b.coverage.state[p] = "indeterminate" -> "indeterminate"
    [] b.coverage.state[p] # "evaluated" -> "not_reobserved"
    [] /\ Requirement[c] = "exhaustive_requested_scope"
       /\ ~b.coverage.complete -> "indeterminate"
    [] OTHER -> "resolved"

\* A finding of a that no finding of b matches.
GoneState(a, b, f) ==
  CASE ~Comparable(a, b) -> "not_comparable"
    [] DeterminationOf(b, f[1], f[2]) = "NOT_APPLICABLE" ->
         "no_longer_applicable"
    [] OTHER -> Reobservation(b, f[1], f[2])

\* The conditions reported as no longer applicable, by the last loop.
NoLongerApplicable(a, b) ==
  {c \in Conditions :
     /\ b.report.determinations[c][Site] = "NOT_APPLICABLE"
     /\ SiteDeterminationOf(a, c) \in {"FAIL", "PASS"}}

CompareSnapshots(a, b) ==
  [later |-> [f \in FindingsOf(b) |->
                IF f \in FindingsOf(a) THEN KeptState(a, b, f)
                                       ELSE NewState(a, f)],
   gone |-> [f \in FindingsOf(a) \ FindingsOf(b) |-> GoneState(a, b, f)],
   conditions |-> NoLongerApplicable(a, b)]

-----------------------------------------------------------------------------
NoAudit == [envelope |-> [kind |-> "none", configuration |-> 0],
            outcome |-> [p \in Pages |-> "unvisited"], closed |-> FALSE]
NoReport ==
  [ran |-> {}, hits |-> [c \in Conditions |-> [p \in Pages |-> <<>>]],
   determinations |-> [c \in Conditions |-> [s \in Subjects |-> "none"]],
   findings |-> [c \in Conditions |-> [p \in Pages |-> <<>>]]]
NoResult == [later |-> <<>>, gone |-> <<>>, conditions |-> {}]

Init == /\ pc = "collecting"
        /\ audit = NoAudit /\ coverage = NoCoverage /\ report = NoReport
        /\ runs = <<>> /\ result = NoResult

\* buildContext and previewCoverage.  A built output is read from its files
\* and has no coverage.
BuildContext(envelope, outcome, closed) ==
  /\ pc = "collecting"
  /\ envelope.kind = "built_output" => \A p \in Pages : outcome[p] = "read"
  /\ closed => \A p \in Pages : outcome[p] \in Valid
  /\ audit' = [envelope |-> envelope, outcome |-> outcome, closed |-> closed]
  /\ coverage' = IF envelope.kind = "url"
                 THEN CoverageOf(outcome, closed, FALSE) ELSE NoCoverage
  /\ pc' = "detecting"
  /\ UNCHANGED <<report, runs, result>>

RunDetectors(mode, hits) ==
  /\ pc = "detecting"
  /\ hits = Reported(hits, mode, audit.outcome)
  /\ report' = ReportOf(mode, audit.outcome, hits, coverage)
  /\ pc' = "sealing"
  /\ UNCHANGED <<audit, coverage, runs, result>>

AfterSealing == IF runs = <<>> THEN "collecting" ELSE "comparing"

\* finalizeCoverage, and the sealing of the run.
FinalizeCoverage ==
  /\ pc = "sealing"
  /\ LET sealed == IF coverage.present
                   THEN CoverageOf(audit.outcome, audit.closed, TRUE)
                   ELSE NoCoverage
     IN runs' = Append(runs, [audit |-> audit, coverage |-> sealed,
                              report |-> report])
  /\ audit' = NoAudit /\ coverage' = NoCoverage /\ report' = NoReport
  /\ pc' = AfterSealing
  /\ UNCHANGED result

Compare ==
  /\ pc = "comparing"
  /\ result' = CompareSnapshots(runs[1], runs[2])
  /\ pc' = "compared"
  /\ UNCHANGED <<audit, coverage, report, runs>>

Next == \/ \E e \in Envelopes, o \in Collections, closed \in BOOLEAN :
             BuildContext(e, o, closed)
        \/ \E mode \in Modes, hits \in Hits : RunDetectors(mode, hits)
        \/ FinalizeCoverage
        \/ Compare

Spec == Init /\ [][Next]_vars

-----------------------------------------------------------------------------
Statuses == {"none", "PASS", "FAIL", "INDETERMINATE", "NOT_APPLICABLE",
             "NOT_TESTED", "ERROR"}
States == {"unvisited", "failed", "indeterminate", "valid_but_unevaluated",
           "evaluated"}

Audits == [envelope : Envelopes \cup {NoAudit.envelope},
           outcome : [Pages -> Outcomes], closed : BOOLEAN]
Coverages == [present : BOOLEAN, state : [Pages -> States],
              complete : BOOLEAN]
Reports == [ran : SUBSET Conditions, hits : [Conditions -> [Pages -> HitLists]],
            determinations : [Conditions -> [Subjects -> Statuses]],
            findings : [Conditions -> [Pages -> HitLists]]]
Runs == [audit : Audits, coverage : Coverages, report : Reports]

LaterStates == {"regression", "newly_applicable", "new_failure", "persisted",
                "changed", "not_comparable"}
GoneStates == {"not_comparable", "no_longer_applicable", "resolved",
               "not_reobserved", "indeterminate"}

\* Types: the five statuses and seven states of the contracts, a report about
\* each condition and page, and a comparison only of two sealed runs.
TypeOK ==
  /\ pc \in {"collecting", "detecting", "sealing", "comparing", "compared"}
  /\ audit \in Audits /\ coverage \in Coverages /\ report \in Reports
  /\ runs \in Seq(Runs) /\ Len(runs) =< 2
  /\ pc \in {"comparing", "compared"} <=> Len(runs) = 2
  /\ pc = "compared" =>
       /\ result.later \in [FindingsOf(runs[2]) -> LaterStates]
       /\ result.gone \in
            [FindingsOf(runs[1]) \ FindingsOf(runs[2]) -> GoneStates]

\* What the collector met on the way to p, by the contract of B-014.
Clean(r, p) ==
  /\ r.audit.outcome[p] \in {"read", "odd"}
  /\ \A q \in Pages :
       r.audit.outcome[q] = "timedout" => <<p, q>> \notin Within

\* A failure of the collector is never a failure of the site: a run has a
\* finding of a page only if nothing recognised as a failure was met on the
\* way to it, and the findings are exactly the failed determinations.
FailuresAreOfTheSite ==
  \A i \in DOMAIN runs : \A c \in Conditions, p \in Pages :
    LET r == runs[i] IN
    /\ r.report.findings[c][p] # <<>> => Clean(r, p) /\ c \in r.report.ran
    /\ r.report.findings[c][p] # <<>> <=> r.report.determinations[c][p] = "FAIL"

\* A finding is resolved only by a later run with the same envelope that
\* checked the condition and evaluated the page, and, for a condition about
\* the whole scope, evaluated every page and closed the discovery.
ResolvedWasReobserved ==
  pc = "compared" =>
    \A f \in DOMAIN result.gone : result.gone[f] = "resolved" =>
      LET b == runs[2] IN
      /\ b.audit.envelope = runs[1].audit.envelope
      /\ f[1] \in b.report.ran
      /\ b.audit.outcome[f[2]] \in Valid
      /\ Requirement[f[1]] = "exhaustive_requested_scope" =>
           b.audit.closed /\ \A p \in Pages : b.audit.outcome[p] \in Valid

\* Where the detectors reported the same of a page in both runs, and nothing
\* stood between them and the page, the comparison of comparable runs says
\* that all of it persists: nothing new, changed, resolved or in doubt.
UnchangedPersists ==
  pc = "compared" /\ Comparable(runs[1], runs[2]) =>
    \A c \in runs[1].report.ran, p \in Pages :
      /\ Clean(runs[1], p) /\ Clean(runs[2], p)
      /\ runs[1].report.hits[c][p] = runs[2].report.hits[c][p]
      => /\ \A f \in DOMAIN result.later :
              f[1] = c /\ f[2] = p => result.later[f] = "persisted"
         /\ \A f \in DOMAIN result.gone : ~(f[1] = c /\ f[2] = p)

\* A regression is claimed only against a page the baseline evaluated.
RegressionHadBaseline ==
  pc = "compared" =>
    \A f \in DOMAIN result.later : result.later[f] = "regression" =>
      runs[1].audit.outcome[f[2]] \in Valid

===============================================================================
