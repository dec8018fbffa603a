-------------------------------- MODULE Audits --------------------------------
(***************************************************************************)
(* The two sides of an audit: the findings of one collection while it goes *)
(* on (SiteAudit), and what is concluded from the difference of two sealed *)
(* audits (AuditComparison).  No property relates their states, so that    *)
(* they are looked at one at a time: `focus' says which is in use in a     *)
(* behaviour, and the other has not begun or has no site.                  *)
(***************************************************************************)
EXTENDS AuditComparison, SiteAudit

VARIABLE focus

auditsVars == <<focus, vars, siteVars>>

NoSite == /\ mode = "none"
          /\ site = << >> /\ queue = << >> /\ read = << >> /\ ledger = << >> /\ before = << >>
          /\ errors = {} /\ changes = {}

AuditsInit ==
  /\ Init
  /\ \/ focus = "crawl" /\ SiteInit
     \/ focus = "compare" /\ NoSite

Crawling(A)  == focus = "crawl" /\ A /\ UNCHANGED <<focus, vars>>
Comparing(A) == focus = "compare" /\ A /\ UNCHANGED <<focus, siteVars>>

\* The disjuncts of SiteNext and those of Next.
AuditsNext ==
  \/ Crawling(ReadPage) \/ Crawling(ReadFails) \/ Crawling(ReadBuild)
  \/ \E c \in Changes : Crawling(ChangePage(c))
  \/ \E e \in Envelopes, o \in Collections, closed \in BOOLEAN :
       Comparing(BuildContext(e, o, closed))
  \/ \E how \in Modes, hits \in Hits : Comparing(RunDetectors(how, hits))
  \/ Comparing(FinalizeCoverage) \/ Comparing(Compare)

AuditsSpec == AuditsInit /\ [][AuditsNext]_auditsVars
===============================================================================
