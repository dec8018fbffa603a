------------------------------- MODULE UrlCrawl -------------------------------
(***************************************************************************)
(* The collection of a deployed site and the account that is kept of it:   *)
(* buildSiteFromUrl (src/extractor/site.js), the coverage ledger           *)
(* (src/evidence/coverage.js), the traversal of sitemaps                   *)
(* (src/crawler/sitemapCollector.js), the two phases of a fetch            *)
(* (src/crawler/fetch.js) and the preview and sealing of coverage by the   *)
(* audit (src/commands/audit.js).                                          *)
(*                                                                         *)
(* A URL stands for its normalised form.  Each is fetched at most once, so *)
(* what the site links to is a fixed function; whether a URL answers, with *)
(* what kind of document and whether it is judged a valid resource are     *)
(* choices of the step that reads it.  The order of the links of a page is *)
(* any order.  Nothing in the program excludes a resource or finalizes a  *)
(* ledger unevaluated: the excluded population is empty, and resources are *)
(* valid_but_unevaluated in a preview only.                                *)
(***************************************************************************)
EXTENDS Naturals, Sequences, FiniteSets

CONSTANTS
  Urls,          \* http(s) URLs of the audited origin
  Start,         \* startUrl
  Unledgered,    \* URLs of that origin the ledger does not take (blob:)
  Outside,       \* other origins, and paths of the hosting provider
  Sites,         \* the sites collected: the links of each URL
  Sitemaps,      \* what a sitemap document may list, of that origin
  MaxPages,      \* maxPages
  MaxSitemapDocuments  \* maxDocuments, of the sitemap traversal

Links == Urls \cup Unledgered \cup Outside

ASSUME SiteAssumption ==
  /\ IsFiniteSet(Urls) /\ Start \in Urls
  /\ Urls \cap Unledgered = {} /\ Urls \cap Outside = {}
  /\ Unledgered \cap Outside = {}
  /\ Sites \subseteq [Urls -> SUBSET Links]
  /\ Sitemaps \subseteq SUBSET (Urls \cup Unledgered) /\ {} \in Sitemaps
  /\ MaxPages \in Nat \ {0} /\ MaxSitemapDocuments \in Nat \ {0}

VARIABLES
  site,         \* the site, one of Sites
  pc,           \* where the collection, then the audit, is
  awaited,      \* the fetch awaited: "none", "head" or "body"
  expired,      \* timeExpired()
  stopReason,
  documents,    \* sitemap documents fetched
  topologyStatus,  \* sitemapTopology.status, as far as it is known
  sitemapUrls,  \* sitemapTopology.urls
  queue,        \* the frontier
  seen,         \* URLs taken from it
  current,      \* next.url
  linksLeft,    \* hrefs of the page, or of the sitemaps, still to queue
  html,         \* pages whose content type is text/html
  \* the ledger: the resources that have each field set
  discovered, attempted, retrieved, valid, evaluated, failed, indeterminate,
  coverage      \* coverage.json

frontier == <<queue, discovered>>
journey  == <<attempted, retrieved, valid, failed, indeterminate>>
maps     == <<documents, topologyStatus, sitemapUrls>>
vars     == <<site, pc, awaited, expired, stopReason, maps, queue, seen,
              current, linksLeft, html, discovered, journey, evaluated,
              coverage>>

Ended     == {"sealed", "failed", "rejected"}
Budgets   == {"page_budget_exhausted", "time_budget_exhausted"}
QueueSet  == {queue[i] : i \in 1..Len(queue)}

-----------------------------------------------------------------------------
(* The ledger.                                                             *)

StateOf(u) ==
  IF u \in evaluated THEN "evaluated"
  ELSE IF u \in failed THEN "failed"
  ELSE IF u \in indeterminate THEN "indeterminate"
  ELSE IF u \in valid THEN "valid_resource"
  ELSE IF u \in retrieved THEN "retrieved"
  ELSE IF u \in attempted THEN "attempted" ELSE "eligible"

Terminal == {"evaluated", "failed", "indeterminate"}

\* What each transition demands; where it does not hold the ledger throws.
CanAttempt(u)  == /\ u \in discovered \ retrieved
                  /\ StateOf(u) \notin Terminal
CanRetrieve(u) == /\ u \in attempted \ retrieved
                  /\ StateOf(u) \notin Terminal
CanFail(u) == /\ u \in attempted \ retrieved
              /\ StateOf(u) \notin Terminal
CanEvaluate(u) == /\ u \in valid
                  /\ StateOf(u) \notin Terminal

\* The counts a coverage record carries: ev and un are the resources that
\* are evaluated and valid_but_unevaluated in it.
Populations(ev, un) ==
  [discovered    |-> Cardinality(discovered),
   attempted     |-> Cardinality(attempted),
   retrieved     |-> Cardinality(retrieved),
   valid         |-> Cardinality(valid),
   evaluated     |-> Cardinality(ev),
   unevaluated   |-> Cardinality(un),
   failed        |-> Cardinality(failed),
   indeterminate |-> Cardinality(indeterminate),
   unvisited     |-> Cardinality(discovered \ attempted)]

Reconciled(p) ==
  /\ p.discovered = p.evaluated + p.unevaluated + p.failed
                    + p.indeterminate + p.unvisited
  /\ p.attempted = p.retrieved + p.failed
  /\ p.retrieved = p.valid + p.indeterminate
  /\ p.valid = p.evaluated + p.unevaluated

CoverageStatus_Optimistic(p) ==
  IF stopReason \in Budgets THEN "truncated"
  ELSE IF topologyStatus = "complete" /\ p.failed + p.unevaluated + p.unvisited = 0
       THEN "complete" ELSE "indeterminate"
CoverageStatus(p) ==
  IF stopReason \in Budgets THEN "truncated"
  ELSE IF topologyStatus = "complete" /\ p.failed + p.indeterminate + p.unevaluated
                                   + p.unvisited = 0
       THEN "complete" ELSE "indeterminate"

\* finalize throws on a resource it cannot count and on counts that disagree.
Unresolved(ev, un) ==
  attempted \ (ev \cup un \cup failed \cup indeterminate)
Countable(ev, un) == /\ Unresolved(ev, un) = {}
                     /\ Reconciled(Populations(ev, un))

CoverageOf(kind, ev, un) ==
  [kind |-> kind, populations |-> Populations(ev, un),
   status |-> CoverageStatus(Populations(ev, un))]

NoCoverage == [kind |-> "none"]

-----------------------------------------------------------------------------
(* The clock, and what each look at it does.                               *)

Expire == /\ ~expired
          /\ pc \notin Ended
          /\ expired' = TRUE
          /\ UNCHANGED <<site, pc, awaited, stopReason, maps, queue, seen,
                         current, linksLeft, html, discovered, journey,
                         evaluated, coverage>>

\* timeBudgetStopped(): the first stop reason stays.
ReadClock == stopReason' = IF expired /\ stopReason = "frontier_exhausted"
                           THEN "time_budget_exhausted" ELSE stopReason

\* The headers of the awaited response are in: fetchUrl has stopped its
\* timer and reads the body.
HeadArrives ==
  /\ awaited = "head"
  /\ awaited' = "body"
  /\ UNCHANGED <<site, pc, expired, stopReason, maps, queue, seen, current,
                 linksLeft, html, discovered, journey, evaluated, coverage>>

-----------------------------------------------------------------------------
(* robots.txt and the sitemaps.                                            *)

Begin ==
  /\ pc = "start"
  /\ ReadClock
  /\ IF expired THEN pc' = "sitemaps" /\ awaited' = "none"
                ELSE pc' = "robots" /\ awaited' = "head"
  /\ UNCHANGED <<site, expired, maps, queue, seen, current, linksLeft, html,
                 discovered, journey, evaluated, coverage>>

\* Read, absent or failed: what follows differs only in the sitemaps asked.
RobotsDone ==
  /\ pc = "robots" /\ awaited \in {"head", "body"}
  /\ ReadClock
  /\ pc' = "sitemaps"
  /\ awaited' = IF expired THEN "none" ELSE "head"
  /\ UNCHANGED <<site, expired, maps, queue, seen, current, linksLeft, html,
                 discovered, journey, evaluated, coverage>>

\* A document is read, in part or in full, or is not (a failure is at most
\* an empty document); it may name more documents, which the clock and
\* maxDocuments stop at the head of the loop.
Worse(quality) ==
  IF topologyStatus = "truncated" \/ quality = "limited" THEN "truncated"
  ELSE IF quality = "faulty" THEN "indeterminate" ELSE topologyStatus

ReadSitemap_Endless(S, quality, more) ==
  /\ pc = "sitemaps" /\ awaited \in {"head", "body"}
  /\ awaited = "head" => S = {} /\ quality = "faulty"
  /\ sitemapUrls' = sitemapUrls \cup S
  /\ documents' = documents
  /\ topologyStatus' = Worse(quality)
  /\ awaited' = IF more \/ quality = "faulty" THEN "head" ELSE "none"
  /\ UNCHANGED <<site, pc, expired, stopReason, queue, seen, current,
                 linksLeft, html, discovered, journey, evaluated, coverage>>

ReadSitemap(S, quality, more) ==
  /\ pc = "sitemaps" /\ awaited \in {"head", "body"}
  /\ awaited = "head" => S = {} /\ quality = "faulty"
  /\ sitemapUrls' = sitemapUrls \cup S
  /\ documents' = documents + 1
  /\ LET capped == more /\ documents' = MaxSitemapDocuments
     IN  /\ topologyStatus' = Worse(IF capped THEN "limited" ELSE quality)
         /\ awaited' = IF more /\ ~expired /\ ~capped THEN "head" ELSE "none"
  /\ UNCHANGED <<site, pc, expired, stopReason, queue, seen, current,
                 linksLeft, html, discovered, journey, evaluated, coverage>>

\* The traversal returns, the start URL is queued, the sitemaps' follow.
SitemapsDone ==
  /\ pc = "sitemaps" /\ awaited = "none"
  /\ ReadClock
  /\ topologyStatus' = IF expired THEN "truncated" ELSE topologyStatus
  /\ queue' = <<Start>> /\ discovered' = {Start}
  /\ linksLeft' = sitemapUrls
  /\ pc' = "seeding"
  /\ UNCHANGED <<site, awaited, expired, documents, sitemapUrls, seen, current,
                 html, journey, evaluated, coverage>>

-----------------------------------------------------------------------------
(* The frontier.                                                           *)

Ignored(l) == l \in Outside \cup seen \cup QueueSet

\* enqueuePage, for a link it ignores or takes.  One that the ledger refuses
\* makes it throw.
Enqueue(l) ==
  /\ l \notin Unledgered
  /\ IF Ignored(l)
     THEN UNCHANGED frontier
     ELSE /\ queue' = Append(queue, l)
          /\ discovered' = discovered \cup {l}

Seed ==
  /\ pc = "seeding"
  /\ \/ /\ linksLeft = {}
        /\ pc' = "pages"
        /\ UNCHANGED <<linksLeft, queue, discovered>>
     \/ \E l \in linksLeft :
          /\ Enqueue(l)
          /\ linksLeft' = linksLeft \ {l}
          /\ UNCHANGED pc
     \/ /\ linksLeft \cap Unledgered # {}
        /\ pc' = "rejected"
        /\ UNCHANGED <<linksLeft, queue, discovered>>
  /\ UNCHANGED <<site, awaited, expired, stopReason, maps, seen, current, html,
                 journey, evaluated, coverage>>

\* The head of the loop: it ends, on an empty frontier or a spent budget ...
Leave ==
  /\ pc = "pages"
  /\ \/ /\ queue = <<>> \/ stopReason = "time_budget_exhausted" \/ expired
        /\ IF queue = <<>> THEN UNCHANGED stopReason ELSE ReadClock
     \/ /\ queue # <<>> /\ stopReason # "time_budget_exhausted" /\ ~expired
        /\ Cardinality(seen) >= MaxPages
        /\ stopReason' = "page_budget_exhausted"
  /\ pc' = "closing"
  /\ UNCHANGED <<site, awaited, expired, maps, queue, seen, current, linksLeft,
                 html, discovered, journey, evaluated, coverage>>

\* ... or takes the next URL.
TakeNext_OneMore ==
  /\ pc = "pages" /\ queue # <<>>
  /\ stopReason # "time_budget_exhausted" /\ ~expired
  /\ Cardinality(seen) =< MaxPages
  /\ CanAttempt(Head(queue))
  /\ current' = Head(queue)
  /\ queue' = Tail(queue)
  /\ seen' = seen \cup {Head(queue)}
  /\ attempted' = attempted \cup {Head(queue)}
  /\ pc' = "fetching" /\ awaited' = "head"
  /\ UNCHANGED <<site, expired, stopReason, maps, linksLeft, html, discovered,
                 retrieved, valid, failed, indeterminate, evaluated, coverage>>
TakeNext ==
  /\ pc = "pages" /\ queue # <<>>
  /\ stopReason # "time_budget_exhausted" /\ ~expired
  /\ Cardinality(seen) < MaxPages
  /\ CanAttempt(Head(queue))
  /\ current' = Head(queue)
  /\ queue' = Tail(queue)
  /\ seen' = seen \cup {Head(queue)}
  /\ attempted' = attempted \cup {Head(queue)}
  /\ pc' = "fetching" /\ awaited' = "head"
  /\ UNCHANGED <<site, expired, stopReason, maps, linksLeft, html, discovered,
                 retrieved, valid, failed, indeterminate, evaluated, coverage>>

\* The catch of the loop: ledger.fail throws out of it for a resource that
\* was retrieved, and buildSiteFromUrl rejects.
Caught ==
  /\ IF CanFail(current)
     THEN failed' = failed \cup {current} /\ pc' = "pages"
     ELSE UNCHANGED failed /\ pc' = "rejected"
  /\ UNCHANGED <<attempted, retrieved, valid, indeterminate>>

\* No response: a timeout or a network error after the retries, a redirect
\* that leaves the origin or never ends, a body that breaks or is too large.
FetchFails ==
  /\ pc = "fetching"
  /\ awaited' = "none"
  /\ Caught
  /\ UNCHANGED <<site, expired, stopReason, maps, queue, seen, current,
                 linksLeft, html, discovered, evaluated, coverage>>

\* A response: ok is the judgement of classifyResource, isHtml what its
\* content type says.  A valid resource may be XHTML, whose links are not
\* followed; those of an HTML page are, valid or not.
Classify_OnlyValid(ok) ==
  IF ok THEN valid' = valid \cup {current} /\ UNCHANGED indeterminate
        ELSE UNCHANGED <<valid, indeterminate>>
Classify(ok) ==
  IF ok THEN valid' = valid \cup {current} /\ UNCHANGED indeterminate
        ELSE indeterminate' = indeterminate \cup {current} /\ UNCHANGED valid

ReadPage(ok, isHtml) ==
  /\ pc = "fetching" /\ awaited = "body"
  /\ CanRetrieve(current)
  /\ awaited' = "none"
  /\ retrieved' = retrieved \cup {current}
  /\ Classify(ok)
  /\ html' = IF isHtml THEN html \cup {current} ELSE html
  /\ ReadClock
  /\ pc' = IF expired THEN "closing" ELSE IF isHtml THEN "links" ELSE "pages"
  /\ linksLeft' = IF isHtml /\ ~expired THEN site[current] ELSE {}
  /\ UNCHANGED <<site, expired, maps, queue, seen, current, discovered,
                 attempted, failed, evaluated, coverage>>

FollowLink ==
  /\ pc = "links" /\ ~expired
  /\ \/ /\ linksLeft = {}
        /\ pc' = "pages"
        /\ UNCHANGED <<linksLeft, queue, discovered, journey>>
     \/ \E l \in linksLeft :
          /\ Enqueue(l)
          /\ linksLeft' = linksLeft \ {l}
          /\ UNCHANGED <<pc, journey>>
     \/ /\ linksLeft \cap Unledgered # {}
        /\ Caught
        /\ UNCHANGED <<linksLeft, queue, discovered>>
  /\ UNCHANGED <<site, awaited, expired, stopReason, maps, seen, current, html,
                 evaluated, coverage>>

StopFollowing ==
  /\ pc = "links" /\ expired
  /\ IF linksLeft = {} THEN pc' = "pages" /\ UNCHANGED stopReason
                       ELSE pc' = "closing" /\ ReadClock
  /\ UNCHANGED <<site, awaited, expired, maps, queue, seen, current, linksLeft,
                 html, discovered, journey, evaluated, coverage>>

\* After the loop: the last look at the clock, pendingUrls, the site.
Close ==
  /\ pc = "closing"
  /\ ReadClock
  /\ pc' = "collected"
  /\ UNCHANGED <<site, awaited, expired, maps, queue, seen, current, linksLeft,
                 html, discovered, journey, evaluated, coverage>>

-----------------------------------------------------------------------------
(* The audit.                                                              *)

\* For the preview every valid resource counts as valid_but_unevaluated.
PreviewCoverage ==
  /\ pc = "collected"
  /\ IF Countable({}, valid)
     THEN /\ coverage' = CoverageOf("preview", {}, valid)
          /\ pc' = "previewed"
     ELSE pc' = "failed" /\ UNCHANGED coverage
  /\ UNCHANGED <<site, awaited, expired, stopReason, maps, queue, seen, current,
                 linksLeft, html, discovered, journey, evaluated>>

FinalizeCoverage ==
  /\ pc = "previewed"
  /\ \A u \in valid : CanEvaluate(u)
  /\ evaluated' = valid
  /\ IF Countable(valid, {})
     THEN /\ coverage' = CoverageOf("final", valid, {})
          /\ pc' = "sealed"
     ELSE pc' = "failed" /\ UNCHANGED coverage
  /\ UNCHANGED <<site, awaited, expired, stopReason, maps, queue, seen, current,
                 linksLeft, html, discovered, journey>>

-----------------------------------------------------------------------------
Init ==
  /\ site \in Sites
  /\ pc = "start" /\ awaited = "none" /\ expired = FALSE
  /\ stopReason = "frontier_exhausted"
  /\ documents = 0 /\ topologyStatus = "complete" /\ sitemapUrls = {}
  /\ queue = <<>> /\ seen = {} /\ current = Start
  /\ linksLeft = {} /\ html = {}
  /\ discovered = {} /\ attempted = {} /\ retrieved = {} /\ valid = {}
  /\ evaluated = {} /\ failed = {} /\ indeterminate = {}
  /\ coverage = NoCoverage

Step == \/ Begin \/ RobotsDone \/ SitemapsDone
        \/ \E S \in Sitemaps, more \in BOOLEAN,
              quality \in {"fine", "faulty", "limited"} :
                ReadSitemap(S, quality, more)
        \/ Seed \/ Leave \/ TakeNext
        \/ FetchFails
        \/ \E ok, isHtml \in BOOLEAN : ReadPage(ok, isHtml)
        \/ FollowLink \/ StopFollowing \/ Close
        \/ PreviewCoverage \/ FinalizeCoverage

Next == Step \/ HeadArrives \/ Expire

Spec == Init /\ [][Next]_vars

(***************************************************************************)
(* Fairness: the program runs on, and every request has its headers or is  *)
(* given up (fetchUrl aborts it after timeoutMs and retries a bounded      *)
(* number of times); time passes.  Nothing bounds the reading of a body:   *)
(* the timer is cleared once the headers are in.                           *)
(***************************************************************************)
FairSpec == Spec /\ WF_vars(awaited # "body" /\ (Step \/ HeadArrives))
                 /\ WF_vars(Expire)

-----------------------------------------------------------------------------
(* Properties.                                                             *)

\* Types, the bounds of the two traversals, and an await only where the code
\* has one.
TypeOK ==
  /\ site \in Sites
  /\ pc \in {"start", "robots", "sitemaps", "seeding", "pages", "fetching",
             "links", "closing", "collected", "previewed"} \cup Ended
  /\ awaited \in {"none", "head", "body"}
  /\ awaited # "none" => pc \in {"robots", "sitemaps", "fetching"}
  /\ pc \in {"robots", "fetching"} => awaited # "none"
  /\ expired \in BOOLEAN /\ stopReason \in {"frontier_exhausted"} \cup Budgets
  /\ documents \in 0..MaxSitemapDocuments
  /\ awaited # "none" /\ pc = "sitemaps" => documents < MaxSitemapDocuments
  /\ topologyStatus \in {"complete", "indeterminate", "truncated"}
  /\ sitemapUrls \subseteq Urls \cup Unledgered
  /\ queue \in Seq(Urls) /\ current \in Urls /\ linksLeft \subseteq Links
  /\ seen \subseteq Urls /\ html \subseteq Urls /\ discovered \subseteq Urls

\* The frontier of site.js and the ledger name the same resources: each URL
\* discovered is queued once or was taken once, never both, and no more are
\* taken than maxPages allows.
FrontierIsExact ==
  /\ \A i, j \in 1..Len(queue) : queue[i] = queue[j] => i = j
  /\ QueueSet \cap seen = {}
  /\ discovered = QueueSet \cup seen
  /\ attempted = seen
  /\ Cardinality(seen) =< MaxPages

\* What the ledger counts: a resource has one fate at most, what was
\* retrieved was judged, and only the URL being fetched has no fate yet.
OneFate ==
  /\ valid \cap indeterminate = {} /\ failed \cap retrieved = {}
  /\ retrieved = valid \cup indeterminate
  /\ evaluated \subseteq valid
  /\ attempted = retrieved \cup failed
                 \cup (IF pc = "fetching" THEN {current} ELSE {})
  /\ pc = "fetching" => current \notin retrieved \cup failed

\* The ledger accepts every transition site.js and audit.js ask of it, the
\* failure of a retrieved resource excepted: no attempt, retrieval or
\* evaluation is of a resource whose fate is sealed.
LedgerAccepts ==
  /\ pc = "pages" /\ queue # <<>> => CanAttempt(Head(queue))
  /\ pc = "fetching" => CanRetrieve(current) /\ CanFail(current)
  /\ pc = "previewed" => \A u \in valid : CanEvaluate(u)

\* However a collection that returns its site has ended, the preview and the
\* sealing of its coverage do not throw: nothing attempted is left without a
\* fate and the five equations hold.
CoverageCounts == pc # "failed"

\* Coverage is complete only for what is closed under discovery: the start
\* URL, the URLs of the sitemaps and the links of every page read as HTML were
\* all evaluated, and no budget cut the traversal.
CompleteIsClosed ==
  coverage.kind = "final" /\ coverage.status = "complete" =>
    /\ stopReason = "frontier_exhausted" /\ topologyStatus = "complete"
    /\ {Start} \cup sitemapUrls \subseteq evaluated
    /\ \A u \in evaluated \cap html : site[u] \subseteq evaluated \cup Outside

\* A fate stays: what has failed, was judged or evaluated is never judged
\* again, whatever links lead back to it.
FateStays == [][\A u \in Urls : StateOf(u) \in Terminal => StateOf(u)' = StateOf(u)]_vars

\* The collection and the audit of it end, unless the body of some response
\* never does.
EndsUnlessABodyStalls == []<>(awaited # "body") => <>(pc \in Ended)
===============================================================================
