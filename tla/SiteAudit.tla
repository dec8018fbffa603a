------------------------------ MODULE SiteAudit ------------------------------
(***************************************************************************)
(* An audit of a site: the pages are read one after the other              *)
(* (src/extractor/site.js) and every detector is asked about what has been *)
(* read (src/detectors, src/conditions, src/evidence/determination.js).    *)
(*                                                                         *)
(* A crawl starts at one URL and at what the sitemaps list and follows the *)
(* links of HTML pages; the page and time budgets may stop it after any    *)
(* page, so every state of a crawl is a site some audit sees. A build is   *)
(* read from its directory, all HTML files at once. The site is not the    *)
(* project's to hold still: a page may change while others are read.       *)
(*                                                                         *)
(* `web' gives what a URL answers: a page, status 0 if it cannot be        *)
(* fetched, or a redirect to `location'.                                   *)
(***************************************************************************)
EXTENDS DetTech, DetContent, DetAnswers, DetSchema, DetAgent, DetCro

CONSTANTS
  Urls,            \* the URLs of the site, the missing ones included
  Sites,           \* sites and the projects that declare things about them
  Changes,         \* [at, what]: what may be changed, and on which page
  Changed(_, _),   \* the page after such a change
  PartOf(_, _),    \* the text of one URL is a part of the text of another
  Directory,       \* the files of the build in the order of the directory
  MaxChanges       \* bound: changes made while a crawl runs

(***************************************************************************)
(* A page has the three fields the reading of it sets, and its links in an *)
(* order; a site has an answer at each of its URLs, its sitemaps are       *)
(* finite, and `errors' are those sitemaps that could not be read.         *)
(***************************************************************************)
IsPage(p) == {"n", "requested", "hops"} \subseteq DOMAIN p /\ p.links \in Seq(ToSet(p.links))
ASSUME SitesAreWhole ==
    \A s \in Sites : /\ s.web = [u \in Urls |-> s.web[u]]
                     /\ \A u \in Urls : IsPage(s.web[u])
                     /\ s.sitemaps \subseteq Urls /\ IsFiniteSet(s.sitemaps)
                     /\ s.errors \subseteq Urls

MaxRedirects == 10

VARIABLES
  mode,    \* "url" or "built_output"
  site,    \* web, sitemaps, robots and the registries
  queue,   \* URLs waiting to be read
  read,    \* the pages read, in order
  ledger,  \* what became of each URL
  errors,  \* the URLs named by errors that are failures of the collector
  before,  \* history: read, ledger and errors before the last retrieval
  changes  \* the changes made so far

siteVars == <<mode, site, queue, read, ledger, errors, before, changes>>

(***************************************************************************)
(* Fetching: redirects are followed within the site.                       *)
(***************************************************************************)
Redirects(u) == u \in Urls /\ IsRedirect(site.web[u]) /\ site.web[u].location # NoUrl
Onward(u) == IF Redirects(u) THEN site.web[u].location ELSE u
Followed(u) == LET at[n \in 0..MaxRedirects] == IF n = 0 THEN u ELSE Onward(at[n - 1]) IN at
FinalUrl(u) == Followed(u)[MaxRedirects]
Hops(u) == LET at == Followed(u) IN Cardinality({n \in 0..(MaxRedirects - 1) : Redirects(at[n])})
Answers(u) == /\ FinalUrl(u) \in Urls
              /\ ~Redirects(FinalUrl(u))
              /\ site.web[FinalUrl(u)].status # 0

(***************************************************************************)
(* The errors that classifyCollectorError knows: a name that does not      *)
(* resolve, a timeout, a redirect to elsewhere; not a refused connection,  *)
(* a body too large or too many redirects.                                 *)
(***************************************************************************)
Classified(u) == \/ FinalUrl(u) \notin Urls
                 \/ ~Redirects(FinalUrl(u)) /\ "timeout" \in site.web[FinalUrl(u)].has

PageAt(u) == [site.web[FinalUrl(u)] EXCEPT !.n = Len(read) + 1, !.requested = u, !.hops = Hops(u)]

(***************************************************************************)
(* A response worth evaluating (classifyResourceValidity).                 *)
(***************************************************************************)
ValidResource(p) == /\ p.status \in 200..299
                    /\ p.type = "html"
                    /\ {"wall", "soft 404", "insubstantial"} \cap p.has = {}

(***************************************************************************)
(* The frontier: every URL of the site once, provider utility routes       *)
(* never.                                                                  *)
(***************************************************************************)
Distinct(candidates, wanted) ==
    LET found[i \in 0..Len(candidates)] ==
          IF i = 0 THEN << >>
          ELSE LET sofar == found[i - 1]
               IN IF candidates[i] \in wanted \ ToSet(sofar) THEN Append(sofar, candidates[i]) ELSE sofar
    IN found[Len(candidates)]

Enqueue_SeenOnly(known, candidates) ==
    Distinct(candidates, {u \in Urls : ~IsUtility(u) /\ known[u] \in {"unknown", "eligible"}})
Enqueue(known, candidates) ==
    Distinct(candidates, {u \in Urls : ~IsUtility(u) /\ known[u] = "unknown"})
Discover(known, found) == [u \in Urls |-> IF u \in ToSet(found) THEN "eligible" ELSE known[u]]

Unknown == [u \in Urls |-> "unknown"]
Links(p) == IF p.type = "html" THEN [i \in DOMAIN p.links |-> p.links[i].to] ELSE << >>

SiteInit ==
    /\ mode \in {"url", "built_output"}
    /\ site \in Sites
    /\ queue = IF mode = "url"
               THEN Enqueue(Unknown, <<site.start>> \o SetToSeq(site.sitemaps)) ELSE << >>
    /\ ledger = Discover(Unknown, queue)
    /\ read = << >>
    /\ errors = IF mode = "url" THEN site.errors ELSE {}
    /\ before = [read |-> read, ledger |-> ledger, errors |-> errors]
    /\ changes = {}

ReadPage ==
    /\ queue # << >>
    /\ Answers(Head(queue))
    /\ LET u == Head(queue)
           p == PageAt(u)
           known == [ledger EXCEPT ![u] = IF ValidResource(p) THEN "valid_resource" ELSE "indeterminate"]
           found == Enqueue(known, Links(p))
       IN /\ read' = Append(read, p)
          /\ ledger' = Discover(known, found)
          /\ queue' = Tail(queue) \o found
    /\ before' = [read |-> read, ledger |-> ledger, errors |-> errors]
    /\ UNCHANGED <<mode, site, errors, changes>>

ReadFails ==
    /\ queue # << >>
    /\ ~Answers(Head(queue))
    /\ ledger' = [ledger EXCEPT ![Head(queue)] = "failed"]
    /\ queue' = Tail(queue)
    /\ errors' = IF Classified(Head(queue)) THEN errors \cup {Head(queue)} ELSE errors
    /\ before' = [read |-> read, ledger |-> ledger, errors |-> errors]
    /\ UNCHANGED <<mode, site, read, changes>>

(***************************************************************************)
(* Built output: the HTML files in the order of the directory, each under  *)
(* its own URL and with the status a transport file gives it; none of them *)
(* took an attempt that failed.                                            *)
(***************************************************************************)
Files == SelectSeq(Directory, LAMBDA u : site.web[u].type = "html" /\ site.web[u].status # 0)
BuiltPages == [i \in DOMAIN Files |->
    [site.web[Files[i]] EXCEPT !.n = i, !.requested = Files[i], !.has = @ \ {"failed attempt"}]]

ReadBuild ==
    /\ mode = "built_output"
    /\ read = << >>
    /\ read' = BuiltPages
    /\ UNCHANGED <<mode, site, queue, ledger, errors, before, changes>>

ChangePage(c) ==
    /\ queue # << >>
    /\ Cardinality(changes) < MaxChanges
    /\ IsPage(Changed(site.web[c.at], c.what))
    /\ changes' = changes \cup {c}
    /\ site' = [site EXCEPT !.web[c.at] = Changed(@, c.what)]
    /\ UNCHANGED <<mode, queue, read, ledger, errors, before>>

SiteNext ==
    \/ ReadPage
    \/ ReadFails
    \/ ReadBuild
    \/ \E c \in Changes : ChangePage(c)

SiteSpec == SiteInit /\ [][SiteNext]_siteVars

(***************************************************************************)
(* What the detectors are called with. A crawl does not look for llms.txt  *)
(* beside the pages; a build does.                                         *)
(***************************************************************************)
LlmsFiles == {"llms.txt", "llms-full.txt"}
ContextOf(how, pages, states, failed) ==
    [pages |-> ToSet(pages), mode |-> how, states |-> states, errors |-> failed,
     robots |-> site.robots, sitemaps |-> site.sitemaps, sitemapFound |-> site.sitemapFound,
     registries |-> site.registries, observations |-> site.observations,
     promptResults |-> site.promptResults, snapshot |-> site.snapshot,
     facts |-> IF how = "url" THEN site.facts \ LlmsFiles ELSE site.facts,
     maxDepth |-> site.maxDepth, rivals |-> site.rivals, today |-> site.today, llms |-> site.llms]

Context == ContextOf(mode, read, ledger, errors)
Earlier == ContextOf(mode, before.read, before.ledger, before.errors)

(***************************************************************************)
(* What every detector's check reports.                                    *)
(***************************************************************************)
Joined(f, g) == [x \in DOMAIN f \cup DOMAIN g |-> IF x \in DOMAIN f THEN f[x] ELSE g[x]]
Checks(ctx) == Joined(Joined(Joined(TechChecks(ctx), ContentChecks(ctx)), Joined(AnswerChecks(ctx), SchemaChecks(ctx))),
                      Joined(AgentChecks(ctx), CroChecks(ctx)))

(***************************************************************************)
(* The profile of the site, from what the pages read look like: the        *)
(* conditions of a shop do not apply to a site of content only.            *)
(***************************************************************************)
ShopPaths == {"/checkout"}
Profile(ctx) ==
    LET shop(p) == \/ p.url.path \in ShopPaths \/ "buying words" \in p.has
                   \/ \E b \in p.schema : b.type \in {"Product", "Offer"}
        service(p) == IsCommercialUrl(p.url) \/ "trial words" \in p.has
    IN IF \E p \in ctx.pages : shop(p) THEN "ecommerce"
       ELSE IF \E p \in ctx.pages : service(p) THEN "saas" ELSE "content_only"

Ecommerce == {"SCHEMA_006", "CRO_013", "CRO_021", "AGENT_010"}
Applicable(d, ctx) == d \in Ecommerce => Profile(ctx) # "content_only"

(***************************************************************************)
(* A failure to collect is no failure of a condition: hits on a subject    *)
(* are left out when the page with its URL shows such a failure, and when  *)
(* the subject is named by an error of the crawl. The errors are searched  *)
(* for the text of the subject, so that the error of any page names the    *)
(* home page and the site too. The base URL a project configures is taken  *)
(* to be written as that of the home page.                                 *)
(***************************************************************************)
Ident(subject) ==
    IF subject.url # NoUrl THEN subject.url
    ELSE IF subject.type = "site" /\ subject.name[1] \in {"host", "sitemap", "robots"} THEN Root
    ELSE Url(subject.name[2], subject.name[1])

FailedOn(p) == p.status \in {403, 429} \/ {"wall", "failed attempt"} \cap p.has # {}
AsPage(subject) == subject.type \in {"page", "url"}

RetrievalFailed(ctx, subject) ==
    \/ AsPage(subject) /\ \E p \in First({p \in ctx.pages : p.url = subject.url}) : FailedOn(p)
    \/ \E u \in ctx.errors : PartOf(Ident(subject), u)

Findings(ctx) ==
    LET checks == Checks(ctx)
    IN [d \in DOMAIN checks |-> {s \in checks[d] : Applicable(d, ctx) /\ ~RetrievalFailed(ctx, s)}]

(***************************************************************************)
(* The coverage the detectors are given is the preview of the ledger, made *)
(* before evaluation; the plan of a later command uses the sealed one.     *)
(***************************************************************************)
SiteCoverage(sealed) ==
    LET state == [u \in Urls |-> IF ledger[u] = "valid_resource"
                                 THEN (IF sealed THEN "evaluated" ELSE "valid_but_unevaluated")
                                 ELSE ledger[u]]
        known == {u \in Urls : ledger[u] # "unknown"}
    IN [state |-> state,
        evaluated |-> {u \in Urls : state[u] = "evaluated"},
        complete |-> site.sitemapFound /\ \A u \in known : state[u] = "evaluated"]

PageResource == {"PAGE_001", "PAGE_002", "PAGE_003", "PAGE_004", "PAGE_005", "PAGE_006",
                 "PAGE_007", "PAGE_008", "PAGE_009", "PAGE_010", "PAGE_011", "CWV_004"}
Exhaustive == {"TECH_016", "CRAWL_003", "AGENT_001", "AGENT_003", "AGENT_004", "AGENT_005"}

EvaluateRequirement(d, coverage, subject) ==
    IF d \in Exhaustive
    THEN IF coverage.complete /\ coverage.evaluated # {} THEN "supported" ELSE "indeterminate"
    ELSE IF d \in PageResource \/ subject.type \in {"page", "url"}
    THEN IF subject.url \in coverage.evaluated THEN "supported" ELSE "indeterminate"
    ELSE IF coverage.evaluated = {} THEN "indeterminate"
    ELSE IF coverage.complete THEN "supported" ELSE "qualified"

(***************************************************************************)
(* The determination an audit records about a subject; what could not be   *)
(* collected is NOT_TESTED or an ERROR.                                    *)
(***************************************************************************)
Determination(d, subject) ==
    LET scope == EvaluateRequirement(d, SiteCoverage(FALSE), subject)
    IN IF ~Applicable(d, Context) THEN <<"NOT_APPLICABLE", scope>>
       ELSE IF RetrievalFailed(Context, subject) THEN <<"NOT_TESTED", scope>>
       ELSE IF subject \in Checks(Context)[d] THEN <<"FAIL", scope>>
       ELSE IF scope = "indeterminate" THEN <<"INDETERMINATE", scope>> ELSE <<"PASS", scope>>

-----------------------------------------------------------------------------
(***************************************************************************)
(* What a page shows, it shows: a finding is not taken back by going on to *)
(* another page, unless its detector looks for something that no page read *)
(* has, or the retrieval failed in a way that names what the finding is    *)
(* about. CorpusWide names those detectors, of all that there are: reports *)
(* of what is missing (unlinked pages, broken links, undefined references, *)
(* absent files) or of averages, which are final only when the crawl is    *)
(* complete.                                                               *)
(***************************************************************************)
CorpusWide == {"LINK_001", "LINK_004", "ARCH_001", "ARCH_003", "SCHEMA_010", "EVD_008", "CRO_017",
               "AGENT_002", "AGENT_003", "AGENT_006", "AGENT_011", "AGENT_012", "AGENT_013"}

FirstRetrieval ==
    \A p \in ToSet(read) \ ToSet(before.read) :
      /\ \A q \in ToSet(before.read) : q.url # p.url
      /\ before.ledger[p.url] \in {"unknown", "eligible"}
TakenBack(subject) ==
    \/ \E u \in errors \ before.errors : PartOf(Ident(subject), u)
    \/ AsPage(subject) /\ \E p \in ToSet(read) \ ToSet(before.read) : p.url = subject.url /\ FailedOn(p)
HitsStand ==
    (mode = "url" /\ FirstRetrieval) =>
      LET earlier == Findings(Earlier)
          now == Findings(Context)
      IN \A d \in DOMAIN earlier \ CorpusWide : \A s \in earlier[d] \ now[d] : TakenBack(s)

(***************************************************************************)
(* A complete crawl of a site whose pages can all be reached and answer    *)
(* with 200 at the first attempt finds what the audit of its build finds,  *)
(* though it meets the pages in another order. Apart are the detectors     *)
(* that look at the first page that fits, and llms.txt, which only a build *)
(* has beside its pages.                                                   *)
(***************************************************************************)
ReadingBound == {"CLAIM_008", "AGENT_003", "AGENT_011"}

Reachable ==
    LET next(S) == S \cup UNION {ToSet(Links(site.web[u])) : u \in S}
        at[n \in 0..Cardinality(Urls)] ==
          IF n = 0 THEN {site.start} \cup site.sitemaps ELSE next(at[n - 1])
    IN at[Cardinality(Urls)]
Plain == /\ Reachable = ToSet(Files)
         /\ \A u \in Reachable : site.web[u].status = 200 /\ "failed attempt" \notin site.web[u].has
         /\ errors = {}
Undisturbed == \A p \in ToSet(read) : [p EXCEPT !.n = 0, !.requested = p.url] = site.web[p.url]

CrawlMatchesBuild ==
    (mode = "url" /\ queue = << >> /\ Plain /\ Undisturbed) =>
      LET crawled == Findings(Context)
          built == Findings(ContextOf("built_output", BuiltPages, ledger, {}))
      IN \A d \in DOMAIN built \ ReadingBound : crawled[d] = built[d]

(***************************************************************************)
(* "Page-local positive findings remain valid observations about evaluated *)
(* URLs" (docs/superpowers/specs/2026-09-19-audit-coverage-contract-       *)
(* design.md:193): in a complete crawl, a condition about one page is      *)
(* established or passed on every valid page.                              *)
(***************************************************************************)
PageLocalEstablished ==
    (mode = "url" /\ SiteCoverage(TRUE).complete) =>
      \A p \in ToSet(read) : \A d \in PageResource :
        Determination(d, PageSubject(p)) \in {<<"FAIL", "supported">>, <<"PASS", "supported">>}
=============================================================================
