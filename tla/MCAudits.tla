------------------------------- MODULE MCAudits -------------------------------
(***************************************************************************)
(* For the comparison: two pages, the home page and one below it, whose    *)
(* URL contains the home's; one condition about a page, which may have two *)
(* observations of it, and one about the whole scope.                      *)
(*                                                                         *)
(* For the crawl: six small sites, each with the declarations of a         *)
(* project, one of them also with a sitemap that cannot be read, and       *)
(* single changes to two of their pages.                                   *)
(***************************************************************************)
EXTENDS Audits, TLC

CONSTANTS home, page, c1, c2, x, y

MCPages == {home, page}
MCConditions == {c1, c2}
MCObservations == {x, y}
MCWithin == {<<home, home>>, <<page, page>>, <<home, page>>}
MCRequirement ==
  [c \in MCConditions |-> IF c = c1 THEN "page_resource"
                                    ELSE "exhaustive_requested_scope"]
MCEnvelopes == {[kind |-> "url", configuration |-> 1],
                [kind |-> "url", configuration |-> 2],
                [kind |-> "built_output", configuration |-> 1]}
MCCollections ==
  {o \in [MCPages -> Outcomes] : o[home] \in {"read", "timedout"}}
MCModes ==
  {m \in [MCConditions -> {"checked", "throws", "inapplicable", "untested"}] :
     m[c2] = "checked" \/ m = [c \in MCConditions |->
                                 IF c = c1 THEN "checked" ELSE "untested"]}
MCHits ==
  {[c \in MCConditions |-> [p \in MCPages |->
      IF c = c1 /\ p = home THEN a ELSE IF c = c1 THEN b
      ELSE IF p = home THEN <<>> ELSE d]] :
     a \in {<<>>, <<x>>}, b \in {<<>>, <<x>>, <<y>>, <<x, y>>},
     d \in {<<>>, <<x>>}}

-----------------------------------------------------------------------------
(***************************************************************************)
(* The URLs of the crawled sites.                                          *)
(***************************************************************************)
Top == Root
Note == Url("/note", "plain")
Other == Url("/b.html", "plain")
Pricing == Url("/pricing/", "plain")
Checkout == Url("/checkout", "plain")
Thanks == Url("/thank-you", "plain")
LlmsTxt == Url("/llms.txt", "plain")
Mcp == Url("/.well-known/mcp", "plain")
Card == Url("/.well-known/agent.json", "plain")
Ard == Url("/.well-known/ard.json", "plain")
Old == Url("/old", "plain")
Older == Url("/older", "plain")
Gone == Url("/gone", "plain")
Utility == Url("/cdn-cgi", "plain")
SitemapXml == Url("/sitemap.xml", "plain")
Elsewhere == Url("/api", "external")

MCUrls == {Top, Note, Other, Pricing, Checkout, Thanks, LlmsTxt, Mcp, Card, Ard, Old, Older, Gone, Utility, SitemapXml}
MCDirectory == <<Other, Checkout, Top, Note, Old, Older, Pricing, Thanks>>

(***************************************************************************)
(* Pages.                                                                  *)
(***************************************************************************)
NoDoc == [has |-> {}, endpoint |-> NoUrl, tools |-> {}, targets |-> {}]
Missing(u) ==
    [n |-> 0, requested |-> u, url |-> u, status |-> 404, type |-> "none", has |-> {}, title |-> "",
     description |-> "", canonicals |-> << >>, ogUrl |-> NoUrl, hreflangs |-> {}, links |-> << >>,
     hops |-> 0, location |-> NoUrl, words |-> 0, rawWords |-> 0, scriptBytes |-> 0, blocking |-> 0,
     headings |-> << >>, chrome |-> 0, collapsed |-> {}, variants |-> {}, states |-> {}, mentions |-> {},
     shows |-> {}, passages |-> << >>, sections |-> {}, schema |-> {}, content |-> "", modified |-> 0,
     lastModified |-> 0, shownDate |-> 0, ctas |-> << >>, forms |-> {}, navLinks |-> 0, domNodes |-> 10,
     domDepth |-> 3, doc |-> NoDoc, tools |-> {}, manifest |-> NoUrl, instructions |-> {}]

Link(u) == [to |-> u, text |-> "phrase"]
Generic(u) == [to |-> u, text |-> "generic"]
LinkTo(us) == [i \in DOMAIN us |-> Link(us[i])]
PlainFacts == {"viewport", "summary heading", "limitations", "trust badge", "link header",
               "markdown type", "express payment"}
Page(u, links) ==
    [Missing(u) EXCEPT !.status = 200, !.type = "html", !.has = PlainFacts, !.title = u.path,
                       !.description = u.path, !.links = links, !.words = 200, !.rawWords = 200,
                       !.headings = <<1, 2>>, !.content = u.path, !.passages = <<{"copula"}>>]
Resource(u, doc) == [Missing(u) EXCEPT !.status = 200, !.type = "other", !.doc = doc, !.has = {"viewport"}]
Redirect(u, to) == [Missing(u) EXCEPT !.status = 301, !.location = to, !.type = "html"]
Unreachable(u, why) == [Missing(u) EXCEPT !.status = 0, !.has = why]

Cta(text, to, has) == [text |-> text, place |-> "site", target |-> to, has |-> has,
                       width |-> -1, height |-> -1, font |-> -1]
Form(fields, has) == [fields |-> fields, method |-> "POST", class |-> "reversible", does |-> "none", has |-> has, inputs |-> {}]
Block(type, name, id) ==
    [type |-> type, name |-> name, id |-> id, sameAs |-> {}, refs |-> {}, url |-> NoUrl,
     published |-> 0, modified |-> 0, items |-> << >>,
     has |-> {"url", "logo", "visible headline"}]
Tool(name, has) == [name |-> name, endpoint |-> NoUrl, has |-> has, declared |-> "none", wording |-> {}]

(***************************************************************************)
(* Changes: a fact that holds or not, or what is written in the CASE.      *)
(***************************************************************************)
Toggle(S, e) == IF e \in S THEN S \ {e} ELSE S \cup {e}
FactChanges == {"noindex", "wall", "failed attempt", "viewport", "image without alt", "dominant term", "superlative",
                "limitations", "title words", "nosnippet", "unparsed json-ld", "hidden instructions"}
BlockOf(what) ==
    CASE what = "article" -> [Block("Article", "", "") EXCEPT !.has = {"headline", "author without profile"},
                                !.published = 900, !.modified = 10, !.url = Gone]
      [] what = "organization" -> [Block("Organization", "Acme Inc", "#org2") EXCEPT !.sameAs = {"elsewhere"}]
      [] what = "twin" -> [Block("Organization", "Acme", "#org9") EXCEPT !.sameAs = {"elsewhere"}, !.has = {}]
      [] what = "namesake" -> Block("Organization", "Other", "#org")
      [] what = "reference" -> [Block("WebPage", "", "#page") EXCEPT !.refs = {"#page", "#org"}]
      [] what = "trail" -> [Block("BreadcrumbList", "", "") EXCEPT
                              !.items = <<[position |-> 2, has |-> {"name", "url"}]>>]
      [] what = "video" -> [Block("VideoObject", "", "") EXCEPT !.has = {"rating", "expired offer"}]
      [] what = "faq" -> [Block("FAQPage", "", "") EXCEPT !.has = {"unseen question", "price"}]
BlockChanges == {"article", "organization", "twin", "namesake", "reference", "trail", "video", "faq"}
PassagesOf(what) ==
    CASE what = "preamble" -> <<{"preamble", "circular", "deictic"}>>
      [] what = "quantities" -> <<{"relative quantity", "metric"}, {"fluff", "more fluff"}>>
      [] what = "late claim" -> <<{"copula"}, {"claim"}, {}, {"past 450 words"}>>
PassageChanges == {"preamble", "quantities", "late claim"}
SectionOf(what) ==
    CASE what = "empty question" -> {"question", "empty"}
      [] what = "long lead" -> {"question", "long lead", "over 50 words", "procedural"}
SectionChanges == {"empty question", "long lead"}

MCChanged(p, what) ==
    CASE what \in BlockChanges -> [p EXCEPT !.schema = Toggle(@, BlockOf(what))]
      [] what \in PassageChanges -> [p EXCEPT !.passages = PassagesOf(what), !.has = @ \cup {"definition page"}]
      [] what \in SectionChanges -> [p EXCEPT !.sections = Toggle(@, SectionOf(what))]
      [] what = "gone" -> [p EXCEPT !.status = 404, !.has = {}]
      [] what = "no answer" -> [p EXCEPT !.status = 0]
      [] what = "too late" -> [p EXCEPT !.status = 0, !.has = {"timeout"}]
      [] what = "sent away" -> Redirect(p.url, Elsewhere)
      [] what = "forbidden" -> [p EXCEPT !.status = 403]
      [] what = "moved" -> [Redirect(p.url, Top) EXCEPT !.content = p.content]
      [] what = "download" -> [p EXCEPT !.type = "other", !.has = @ \cup {"html markup"}]
      [] what = "untitled" -> [p EXCEPT !.title = "", !.description = "", !.headings = <<2, 4>>]
      [] what = "same title" -> [p EXCEPT !.title = "twin", !.description = "twin"]
      [] what = "no links" -> [p EXCEPT !.links = << >>]
      [] what = "broken link" -> [p EXCEPT !.links = <<Generic(Gone), Generic(Old), Link(Top), Link(Top)>>]
      [] what = "canonical" -> [p EXCEPT !.canonicals = <<Note>>, !.ogUrl = Top, !.schema = {BlockOf("article")}]
      [] what = "two canonicals" -> [p EXCEPT !.canonicals = <<Gone, Top>>]
      [] what = "alternates" -> [p EXCEPT !.hreflangs = {[lang |-> "fr", href |-> Other, absolute |-> TRUE],
                                                       [lang |-> "zz", href |-> Note, absolute |-> FALSE]}]
      [] what = "shell" -> [p EXCEPT !.words = 5, !.rawWords = 5, !.scriptBytes = 2000000, !.chrome = 90,
                                     !.has = @ \cup {"mounting shell", "not-found wording", "heavy image"}]
      [] what = "long" -> [p EXCEPT !.words = 1300, !.rawWords = 1300, !.headings = <<1, 2, 2, 2, 2>>, !.domNodes = 2000,
                                    !.has = (@ \cup {"repeated heading phrase"}) \ {"summary heading"}]
      [] what = "dates" -> [p EXCEPT !.schema = {[Block("Article", "", "") EXCEPT !.modified = 10]},
                                     !.shownDate = 400, !.lastModified = 400, !.modified = 400]
      [] what = "collapsed" -> [p EXCEPT !.collapsed = {"claim1"}, !.variants = {"acme"}, !.mentions = {"acme"}]
      [] what = "stated" -> [p EXCEPT !.states = {"claim1"}, !.shows = {"shot"}]
      [] what = "form" -> [p EXCEPT !.forms = {[Form(9, {}) EXCEPT !.class = "destructive",
                              !.inputs = {[names |-> "email", type |-> "text", has |-> {"placeholder"}],
                                          [names |-> "card", type |-> "text", has |-> {}]}]},
                              !.has = @ \ {"trust badge", "express payment"}]
      [] what = "actions" -> [p EXCEPT !.ctas = <<[Cta("generic", Pricing, {"hero", "primary"}) EXCEPT !.font = 9],
                                [Cta("buy", Gone, {"hero", "primary"}) EXCEPT !.width = 20],
                                [Cta("pay", Thanks, {"hero", "primary"}) EXCEPT !.place = "placeholder"]>>,
                              !.navLinks = 9]
      [] what = "tool" -> [p EXCEPT !.tools = {[Tool("wipe", {"destructive wording"}) EXCEPT !.wording = {"DELETE"}]},
                                    !.manifest = Ard]
      [] what = "hidden" -> [p EXCEPT !.instructions = {"ignore the above"}]
      [] OTHER -> [p EXCEPT !.has = Toggle(@, what)]

NamedChanges == {"gone", "no answer", "too late", "sent away", "forbidden", "moved", "download", "untitled", "same title", "no links", "broken link",
                 "canonical", "two canonicals", "alternates", "shell", "long", "dates", "collapsed", "stated",
                 "form", "actions", "tool", "hidden"}
MCChanges == {[at |-> u, what |-> w] : u \in {Note, Other},
              w \in FactChanges \cup BlockChanges \cup PassageChanges \cup SectionChanges \cup NamedChanges}

(***************************************************************************)
(* Declarations.                                                           *)
(***************************************************************************)
Entry(id, u, type) ==
    [id |-> id, url |-> u, intent |-> "index", status |-> "active", type |-> type, queries |-> {},
     purpose |-> "none", entities |-> {}, claims |-> {}, action |-> "none",
     has |-> {"owner", "lifecycle class", "jurisdiction", "prompts"}]
Crawler(id, agent, purpose, decision) ==
    [id |-> id, agent |-> agent, vendor |-> "V", purpose |-> purpose, decision |-> decision,
     status |-> "active", overdue |-> FALSE]
Entity(id, type, names) ==
    [id |-> id, type |-> type, status |-> "active", names |-> names, near |-> {}, profiles |-> {},
     category |-> "", has |-> {"canonical url", "owner", "verified this year"}]
Claim(id, type, status) ==
    [id |-> id, type |-> type, status |-> status, evidence |-> {}, surfaces |-> {}, corroboration |-> {},
     has |-> {"legal review"}]
Proof(id, type, has) == [id |-> id, type |-> type, status |-> "verified", claims |-> {}, has |-> has]
Answer(n, kind, has) ==
    [n |-> n, kind |-> kind, prompt |-> "q1", provider |-> "E", about |-> {}, claims |-> {}, rivals |-> 0,
     cited |-> FALSE, target |-> NoUrl, agent |-> "none", contradictory |-> FALSE, has |-> has]

NoRegistries == [pages |-> {}, crawlers |-> {}, entities |-> {}, claims |-> {}, evidence |-> {},
                 prompts |-> {}, experiments |-> {}, funnels |-> {}]
Registries ==
    [pages |-> {
        [Entry("home", Top, "definition") EXCEPT !.queries = {"what"}, !.purpose = "explain", !.entities = {"acme"},
           !.has = {"published claims"}],
        [Entry("note", Note, "product") EXCEPT !.queries = {"what"}, !.purpose = "explain", !.entities = {"acme"},
           !.action = "buy", !.has = @ \cup {"published claims", "review overdue"}],
        [Entry("other", Other, "implementation") EXCEPT !.has = (@ \cup {"regulatory", "commercial intent"}) \ {"jurisdiction"}],
        [Entry("offers", Pricing, "category") EXCEPT !.entities = {"tools"}],
        Entry("compare", Thanks, "comparison"),
        [Entry("pay", Checkout, "checkout") EXCEPT !.intent = "noindex", !.status = "draft"]},
     crawlers |-> {Crawler("c1", "Googlebot", "search_indexing", "allow"),
                   [Crawler("c2", "Bot", "model_training", "undecided") EXCEPT !.overdue = TRUE]},
     entities |-> {
        [Entity("acme", "organization", {"Acme"}) EXCEPT !.near = {"Acme Inc"}, !.has = {}],
        [Entity("tool", "product", {"Tool"}) EXCEPT !.category = "tools", !.has = {}],
        [Entity("idea", "proprietary_concept", {"Idea"}) EXCEPT !.has = {}]},
     claims |-> {
        [Claim("claim1", "performance", "verified") EXCEPT !.evidence = {"shot"}, !.surfaces = {"/note"},
           !.has = {"past expiry"}, !.corroboration = {"own url"}],
        [Claim("claim2", "comparative", "verified") EXCEPT !.surfaces = {"/b.html"}],
        [Claim("claim3", "opinion", "verified") EXCEPT !.evidence = {"unknown"}],
        [Claim("claim4", "security", "draft") EXCEPT !.evidence = {"talk"}, !.has = {}]},
     evidence |-> {
        [Proof("shot", "screenshot", {"media", "local file", "past validity"}) EXCEPT !.claims = {"claim1"}],
        [Proof("bench", "benchmark", {"primary"}) EXCEPT !.status = "inaccessible", !.claims = {"claim4"}],
        [Proof("talk", "case_study", {"secondary", "pdf"}) EXCEPT !.status = "unverified"]},
     prompts |-> {[id |-> "q1", status |-> "active", has |-> {"accurate"}]},
     experiments |-> {[id |-> "x1", status |-> "active", days |-> 2, has |-> {}],
                      [id |-> "x2", status |-> "concluded", days |-> 9, has |-> {"result", "confident"}]},
     funnels |-> {[id |-> "f1", status |-> "active",
                   steps |-> <<[id |-> "s1", pattern |-> {"/note"}, keeps |-> {"source"}],
                               [id |-> "s2", pattern |-> {"/thank-you"}, keeps |-> {}],
                               [id |-> "s3", pattern |-> {"/gone"}, keeps |-> {}]>>]}]

Recorded ==
    {[Answer(1, "citation", {"answer", "unfavorable", "negation"}) EXCEPT !.about = {"acme"}, !.claims = {"claim1"},
        !.cited = TRUE, !.target = Note],
     [Answer(2, "citation", {}) EXCEPT !.rivals = 2],
     [Answer(3, "citation", {"answer"}) EXCEPT !.cited = TRUE, !.target = Url("/b.html", "path")],
     [Answer(4, "crawler_log", {}) EXCEPT !.agent = "Bot", !.contradictory = TRUE]}

(***************************************************************************)
(* Sites.                                                                  *)
(***************************************************************************)
WebOf(pages) == [u \in MCUrls |-> IF \E p \in pages : p.url = u THEN CHOOSE p \in pages : p.url = u ELSE Missing(u)]
SiteOf(pages) ==
    [web |-> WebOf(pages), start |-> Top, sitemaps |-> {}, sitemapFound |-> TRUE,
     robots |-> [found |-> TRUE, errors |-> FALSE, blocked |-> {}],
     registries |-> NoRegistries, observations |-> {}, promptResults |-> {}, snapshot |-> {},
     facts |-> {}, maxDepth |-> 3, rivals |-> 0, today |-> 500, llms |-> NoDoc, errors |-> {}]

\* Nothing declared; a short way to one page is found after a long one.
Shortcut ==
    [SiteOf({Page(Top, LinkTo(<<Other, Note>>)),
           [Page(Other, LinkTo(<<Pricing>>)) EXCEPT !.schema = {[Block("WebPage", "", "") EXCEPT !.refs = {"#note"}]}],
           [Page(Note, LinkTo(<<Checkout>>)) EXCEPT !.schema = {Block("WebPage", "", "#note")}],
           Page(Pricing, LinkTo(<<Checkout>>)), Page(Checkout, LinkTo(<<Top>>))})
     EXCEPT !.sitemaps = {Other, Pricing, Checkout}, !.maxDepth = 2]

\* A declared project; its sitemap lists a page that cannot be fetched.
Declared5 ==
    [SiteOf({Page(Top, LinkTo(<<Note, Other>>)), Page(Note, LinkTo(<<Other, Thanks>>)), Page(Other, LinkTo(<<Note>>)),
           [Page(Pricing, LinkTo(<<Top>>)) EXCEPT !.words = 1200, !.ctas = <<Cta("start", Top, {"primary"})>>],
           [Page(Thanks, LinkTo(<<Top>>)) EXCEPT !.words = 100],
           Unreachable(Old, {"timeout"})})
     EXCEPT !.sitemaps = {Pricing, Old}, !.registries = Registries, !.observations = Recorded,
            !.promptResults = {Answer(5, "prompt", {})}, !.rivals = 2, !.maxDepth = 1,
            !.robots = [found |-> TRUE, errors |-> TRUE, blocked |-> {<<"Googlebot", "/">>, <<"Googlebot", "/note">>}],
            !.snapshot = {[url |-> Note, content |-> "/note", modified |-> 300]}]

\* The same project as a site of four pages without a fault of transport.
Declared4 ==
    [SiteOf({Page(Top, LinkTo(<<Note, Other>>)), Page(Note, LinkTo(<<Top>>)), Page(Other, LinkTo(<<Note, Thanks>>)),
           [Page(Thanks, LinkTo(<<Top>>)) EXCEPT !.words = 100]})
     EXCEPT !.registries = Registries, !.observations = Recorded, !.rivals = 2,
            !.facts = {"staging host"}, !.robots.found = FALSE, !.sitemapFound = FALSE]

\* A shop whose pages repeat one link and whose old addresses redirect.
Shop ==
    [SiteOf({[Page(Top, <<Link(Note), Link(Note), Generic(Old), Link(Utility)>>) EXCEPT !.schema = {Block("Organization", "Acme", "#org")}],
           [Page(Note, <<Link(Pricing), Link(Older), Link(Note)>>) EXCEPT !.schema = {[Block("Organization", "Acme", "#org") EXCEPT
                !.refs = {"#org2"}]}],
           [Page(Checkout, <<Link(Note)>>) EXCEPT !.forms = {Form(3, {"submit"})},
                !.has = (@ \cup {"noindex"}) \ {"express payment"},
                !.ctas = <<Cta("pay", Thanks, {})>>, !.navLinks = 8],
           [Page(Other, LinkTo(<<Note>>)) EXCEPT !.canonicals = <<Checkout>>],
           [Page(Pricing, <<Link(Note), Link(Checkout)>>) EXCEPT !.canonicals = <<Old>>],
           Redirect(Old, Other), Redirect(Older, Old)})
     EXCEPT !.sitemaps = {Other, Gone, Old}]

\* A site that speaks to agents.
Agents ==
    [SiteOf({Page(Top, LinkTo(<<Note, Mcp, Card, LlmsTxt, Ard, Other>>)), Page(Note, LinkTo(<<Top>>)), Page(Other, LinkTo(<<Top>>)),
           [Resource(LlmsTxt, [NoDoc EXCEPT !.has = {"text", "title", "summary", "well-formed links"}, !.targets = {Other, Elsewhere}])
             EXCEPT !.has = @ \cup {"directive wording"}],
           Resource(Mcp, [NoDoc EXCEPT !.has = {"json", "name", "http"}, !.endpoint = Other,
              !.tools = {Tool("find", {"valid name", "description", "schema", "declared inputs"})}]),
           Resource(Card, [NoDoc EXCEPT !.has = {"json", "name", "description"}, !.endpoint = Elsewhere]),
           Resource(Ard, [NoDoc EXCEPT !.has = {"json"}, !.targets = {Gone}])})
     EXCEPT !.facts = {"llms.txt"}, !.llms = [NoDoc EXCEPT !.has = {"text"}]]

\* One of the sitemaps of a site could not be read.
MCSites == {Shortcut, Declared5, Declared4, [Declared4 EXCEPT !.start = Note], Shop, Agents,
            [Shop EXCEPT !.errors = {SitemapXml}]}

\* The URL of the start is a part of every URL, and "/old" of "/older".
MCPartOf(u, v) == u \in {v, Root} \/ <<u.path, v.path>> = <<"/old", "/older">>
===============================================================================
