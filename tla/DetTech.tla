------------------------------ MODULE DetTech -------------------------------
(***************************************************************************)
(* The technical detectors: src/detectors/tech.js, crawl.js, link.js and   *)
(* arch.js. One operator per detector, named by its id: the set of the     *)
(* subjects its check reports for a context (see SitePages).               *)
(***************************************************************************)
EXTENDS SitePages

(***************************************************************************)
(* URL conditions, robots and canonicals.                                  *)
(***************************************************************************)
TECH_001(ctx) == PageSubjects({p \in IndexTargets(ctx) : p.status # 200})
TECH_002(ctx) == PageSubjects(With(IndexTargets(ctx), "noindex"))
TECH_003(ctx) == PageSubjects({p \in IndexTargets(ctx) :
                   ctx.robots.found /\ <<"Googlebot", SafePath(p.url)>> \in ctx.robots.blocked})
TECH_004(ctx) == PageSubjects({p \in ctx.pages : Cardinality(ToSet(p.canonicals)) > 1})

CanonicalTargetProblem(ctx, Problem(_)) ==
    PageSubjects({p \in ctx.pages : \E c \in ToSet(p.canonicals) :
             \E t \in At(ctx, c) : t # p /\ Problem(t)})

TECH_005(ctx) == CanonicalTargetProblem(ctx, IsRedirect)
TECH_006(ctx) == CanonicalTargetProblem(ctx, LAMBDA t : t.status >= 400)
TECH_007(ctx) == CanonicalTargetProblem(ctx, LAMBDA t : "noindex" \in t.has)

(***************************************************************************)
(* Sitemap entries against the pages they name. In a crawl, a URL that was *)
(* not read is held against the sitemap only if its retrieval failed.      *)
(***************************************************************************)
SitemapEntryProblem(ctx, Problem(_)) ==
    {UrlSubject(u) : u \in {u \in ctx.sitemaps : \E p \in At(ctx, u) : Problem(p)}}

TECH_008(ctx) == SitemapEntryProblem(ctx, IsRedirect)
TECH_009(ctx) == {UrlSubject(u) : u \in {u \in ctx.sitemaps : \E p \in At(ctx, u) :
                     p.canonicals # << >> /\ SafePath(p.canonicals[1]) # SafePath(u)}}
Unresolved_AnyState(ctx, u) ==
    At(ctx, u) = {} \/ \E p \in At(ctx, u) : p.status >= 400
Unresolved(ctx, u) ==
    IF At(ctx, u) = {}
    THEN ctx.mode = "url" => ctx.states[u] = "failed"
    ELSE \E p \in At(ctx, u) : p.status >= 400
TECH_010(ctx) == {UrlSubject(u) : u \in {u \in ctx.sitemaps : Unresolved(ctx, u)}}

TECH_011(ctx) == PageSubjects({p \in LiveTargets(ctx) : p.words < 40 /\ p.scriptBytes > 2000})
TECH_012(ctx) == PageSubjects({p \in LiveTargets(ctx) :
                   /\ p.type = "other"
                   /\ IsHtmlUrl(p.url) \/ "html markup" \in p.has})
TECH_013(ctx) == PageSubjects({p \in ctx.pages : p.hops > 1})
TECH_014(ctx) == PageSubjects({p \in With(Live(ctx.pages), "not-found wording") : p.words < 120})
TECH_015(ctx) == IF "staging host" \in ctx.facts /\ Without(Live(ctx.pages), "noindex") # {}
                 THEN {SiteSubject("host")} ELSE {}
TECH_016(ctx) == IF ctx.sitemapFound THEN {} ELSE {SiteSubject("sitemap")}
TECH_017(ctx) == PageSubjects(With(IndexTargets(ctx), "nosnippet"))
TECH_018(ctx) == PageSubjects(Without(LiveTargets(ctx), "viewport"))
TECH_019(ctx) == PageSubjects({p \in ctx.pages : /\ Len(p.canonicals) = 1 /\ p.ogUrl # NoUrl
                                                 /\ p.canonicals[1] # p.ogUrl})

(***************************************************************************)
(* Alternates: [lang, href, absolute].                                     *)
(***************************************************************************)
ValidLangs == {"x-default", "en", "fr"}
Reciprocal(t, p) == \E back \in t.hreflangs : back.href = p.url
TECH_020(ctx) == PageSubjects({p \in ctx.pages : \E alt \in p.hreflangs :
                   /\ alt.lang # "x-default" /\ alt.href \notin {NoUrl, p.url}
                   /\ \E t \in At(ctx, alt.href) : ~Reciprocal(t, p)})
TECH_021(ctx) == PageSubjects({p \in ctx.pages : \E alt \in p.hreflangs :
                   \/ alt.lang \notin ValidLangs
                   \/ alt.href # NoUrl /\ ~alt.absolute})
TECH_022(ctx) == PageSubjects({p \in ctx.pages : \E alt \in p.hreflangs : \E t \in At(ctx, alt.href) :
                   Len(t.canonicals) = 1 /\ t.canonicals[1] # alt.href})

TECH_023(ctx) == LET visible(p) == IF p.rawWords = 0 THEN p.words ELSE p.rawWords
                 IN PageSubjects({p \in With(LiveTargets(ctx), "mounting shell") :
                            visible(p) < 20 /\ p.scriptBytes > 0})
TECH_024(ctx) == PageSubjects({p \in LiveTargets(ctx) : p.scriptBytes > 1200000 \/ p.blocking > 12})
TECH_025(ctx) == PageSubjects(With(LiveTargets(ctx), "heavy image"))

(***************************************************************************)
(* Decisions about crawlers: entries [id, vendor, purpose, decision,       *)
(* status, overdue].                                                       *)
(***************************************************************************)
Deployed(ctx, c) == IF <<c.agent, "/">> \in ctx.robots.blocked THEN "block" ELSE "allow"
CRAWL_001(ctx) == Entries("crawlers", {c \in Active(ctx.registries.crawlers) :
                    ctx.robots.found /\ c.decision \notin {"undecided", Deployed(ctx, c)}})

SearchVendors(ctx) == {c.vendor : c \in {c \in ctx.registries.crawlers :
                        c.purpose \in {"search_indexing", "ai_search_discovery"} /\ c.decision = "allow"}}
TrainingOf(ctx, v) == {c \in ctx.registries.crawlers : c.vendor = v /\ c.purpose = "model_training"}
CRAWL_002(ctx) ==
    LET silent == {v \in SearchVendors(ctx) : TrainingOf(ctx, v) = {}}
        undecided == {c \in ctx.registries.crawlers : \E v \in SearchVendors(ctx) :
                        c \in TrainingOf(ctx, v) /\ c.decision = "undecided"}
    IN {Subject("crawler", NoUrl, <<v, "">>) : v \in silent} \cup Entries("crawlers", undecided)

CRAWL_003(ctx) == IF ctx.robots.found THEN {} ELSE {SiteSubject("robots")}
CRAWL_004(ctx) == IF ctx.robots.found /\ ctx.robots.errors THEN {SiteSubject("robots.txt")} ELSE {}
CRAWL_005(ctx) == Entries("crawlers", {c \in Active(ctx.registries.crawlers) : c.overdue})
CRAWL_006(ctx) == Entries("crawlers", {c \in ctx.registries.crawlers :
                    c.decision = "undecided" /\ c.status = "active"})
CRAWL_007(ctx) == {Subject("crawler", NoUrl, <<o.agent, "">>) : o \in {o \in ctx.observations :
                     o.kind = "crawler_log" /\ o.contradictory}}

(***************************************************************************)
(* Links. The text of a link is a phrase, a short label, generic wording   *)
(* or nothing a reader could use.                                          *)
(***************************************************************************)
LINK_001(ctx) == PageSubjects({p \in ctx.pages : \E l \in LinksOf(p) :
                   \A t \in At(ctx, l.to) : t.status >= 400})
LINK_002(ctx) == PageSubjects({p \in ctx.pages : \E l \in LinksOf(p) :
                   \E t \in At(ctx, l.to) : IsRedirect(t)})
LINK_003(ctx) == PageSubjects({p \in ctx.pages : \E l \in LinksOf(p) : l.text = "generic"})

(***************************************************************************)
(* Every occurrence of a link counts, also several on one page.            *)
(***************************************************************************)
Repeats(ctx, to) ==
    Cardinality(UNION {{<<p, i>> : i \in {i \in DOMAIN p.links : p.links[i] = [to |-> to, text |-> "phrase"]}}
                        : p \in ctx.pages})
LINK_004(ctx) ==
    LET n == Cardinality(ctx.pages)
        targets == UNION {{l.to : l \in LinksOf(p)} : p \in ctx.pages}
    IN IF n < 5 THEN {}
       ELSE {Subject("site", to, <<"anchor", "">>) : to \in
               {to \in targets : Repeats(ctx, to) >= 5 /\ 5 * Repeats(ctx, to) >= 4 * n}}

(***************************************************************************)
(* Following the redirects of the pages read, at most ten; a redirect      *)
(* whose target is not known still counts as a hop.                        *)
(***************************************************************************)
Hop(ctx, w) ==
    LET here == At(ctx, w.at)
        next == (CHOOSE t \in here : TRUE).location
    IN IF w.loop \/ ~\E t \in here : IsRedirect(t) THEN w
       ELSE IF next = NoUrl THEN [w EXCEPT !.at = NoUrl, !.hops = @ + 1]
       ELSE [at |-> next, hops |-> w.hops + 1, seen |-> w.seen \cup {next}, loop |-> next \in w.seen]
Walk(ctx, u) ==
    LET walk[n \in 0..10] == IF n = 0 THEN [at |-> u, hops |-> 0, seen |-> {u}, loop |-> FALSE]
                             ELSE Hop(ctx, walk[n - 1])
    IN walk[10]
LINK_005(ctx) == PageSubjects({p \in ctx.pages : \E l \in LinksOf(p) :
                   Walk(ctx, l.to).loop \/ Walk(ctx, l.to).hops >= 2})
Unlabelled(p) == SelectSeq(p.links, LAMBDA l : l.text \in {"generic", "bare"})
LINK_006(ctx) == PageSubjects({p \in IndexTargets(ctx) :
                   Len(p.links) >= 4 /\ 4 * Len(Unlabelled(p)) > Len(p.links)})

(***************************************************************************)
(* Architecture: the graph of the pages read, and what the page registry   *)
(* declares: entries [id, url, intent, status, type, queries, purpose,     *)
(* entities].                                                              *)
(***************************************************************************)
ARCH_001(ctx) == PageSubjects({p \in IndexTargets(ctx) : p.url # Root /\ LinksTo(ctx, p.url) = {}})
ARCH_002(ctx) == PageSubjects({p \in LiveTargets(ctx) : p.links = << >>})
ARCH_003(ctx) == LET deep == WithinLinks(ctx, Cardinality(ctx.pages)) \ WithinLinks(ctx, ctx.maxDepth)
                 IN PageSubjects({p \in IndexTargets(ctx) : p.url \in deep})
ARCH_004(ctx) ==
    LET entries == Active(ctx.registries.pages)
        queries == UNION {e.queries : e \in entries}
    IN {Subject("query", NoUrl, <<q, "">>) : q \in
          {q \in queries : Cardinality({e \in entries : q \in e.queries}) > 1}}
ARCH_005(ctx) ==
    LET entries == {e \in Active(ctx.registries.pages) : e.purpose # "none"}
    IN {EntrySubject("pages+", e.id) : e \in {e \in entries : \E o \in entries \ {e} :
          o.purpose = e.purpose /\ o.entities \cap e.entities # {}}}
HubTypes == {"hub", "category", "home"}
ARCH_006(ctx) ==
    LET hubs == {e.url : e \in {e \in ctx.registries.pages : e.type \in HubTypes}}
        judged == {e \in Active(ctx.registries.pages) : e.type \notin HubTypes \cup {"legal", "policy", "contact"}}
    IN IF hubs = {} THEN {}
       ELSE PageSubjects({p \in ctx.pages : /\ \E e \in judged : p \in SitePageFor(ctx, e)
                                            /\ \A l \in LinksOf(p) : l.to \notin hubs})

(***************************************************************************)
(* What the checks of these detectors report, by detector.                 *)
(***************************************************************************)
TechChecks(ctx) ==
    [TECH_001 |-> TECH_001(ctx), TECH_002 |-> TECH_002(ctx), TECH_003 |-> TECH_003(ctx),
     TECH_004 |-> TECH_004(ctx), TECH_005 |-> TECH_005(ctx), TECH_006 |-> TECH_006(ctx),
     TECH_007 |-> TECH_007(ctx), TECH_008 |-> TECH_008(ctx), TECH_009 |-> TECH_009(ctx),
     TECH_010 |-> TECH_010(ctx), TECH_011 |-> TECH_011(ctx), TECH_012 |-> TECH_012(ctx),
     TECH_013 |-> TECH_013(ctx), TECH_014 |-> TECH_014(ctx), TECH_015 |-> TECH_015(ctx),
     TECH_016 |-> TECH_016(ctx), TECH_017 |-> TECH_017(ctx), TECH_018 |-> TECH_018(ctx),
     TECH_019 |-> TECH_019(ctx), TECH_020 |-> TECH_020(ctx), TECH_021 |-> TECH_021(ctx),
     TECH_022 |-> TECH_022(ctx), TECH_023 |-> TECH_023(ctx), TECH_024 |-> TECH_024(ctx),
     TECH_025 |-> TECH_025(ctx), CRAWL_001 |-> CRAWL_001(ctx), CRAWL_002 |-> CRAWL_002(ctx),
     CRAWL_003 |-> CRAWL_003(ctx), CRAWL_004 |-> CRAWL_004(ctx), CRAWL_005 |-> CRAWL_005(ctx),
     CRAWL_006 |-> CRAWL_006(ctx), CRAWL_007 |-> CRAWL_007(ctx), LINK_001 |-> LINK_001(ctx),
     LINK_002 |-> LINK_002(ctx), LINK_003 |-> LINK_003(ctx), LINK_004 |-> LINK_004(ctx),
     LINK_005 |-> LINK_005(ctx), LINK_006 |-> LINK_006(ctx), ARCH_001 |-> ARCH_001(ctx),
     ARCH_002 |-> ARCH_002(ctx), ARCH_003 |-> ARCH_003(ctx), ARCH_004 |-> ARCH_004(ctx),
     ARCH_005 |-> ARCH_005(ctx), ARCH_006 |-> ARCH_006(ctx)]
=============================================================================
