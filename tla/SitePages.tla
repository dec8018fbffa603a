----------------------------- MODULE SitePages ------------------------------
(***************************************************************************)
(* The site as the detectors see it (src/extractor/page.js,                *)
(* src/extractor/site.js) and the helpers every detector is built from     *)
(* (src/detectors/framework.js).                                           *)
(*                                                                         *)
(* A context `ctx' is the record a check is called with:                   *)
(*   pages       the pages read: records with `url' (after redirects),     *)
(*               `requested', `status', `type', numbers and sequences the  *)
(*               extraction counts, and `has', the set of the facts that   *)
(*               a selector or an expression of a detector looks for;      *)
(*   mode        "url" or "built_output";                                  *)
(*   states      url -> what the coverage ledger says of it;               *)
(*   robots      whether robots.txt was found, has errors, and which       *)
(*               <<agent, path>> it blocks;                                *)
(*   sitemaps    the URLs the sitemaps list, `sitemapFound' if any was;    *)
(*   registries  the project's declarations, one set of entries a kind;    *)
(*   facts       what else is known of the site or of its configuration.   *)
(*                                                                         *)
(* A URL is a record: safePath looks at its path alone, byUrl at all of    *)
(* it.                                                                     *)
(***************************************************************************)
EXTENDS Integers, FiniteSets, Sequences, SequencesExt, FiniteSetsExt

Url(path, form) == [path |-> path, form |-> form]
NoUrl == Url("", "none")
Root == Url("/", "plain")

(***************************************************************************)
(* What a finding is about (pageSubject, entrySubject and the subjects     *)
(* written out in the checks).                                             *)
(***************************************************************************)
Subject(type, url, name) == [type |-> type, url |-> url, name |-> name]
NoName == <<"", "">>
PageSubject(p) == Subject("page", p.url, NoName)
EntrySubject(kind, id) == Subject("registry_entry", NoUrl, <<kind, id>>)
SiteSubject(what) == Subject("site", NoUrl, <<what, "">>)
UrlSubject(u) == Subject("url", u, NoName)
SchemaSubject(p, what) == Subject("schema_block", p.url, <<what, "">>)
FileSubject(path) == Subject("file", Url(path, "plain"), NoName)

PageSubjects(S) == {PageSubject(p) : p \in S}
Entries(kind, S) == {EntrySubject(kind, e.id) : e \in S}

(***************************************************************************)
(* The registries name pages by path; the graph names them by URL.         *)
(***************************************************************************)
SafePath(u) == u.path
IsUtility(u) == u.path = "/cdn-cgi"
IsHtmlUrl(u) == u.path = "/b.html"

RegistryPageFor(ctx, p) == {e \in ctx.registries.pages : SafePath(e.url) = SafePath(p.url)}
SitePageFor(ctx, e) == {p \in ctx.pages : SafePath(p.url) = SafePath(e.url)}

IndexTargets(ctx) ==
    {p \in ctx.pages : /\ ~IsUtility(p.url)
                       /\ \A e \in RegistryPageFor(ctx, p) : e.intent # "noindex"}

IsHtml(p) == p.type \in {"none", "html"}
HtmlIndexTargets(ctx) == {p \in IndexTargets(ctx) : IsHtml(p)}

(***************************************************************************)
(* Pages worth reading: the targets answered with 200.                     *)
(***************************************************************************)
Live(S) == {p \in S : p.status = 200}
LiveTargets(ctx) == Live(IndexTargets(ctx))
LiveHtml(ctx) == Live(HtmlIndexTargets(ctx))
With(S, fact) == {p \in S : fact \in p.has}
Without(S, fact) == {p \in S : fact \notin p.has}

(***************************************************************************)
(* byUrl, outbound, inbound and depth of assembleSite. Of two retrievals   *)
(* that ended at one URL, byUrl keeps the later; `find' takes the first of *)
(* several pages. A link is [to, text]; only links within the origin are   *)
(* kept.                                                                   *)
(***************************************************************************)
Latest(S) == {p \in S : \A q \in S : q.n <= p.n}
First(S) == {p \in S : \A q \in S : p.n <= q.n}
At(ctx, u) == Latest({p \in ctx.pages : p.url = u})
LinksOf(p) == ToSet(p.links)
LinksTo(ctx, u) == {p \in ctx.pages : \E l \in LinksOf(p) : l.to = u}
IsRedirect(p) == p.status >= 300 /\ p.status < 400

WithinLinks(ctx, n) ==
    LET onward(near) == near \cup {q.url : q \in {q \in ctx.pages :
                           \E p \in ctx.pages : p.url \in near /\ \E l \in LinksOf(p) : l.to = q.url}}
        near[k \in 0..n] == IF k = 0 THEN {p.url : p \in At(ctx, Root)} ELSE onward(near[k - 1])
    IN near[n]

(***************************************************************************)
(* Answers for what a registry may not have.                               *)
(***************************************************************************)
Active(S) == {e \in S : e.status # "retired"}
=============================================================================
