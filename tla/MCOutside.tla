---------------------------- MODULE MCOutside ----------------------------
EXTENDS Outside, TLC

CONSTANTS a1, a2, o1, o2, e1, op1, op2

\* Every list of a provider has three items in pages of two, or none, or more
\* than the pages that are allowed.
MCStocks ==
  {[l \in {"rows", "posts", "pages", "collections", "items"} |->
      IF l = "collections" THEN <<"items">> ELSE items] :
     items \in {<<>>, <<"a", "b", "c">>, <<"a", "b", "c", "d", "e">>}}

\* The SEO title of a page is its title where there is none.
MCFallback == [f \in {"title", "description", "seo title", "draft"} |-> IF f = "seo title" THEN "title" ELSE f]

MCTargets  == <<"home", "about">>
OfEngine(url, name) == [page |-> url, engine |-> name]
MCIndexExports ==
  {<<OfEngine("home", "google"), OfEngine("home", "bing")>>,
   <<OfEngine("home", "google"), OfEngine("about", "google")>>}
MCSamples  == <<"1", "2">>
MCCrawlers == <<"bot">>

Row(membership, edge) ==
  [membership |-> membership, dns |-> "verified", claimed |-> FALSE, snapshot |-> TRUE,
   edge |-> edge, origin |-> TRUE, synthetic |-> FALSE]
MCLogRows == {Row("matched", TRUE), Row("not_matched", TRUE)}

Text(mentioned, favorable, unfavorable, reviewed) ==
  [mentioned |-> mentioned, manual |-> "none", favorable |-> favorable, unfavorable |-> unfavorable,
   reviewed |-> reviewed, claim |-> "verified", negated |-> unfavorable]
MCAnswerTexts ==
  {Text(TRUE, TRUE, u, FALSE) : u \in BOOLEAN} \cup {Text(FALSE, FALSE, FALSE, FALSE)}
  \cup {[Text(TRUE, TRUE, FALSE, TRUE) EXCEPT !.claim = "unverified", !.manual = "neutral"]}

Step(action, required) == [action |-> action, required |-> required]
MCJourneyPlans ==
  {[steps |-> <<Step("navigate", TRUE)>>, collects |-> "runtime", checkpoints |-> {}],
   [steps |-> <<Step("click", FALSE)>>, collects |-> "network", checkpoints |-> {}],
   [steps |-> <<Step("checkpoint", FALSE), Step("click", TRUE)>>, collects |-> "state",
    checkpoints |-> {"initial", "step", "final"}]}

-----------------------------------------------------------------------------
\* Sitemaps as a publisher writes them, and with one token too many.
Opens(name)  == [type |-> "open", name |-> name, value |-> ""]
Closes(name) == [type |-> "close", name |-> name, value |-> ""]
Word(value)  == [type |-> "text", name |-> "", value |-> value]
Odd(type)    == [type |-> type, name |-> "", value |-> ""]

SitemapOf(root, entry, urls) ==
  <<Opens(root)>> \o FlattenSeq([i \in DOMAIN urls |->
    <<Opens(entry), Opens("loc"), Word(urls[i]), Closes("loc"), Closes(entry)>>]) \o <<Closes(root)>>
IndexOf(urls)  == SitemapOf("sitemapindex", "sitemap", urls)
UrlSetOf(urls) == SitemapOf("urlset", "url", urls)

Sitemap(tokens) == [status |-> 200, size |-> 1, unpacked |-> 1, packing |-> "plain", tokens |-> tokens]
Moved(to)       == [status |-> 301, to |-> to]
Gone            == [status |-> 404]

Flawed(tokens, i, token) == InsertAt(tokens, i + 1, token)
Fine == UrlSetOf(<<"p1", "p2">>)
TokensTooMany ==
  <<Opens("url"), Opens("loc"), Opens("urlset"), Opens("image"), Closes("url"), Closes("loc"),
    Closes("urlset"), Odd("invalid"), Odd("error")>>
Positions      == [i \in 1..(Len(Fine) + 1) |-> i - 1]
BetweenTags(i) == \A j \in {i, i + 1} \cap DOMAIN Fine : Fine[j].type # "text"
FlawedSitemaps ==
  FlattenSeq([k \in DOMAIN TokensTooMany |->
    [i \in DOMAIN Positions |-> Sitemap(Flawed(Fine, Positions[i], TokensTooMany[k]))]])
  \o LET places == SelectSeq(Positions, BetweenTags)
     IN  [i \in DOMAIN places |-> Sitemap(Flawed(Fine, places[i], Word("p3")))]

\* Elements that are not of sitemaps, a date, blanks, and a <loc> without text.
PageWith(more) ==
  <<Opens("urlset"), Opens("url"), Opens("loc"), Word("p1"), Closes("loc")>> \o more
  \o <<Closes("url"), Closes("urlset")>>
Image == <<Opens("image"), Opens("loc"), Word("p3"), Closes("loc"), Closes("image")>>
Dated == <<Opens("lastmod"), Word("today"), Closes("lastmod")>>
FurtherSitemaps ==
  <<Sitemap(PageWith(Image)), Sitemap(PageWith(Dated)), Sitemap(PageWith(Dated \o Dated)),
    Sitemap(PageWith(<<Opens("loc"), Word(""), Closes("loc")>>)),
    Sitemap(<<Word("")>> \o IndexOf(<<"s2">>)), Sitemap(<<Word("")>> \o Fine)>>

OtherSitemaps ==
  <<Sitemap(Fine), Sitemap(UrlSetOf(<<"p1", "foreign">>)), Sitemap(UrlSetOf(<<"malformed", "p1">>)),
   Sitemap(UrlSetOf(<<"p1", "p2", "p3", "p4">>)), Sitemap(UrlSetOf(<<"p1", "p3">>)),
   Sitemap(IndexOf(<<"s2">>)), Sitemap(IndexOf(<<"s3">>)), Sitemap(IndexOf(<<"s2", "foreign">>)),
   Moved("s2"), Moved("s1"), Moved("foreign"), Moved("malformed"), Gone,
   [Sitemap(Fine) EXCEPT !.size = 2], [Sitemap(Fine) EXCEPT !.packing = "broken"],
   [Sitemap(Fine) EXCEPT !.unpacked = 3], [Sitemap(UrlSetOf(<< >>)) EXCEPT !.unpacked = 2]>>

Serving(index, first, second) ==
  [u \in {"index", "s1", "s2", "s3"} |->
     CASE u = "index" -> index [] u = "s1" -> first [] u = "s2" -> second [] u = "s3" -> Gone]
Second == Sitemap(UrlSetOf(<<"p2", "p3">>))

Indexes == <<<<"s1", "s2">>, <<"s1", "s1", "malformed">>, <<"s1", "s2", "s3">>>>
Seconds == <<Second, Moved("s1")>>
MCOrigins ==
  LET alone == FlawedSitemaps \o FurtherSitemaps IN
  [i \in DOMAIN alone |-> Serving(Sitemap(IndexOf(<<"s1">>)), alone[i], Second)]
  \o FlattenSeq([i \in DOMAIN Indexes |-> FlattenSeq([s \in DOMAIN OtherSitemaps |->
       [t \in DOMAIN Seconds |-> Serving(Sitemap(IndexOf(Indexes[i])), OtherSitemaps[s], Seconds[t])]])])
MCEntrySitemaps == <<"index">>

\* Answers that the schema lets through and does not, and that leave things out.
MCServerAnswers ==
  {[version |-> "2025-03-26", capabilities |-> "tools"], [version |-> "draft", capabilities |-> "tools"],
   [version |-> "unstated", capabilities |-> "prompts"], [version |-> "unstated", capabilities |-> "none"]}
MCTools == [read |-> [listed |-> TRUE, readOnly |-> TRUE], write |-> [listed |-> TRUE, readOnly |-> FALSE]]

\* Requests name one provider in two ways; its limit is enforced, the other's
\* is under its name with a capital.  A query is past its limit from the start.
MCLowerCase == [Google |-> "google", google |-> "google", Bing |-> "bing"]
MCSupplierLimits == [google |-> [requests |-> 1, cost |-> 3], Bing |-> [requests |-> 0, cost |-> 0]]
MCUsage ==
  [requests |-> 0, cost |-> 0, queryCount |-> [q1 |-> 0, q2 |-> 0, q3 |-> 5],
   suppliers |-> [google |-> [requests |-> 0, cost |-> 0], bing |-> [requests |-> 4, cost |-> 9]]]
=============================================================================
