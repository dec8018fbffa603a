-------------------------- MODULE SitemapTopology ---------------------------
(***************************************************************************)
(* collectSitemapTopology (src/crawler/sitemapCollector.js): the sitemaps  *)
(* of an origin, breadth first from the entries, each one retrieved,       *)
(* unpacked and parsed, under nine bounds and the time of the run.  What   *)
(* it returns is `complete`, `truncated` or `indeterminate`; the coverage  *)
(* of an audit takes `complete` for knowledge of all the pages there are.  *)
(***************************************************************************)
EXTENDS Retrieval, SitemapXml

CONSTANTS
  EntrySitemaps,  \* sequence of the entries: declared in robots.txt, or /sitemap.xml
  MaxDepth, MaxDocuments, MaxQueued, MaxDiscovered,
  MaxUnpacked, MaxTotalUnpacked

ASSUME TopologyAssumption ==
  /\ MaxDepth \in Nat /\ MaxDocuments \in Nat \ {0} /\ MaxQueued \in Nat \ {0}
  /\ MaxDiscovered \in Nat \ {0} /\ MaxUnpacked \in Nat \ {0} /\ MaxTotalUnpacked \in Nat \ {0}
  /\ EntrySitemaps \in Seq(STRING)

\* An origin has finitely many answers, and its documents come from the scanner.
ASSUME OriginsAssumption ==
  \A o \in DOMAIN Origins :
    /\ IsFiniteSet(DOMAIN Origins[o])
    /\ \A url \in DOMAIN Origins[o] : Origins[o][url].status = 200 => Scanned(Origins[o][url].tokens)

VARIABLE topology

topologyVars == <<retrievalVars, topology>>

-----------------------------------------------------------------------------
(***************************************************************************)
(* The documents: [status, size, packing, unpacked, tokens]                *)
(***************************************************************************)
Stop(t, reason)  == [t EXCEPT !.stops = @ \cup {reason}]
Wrong(t, reason) == [t EXCEPT !.wrong = @ \cup {reason}]

\* enqueue: what it returns, and what becomes of the topology.
Refusal(t, url) ==
  CASE url \in Malformed     -> "malformed_url"
    [] url \in Foreign \ Malformed -> "out_of_origin"
    [] url \in t.queued \ (Malformed \cup Foreign) -> "duplicate"
    [] url \notin Malformed \cup Foreign \cup t.queued /\ Len(t.queue) >= MaxQueued -> "max_queued_documents_exceeded"
    [] OTHER                 -> "none"

Enqueued(t, url, depth) ==
  LET refusal == Refusal(t, url) IN
  CASE refusal \in {"malformed_url", "out_of_origin"}      -> Wrong(t, refusal)
    [] refusal = "max_queued_documents_exceeded"           -> Stop(t, refusal)
    [] refusal = "duplicate"                               -> t
    [] refusal = "none" -> [t EXCEPT !.queued = @ \cup {url}, !.queue = Append(@, [url |-> url, depth |-> depth])]

\* The record of the document being read is the last one.
Marked(t, status) == [t EXCEPT !.documents[Len(t.documents)] = status]

\* The children of a document: the rest is dropped when the queue is full.
TakeChild(depth, t, url) ==
  IF ~t.going THEN t
  ELSE LET refusal == Refusal(t, url)
           next == Enqueued(t, url, depth) IN
       CASE refusal = "malformed_url"                 -> Marked(next, "malformed")
         [] refusal = "max_queued_documents_exceeded" -> [Marked(next, "truncated") EXCEPT !.going = FALSE]
         [] OTHER                                     -> next

\* The page URLs of a document.
TakeUrl(t, url) ==
  CASE ~t.going \/ url \in t.urls       -> t
    [] t.going /\ url \in Malformed \ t.urls -> Wrong(Marked(t, "malformed"), "malformed_url")
    [] t.going /\ url \in Foreign \ (Malformed \cup t.urls) -> Wrong(t, "out_of_origin")
    [] t.going /\ url \notin t.urls \cup Malformed \cup Foreign ->
         IF Cardinality(t.urls) >= MaxDiscovered
         THEN [Stop(Marked(t, "truncated"), "max_discovered_urls_exceeded") EXCEPT !.going = FALSE]
         ELSE [t EXCEPT !.urls = @ \cup {url}]

Contents(t, depth, parsed) ==
  LET children == IF parsed.rootValid THEN parsed.children ELSE << >>
      pages    == IF parsed.rootValid THEN parsed.urls ELSE << >>
      below == FoldLeft(LAMBDA acc, url : TakeChild(depth + 1, acc, url), t, children)
  IN  [FoldLeft(TakeUrl, [below EXCEPT !.going = TRUE], pages) EXCEPT !.going = TRUE]

\* parseSitemap's verdict on the record, before its contents are taken.
ParsedRecord(t, parsed) ==
  LET read == Marked(t, IF parsed.errors THEN "malformed" ELSE "fetched") IN
  IF parsed.truncated = "" THEN read
  ELSE Stop(Marked(read, "truncated"),
            IF parsed.truncated = "tokens" THEN "max_xml_tokens_exceeded" ELSE "max_raw_entries_exceeded")

-----------------------------------------------------------------------------
\* More entries than are read are a reason to call the list truncated.
Listed(entries) == IF Len(entries) > MaxEntries THEN SubSeq(entries, 1, MaxEntries) ELSE entries

TopologyInit ==
  /\ origin \in DOMAIN Origins
  /\ fetch = NoFetch
  /\ topology = FoldLeft(LAMBDA t, url : Enqueued(t, url, 0),
       [phase |-> "next", queue |-> << >>, queued |-> {}, documents |-> << >>, urls |-> {},
        stops |-> IF Len(EntrySitemaps) > MaxEntries THEN {"max_raw_entries_exceeded"} ELSE {},
        wrong |-> {}, unpacked |-> 0, depth |-> 0, late |-> FALSE, going |-> TRUE],
       Listed(EntrySitemaps))

\* The time budget of the whole run ends.
TimeRunsOut ==
  /\ topology.phase # "done" /\ ~topology.late
  /\ topology' = [topology EXCEPT !.late = TRUE]
  /\ UNCHANGED retrievalVars

\* The head of the loop: the time, the bound on documents, that on depth.
LoopStops ==
  /\ topology.phase = "next" /\ topology.queue # << >>
  /\ \/ topology.late /\ topology' = [Stop(topology, "time_budget_exhausted") EXCEPT !.phase = "end"]
     \/ /\ ~topology.late /\ Len(topology.documents) >= MaxDocuments
        /\ topology' = [Stop(topology, "max_documents_exceeded") EXCEPT !.phase = "end"]
  /\ UNCHANGED retrievalVars

TooDeep ==
  /\ topology.phase = "next" /\ topology.queue # << >>
  /\ ~topology.late /\ Len(topology.documents) < MaxDocuments
  /\ Head(topology.queue).depth > MaxDepth
  /\ topology' = [Stop(topology, "max_depth_exceeded") EXCEPT !.queue = Tail(@)]
  /\ UNCHANGED retrievalVars

AskForDocument ==
  /\ topology.phase = "next" /\ topology.queue # << >>
  /\ ~topology.late /\ Len(topology.documents) < MaxDocuments
  /\ Head(topology.queue).depth <= MaxDepth
  /\ topology' = [topology EXCEPT !.queue = Tail(@), !.depth = Head(topology.queue).depth,
                                 !.documents = Append(@, "failed"), !.phase = "fetching"]
  /\ fetch' = Asked(Head(topology.queue).url)
  /\ UNCHANGED origin

\* fetchUrl at work.
Retrieves ==
  /\ topology.phase = "fetching" /\ RetrievalNext
  /\ UNCHANGED topology

\* decodeBody: the answer is a sitemap that can be unpacked.  Otherwise, and
\* when the retrieval throws, the record stays failed.
Usable ==
  /\ fetch.is = "returned" /\ fetch.status = 200
  /\ web[fetch.at].packing # "broken"
  /\ web[fetch.at].unpacked <= MaxUnpacked

DocumentFails ==
  /\ topology.phase = "fetching" /\ fetch.is \in {"failed", "returned"} /\ ~Usable
  /\ topology' = [topology EXCEPT !.phase = "next"]
  /\ fetch' = NoFetch /\ UNCHANGED origin

\* The document is unpacked and read, unless that exceeds the total.
DocumentIsRead ==
  /\ topology.phase = "fetching" /\ Usable
  /\ LET total == topology.unpacked + web[fetch.at].unpacked IN
     IF total > MaxTotalUnpacked
     THEN topology' = [Stop(Marked(topology, "truncated"), "max_total_uncompressed_bytes_exceeded") EXCEPT !.phase = "end"]
     ELSE \E parsed \in {ParseSitemap(web[fetch.at].tokens)} :
          \E read \in {Contents(ParsedRecord([topology EXCEPT !.unpacked = total], parsed), topology.depth, parsed)} :
            topology' = [read EXCEPT !.phase = IF "max_discovered_urls_exceeded" \in read.stops THEN "end" ELSE "next"]
  /\ fetch' = NoFetch /\ UNCHANGED origin

\* After the loop the time is asked once more.
TopologyEnds ==
  /\ \/ topology.phase = "end"
     \/ topology.phase = "next" /\ topology.queue = << >>
  /\ topology' = [IF topology.late THEN Stop(topology, "time_budget_exhausted") ELSE topology EXCEPT !.phase = "done"]
  /\ UNCHANGED retrievalVars

TopologyNext ==
  TimeRunsOut \/ LoopStops \/ TooDeep \/ AskForDocument \/ Retrieves \/ DocumentFails \/ DocumentIsRead \/ TopologyEnds

TopologySpec == TopologyInit /\ [][TopologyNext]_topologyVars

\* Mutant: only what stopped the collection is looked at.
TopologyStatus_StopsOnly(t) == IF t.stops # {} THEN "truncated" ELSE "complete"

TopologyStatus(t) ==
  CASE t.stops # {} -> "truncated"
    [] t.stops = {} /\ (t.wrong # {} \/ \E i \in DOMAIN t.documents : t.documents[i] \in {"failed", "malformed"}) ->
         "indeterminate"
    [] OTHER -> "complete"

-----------------------------------------------------------------------------
(***************************************************************************)
(* What is there: every URL that a document names.                         *)
(***************************************************************************)
Locations(url) == Named(web[url].tokens)
IsIndex(url)   == ListsSitemaps(web[url].tokens)

Beyond(urls) ==
  urls \cup UNION {IF url \notin DOMAIN web THEN {}
                   ELSE CASE web[url].status = 301 -> {web[url].to}
                          [] web[url].status = 200 -> IF IsIndex(url) THEN Locations(url) ELSE {}
                          [] OTHER -> {} : url \in urls}

Reachable ==
  LET after[n \in 0..Cardinality(DOMAIN web)] ==
        IF n = 0 THEN Range(EntrySitemaps) ELSE Beyond(after[n - 1])
  IN  after[Cardinality(DOMAIN web)]

PagesThere ==
  UNION {IF url \in DOMAIN web /\ web[url].status = 200 /\ ~IsIndex(url) THEN Locations(url) ELSE {} : url \in Reachable}

\* A topology that is called complete has every page URL that any sitemap of
\* the origin names, through indexes and redirects: no bound, failure, time
\* limit or flaw of a document was passed over on the way
\* (status, src/crawler/sitemapCollector.js:228).
CompleteListsAll ==
  topology.phase = "done" /\ TopologyStatus(topology) = "complete" => topology.urls = PagesThere
=============================================================================
