---------------------------- MODULE Observation ----------------------------
(***************************************************************************)
(* `observe` (commands/observe.js, observations/common.js): each mode      *)
(* collects or imports observations and writes them, one file after the    *)
(* other, into a run of its own that it then seals.  A mode that throws    *)
(* leaves no run; one that is killed, or still writes, leaves the first    *)
(* files of a run without a seal.                                          *)
(*                                                                         *)
(* An observation is its kind, what it is `of` (a page, a prompt, an       *)
(* entity), which `part` of that, its state, and the value that matters.   *)
(***************************************************************************)
EXTENDS Integers, Sequences, FiniteSets

CONSTANTS
  Targets,     \* sequence of the pages observed
  IndexExports,\* what an owner may export: sequences of rows, of a page and an engine each
  Samples,     \* sequence of the runs of a prompt with an answer engine
  Crawlers,    \* sequence of the active identities of the crawler registry
  Repeats,     \* the runs of a Lighthouse series
  LogRows,     \* the rows of server logs that are imported
  AnswerTexts, \* what an answer says of an entity
  MaxRuns,     \* BOUND: the runs of a workspace
  MaxCut       \* BOUND: the first so many of them may be cut off

\* A page of the site is named once, by its URL; an export may have several
\* rows of one page.
ASSUME ObservationAssumption ==
  /\ Repeats \in Nat \ {0} /\ MaxRuns \in Nat /\ MaxCut \in Nat
  /\ {Targets, Samples, Crawlers} \subseteq Seq(STRING) /\ Targets # <<>>
  /\ \A i \in DOMAIN Targets : Targets[i] # "none"
  /\ \A rows \in IndexExports :
       rows \in Seq([page : STRING, engine : STRING]) /\ \A i \in DOMAIN rows : rows[i].page # "none"

VARIABLE runs  \* the run directories, in the order of their names

Obs(kind, of, part, state, value) ==
  [kind |-> kind, of |-> of, part |-> part, state |-> state, value |-> value]

\* What --target and --interactions ask of a rendering.
ObservedPages == {Targets[i] : i \in DOMAIN Targets}
RenderOptions == [target : ObservedPages, interactions : BOOLEAN]

Result(obs, incomplete) ==
  [obs |-> obs, incomplete |-> incomplete, asked |-> [target |-> Targets[1], interactions |-> FALSE]]

\* The observations of a series of parts, each of one of the outcomes
\* <<state, value>>.
Series(kind, of, parts, outcomes) ==
  {[i \in DOMAIN parts |-> Obs(kind, of, parts[i], c[i][1], c[i][2])] :
      c \in [DOMAIN parts -> outcomes]}

States(obs) == {obs[i].state : i \in DOMAIN obs}

\* The page itself, for what is observed of pages one by one.
OfPages(kind, outcomes) ==
  {[i \in DOMAIN Targets |-> Obs(kind, Targets[i], "page", c[i][1], c[i][2])] :
      c \in [DOMAIN Targets -> outcomes]}

Unavailable(kind, page) == Result(<<Obs(kind, page, "page", "not_evidenced", "none")>>, TRUE)

-----------------------------------------------------------------------------
(***************************************************************************)
(* observe render                                                          *)
(***************************************************************************)
Profiles == <<"desktop", "mobile", "javascript_disabled">>

\* The members of s at some of its positions, in their order.
AtPositions(s, P) ==
  [k \in 1..Cardinality(P) |-> s[CHOOSE i \in P : Cardinality({j \in P : j < i}) = k - 1]]

Captured(interactions) == IF interactions THEN "interacted" ELSE "as loaded"

\* Mutant: a profile is reused whatever the page it is of.
Reusable_AnyPage(o, asked) ==
  /\ o.kind = "render" /\ o.state = "observed"
  /\ o.part \in {Profiles[i] : i \in DOMAIN Profiles}
  /\ o.value = Captured(asked.interactions)

Reusable(o, asked) ==
  /\ o.kind = "render" /\ o.state = "observed"
  /\ o.part \in {Profiles[i] : i \in DOMAIN Profiles}
  /\ o.of = asked.target
  /\ o.value = Captured(asked.interactions)

\* What --resume-run takes over of a run: it must have observations and a
\* manifest.
Reused(r, asked) == AtPositions(r.obs, {i \in DOMAIN r.obs : Reusable(r.obs[i], asked)})

Parity(page, obs) ==
  LET Seen(p) == \E i \in DOMAIN obs : obs[i].part = p /\ obs[i].state = "observed" IN
  Obs("render", page, "parity", IF Seen("desktop") /\ Seen("mobile") THEN "observed" ELSE "incomplete", "none")

\* The profiles that are not reused.
Wanted(reused) ==
  AtPositions(Profiles, {p \in DOMAIN Profiles : \A i \in DOMAIN reused : reused[i].part # Profiles[p]})

\* They are captured, or fail one by one.
RenderResults(asked, reused) ==
  {[obs |-> (reused \o new) \o <<Parity(asked.target, reused \o new)>>,
    incomplete |-> "failed" \in States(new), asked |-> asked] :
     new \in Series("render", asked.target, Wanted(reused),
                    {<<"observed", Captured(asked.interactions)>>, <<"failed", "none">>})}

\* A plan: each profile is captured (Journey) or its failure recorded; an
\* observation is told by its content.
JourneyResults ==
  {Result(obs, "failed" \in States(obs)) :
     obs \in Series("browser_journey", Targets[1], <<"profile">>,
                    {<<"observed", "one">>, <<"observed", "another">>, <<"failed", "none">>})}

-----------------------------------------------------------------------------
(***************************************************************************)
(* The other collectors                                                    *)
(***************************************************************************)
\* The inspection of a page by Google, or the rows of an owner's export; an
\* answer that is not ok throws.
Inspected(page, value) == Result(<<Obs("index", page, "google", "observed", value)>>, FALSE)

Exported(rows) ==
  {Result([i \in DOMAIN rows |-> Obs("index", rows[i].page, rows[i].engine, "observed", values[i])], FALSE) :
      values \in [DOMAIN rows -> {"good", "bad"}]}

IndexResults ==
  {Unavailable("index", page) : page \in ObservedPages}
  \cup {Inspected(page, value) : page \in ObservedPages, value \in {"good", "bad"}}
  \cup UNION {Exported(rows) : rows \in IndexExports}

\* Every prompt is asked again and again, or none is recorded: whether the
\* property is cited, and the reviews of the citations.  Rows of an export
\* that have no number are all the first of their prompt.
CitationResults ==
  {Result(cited \o reviews, FALSE) :
     cited   \in UNION {Series("citation", "prompt", numbers, {<<"observed", "good">>, <<"observed", "bad">>}) :
                          numbers \in {Samples, [i \in DOMAIN Samples |-> "1"]}},
     reviews \in Series("citation_review", "source", <<"first">>,
                        {<<"observed", "none">>, <<"review_required", "none">>})}

\* crawlerIdentity: an address outside the ranges of the agent, and there
\* may be none, contradicts.
VerificationStatus(f) ==
  LET contradictory == \/ f.membership = "not_matched" \/ f.dns = "failed"
                       \/ f.claimed /\ (~f.snapshot \/ f.membership # "matched")
      complete      == /\ f.snapshot /\ f.membership = "matched" /\ f.dns = "verified"
                       /\ f.edge /\ f.origin /\ ~f.synthetic
  IN CASE contradictory -> "contradictory"
       [] ~contradictory /\ complete -> "fully_verified"
       [] OTHER -> "insufficient_evidence"

LogResults ==
  {Result(<<Obs("crawler_log", Targets[1], "row", "observed", VerificationStatus(f))>>,
          VerificationStatus(f) # "fully_verified") : f \in LogRows}

\* An import is all or nothing; a row without a URL is told by its content.
BingResults ==
  {Result(<<Obs("bing_webmaster", of, "row", "observed", v)>>, FALSE) :
     of \in {Targets[1], "none"}, v \in {"good", "bad"}}

\* The passages of a page, or that it has none.
PassageResults ==
  {Result(<<Obs("passage", Targets[1], "first", "observed", "none"),
            Obs("passage", Targets[1], "second", "observed", "none")>>, FALSE),
   Result(<<Obs("passage", Targets[1], "page", "not_observed", "none")>>, FALSE)}

\* Do the final URL, the canonical and og:url agree.
ConsensusResults ==
  {Result(obs, FALSE) :
     obs \in OfPages("canonical_freshness", {<<"observed", "good">>, <<"observed", "bad">>})}

\* CrUX, or the export of one; Lighthouse, whose medians are those of the
\* runs that succeeded.
PerformanceResults ==
  {Unavailable("performance", Targets[1]), Result(<<Obs("performance", Targets[1], "field", "observed", "none")>>, FALSE)}

LighthouseResults ==
  {Result(Append(lab, Obs("performance", Targets[1], "lab_summary",
                          IF "observed" \in States(lab) THEN "observed" ELSE "not_evidenced", "none")),
          "failed" \in States(lab)) :
     lab \in Series("performance", Targets[1], [i \in 1..Repeats |-> "lab"],
                    {<<"observed", "none">>, <<"failed", "none">>})}

\* classifyProbeResponse: the first of the refusals counts.
EdgeClassification(status, challenge, redirected) ==
  IF status \in {401, 403, 429} \/ challenge THEN "challenged"
  ELSE IF status >= 500 THEN "server_error"
  ELSE IF status >= 400 THEN "blocked"
  ELSE IF redirected THEN "redirected"
  ELSE IF status \in 200..399 THEN "accessible" ELSE "unexpected"

\* A probe for each crawler: what it got, or its error.
ProbeResults ==
  {Result(obs, "failed" \in States(obs)) :
     obs \in Series("crawler_probe", "target", Crawlers,
               {<<"observed", EdgeClassification(s, ch, re)>> :
                  s \in {200, 403, 404, 503}, ch \in BOOLEAN, re \in BOOLEAN}
               \cup {<<"failed", "error">>})}

\* One export each of mentions and of regional probes.
ImportResults ==
  {Result(<<Obs(k, "none", "row", "observed", v)>>, FALSE) :
     k \in {"corroboration", "regional_network"}, v \in {"good", "bad"}}

\* The projection that was released against what the surface serves, once
\* directly and once past the caches.
RepresentationState(status, hash) ==
  CASE status = 200 /\ hash = "none"     -> "insufficient_evidence"
    [] status = 200 /\ hash = "expected" -> "consistent"
    [] status = 200                      -> "divergent"
    [] status \in {403, 429}             -> "challenged"
    [] OTHER                             -> "failed"

RepresentationResults ==
  {Result(obs, "failed" \in States(obs)) :
     obs \in Series("representation_drift", "surface", <<"direct", "cache_busted">>,
               {<<"observed", RepresentationState(s, h)>> :
                  s \in {200, 403, 500}, h \in {"none", "expected", "other"}}
               \cup {<<"failed", "failed">>})}

\* classifyAnswerStance of an answer that names the entity: the reviewer's
\* word, or the markers that were found.
Stance(t) ==
  CASE t.manual # "none" -> t.manual
    [] t.manual = "none" /\ t.unfavorable /\ t.favorable -> "mixed"
    [] t.manual = "none" /\ t.unfavorable -> "unfavorable"
    [] t.manual = "none" /\ t.favorable   -> "favorable"
    [] OTHER -> "neutral"

StanceOf(t) == Obs("stance", "entity", "prompt", IF t.reviewed THEN "observed" ELSE "review_required", Stance(t))

\* None, one or two answers to a prompt name the entity.
StanceResults ==
  LET naming == {t \in AnswerTexts : t.mentioned} IN
  {Result(<<>>, FALSE)} \cup {Result(<<StanceOf(t)>>, FALSE) : t \in naming}
  \cup {Result(<<StanceOf(t), StanceOf(u)>>, FALSE) : t, u \in naming}

\* evaluateAnswerAttribution of a sentence that matches a claim.
AttributionStatus(t) ==
  CASE t.claim \in {"contradicted", "expired", "excluded"} \/ t.negated -> "distorted"
    [] t.claim = "unverified" /\ ~t.negated -> "unsupported"
    [] OTHER -> "supported"

AttributionResults ==
  {Result(IF t.mentioned
          THEN <<Obs("attribution", "prompt", "entity",
                     IF AttributionStatus(t) = "distorted" THEN "review_required" ELSE "observed",
                     AttributionStatus(t))>>
          ELSE <<>>, FALSE) : t \in AnswerTexts}

\* A PDF, a transcript or an image; OCR that was asked for may not be there.
MediaResults ==
  {Result(<<Obs("media_image", "none", "item", s, "none")>>, s = "incomplete") :
     s \in {"observed", "not_observed", "incomplete"}}

Results ==
  (UNION {RenderResults(asked, <<>>) : asked \in RenderOptions})
  \cup {Unavailable("render", page) : page \in ObservedPages} \cup JourneyResults \cup IndexResults \cup CitationResults
  \cup LogResults \cup BingResults \cup PassageResults \cup ConsensusResults
  \cup PerformanceResults \cup LighthouseResults \cup ProbeResults \cup ImportResults
  \cup RepresentationResults \cup StanceResults \cup AttributionResults \cup MediaResults

-----------------------------------------------------------------------------
(***************************************************************************)
(* observationRun                                                          *)
(***************************************************************************)
\* The observations in order, the artifacts, the summary, and the seal with
\* the status: all of it, or the first observations.
Writes(r) ==
  \/ runs' = Append(runs, [obs |-> r.obs, sealed |-> TRUE, asked |-> r.asked,
                           status |-> IF r.incomplete THEN "incomplete" ELSE "completed"])
  \/ /\ Len(runs) < MaxCut
     /\ \E n \in 1..Len(r.obs) :
          runs' = Append(runs, [obs |-> SubSeq(r.obs, 1, n), sealed |-> FALSE,
                                asked |-> r.asked, status |-> "none"])

Observe ==
  /\ Len(runs) < MaxRuns
  /\ \E r \in Results : Writes(r)

\* observe render --resume-run; it comes to nothing where there is no browser.
ObserveResumed ==
  /\ Len(runs) < MaxRuns
  /\ \E i \in DOMAIN runs, asked \in RenderOptions :
       /\ runs[i].sealed /\ runs[i].obs # <<>>
       /\ \E r \in RenderResults(asked, Reused(runs[i], asked)) \cup {Unavailable("render", asked.target)} :
            Writes(r)

ObserveNext == Observe \/ ObserveResumed

-----------------------------------------------------------------------------
IsRender(r) == \E i \in DOMAIN r.obs : r.obs[i].kind = "render"

(***************************************************************************)
(* A render run that does not say it is incomplete has each of the three   *)
(* profiles, once, of the page and captured the way the run asked for,     *)
(* however much of it was taken over from another run, which may be of     *)
(* another page (observe.js:66-77, 110-116).                               *)
(***************************************************************************)
ResumeKeeps ==
  \A i \in DOMAIN runs : runs[i].status = "completed" /\ IsRender(runs[i]) =>
    \A p \in DOMAIN Profiles :
      LET of == {j \in DOMAIN runs[i].obs : runs[i].obs[j].part = Profiles[p]} IN
      /\ Cardinality(of) = 1
      /\ \A j \in of : /\ runs[i].obs[j].state = "observed"
                       /\ runs[i].obs[j].of = runs[i].asked.target
                       /\ runs[i].obs[j].value = Captured(runs[i].asked.interactions)
=============================================================================
