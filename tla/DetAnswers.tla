----------------------------- MODULE DetAnswers -----------------------------
(***************************************************************************)
(* The detectors of answers, recommendations, lifecycle and measurement:   *)
(* src/detectors/ans.js, geoReco.js and lifeMeas.js. A page's `passages'   *)
(* are its paragraphs in order and its `sections' what follows each        *)
(* heading, each as the set of the things its text shows.                  *)
(***************************************************************************)
EXTENDS SitePages

SomePassage(p, Shows(_)) == \E i \in DOMAIN p.passages : Shows(p.passages[i])
SomeSection(p, Shows(_)) == \E s \in p.sections : Shows(s)
Opening(p) == IF p.passages = << >> THEN {} ELSE Head(p.passages)
Registered(ctx, types) == {p \in IndexTargets(ctx) : \E e \in RegistryPageFor(ctx, p) : e.type \in types}

(***************************************************************************)
(* Answers.                                                                *)
(***************************************************************************)
ANS_001(ctx) == PageSubjects({p \in LiveTargets(ctx) : "preamble" \in Opening(p)})
ANS_002(ctx) == PageSubjects({p \in LiveTargets(ctx) : SomeSection(p, LAMBDA s : {"question", "empty"} \subseteq s)})
ANS_003(ctx) == PageSubjects({p \in LiveTargets(ctx) :
                  \E i \in DOMAIN p.passages : i <= 12 /\ "circular" \in p.passages[i]})
ANS_004(ctx) == PageSubjects({p \in LiveTargets(ctx) : SomePassage(p, LAMBDA t : "deictic" \in t)})
ANS_005(ctx) == PageSubjects({p \in LiveTargets(ctx) :
                  SomePassage(p, LAMBDA t : "relative quantity" \in t /\ "baseline" \notin t)})
ANS_006(ctx) == PageSubjects({p \in Live(Registered(ctx, {"implementation"})) :
                  {"ordered list", "numbered text"} \cap p.has = {}})
ANS_007(ctx) == PageSubjects({p \in Live(Registered(ctx, {"comparison"})) :
                  {"table", "comparison basis"} \cap p.has = {}})
ANS_008(ctx) == PageSubjects(Without(Live(Registered(ctx, {"definition", "comparison", "recommendation", "product"})),
                              "limitations"))
AnswerTypes == {"definition", "problem", "solution", "comparison", "recommendation", "implementation",
                "evidence", "faq", "glossary", "documentation", "article", "product"}
ANS_009(ctx) == PageSubjects({p \in IndexTargets(ctx) : \E e \in RegistryPageFor(ctx, p) :
                  e.type \in AnswerTypes /\ "prompts" \notin e.has})
ANS_010(ctx) == PageSubjects({p \in IndexTargets(ctx) : \E e \in RegistryPageFor(ctx, p) :
                  "published claims" \in e.has /\ "evidence references" \notin e.has})
ANS_011(ctx) == PageSubjects({p \in LiveTargets(ctx) :
                  SomeSection(p, LAMBDA s : "question" \in s /\ {"rambling lead", "long lead"} \cap s # {})})
ANS_012(ctx) == PageSubjects({p \in LiveTargets(ctx) :
                  SomePassage(p, LAMBDA t : "metric" \in t /\ "attribution" \notin t)})
ANS_013(ctx) == PageSubjects({p \in LiveTargets(ctx) : SomeSection(p, LAMBDA s :
                  /\ "over 50 words" \in s
                  /\ IF "comparative" \in s /\ "table" \notin s THEN TRUE
                     ELSE "procedural" \in s /\ "list" \notin s)})
ANS_014(ctx) == PageSubjects({p \in LiveTargets(ctx) : SomePassage(p, LAMBDA t : {"fluff", "more fluff"} \subseteq t)})
ANS_015(ctx) == PageSubjects({p \in LiveTargets(ctx) :
                  /\ p.passages # << >>
                  /\ p \in Registered(ctx, {"definition"}) \/ "definition page" \in p.has
                  /\ "copula" \notin Opening(p)})
ANS_016(ctx) == LET visible(p) == IF p.rawWords = 0 THEN p.words ELSE p.rawWords
                IN PageSubjects({p \in Without(LiveTargets(ctx), "summary heading") : visible(p) >= 1200})

(***************************************************************************)
(* Claims and entities outside the site. An entity is [id, type, status,   *)
(* category, has], a claim lists what corroborates it.                     *)
(***************************************************************************)
Unretired(S) == {e \in S : e.status # "retired"}
OwnSource(ctx, ref) == ref = "own url" \/ \E e \in ctx.registries.evidence : e.id = ref /\ "own domain" \in e.has
EXT_001(ctx) == Entries("claims", {c \in ctx.registries.claims : \E ref \in c.corroboration : OwnSource(ctx, ref)})
EXT_002(ctx) == Entries("claims", {c \in ctx.registries.claims :
                  /\ c.type = "comparative" /\ c.status \in {"verified", "verified_narrowed"}
                  /\ c.corroboration = {}})

GEO_001(ctx) == PageSubjects(With(ctx.pages, "hidden instructions"))
GEO_002(ctx) == Entries("entities", {e \in Unretired(ctx.registries.entities) :
                  e.type = "proprietary_concept" /\ ~ {"definition", "canonical url"} \subseteq e.has})
CategoryPages(ctx, e) ==
    UNION {SitePageFor(ctx, c) : c \in {c \in Unretired(ctx.registries.pages) :
             c.type = "category" /\ e.category \in c.entities}}
GEO_003(ctx) == Entries("entities", {e \in ctx.registries.entities :
                  /\ e.type \in {"product", "product_family"} /\ e.category # ""
                  /\ \E p \in CategoryPages(ctx, e) : e.id \notin p.mentions})
GEO_004(ctx) == IF \E p \in With(ctx.pages, "directive wording") : p.url.path = "/llms.txt"
                THEN {SiteSubject("llms.txt")} ELSE {}
EntityTypes == {"definition", "product", "service", "comparison", "recommendation", "category", "about"}
GEO_005(ctx) == PageSubjects({p \in IndexTargets(ctx) : \E e \in RegistryPageFor(ctx, p) :
                  e.type \in EntityTypes /\ e.entities = {}})
GEO_006(ctx) == Entries("prompts", {q \in ctx.registries.prompts :
                  /\ q.status \notin {"retired", "deprecated"}
                  /\ ~ {"answer components", "outcome", "risk", "owner"} \subseteq q.has})

(***************************************************************************)
(* Answers of engines: observations and prompt results are [n, kind,       *)
(* prompt, provider, about, claims, rivals, cited, has]; `about' the       *)
(* entities an answer mentions, `claims' the ones it distorts.             *)
(***************************************************************************)
Entities(ctx) == Unretired(ctx.registries.entities)
Answered(ctx) == With({o \in ctx.observations : o.kind = "citation"}, "answer")
Unfavorable(ctx, e) ==
    \/ \E r \in ctx.promptResults : e.id \in r.about /\ {"unfavorable", "negative"} \cap r.has # {}
    \/ \E o \in With(ctx.observations, "unfavorable") : o.kind = "stance" /\ e.id \in o.about
    \/ \E o \in With(Answered(ctx), "unfavorable") : e.id \in o.about
GEO_007(ctx) == Entries("entities", {e \in Entities(ctx) : Unfavorable(ctx, e)})
GEO_008(ctx) ==
    LET known(o) == \E e \in Entities(ctx) : e.id \in o.about
        told == {o \in ctx.observations : o.kind = "attribution"}
                  \cup {o \in Answered(ctx) : known(o)}
                  \cup {r \in With(ctx.promptResults, "answer") : known(r)}
    IN IF Entities(ctx) = {} THEN {}
       ELSE {EntrySubject("claims", id) : id \in UNION {o.claims : o \in told}}

Probes(ctx) == {o \in ctx.observations : o.kind = "citation"} \cup ctx.promptResults
Samples(probes, prompt, provider) ==
    LET ordered == SetToSortSeq({o \in probes : o.prompt = prompt /\ o.provider = provider},
                                LAMBDA a, b : a.n < b.n)
    IN [i \in DOMAIN ordered |-> ordered[i].cited]
Volatile(s) ==
    LET total == Len(s)
        cited == Cardinality({i \in DOMAIN s : s[i]})
        flips == Cardinality({i \in 2..total : s[i] # s[i - 1]})
    IN /\ total >= 3
       /\ \/ 5 * cited >= total /\ 5 * cited <= 4 * total /\ flips >= 1
          \/ 5 * flips >= 2 * (total - 1)
GEO_009(ctx) == {EntrySubject("prompts", o.prompt) : o \in {o \in Probes(ctx) :
                  o.prompt # "" /\ Volatile(Samples(Probes(ctx), o.prompt, o.provider))}}
GEO_010(ctx) ==
    IF ctx.rivals < 2 \/ Entities(ctx) = {} THEN {}
    ELSE {EntrySubject("prompts", o.prompt) : o \in {o \in ctx.observations :
            /\ ~o.cited /\ \A e \in Entities(ctx) : e.id \notin o.about
            /\ o.rivals >= 2}}
GEO_011(ctx) == PageSubjects({p \in LiveTargets(ctx) :
                  /\ Len(p.passages) >= 4
                  /\ \E i \in DOMAIN p.passages : \E j \in 1..i :
                       /\ "past 450 words" \in p.passages[i]
                       /\ "claim" \in p.passages[j] /\ "cited" \notin p.passages[j]})
GEO_012(ctx) == PageSubjects({p \in With(LiveTargets(ctx), "repeated heading phrase") : Len(p.headings) >= 5})
GEO_013(ctx) ==
    LET verified == {c.id : c \in {c \in ctx.registries.claims : c.status = "verified"}}
        contradicted(o) == IF "contradiction" \in o.has THEN o.claims
                           ELSE IF "negation" \in o.has THEN o.claims \cap verified ELSE {}
    IN IF verified = {} THEN {}
       ELSE {EntrySubject("claims", id) : id \in UNION {contradicted(o) : o \in ctx.observations}}

(***************************************************************************)
(* What a product page must say to be recommendable.                       *)
(***************************************************************************)
Recommendation(ctx, what) == PageSubjects(Without(Live(Registered(ctx, {"product", "recommendation"})), what))
RECO_001(ctx) == Recommendation(ctx, "target user")
RECO_002(ctx) == Recommendation(ctx, "exclusions")
RECO_003(ctx) == Recommendation(ctx, "deployment model")
RECO_004(ctx) == Recommendation(ctx, "pricing")
RECO_005(ctx) == Recommendation(ctx, "limitations")
RECO_006(ctx) == Recommendation(ctx, "geography")

(***************************************************************************)
(* Ownership and lifecycle of registered pages, and measurement.           *)
(***************************************************************************)
ActivePages(ctx) == {e \in ctx.registries.pages : e.status \notin {"retired", "draft"}}
LIFE_001(ctx) == Entries("pages", Without(ActivePages(ctx), "owner"))
LIFE_002(ctx) == Entries("pages", Without(With(ActivePages(ctx), "published claims"), "reviewer"))
LIFE_003(ctx) == Entries("pages", With(ActivePages(ctx), "review overdue"))
LIFE_004(ctx) == Entries("pages", Without(ActivePages(ctx), "lifecycle class"))
LIFE_005(ctx) == Entries("pages", {e \in Without(ActivePages(ctx), "jurisdiction") :
                   \/ "regulatory" \in e.has
                   \/ \E c \in ctx.registries.claims : c.type = "legal_regulatory" /\ c.id \in e.claims})
LIFE_006(ctx) == PageSubjects({p \in ctx.pages : \E old \in ctx.snapshot :
                   /\ old.url = p.url /\ old.content = p.content
                   /\ old.modified > 0 /\ p.modified > old.modified})
MEAS_001(ctx) == {Subject("prompt", NoUrl, <<r.prompt, "">>) : r \in
                    {r \in ctx.promptResults : ~ {"engine", "locale", "time", "text"} \subseteq r.has}}
MEAS_002(ctx) == Entries("prompts", {q \in ctx.registries.prompts :
                   /\ {"accurate", "inaccurate"} \cap q.has # {}
                   /\ Cardinality({r \in ctx.promptResults : r.prompt = q.id}) < 3})
MEAS_003(ctx) == Entries("experiments", {x \in ctx.registries.experiments :
                   /\ x.status = "concluded" /\ {"result", "confident"} \subseteq x.has
                   /\ {"control group", "baseline window"} \cap x.has = {} \/ "confounders" \notin x.has})

(***************************************************************************)
(* What the checks of these detectors report, by detector.                 *)
(***************************************************************************)
AnswerChecks(ctx) ==
    [ANS_001 |-> ANS_001(ctx), ANS_002 |-> ANS_002(ctx), ANS_003 |-> ANS_003(ctx),
     ANS_004 |-> ANS_004(ctx), ANS_005 |-> ANS_005(ctx), ANS_006 |-> ANS_006(ctx),
     ANS_007 |-> ANS_007(ctx), ANS_008 |-> ANS_008(ctx), ANS_009 |-> ANS_009(ctx),
     ANS_010 |-> ANS_010(ctx), ANS_011 |-> ANS_011(ctx), ANS_012 |-> ANS_012(ctx),
     ANS_013 |-> ANS_013(ctx), ANS_014 |-> ANS_014(ctx), ANS_015 |-> ANS_015(ctx),
     ANS_016 |-> ANS_016(ctx), EXT_001 |-> EXT_001(ctx), EXT_002 |-> EXT_002(ctx),
     GEO_001 |-> GEO_001(ctx), GEO_002 |-> GEO_002(ctx), GEO_003 |-> GEO_003(ctx),
     GEO_004 |-> GEO_004(ctx), GEO_005 |-> GEO_005(ctx), GEO_006 |-> GEO_006(ctx),
     GEO_007 |-> GEO_007(ctx), GEO_008 |-> GEO_008(ctx), GEO_009 |-> GEO_009(ctx),
     GEO_010 |-> GEO_010(ctx), GEO_011 |-> GEO_011(ctx), GEO_012 |-> GEO_012(ctx),
     GEO_013 |-> GEO_013(ctx), RECO_001 |-> RECO_001(ctx), RECO_002 |-> RECO_002(ctx),
     RECO_003 |-> RECO_003(ctx), RECO_004 |-> RECO_004(ctx), RECO_005 |-> RECO_005(ctx),
     RECO_006 |-> RECO_006(ctx), LIFE_001 |-> LIFE_001(ctx), LIFE_002 |-> LIFE_002(ctx),
     LIFE_003 |-> LIFE_003(ctx), LIFE_004 |-> LIFE_004(ctx), LIFE_005 |-> LIFE_005(ctx),
     LIFE_006 |-> LIFE_006(ctx), MEAS_001 |-> MEAS_001(ctx), MEAS_002 |-> MEAS_002(ctx),
     MEAS_003 |-> MEAS_003(ctx)]
=============================================================================
