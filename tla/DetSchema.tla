------------------------------ MODULE DetSchema ------------------------------
(***************************************************************************)
(* The detectors of structured data: src/detectors/schemaData.js. One      *)
(* operator per detector: the set of the subjects its check reports.       *)
(*                                                                         *)
(* A JSON-LD block is [type, name, id, sameAs, refs, url, published,       *)
(* modified, items, has]: `refs' are the @ids its properties mention, its  *)
(* own among them or not, dates are days (0 for none), `items' the entries *)
(* of a breadcrumb, `has' the fields and facts looked at.                  *)
(***************************************************************************)
EXTENDS SitePages

Article == {"Article", "BlogPosting", "TechArticle"}
Organization == {"Organization", "Corporation"}

(***************************************************************************)
(* The subjects a test of the blocks of a set of pages yields.             *)
(***************************************************************************)
BlockSubjects(S, Test(_, _), what) ==
    {SchemaSubject(p, what) : p \in {p \in S : \E b \in p.schema : Test(p, b)}}
Typed(S, types, Test(_, _)) ==
    UNION {{SchemaSubject(p, b.type) : b \in {b \in p.schema : b.type \in types /\ Test(p, b)}} : p \in S}

SCHEMA_001(ctx) == {SchemaSubject(p, "ld+json") : p \in With(ctx.pages, "unparsed json-ld")}
SCHEMA_002(ctx) == Typed(IndexTargets(ctx), Article \cup {"WebPage"}, LAMBDA p, b :
                     "headline" \in b.has /\ "visible headline" \notin b.has)
SCHEMA_003(ctx) == BlockSubjects({p \in IndexTargets(ctx) : Len(p.canonicals) = 1}, LAMBDA p, b :
                     /\ b.type \in Article \cup {"WebPage"}
                     /\ b.url # NoUrl /\ SafePath(b.url) # SafePath(p.canonicals[1]), "url")
SCHEMA_004(ctx) ==
    BlockSubjects(ctx.pages, LAMBDA p, b : b.published > ctx.today, "datePublished")
      \cup BlockSubjects(ctx.pages, LAMBDA p, b :
             b.published > 0 /\ b.modified > 0 /\ b.modified < b.published, "dateModified")
SCHEMA_005(ctx) == BlockSubjects(Without(ctx.pages, "review text"), LAMBDA p, b : "rating" \in b.has, "aggregateRating")
SCHEMA_006(ctx) == BlockSubjects(ctx.pages, LAMBDA p, b : "expired offer" \in b.has, "offers")
SCHEMA_007(ctx) == BlockSubjects(ctx.pages, LAMBDA p, b :
                     b.type = "FAQPage" /\ "unseen question" \in b.has, "FAQPage")

(***************************************************************************)
(* One @id, one name, over all the pages read.                             *)
(***************************************************************************)
SCHEMA_008(ctx) ==
    LET named == {b \in UNION {p.schema : p \in ctx.pages} :
                    b.type \in Organization /\ b.id # "" /\ b.name # ""}
    IN {Subject("schema_block", NoUrl, <<b.id, "">>) : b \in
          {b \in named : \E o \in named : o.id = b.id /\ o.name # b.name}}

EntityFacts == {"telephone", "email", "postalCode", "price"}
SCHEMA_009(ctx) ==
    UNION {{SchemaSubject(p, f) : f \in {f \in EntityFacts \ p.has : \E b \in p.schema : f \in b.has}}
           : p \in ctx.pages}

(***************************************************************************)
(* An @id that is used must be defined on a page read; the vocabulary of   *)
(* schema.org need not be.                                                 *)
(***************************************************************************)
Vocabulary == {"https://schema.org/Organization"}
DefinedIds(ctx) == {b.id : b \in UNION {p.schema : p \in ctx.pages}} \ {""}
SCHEMA_010(ctx) == BlockSubjects(ctx.pages, LAMBDA p, b :
                     \/ b.id # "" /\ b.id \in b.refs
                     \/ ~ b.refs \subseteq DefinedIds(ctx) \cup Vocabulary, "reference")

(***************************************************************************)
(* A breadcrumb has a first, second, third ... item, each with a name and  *)
(* all but the last with a target.                                         *)
(***************************************************************************)
BrokenTrail(items) ==
    \/ items = << >>
    \/ \E i \in DOMAIN items :
         \/ items[i].position # i
         \/ "name" \notin items[i].has
         \/ i < Len(items) /\ "url" \notin items[i].has
SCHEMA_011(ctx) == Typed(IndexTargets(ctx), {"BreadcrumbList"}, LAMBDA p, b : BrokenTrail(b.items))

(***************************************************************************)
(* The date of a block against the one the text shows and the header.      *)
(***************************************************************************)
Apart(a, b) == IF a > b THEN a - b ELSE b - a
SCHEMA_012(ctx) ==
    LET dated(b) == IF b.modified > 0 THEN b.modified ELSE b.published
    IN BlockSubjects({p \in IndexTargets(ctx) : p.shownDate > 0}, LAMBDA p, b :
         dated(b) > 0 /\ Apart(dated(b), p.shownDate) > 90, "dateConsensus")
         \cup BlockSubjects({p \in IndexTargets(ctx) : p.lastModified > 0}, LAMBDA p, b :
                b.modified > 0 /\ Apart(b.modified, p.lastModified) > 180, "headerConsensus")

SCHEMA_013(ctx) == Typed(IndexTargets(ctx), {"VideoObject"}, LAMBDA p, b :
                     b.name = "" \/ ~ {"description", "uploadDate", "thumbnail", "content"} \subseteq b.has)
SCHEMA_014(ctx) == Typed(IndexTargets(ctx), Organization \cup {"LocalBusiness"}, LAMBDA p, b :
                     LET missing == {f \in {"url", "logo", "anchor"} : f \notin b.has}
                                      \cup (IF b.name = "" THEN {"name"} ELSE {})
                     IN Cardinality(missing) >= 2)
SCHEMA_015(ctx) ==
    UNION {{SchemaSubject(p, b.id) : b \in {b \in p.schema : b.id # "" /\ b.id \in b.refs}} : p \in IndexTargets(ctx)}
SCHEMA_016(ctx) == Typed(IndexTargets(ctx), Article \cup {"Review"}, LAMBDA p, b : "author without profile" \in b.has)

(***************************************************************************)
(* What the checks of these detectors report, by detector.                 *)
(***************************************************************************)
SchemaChecks(ctx) ==
    [SCHEMA_001 |-> SCHEMA_001(ctx), SCHEMA_002 |-> SCHEMA_002(ctx), SCHEMA_003 |-> SCHEMA_003(ctx),
     SCHEMA_004 |-> SCHEMA_004(ctx), SCHEMA_005 |-> SCHEMA_005(ctx), SCHEMA_006 |-> SCHEMA_006(ctx),
     SCHEMA_007 |-> SCHEMA_007(ctx), SCHEMA_008 |-> SCHEMA_008(ctx), SCHEMA_009 |-> SCHEMA_009(ctx),
     SCHEMA_010 |-> SCHEMA_010(ctx), SCHEMA_011 |-> SCHEMA_011(ctx), SCHEMA_012 |-> SCHEMA_012(ctx),
     SCHEMA_013 |-> SCHEMA_013(ctx), SCHEMA_014 |-> SCHEMA_014(ctx), SCHEMA_015 |-> SCHEMA_015(ctx),
     SCHEMA_016 |-> SCHEMA_016(ctx)]
=============================================================================
