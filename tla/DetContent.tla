----------------------------- MODULE DetContent -----------------------------
(***************************************************************************)
(* The detectors of content and of what the project declares about it:     *)
(* src/detectors/page.js, entity.js, claim.js and evd.js. One operator per *)
(* detector: the set of the subjects its check reports.                    *)
(*                                                                         *)
(* Registry entries: an entity is [id, type, status, names, near,          *)
(* profiles, has], a claim [id, type, status, evidence, surfaces, has], a  *)
(* piece of evidence [id, type, status, claims, has]; `near' are names     *)
(* that share a first word with the entity, `has' the fields and dates     *)
(* that are looked at.                                                     *)
(***************************************************************************)
EXTENDS SitePages

(***************************************************************************)
(* Titles, descriptions, headings, images and text of the live HTML pages. *)
(***************************************************************************)
PAGE_001(ctx) == PageSubjects({p \in LiveHtml(ctx) : p.title = ""})

(***************************************************************************)
(* Every retrieval is a page of its own here, also a second one of the     *)
(* same document through a redirect.                                       *)
(***************************************************************************)
Shared(S, Value(_)) == {Value(p) : p \in {p \in S : Value(p) # "" /\
                          \E q \in S \ {p} : Value(q) = Value(p)}}
PAGE_002(ctx) == {SiteSubject(t) : t \in Shared(LiveHtml(ctx), LAMBDA p : p.title)}
PAGE_003(ctx) == PageSubjects({p \in LiveHtml(ctx) : p.description = ""})
PAGE_004(ctx) == {SiteSubject(t) : t \in Shared(LiveHtml(ctx), LAMBDA p : p.description)}

TopHeadings(p) == SelectSeq(p.headings, LAMBDA h : h = 1)
PAGE_005(ctx) == PageSubjects({p \in LiveHtml(ctx) : Len(TopHeadings(p)) # 1})
PAGE_006(ctx) == PageSubjects({p \in LiveHtml(ctx) :
                   \E i \in 2..Len(p.headings) : p.headings[i] > p.headings[i - 1] + 1})
PAGE_007(ctx) == PageSubjects(With(LiveHtml(ctx), "image without alt"))
PAGE_008(ctx) == PageSubjects({p \in LiveHtml(ctx) : p.words > 0 /\ p.words < 120})
PAGE_009(ctx) == PageSubjects({p \in With(LiveHtml(ctx), "dominant term") : p.words >= 80})
PAGE_010(ctx) == PageSubjects({p \in LiveHtml(ctx) :
                   /\ p.chrome > 0 /\ p.words > 0
                   /\ p.chrome + p.words >= 50
                   /\ 10 * p.chrome >= 7 * (p.chrome + p.words)})

Closed == {"retired", "expired", "prohibited"}
OpenClaims(ctx) == {c \in ctx.registries.claims : c.status \notin Closed}
PAGE_011(ctx) == PageSubjects({p \in LiveHtml(ctx) : \E c \in OpenClaims(ctx) : c.id \in p.collapsed})

(***************************************************************************)
(* Entities, and the JSON-LD blocks [type, name, id, sameAs, has] that     *)
(* name them.                                                              *)
(***************************************************************************)
Named(ctx, name) == {e \in ctx.registries.entities : name \in e.names}
NamingTypes == {"Organization", "SoftwareApplication", "Product"}

ENTITY_001(ctx) == Entries("entities", Without(Active(ctx.registries.entities), "canonical url"))
ENTITY_002(ctx) ==
    LET entities == {e \in ctx.registries.entities : e.type \in {"organization", "product", "product_family"}}
        misnamed(b) == /\ b.type \in NamingTypes /\ b.name # ""
                       /\ \A e \in entities : b.name \notin e.names
                       /\ \E e \in entities : b.name \in e.near
    IN UNION {{SchemaSubject(p, b.name) : b \in {b \in p.schema : misnamed(b)}} : p \in ctx.pages}

Blocks(ctx) == UNION {p.schema : p \in ctx.pages}
ENTITY_003(ctx) ==
    LET named == {b \in Blocks(ctx) : b.name # "" /\ b.id # ""}
    IN {Subject("entity", NoUrl, <<b.type, b.name>>) : b \in
          {b \in named : \E o \in named : o.type = b.type /\ o.name = b.name /\ o.id # b.id}}
ENTITY_004(ctx) ==
    UNION {{SchemaSubject(p, "sameAs") : b \in {b \in p.schema : b.name # "" /\
              \E e \in Named(ctx, b.name) : ~ b.sameAs \subseteq e.profiles}} : p \in ctx.pages}
ENTITY_005(ctx) == Entries("entities",
                     {e \in Without(Active(ctx.registries.entities), "owner") :
                        e.type \in {"product", "product_family", "service"}})
ENTITY_006(ctx) == PageSubjects({p \in IndexTargets(ctx) : \E e \in ctx.registries.entities :
                     e.type \in {"organization", "product"} /\ e.id \in p.variants})
ENTITY_007(ctx) == Entries("entities",
                     {e \in Without(ctx.registries.entities, "verified this year") :
                        e.status \in {"active", "verified"}})

(***************************************************************************)
(* Claims. A surface is a path; it is looked for inside the URL of a page  *)
(* and the page's path inside it, so that the root matches everything.     *)
(***************************************************************************)
Verified == {"verified", "verified_narrowed"}
VerifiedClaims(ctx) == {c \in ctx.registries.claims : c.status \in Verified}
EvidenceOf(ctx, id) == {e \in ctx.registries.evidence : e.id = id}
Invalid(e) == e.status \in {"revoked", "stale", "inaccessible"} \/ "past validity" \in e.has
OnSurface(p, s) == s = p.url.path \/ "/" \in {s, p.url.path}

CLAIM_001(ctx) == Entries("claims", {c \in VerifiedClaims(ctx) : c.evidence = {}})
CLAIM_002(ctx) == Entries("claims", {c \in VerifiedClaims(ctx) :
                    /\ c.evidence # {}
                    /\ \A id \in c.evidence : \A e \in EvidenceOf(ctx, id) : Invalid(e)})
CLAIM_003(ctx) == Entries("claims", With(OpenClaims(ctx), "past expiry"))
CLAIM_004(ctx) == Entries("claims", {c \in OpenClaims(ctx) :
                    c.type \in {"performance", "comparative"} /\ c.evidence = {}})
CLAIM_005(ctx) == Entries("claims", {c \in VerifiedClaims(ctx) :
                    c.type \in {"opinion", "position", "aspirational"}})
CLAIM_006(ctx) == Entries("claims", {c \in Without(ctx.registries.claims, "legal review") :
                    /\ c.type \in {"legal_regulatory", "security", "commercial"}
                    /\ c.status \notin {"prohibited", "retired"}})
CLAIM_007(ctx) == PageSubjects({p \in With(LiveTargets(ctx), "superlative") : \A c \in ctx.registries.claims :
                    c.type # "comparative" \/ c.evidence = {} \/ \A s \in c.surfaces : ~OnSurface(p, s)})
CLAIM_008(ctx) == Entries("claims", {c \in Without(ctx.registries.claims, "few keywords") :
                    /\ c.status \notin {"retired", "expired"}
                    /\ \E s \in c.surfaces : \E p \in First({p \in ctx.pages : OnSurface(p, s)}) :
                         c.id \notin p.states})
CLAIM_009(ctx) == Entries("claims", Without(VerifiedClaims(ctx), "support assessment"))

(***************************************************************************)
(* Evidence.                                                               *)
(***************************************************************************)
Measured == {"benchmark", "test_result", "dataset"}
EVD_001(ctx) == Entries("evidence", {e \in With(ctx.registries.evidence, "past validity") :
                  e.status \notin {"stale", "revoked", "inaccessible"}})
EVD_002(ctx) == Entries("evidence", {e \in ctx.registries.evidence :
                  e.type \in Measured /\ ~ {"methodology", "period"} \subseteq e.has})
EVD_003(ctx) == Entries("claims", {c \in ctx.registries.claims : \E id \in c.evidence :
                  \/ EvidenceOf(ctx, id) = {}
                  \/ c.status \in Verified /\ \E e \in EvidenceOf(ctx, id) : e.status = "unverified"})
EVD_004(ctx) == Entries("claims", {c \in ctx.registries.claims :
                  LET known == {e \in ctx.registries.evidence : e.id \in c.evidence}
                  IN /\ c.type \in {"performance", "security"}
                     /\ known # {} /\ known = With(known, "secondary")})
EVD_005(ctx) == Entries("evidence", {e \in ctx.registries.evidence :
                  e.type \in {"customer_reference", "case_study"} /\ {"attribution", "reviewer"} \cap e.has = {}})
EVD_006(ctx) == Entries("evidence", {e \in Without(ctx.registries.evidence, "hash") :
                  e.type \in Measured \cup {"certification"} /\ "primary" \in e.has})
EVD_007(ctx) == Entries("evidence", {e \in ctx.registries.evidence :
                  /\ e.status = "inaccessible" \/ "inaccessible" \in e.has
                  /\ \E c \in OpenClaims(ctx) : c.id \in e.claims})
EVD_008(ctx) == Entries("evidence", {e \in With(ctx.registries.evidence, "media") :
                  \/ "no source" \in e.has
                  \/ /\ "local file" \in e.has
                     /\ "file present" \notin e.has
                     /\ \A p \in ctx.pages : e.id \notin p.shows})
EVD_009(ctx) == Entries("evidence", Without(With(ctx.registries.evidence, "pdf"), "page or section"))

(***************************************************************************)
(* What the checks of these detectors report, by detector.                 *)
(***************************************************************************)
ContentChecks(ctx) ==
    [PAGE_001 |-> PAGE_001(ctx), PAGE_002 |-> PAGE_002(ctx), PAGE_003 |-> PAGE_003(ctx),
     PAGE_004 |-> PAGE_004(ctx), PAGE_005 |-> PAGE_005(ctx), PAGE_006 |-> PAGE_006(ctx),
     PAGE_007 |-> PAGE_007(ctx), PAGE_008 |-> PAGE_008(ctx), PAGE_009 |-> PAGE_009(ctx),
     PAGE_010 |-> PAGE_010(ctx), PAGE_011 |-> PAGE_011(ctx), ENTITY_001 |-> ENTITY_001(ctx),
     ENTITY_002 |-> ENTITY_002(ctx), ENTITY_003 |-> ENTITY_003(ctx), ENTITY_004 |-> ENTITY_004(ctx),
     ENTITY_005 |-> ENTITY_005(ctx), ENTITY_006 |-> ENTITY_006(ctx), ENTITY_007 |-> ENTITY_007(ctx),
     CLAIM_001 |-> CLAIM_001(ctx), CLAIM_002 |-> CLAIM_002(ctx), CLAIM_003 |-> CLAIM_003(ctx),
     CLAIM_004 |-> CLAIM_004(ctx), CLAIM_005 |-> CLAIM_005(ctx), CLAIM_006 |-> CLAIM_006(ctx),
     CLAIM_007 |-> CLAIM_007(ctx), CLAIM_008 |-> CLAIM_008(ctx), CLAIM_009 |-> CLAIM_009(ctx),
     EVD_001 |-> EVD_001(ctx), EVD_002 |-> EVD_002(ctx), EVD_003 |-> EVD_003(ctx),
     EVD_004 |-> EVD_004(ctx), EVD_005 |-> EVD_005(ctx), EVD_006 |-> EVD_006(ctx),
     EVD_007 |-> EVD_007(ctx), EVD_008 |-> EVD_008(ctx), EVD_009 |-> EVD_009(ctx)]
=============================================================================
