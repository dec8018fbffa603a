------------------------------- MODULE DetAgent -------------------------------
(***************************************************************************)
(* The detectors of readiness for agents, src/detectors/agent.js, with the *)
(* validators of src/agent/ they call. One operator per detector: the set  *)
(* of the subjects its check reports.                                      *)
(*                                                                         *)
(* What a page serves besides HTML is its `doc' [has, endpoint, tools,     *)
(* targets]; a tool is [name, endpoint, has], and as an operation it has   *)
(* `declared', the category it states, and `wording', the categories its   *)
(* name, description and method read like. A form is [fields, method,      *)
(* class, has, inputs], `class' what its names and action read like.       *)
(***************************************************************************)
EXTENDS SitePages

(***************************************************************************)
(* Two things the checks ask for and the reading of a site never provides: *)
(* the text of robots.txt (parseRobots returns groups, sitemaps and        *)
(* errors) and the `path' of a page (extractPage gives it a URL only). The *)
(* conditions that need them are therefore never met.                      *)
(***************************************************************************)
RobotsText(ctx) == {}
PathOf(p) == "undefined"
Somewhere(ctx, paths) == \E p \in ctx.pages : PathOf(p) \in paths

(***************************************************************************)
(* The homepage, or else the first page read.                              *)
(***************************************************************************)
Homepage(ctx) == IF \E p \in ctx.pages : p.url = Root
                 THEN First({p \in ctx.pages : p.url = Root})
                 ELSE First(ctx.pages)
HomeSubject == Subject("page", Root, <<"site", "">>)
HomeWithout(ctx, headers) ==
    {HomeSubject : p \in {p \in Homepage(ctx) : headers \cap p.has = {}}}
Serving(ctx, path) == {p \in ctx.pages : p.url.path = path}

AGENT_001(ctx) == IF RobotsText(ctx) # {} /\ "AI crawler" \notin RobotsText(ctx)
                  THEN {FileSubject("/robots.txt")} ELSE {}
AGENT_002(ctx) == HomeWithout(ctx, {"link header"})
AGENT_003(ctx) == IF "llms.txt" \in ctx.facts \/ Serving(ctx, "/llms.txt") # {}
                  THEN {} ELSE {FileSubject("/llms.txt")}
AGENT_004(ctx) == IF Serving(ctx, "/.well-known/mcp") = {} /\ Somewhere(ctx, {"/api/"})
                  THEN {FileSubject("/.well-known/mcp")} ELSE {}
AGENT_005(ctx) == IF Serving(ctx, "/.well-known/agent.json") = {} /\ Somewhere(ctx, {"/api/", "/agent"})
                  THEN {FileSubject("/.well-known/agent.json")} ELSE {}
AGENT_006(ctx) == IF Somewhere(ctx, {"/page.md"}) THEN {}
                  ELSE HomeWithout(ctx, {"markdown type", "vary accept"})
AGENT_007(ctx) == IF "AI crawler" \in RobotsText(ctx) THEN HomeWithout(ctx, {"bot auth header"}) ELSE {}
StructuredData(p) == {}
AGENT_008(ctx) == IF \E p \in ctx.pages : StructuredData(p) # {}
                  THEN HomeWithout(ctx, {"content signals header"}) ELSE {}
AGENT_009(ctx) == IF Serving(ctx, "/auth.md") = {} /\ Somewhere(ctx, {"/api/", "/login", "/oauth"})
                  THEN {FileSubject("/auth.md")} ELSE {}
AGENT_010(ctx) == IF Somewhere(ctx, {"/pricing", "/checkout"})
                  THEN HomeWithout(ctx, {"payment header"}) ELSE {}

(***************************************************************************)
(* llms.txt: its form, and its links against the pages read. llms-full.txt *)
(* may also have been fetched beside the pages.                            *)
(***************************************************************************)
Llms(ctx) == IF "llms.txt" \in ctx.facts THEN {ctx.llms}
             ELSE {p.doc : p \in First(Serving(ctx, "/llms.txt"))}
Listed(ctx, u) ==
    \/ \E p \in ctx.pages : SafePath(p.url) = SafePath(u)
    \/ SafePath(u) = "/llms-full.txt" /\ "llms-full.txt" \in ctx.facts
AGENT_011(ctx) == {FileSubject("/llms.txt") : d \in {d \in Llms(ctx) :
                     /\ "text" \in d.has
                     /\ \/ ~ {"title", "summary", "well-formed links"} \subseteq d.has
                        \/ \E u \in d.targets : u.form # "external" /\ ~Listed(ctx, u)}}

(***************************************************************************)
(* An endpoint can be used if it is elsewhere, or a page read has its      *)
(* path, whatever that page answered.                                      *)
(***************************************************************************)
IsEndpointResolvable(ctx, u) ==
    \/ u.form = "external"
    \/ ctx.pages = {}
    \/ \E p \in ctx.pages : SafePath(p.url) = SafePath(u)
Unusable(ctx, u) == u # NoUrl /\ ~IsEndpointResolvable(ctx, u)

ToolProblem(t) == ~ {"valid name", "description", "schema", "declared inputs"} \subseteq t.has
McpProblem(ctx, d) ==
    \/ ~ {"json", "name"} \subseteq d.has
    \/ "http" \in d.has /\ d.endpoint = NoUrl
    \/ Unusable(ctx, d.endpoint)
    \/ \E t \in d.tools : ToolProblem(t) \/ Unusable(ctx, t.endpoint)
    \/ NoUrl \in d.targets
    \/ \E u \in d.targets : Unusable(ctx, u)
AGENT_012(ctx) == {UrlSubject(p.url) : p \in {p \in First(Serving(ctx, "/.well-known/mcp")) : McpProblem(ctx, p.doc)}}

(***************************************************************************)
(* The A2A card, WebMCP tools of the pages, and the resource manifest: at  *)
(* its well-known place or behind the first link that names one.           *)
(***************************************************************************)
A2aProblem(ctx, d) ==
    \/ ~ {"json", "name", "description"} \subseteq d.has
    \/ d.endpoint = NoUrl \/ Unusable(ctx, d.endpoint)
    \/ \E t \in d.tools : t.name = "" \/ "bad schema" \in t.has \/ Unusable(ctx, t.endpoint)
WebTools(ctx) == UNION {p.tools : p \in ctx.pages}
WebMcpProblem(ctx) ==
    \/ With(ctx.pages, "unparsed webmcp") # {}
    \/ \E t \in WebTools(ctx) : \/ t.name = "" \/ "description" \notin t.has
                                \/ "bad schema" \in t.has \/ Unusable(ctx, t.endpoint)
ArdProblem(ctx, d) == \/ "json" \notin d.has
                      \/ NoUrl \in d.targets
                      \/ \E u \in d.targets : Unusable(ctx, u)
ManifestLinks(ctx) == First({p \in ctx.pages : p.manifest # NoUrl})
ArdSubjects(ctx) ==
    LET wellKnown == First(Serving(ctx, "/.well-known/ard.json"))
        linked(p) == First(Serving(ctx, p.manifest.path))
    IN IF wellKnown # {}
       THEN {UrlSubject(p.url) : p \in {p \in wellKnown : ArdProblem(ctx, p.doc)}}
       ELSE {UrlSubject(p.manifest) : p \in {p \in ManifestLinks(ctx) :
               linked(p) = {} \/ \E q \in linked(p) : ArdProblem(ctx, q.doc)}}
AGENT_013(ctx) ==
    {UrlSubject(p.url) : p \in {p \in First(Serving(ctx, "/.well-known/agent.json")) : A2aProblem(ctx, p.doc)}}
      \cup (IF WebMcpProblem(ctx) THEN {HomeSubject} ELSE {})
      \cup ArdSubjects(ctx)

(***************************************************************************)
(* Operations: the first category in this order that the wording suggests, *)
(* unless one is declared.                                                 *)
(***************************************************************************)
Categories == <<"FINANCIAL", "PRIVILEGE_CHANGE", "COMMUNICATION", "DELETE", "CREATE", "UPDATE", "READ">>
ClassifyOperation(op) ==
    IF op.declared \in ToSet(Categories) THEN op.declared
    ELSE LET fits == {i \in DOMAIN Categories : Categories[i] \in op.wording \cup {"READ"}}
         IN Categories[Min(fits)]
IsDestructive(op) ==
    \/ "destructive wording" \in op.has
    \/ ClassifyOperation(op) = "DELETE" /\ "broad object" \in op.has
Safe(op) ==
    LET category == ClassifyOperation(op)
    IN /\ IsDestructive(op) => /\ "confirmation" \in op.has
                               /\ "idempotent" \in op.has \/ category = "READ"
       /\ category \in {"FINANCIAL", "PRIVILEGE_CHANGE"} => "authorization" \in op.has
AGENT_014(ctx) == {EntrySubject("WebMCP", t.name) : t \in {t \in WebTools(ctx) : t.name # "" /\ ~Safe(t)}}

(***************************************************************************)
(* Forms.                                                                  *)
(***************************************************************************)
ClassifyForm(f) ==
    IF f.class \in {"destructive", "financial"} THEN f.class
    ELSE IF f.method = "GET" THEN "read-only"
    ELSE IF f.class = "reversible" THEN "reversible" ELSE "state-mutating"
IsMachineAmbiguous(f) ==
    /\ ClassifyForm(f) \in {"destructive", "financial"}
    /\ {"step indicator", "confirmation notice"} \cap f.has = {}
    /\ "unambiguous label" \notin f.has \/ ClassifyForm(f) = "destructive"
AGENT_015(ctx) == PageSubjects({p \in ctx.pages : \E f \in p.forms : IsMachineAmbiguous(f)})
AGENT_016(ctx) == PageSubjects({p \in ctx.pages : p.instructions # {}})

(***************************************************************************)
(* What the checks of these detectors report, by detector.                 *)
(***************************************************************************)
AgentChecks(ctx) ==
    [AGENT_001 |-> AGENT_001(ctx), AGENT_002 |-> AGENT_002(ctx), AGENT_003 |-> AGENT_003(ctx),
     AGENT_004 |-> AGENT_004(ctx), AGENT_005 |-> AGENT_005(ctx), AGENT_006 |-> AGENT_006(ctx),
     AGENT_007 |-> AGENT_007(ctx), AGENT_008 |-> AGENT_008(ctx), AGENT_009 |-> AGENT_009(ctx),
     AGENT_010 |-> AGENT_010(ctx), AGENT_011 |-> AGENT_011(ctx), AGENT_012 |-> AGENT_012(ctx),
     AGENT_013 |-> AGENT_013(ctx), AGENT_014 |-> AGENT_014(ctx), AGENT_015 |-> AGENT_015(ctx),
     AGENT_016 |-> AGENT_016(ctx)]
=============================================================================
