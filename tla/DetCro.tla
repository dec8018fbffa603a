------------------------------- MODULE DetCro --------------------------------
(***************************************************************************)
(* The detectors of conversion, src/detectors/cro.js, and CWV-004 of       *)
(* src/detectors/cwv.js, the only one of that file whose check does not    *)
(* ask for a parsed document no context has. One operator per detector:    *)
(* the set of the subjects its check reports.                              *)
(*                                                                         *)
(* A page's `ctas' is a sequence of [text, place, target, has, width,      *)
(* height, font], sizes -1 where none is given; a form is as in DetAgent,  *)
(* with `fields' the number of its inputs, `does' what its endpoint names  *)
(* and `inputs' a set of [names, type, has]. A funnel is                   *)
(* [id, status, steps], a step [id, pattern, keeps]: `pattern' has the     *)
(* paths in which its url_pattern occurs.                                  *)
(***************************************************************************)
EXTENDS SitePages

Declared(ctx, p, types) == \E e \in RegistryPageFor(ctx, p) : e.type \in types
Commercial == {"product", "pricing", "landing", "commercial"}
IsCommercialUrl(u) == u.path \in {"/products/", "/pricing/", "/solutions/"}
IsConversionStep(u) == u.path \in {"/checkout", "/pay", "/cart", "/signup-step2", "/order-summary"}
IsConfirmation(u) == u.path \in {"/thank-you", "/order-confirmed", "/order-received", "/purchase-success",
                                 "/signup-success", "/payment-complete"}
CommercialPages(ctx) == {p \in IndexTargets(ctx) : Declared(ctx, p, Commercial) \/ IsCommercialUrl(p.url)}
Ctas(p) == ToSet(p.ctas)
Inputs(p) == {i \in UNION {f.inputs : f \in p.forms} : i.type \notin {"hidden", "submit", "button"}}

(***************************************************************************)
(* A way to act where one is promised, and forms a reader can fill in.     *)
(***************************************************************************)
CRO_001(ctx) == PageSubjects({p \in IndexTargets(ctx) : \E e \in RegistryPageFor(ctx, p) :
                  /\ e.action # "none"
                  /\ e.type \in Commercial \cup {"lead_generation"}
                  /\ \A c \in Ctas(p) : c.text # e.action
                  /\ \A f \in p.forms : f.does # e.action /\ "submit" \notin f.has})
CRO_002(ctx) == PageSubjects({p \in IndexTargets(ctx) : \E f \in p.forms : "submit" \notin f.has \/ f.fields > 7})
CRO_003(ctx) == PageSubjects({p \in IndexTargets(ctx) :
                  /\ p.ctas = << >>
                  /\ \/ Declared(ctx, p, {"product", "pricing", "commercial", "vendor", "solution"})
                     \/ \E e \in RegistryPageFor(ctx, p) : "commercial intent" \in e.has
                     \/ IsCommercialUrl(p.url)})
CRO_004(ctx) == PageSubjects({p \in IndexTargets(ctx) : \E c \in Ctas(p) :
                  \/ c.place \in {"placeholder", "staging"}
                  \/ c.place = "site" /\ \E t \in At(ctx, c.target) : t.status >= 400})
CRO_005(ctx) == PageSubjects({p \in Live(IndexTargets(ctx)) :
                  /\ p.title # "" /\ 1 \in ToSet(p.headings)
                  /\ Declared(ctx, p, {"product", "pricing", "landing"})
                  /\ "title words" \in p.has /\ "heading repeats title" \notin p.has})
CRO_006(ctx) == PageSubjects({p \in Without(LiveTargets(ctx), "trust badge") : \E f \in p.forms : f.fields >= 2})
CRO_007(ctx) == PageSubjects({p \in LiveTargets(ctx) : \E i \in Inputs(p) :
                  i.names \in {"email", "phone", "contact"} /\ "autocomplete" \notin i.has})
CRO_008(ctx) == PageSubjects({p \in LiveTargets(ctx) : \E i \in Inputs(p) :
                  "placeholder" \in i.has /\ "label" \notin i.has})
CRO_009(ctx) == PageSubjects({p \in LiveTargets(ctx) : \E i \in Inputs(p) :
                  /\ i.type = "text"
                  /\ \/ i.names = "email"
                     \/ i.names = "phone" /\ "inputmode" \notin i.has})
HeroCtas(p) == SelectSeq(p.ctas, LAMBDA c : {"hero", "primary"} \subseteq c.has)
CRO_010(ctx) == PageSubjects({p \in Live(CommercialPages(ctx)) : Len(HeroCtas(p)) >= 3})
CRO_011(ctx) == PageSubjects({p \in Live(CommercialPages(ctx)) :
                  /\ p.words >= 1000 /\ p.ctas # << >>
                  /\ \A c \in Ctas(p) : {"hero", "nav"} \cap c.has = {}})
CRO_012(ctx) == PageSubjects({p \in Live(CommercialPages(ctx)) :
                  \E c \in With(Ctas(p), "primary") : c.text = "generic"})
CRO_013(ctx) == PageSubjects({p \in LiveTargets(ctx) : IsConversionStep(p.url) /\ p.navLinks > 5})
CRO_014(ctx) == PageSubjects({p \in Without(Live(ctx.pages), "noindex") : IsConfirmation(p.url)})

Small(size, least) == size >= 0 /\ size < least
CRO_015(ctx) == PageSubjects({p \in LiveTargets(ctx) : \E c \in Ctas(p) : Small(c.width, 44) \/ Small(c.height, 44)})
CRO_016(ctx) == PageSubjects({p \in LiveTargets(ctx) : \E c \in With(Ctas(p), "primary") : Small(c.font, 12)})

(***************************************************************************)
(* Funnels of the project against the pages read: a step that no page read *)
(* matches is reported as missing.                                         *)
(***************************************************************************)
ActiveFunnels(ctx) == {f \in ctx.registries.funnels : f.status = "active"}
StepPage(ctx, s) == First({p \in ctx.pages : p.url.path \in s.pattern})
StepSubject(f, s) == EntrySubject(f.id, s.id)
CRO_017(ctx) ==
    LET steps == UNION {{<<f, s>> : s \in ToSet(f.steps)} : f \in ActiveFunnels(ctx)}
    IN {StepSubject(x[1], x[2]) : x \in {x \in steps : StepPage(ctx, x[2]) = {}}}
         \cup PageSubjects({p \in ctx.pages : p.status >= 400 /\ \E x \in steps : p \in StepPage(ctx, x[2])})

(***************************************************************************)
(* The first link on towards the next step must carry the parameters.      *)
(***************************************************************************)
Transition(p, next) == SelectSeq(p.ctas, LAMBDA c : c.target.path \in next.pattern)
CRO_018(ctx) == PageSubjects({p \in ctx.pages : \E f \in ActiveFunnels(ctx) : \E i \in 1..(Len(f.steps) - 1) :
                  /\ f.steps[i].keeps # {}
                  /\ p \in StepPage(ctx, f.steps[i])
                  /\ Transition(p, f.steps[i + 1]) # << >>
                  /\ "parameters" \notin Head(Transition(p, f.steps[i + 1])).has})
\* The cited URL is that of the page, or the end of it.
Cites(o, q) == q.url = o.target \/ (o.target.form = "path" /\ q.url.path = o.target.path)
CRO_019(ctx) == PageSubjects({p \in ctx.pages : /\ p.ctas = << >>
                                                /\ \E o \in ctx.observations :
                                                     /\ o.kind = "citation" /\ o.cited
                                                     /\ p \in First({q \in ctx.pages : Cites(o, q)})})
CRO_020(ctx) == Entries("experiments", {x \in ctx.registries.experiments :
                  x.status = "active" /\ x.days \in 0..6})
CRO_021(ctx) == PageSubjects({p \in Without(IndexTargets(ctx), "express payment") :
                  /\ \/ Declared(ctx, p, {"checkout", "cart"})
                     \/ p.url.path \in {"/checkout", "/cart"}
                     \/ \E i \in UNION {f.inputs : f \in p.forms} : i.names = "card"
                  /\ p.forms # {} \/ \E c \in Ctas(p) : c.text = "pay"
                  /\ \A c \in Ctas(p) : c.text # "wallet"})

CWV_004(ctx) == PageSubjects({p \in LiveTargets(ctx) : p.domNodes > 1500 \/ p.domDepth > 32})

(***************************************************************************)
(* What the checks of these detectors report, by detector.                 *)
(***************************************************************************)
CroChecks(ctx) ==
    [CRO_001 |-> CRO_001(ctx), CRO_002 |-> CRO_002(ctx), CRO_003 |-> CRO_003(ctx),
     CRO_004 |-> CRO_004(ctx), CRO_005 |-> CRO_005(ctx), CRO_006 |-> CRO_006(ctx),
     CRO_007 |-> CRO_007(ctx), CRO_008 |-> CRO_008(ctx), CRO_009 |-> CRO_009(ctx),
     CRO_010 |-> CRO_010(ctx), CRO_011 |-> CRO_011(ctx), CRO_012 |-> CRO_012(ctx),
     CRO_013 |-> CRO_013(ctx), CRO_014 |-> CRO_014(ctx), CRO_015 |-> CRO_015(ctx),
     CRO_016 |-> CRO_016(ctx), CRO_017 |-> CRO_017(ctx), CRO_018 |-> CRO_018(ctx),
     CRO_019 |-> CRO_019(ctx), CRO_020 |-> CRO_020(ctx), CRO_021 |-> CRO_021(ctx),
     CWV_004 |-> CWV_004(ctx)]
=============================================================================
