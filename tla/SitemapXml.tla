----------------------------- MODULE SitemapXml -----------------------------
(***************************************************************************)
(* parseSitemap (src/crawler/sitemap.js): the bounded reader of a sitemap, *)
(* a fold over the tokens of scanXml with the stack of open elements.      *)
(*                                                                         *)
(* A token is [type, name, value]: "open" and "close" of an element,       *)
(* "text" for all the characters between two tags, whose value is "" when  *)
(* they are blank, "invalid" for what is a structural error by itself and  *)
(* is skipped (a declaration, a misplaced processing instruction, an       *)
(* unbound prefix, a bad entity), and "error" for what ends the scan.      *)
(* Comments, namespaces and the decoding of entities are left out: they    *)
(* change no URL that is read.                                             *)
(***************************************************************************)
EXTENDS Integers, Sequences, FiniteSets, SequencesExt

CONSTANTS
  MaxEntries,  \* maxUrls, maxChildren and maxEntries: one bound for its caller
  MaxTokens,   \* maxTokens
  MaxXmlDepth  \* MAX_XML_DEPTH

ASSUME XmlAssumption ==
  /\ MaxEntries \in Nat \ {0} /\ MaxTokens \in Nat \ {0} /\ MaxXmlDepth \in Nat \ {0}

Token == [type : {"open", "close", "text", "invalid", "error"}, name : STRING, value : STRING]

\* What the scanner yields: it never splits the characters between two tags.
Scanned(tokens) ==
  /\ tokens \in Seq(Token)
  /\ \A i \in 2..Len(tokens) : ~(tokens[i - 1].type = "text" /\ tokens[i].type = "text")

Roots == {"urlset", "sitemapindex"}
EntryOf(root) == IF root = "sitemapindex" THEN "sitemap" ELSE "url"

ParserStart ==
  [stack |-> << >>, root |-> "", roots |-> 0, closed |-> FALSE, tokens |-> 0, entries |-> 0,
   locs |-> << >>, dates |-> 0, text |-> "", urls |-> << >>, children |-> << >>,
   structural |-> FALSE, errors |-> FALSE, truncated |-> "", halted |-> FALSE]

StructuralError(p) == [p EXCEPT !.structural = TRUE, !.errors = TRUE]
Cut(p, reason)     == [p EXCEPT !.truncated = IF @ = "" THEN reason ELSE @]

-----------------------------------------------------------------------------
\* closeFrame of an entry: its first location counts, further ones are told.
CloseEntry(p) ==
  IF p.locs = << >> THEN [p EXCEPT !.errors = TRUE]
  ELSE LET told == [p EXCEPT !.errors = @ \/ Len(p.locs) > 1 \/ p.dates > 1] IN
       IF p.root = "sitemapindex" THEN [told EXCEPT !.children = Append(@, Head(p.locs))]
                                  ELSE [told EXCEPT !.urls = Append(@, Head(p.locs))]

\* closeFrame
CloseFrame(p, frame, matched) ==
  CASE frame.role = "loc" /\ p.text # ""                  -> [p EXCEPT !.locs = Append(@, p.text)]
    [] frame.role = "lastmod" /\ p.text # ""              -> [p EXCEPT !.dates = @ + 1]
    [] frame.role = "entry" /\ matched /\ frame.retained  -> CloseEntry(p)
    [] frame.role = "root" /\ matched                     -> [p EXCEPT !.closed = TRUE]
    [] OTHER                                              -> p

\* What an element is, from the element around it.
RoleIn(p, name) ==
  LET parent == IF p.stack = << >> THEN "none" ELSE Last(p.stack).role IN
  CASE parent = "none"  -> IF p.roots = 0 /\ name \in Roots THEN "root" ELSE "extra"
    [] parent = "root"  -> IF name = EntryOf(p.root) THEN "entry" ELSE "stray"
    [] parent = "entry" -> IF name \in {"loc", "lastmod"} THEN name ELSE IF name \in {"url", "sitemap"} THEN "stray" ELSE "ignored"
    [] parent \in {"loc", "lastmod"} -> "stray"
    [] OTHER            -> "ignored"

Opened(p, name) ==
  LET role == RoleIn(p, name)
      q == CASE role = "root"  -> [p EXCEPT !.root = name, !.roots = 1]
             [] role = "extra" -> [StructuralError(p) EXCEPT !.roots = @ + 1]
             [] role = "stray" -> StructuralError(p)
             [] role = "entry" -> LET more == [p EXCEPT !.entries = @ + 1, !.locs = << >>, !.dates = 0]
                                  IN  IF more.entries > MaxEntries THEN Cut(more, "entries") ELSE more
             [] role \in {"loc", "lastmod"} -> [p EXCEPT !.text = ""]
             [] OTHER          -> p IN
  IF Len(p.stack) >= MaxXmlDepth THEN [StructuralError(q) EXCEPT !.halted = TRUE]
  ELSE [q EXCEPT !.stack = Append(@, [name |-> name, role |-> role, retained |-> q.entries <= MaxEntries])]

\* A closing tag closes the innermost element of its name; the elements left
\* open in it are given up.
Closed(p, name) ==
  LET depth == Len(p.stack)
      same  == {i \in 1..depth : p.stack[i].name = name}
      told  == IF depth = 0 \/ Last(p.stack).name # name THEN StructuralError(p) ELSE p
  IN IF same = {} THEN told
     ELSE LET i == CHOOSE i \in same : \A j \in same : j <= i
              given == FoldLeft(LAMBDA q, frame : CloseFrame(q, frame, FALSE), told,
                                Reverse(SubSeq(p.stack, i + 1, depth)))
          IN  CloseFrame([given EXCEPT !.stack = SubSeq(@, 1, i - 1)], p.stack[i], TRUE)

TextRead(p, value) ==
  LET role == IF p.stack = << >> THEN "none" ELSE Last(p.stack).role IN
  CASE role = "none" /\ value # ""  -> StructuralError(p)
    [] role \in {"loc", "lastmod"}  -> [p EXCEPT !.text = value]
    [] role = "entry" /\ value # "" -> [p EXCEPT !.errors = TRUE]
    [] OTHER                        -> p

ReadToken(p, token) ==
  LET q == [p EXCEPT !.tokens = @ + 1] IN
  CASE p.halted               -> p
    [] ~p.halted /\ q.tokens > MaxTokens    -> [Cut(StructuralError(q), "tokens") EXCEPT !.halted = TRUE]
    [] ~p.halted /\ q.tokens <= MaxTokens   ->
         CASE token.type = "error"   -> [StructuralError(q) EXCEPT !.halted = TRUE]
           [] token.type = "invalid" -> StructuralError(q)
           [] token.type = "text"    -> TextRead(q, token.value)
           [] token.type = "open"    -> Opened(q, token.name)
           [] token.type = "close"   -> Closed(q, token.name)

\* parseSitemap: [rootValid, urls, children, errors, truncated]
ParseSitemap(tokens) ==
  LET p == FoldLeft(ReadToken, ParserStart, tokens)
      ill == p.structural \/ p.stack # << >> \/ p.roots = 0
  IN [rootValid |-> p.roots = 1 /\ p.closed /\ ~ill, urls |-> p.urls, children |-> p.children,
      errors |-> p.errors \/ ill, truncated |-> p.truncated]

-----------------------------------------------------------------------------
(***************************************************************************)
(* What a document says, read without a parser: the text of every <loc>,   *)
(* but for those in an element that is not of sitemaps (<image:image>,     *)
(* say), where a <loc> is no page.  Elements are told apart by how deep    *)
(* the tags are nested.                                                    *)
(***************************************************************************)
Nesting(tokens, n) ==
    Cardinality({i \in 1..n : tokens[i].type = "open"})
  - Cardinality({i \in 1..n : tokens[i].type = "close"})

\* The element that token j opens is open at token i.
Within(tokens, j, i) ==
  tokens[j].type = "open" /\ \A k \in j..i : Nesting(tokens, j) <= Nesting(tokens, k)

IsRoot(tokens, j) == tokens[j].type = "open" /\ \A i \in 1..(j - 1) : tokens[i].type # "open"

Aside(tokens, i) ==
  \E j \in 1..i : /\ Within(tokens, j, i) /\ ~IsRoot(tokens, j)
                 /\ tokens[j].name \notin {"url", "sitemap", "loc"}

Names(tokens, i) ==
  /\ i > 1 /\ tokens[i].type = "text" /\ tokens[i].value # ""
  /\ tokens[i - 1].type = "open" /\ tokens[i - 1].name = "loc" /\ ~Aside(tokens, i)

Named(tokens) == {tokens[i].value : i \in {i \in DOMAIN tokens : Names(tokens, i)}}

ListsSitemaps(tokens) == \E j \in DOMAIN tokens : IsRoot(tokens, j) /\ tokens[j].name = "sitemapindex"
=============================================================================
