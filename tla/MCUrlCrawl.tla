------------------------------ MODULE MCUrlCrawl ------------------------------
(* Four pages and a budget of three, one URL the ledger refuses and one of   *)
(* another origin.  The sites are a chain that the budget cuts, a cycle with *)
(* self links, a start page with two leaves, and a refused link.             *)
EXTENDS UrlCrawl

CONSTANTS a, b, c, d, blob, away

MCUrls == {a, b, c, d}
Site(ofA, ofB, ofC) ==
  [u \in MCUrls |-> IF u = a THEN ofA ELSE IF u = b THEN ofB
                    ELSE IF u = c THEN ofC ELSE {}]

MCSites == {Site({b}, {c}, {d}),
            Site({a, b}, {a, c}, {a, b, c}),
            Site({b, c, away}, {}, {b}),
            Site({b}, {blob}, {b})}
MCSitemaps == {{}, {a, b}, {d}, {c, blob}}
MCUnledgered == {blob}
MCOutside == {away}
===============================================================================
