---------------------------- MODULE Connections ----------------------------
(***************************************************************************)
(* The connections of a workspace (src/commands/connect.js) and what       *)
(* `connect sync` collects over them: Search Console, Analytics, WordPress *)
(* and Webflow lists, page by page, from a provider that changes, fails    *)
(* and reports its totals as it likes.                                     *)
(*                                                                         *)
(* A list is a sequence of items; a request asks for PageSize of them from *)
(* a position, which is the start row, the offset, the page number or the  *)
(* cursor of the provider.                                                 *)
(***************************************************************************)
EXTENDS Integers, Sequences, FiniteSets

CONSTANTS
  Ids,        \* connection ids
  Stocks,     \* BOUND: what a provider may have at the start: lists of items
  PageSize,   \* rows of a full page: 25000, 100000, 100 or 100
  MaxPages,   \* paginationBoundary
  MaxSales,   \* BOUND: changes of what the provider has
  MaxCommands \* BOUND: the commands that change the registry

Lists == {"rows", "posts", "pages", "collections", "items"}

\* What a collection of Webflow has is the list "items": it is among the
\* collections.
ASSUME ConnectionsAssumption ==
  /\ Stocks \subseteq [Lists -> Seq(STRING)]
  /\ \A s \in Stocks : \E i \in 1..Len(s["collections"]) : s["collections"][i] = "items"
  /\ PageSize \in Nat \ {0} /\ MaxPages \in Nat \ {0} /\ MaxSales \in Nat /\ MaxCommands \in Nat

VARIABLES
  connections, \* the entries of the connections registry
  stock,       \* what the provider has: list -> items
  sync,        \* the `connect sync` that runs
  collected,   \* the collection of the last sync
  sales,       \* how often the stock has changed
  commands     \* how often the registry was changed by a command

connectVars == <<connections, stock, sync, collected, sales, commands>>

Providers == {"gsc", "ga4", "wordpress", "webflow"}

None == -1
Unconfigured == [state |-> "not_configured", provider |-> "none"]
NoSync       == [on |-> FALSE]
Uncollected  == [status |-> "none", missed |-> {}, steady |-> FALSE]

\* The lists a provider is asked for first: those of its metrics.
ListsOf(provider) ==
  CASE provider = "wordpress" -> <<"posts", "pages">>
    [] provider = "webflow"   -> <<"pages", "collections">>
    [] OTHER                  -> <<"rows">>

AllLists(provider) ==
  LET l == ListsOf(provider) IN
  {l[i] : i \in 1..Len(l)} \cup IF provider = "webflow" THEN {"items"} ELSE {}

-----------------------------------------------------------------------------
(***************************************************************************)
(* One list.  A collection c keeps the items it got, the pages requested,  *)
(* the position, the cursor or URL to go on with, the last total and       *)
(* number of pages reported, and how it ended.                             *)
(***************************************************************************)
FreshList ==
  [items |-> <<>>, requested |-> 0, at |-> 0, cursor |-> None, url |-> None, total |-> None,
   pages |-> None, continues |-> FALSE, unknown |-> FALSE, error |-> "none", ended |-> FALSE]

Position(c) == IF c.url # None THEN c.url ELSE IF c.cursor # None THEN c.cursor ELSE c.at

Least(a, b) == IF a < b THEN a ELSE b
Pages(n) == (n + PageSize - 1) \div PageSize

\* The answer of a provider to a request for a page of a list.
Answer(list, at) ==
  LET n    == Len(stock[list])
      end  == Least(at + PageSize, n)
      more == IF end < n THEN end ELSE None IN
  [rows   |-> SubSeq(stock[list], at + 1, end),
   total  |-> IF sync.reports.totals THEN n ELSE None,
   pages  |-> IF sync.reports.totals THEN Pages(n) ELSE None,
   cursor |-> IF sync.reports.by = "cursor" THEN more ELSE None,
   url    |-> IF sync.reports.by = "next" THEN more ELSE None,
   offset |-> IF sync.reports.by = "offset" THEN more ELSE None]

Took(c, a) ==
  [c EXCEPT !.items = @ \o a.rows, !.requested = @ + 1, !.url = None,
            !.total = IF a.total = None THEN @ ELSE a.total,
            !.pages = IF a.pages \in {None, 0} THEN @ ELSE a.pages]

Ends(c)       == [c EXCEPT !.ended = TRUE]
EndsMidway(c) == [c EXCEPT !.ended = TRUE, !.continues = TRUE]

\* gsc sync: a short page is the last; the total is never taken as one.
AfterGsc(c, a) ==
  LET d == [Took(c, a) EXCEPT !.unknown = TRUE] IN
  IF Len(a.rows) < PageSize THEN Ends(d)
  ELSE IF d.requested >= MaxPages THEN EndsMidway([d EXCEPT !.at = @ + PageSize])
  ELSE [d EXCEPT !.at = @ + PageSize]

\* ga4 sync: rows are asked for up to rowCount, when there is one.
AfterGa4(c, a) ==
  LET t == Took(c, a)
      d == [t EXCEPT !.at = @ + Len(a.rows), !.unknown = t.total = None] IN
  IF IF a.total = None THEN Len(a.rows) < PageSize ELSE d.at >= a.total \/ a.rows = <<>> THEN Ends(d)
  ELSE IF d.requested >= MaxPages THEN EndsMidway(d)
  ELSE d

\* collectWordPressEndpoint: pages up to x-wp-totalpages.  At the boundary
\* the next page is compared with the total of pages, so that a list which
\* has just one page more does not continue.
AfterWordPress(c, a) ==
  LET t    == Took(c, a)
      d    == [t EXCEPT !.unknown = @ \/ t.pages = None]
      page == c.requested + 1 IN
  IF a.rows = <<>> \/ (d.pages # None /\ page >= d.pages) THEN Ends(d)
  ELSE IF d.pages = None /\ Len(a.rows) >= PageSize THEN EndsMidway(d)
  ELSE IF page < MaxPages THEN [d EXCEPT !.at = @ + PageSize]
  ELSE [Ends(d) EXCEPT !.continues = d.pages # None /\ page + 1 < d.pages]

\* collectWebflowList: a cursor, a URL or an offset, whatever comes.  The
\* last cursor stays when a full page comes without one.
WebflowGoesOn(c, a) ==
  LET d   == Took(c, a)
      all == d.total # None /\ Len(d.items) >= d.total IN
  IF a.cursor # None THEN [d EXCEPT !.cursor = a.cursor, !.ended = all]
  ELSE IF a.url # None THEN [d EXCEPT !.url = a.url, !.cursor = None, !.ended = all]
  ELSE IF a.offset # None /\ a.offset =< c.at THEN [EndsMidway(d) EXCEPT !.error = "malformed"]
  ELSE IF all THEN Ends(d)
  ELSE IF a.offset # None THEN [d EXCEPT !.at = a.offset, !.cursor = None]
  ELSE IF Len(a.rows) >= PageSize THEN [d EXCEPT !.at = @ + Len(a.rows)]
  ELSE Ends([d EXCEPT !.unknown = TRUE])

AfterWebflow(c, a) ==
  LET d == WebflowGoesOn(c, a) IN
  IF d.requested < MaxPages THEN d
  ELSE [Ends(d) EXCEPT !.continues = @ \/ d.total = None \/ Len(d.items) < d.total]

After(provider, c, a) ==
  CASE provider = "gsc"       -> AfterGsc(c, a)
    [] provider = "ga4"       -> AfterGa4(c, a)
    [] provider = "wordpress" -> AfterWordPress(c, a)
    [] provider = "webflow"   -> AfterWebflow(c, a)

-----------------------------------------------------------------------------
(***************************************************************************)
(* The whole collection                                                    *)
(***************************************************************************)
FreshResult ==
  [items |-> <<>>, total |-> 0, known |-> TRUE, continues |-> FALSE, errors |-> FALSE, error |-> "none"]

\* What a finished list adds to the collection.
Adds(r, list, c) ==
  [items     |-> r.items \o [i \in 1..Len(c.items) |-> <<list, c.items[i]>>],
   total     |-> IF c.total = None THEN r.total ELSE r.total + c.total,
   known     |-> r.known /\ c.total # None /\ ~c.unknown,
   continues |-> r.continues \/ c.continues,
   errors    |-> r.errors \/ c.error # "none",
   error     |-> IF r.error = "none" /\ c.error = "provider" THEN "provider" ELSE r.error]

\* Mutant: a total that was not reached is not looked at.
CoverageStatus_NoTotal(r) ==
  CASE r.errors    -> "indeterminate"
    [] r.continues -> "truncated"
    [] ~r.known    -> "provider_bounded"
    [] OTHER       -> "complete"

\* collectionResult
CoverageStatus(r) ==
  CASE r.errors \/ (r.known /\ r.total < Len(r.items)) -> "indeterminate"
    [] r.continues                                     -> "truncated"
    [] ~r.known \/ r.total > Len(r.items)              -> "provider_bounded"
    [] OTHER                                           -> "complete"

Entry(state, provider) == [state |-> state, provider |-> provider]

\* configureConnection and disconnectConnection: the registry is loaded,
\* changed and saved in one go.
Configure ==
  /\ commands < MaxCommands /\ commands' = commands + 1
  /\ \E id \in Ids, p \in Providers : connections' = [connections EXCEPT ![id] = Entry("configured", p)]
  /\ UNCHANGED <<stock, sync, collected, sales>>

Disconnect ==
  /\ commands < MaxCommands /\ commands' = commands + 1
  /\ \E id \in Ids : connections[id] # Unconfigured /\ connections' = [connections EXCEPT ![id] = Unconfigured]
  /\ UNCHANGED <<stock, sync, collected, sales>>

\* syncConnection loads the registry before it asks the provider.  Whether
\* totals are reported is up to the provider, as is the continuation that
\* Webflow gives.
SyncStarts ==
  /\ sync = NoSync
  /\ \E id \in Ids, totals \in BOOLEAN, by \in {"none", "cursor", "next", "offset"} :
       /\ connections[id] # Unconfigured
       /\ connections[id].provider # "webflow" => by = "none"
       /\ sync' = [on |-> TRUE, id |-> id, provider |-> connections[id].provider,
                   loaded |-> connections, lists |-> ListsOf(connections[id].provider),
                   list |-> FreshList, result |-> FreshResult,
                   reports |-> [totals |-> totals, by |-> by], steady |-> TRUE]
  /\ collected' = Uncollected
  /\ UNCHANGED <<connections, stock, sales, commands>>

\* The lists of items are those of the collections that were collected.
Following(list, c) ==
  IF sync.provider = "webflow" /\ list = "collections" THEN c.items ELSE <<>>

Advance(c) ==
  LET list == Head(sync.lists) IN
  sync' = IF c.ended
          THEN [sync EXCEPT !.lists = Tail(@) \o Following(list, c), !.list = FreshList,
                            !.result = Adds(@, list, c)]
          ELSE [sync EXCEPT !.list = c]

\* A page of the list.  A page beyond the last is an error of WordPress, a
\* collection that is gone one of Webflow.
PageArrives ==
  /\ sync.on /\ sync.lists # <<>>
  /\ LET list == Head(sync.lists) IN
     /\ list \in DOMAIN stock
     /\ ~(sync.provider = "wordpress" /\ sync.list.at > 0 /\ sync.list.at >= Len(stock[list]))
     /\ Advance(After(sync.provider, sync.list, Answer(list, Position(sync.list))))
  /\ UNCHANGED <<connections, stock, collected, sales, commands>>

\* providerRequest gives up: the answer had a status with a connector state,
\* or there was no answer that could be used.
RequestFails ==
  /\ sync.on /\ sync.lists # <<>>
  /\ \E e \in {"provider", "other"} :
       Advance([sync.list EXCEPT !.requested = @ + 1, !.error = e, !.continues = TRUE, !.ended = TRUE,
                                 !.unknown = @ \/ sync.provider = "gsc"])
  /\ UNCHANGED <<connections, stock, collected, sales, commands>>

AllItems(provider) == UNION {{<<l, stock[l][i]>> : i \in 1..Len(stock[l])} : l \in AllLists(provider)}

\* The run is written and the registry that was loaded at the start is saved
\* with the new state of the connection.
SyncEnds ==
  /\ sync.on /\ sync.lists = <<>>
  /\ LET r      == sync.result
         status == CoverageStatus(r)
         state  == IF r.error = "provider" THEN "temporarily_unavailable"
                   ELSE IF status \in {"truncated", "indeterminate"} THEN "partial" ELSE "synchronized" IN
     /\ connections' = [sync.loaded EXCEPT ![sync.id] = Entry(state, sync.provider)]
     /\ collected' = IF r.error = "provider" THEN collected
          ELSE [status |-> status, steady |-> sync.steady,
                missed |-> AllItems(sync.provider) \ {r.items[i] : i \in 1..Len(r.items)}]
  /\ sync' = NoSync
  /\ UNCHANGED <<stock, sales, commands>>

\* The owner of the property publishes or removes an item, which matters
\* while it is collected.
StockChanges ==
  /\ sync.on /\ sales < MaxSales /\ sales' = sales + 1
  /\ \E l \in DOMAIN stock \ {"collections"} :
       \/ stock' = [stock EXCEPT ![l] = <<"new">> \o @]
       \/ stock[l] # <<>> /\ stock' = [stock EXCEPT ![l] = Tail(@)]
  /\ sync' = [sync EXCEPT !.steady = FALSE]
  /\ UNCHANGED <<connections, collected, commands>>

-----------------------------------------------------------------------------
ConnectInit ==
  /\ connections = [id \in Ids |-> Unconfigured]
  /\ stock \in Stocks
  /\ sync = NoSync
  /\ collected = Uncollected
  /\ sales = 0 /\ commands = 0

ConnectNext ==
  \/ Configure \/ Disconnect \/ SyncStarts \/ PageArrives \/ RequestFails \/ SyncEnds \/ StockChanges

-----------------------------------------------------------------------------
(***************************************************************************)
(* A collection that is called complete has everything the provider had,   *)
(* of every list, unless the provider changed while it was collected       *)
(* (connectors/collectionResult.js:28-74 over the four connectors): no way *)
(* of reporting totals, of continuing, of ending at the boundary, and no   *)
(* failure of one list makes a part look like the whole.                   *)
(***************************************************************************)
CompleteIsAll ==
  collected.status = "complete" /\ collected.steady => collected.missed = {}
=============================================================================
