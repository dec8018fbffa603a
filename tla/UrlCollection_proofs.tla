------------------------- MODULE UrlCollection_proofs -------------------------
(***************************************************************************)
(* What the collection of URLs promises for every site, every sitemap and  *)
(* every budget: the frontier and the ledger agree, each resource has one  *)
(* fate, the ledger accepts what is asked of it, no account of a           *)
(* collection that returned its site fails to reconcile, and a topology of *)
(* sitemaps that is called complete has every page.                        *)
(*                                                                         *)
(* First UrlCrawl.  Its inductive invariant joins to the checked           *)
(* properties where the collection is (nothing is discovered before the    *)
(* sitemaps are read, nothing is evaluated before the audit seals the      *)
(* ledger) and which URL it holds (the one in hand was retrieved before    *)
(* its links are read).  SitemapXml and SitemapTopology follow.            *)
(***************************************************************************)
EXTENDS UrlCrawl, SitemapTopology, FiniteSetTheorems, WellFoundedInduction, TLAPS

Stage ==
  /\ pc \in {"start", "robots"} => documents = 0
  /\ pc \in {"start", "robots", "sitemaps"} =>
       queue = <<>> /\ seen = {} /\ discovered = {}
  /\ pc \in {"start", "robots", "sitemaps", "seeding"} => attempted = {}
  /\ pc \in {"fetching", "links"} => current \in attempted
  /\ pc = "links" => current \in retrieved
  /\ pc \notin {"sealed", "failed"} => evaluated = {}

IInv == TypeOK /\ FrontierIsExact /\ OneFate /\ Stage

-----------------------------------------------------------------------------
(* Sequences without duplicates.                                           *)

Entries(q)  == {q[i] : i \in 1..Len(q)}
Distinct(q) == \A i, j \in 1..Len(q) : q[i] = q[j] => i = j

LEMMA AppendSet ==
  ASSUME NEW S, NEW q \in Seq(S), NEW x \in S, NEW r, r = Append(q, x)
  PROVE  {r[i] : i \in 1..Len(r)} = {q[i] : i \in 1..Len(q)} \cup {x}
<1>1. Len(r) = Len(q) + 1 /\ Len(q) \in Nat
  OBVIOUS
<1>2. /\ \A i \in 1..Len(q) : r[i] = q[i]
      /\ r[Len(q) + 1] = x
  OBVIOUS
<1>3. 1..Len(r) = (1..Len(q)) \cup {Len(q) + 1}
  BY <1>1
<1> QED
  BY <1>2, <1>3

LEMMA AppendDistinct ==
  ASSUME NEW S, NEW q \in Seq(S), NEW x \in S, NEW r, r = Append(q, x),
         \A i, j \in 1..Len(q) : q[i] = q[j] => i = j,
         x \notin {q[i] : i \in 1..Len(q)}
  PROVE  \A i, j \in 1..Len(r) : r[i] = r[j] => i = j
<1>1. Len(r) = Len(q) + 1 /\ Len(q) \in Nat
  OBVIOUS
<1>2. /\ \A i \in 1..Len(q) : r[i] = q[i]
      /\ r[Len(q) + 1] = x
  OBVIOUS
<1>3. \A i \in 1..Len(r) : i \in 1..Len(q) \/ i = Len(q) + 1
  BY <1>1
<1> QED
  BY <1>2, <1>3

LEMMA TailSet ==
  ASSUME NEW S, NEW q \in Seq(S), q # <<>>, Distinct(q)
  PROVE  /\ Tail(q) \in Seq(S) /\ Head(q) \in S
         /\ Distinct(Tail(q))
         /\ Entries(q) = Entries(Tail(q)) \cup {Head(q)}
         /\ Head(q) \notin Entries(Tail(q))
<1> DEFINE r == Tail(q)
<1>0. /\ r \in Seq(S) /\ Head(q) \in S
      /\ \A i, j \in 1..Len(q) : q[i] = q[j] => i = j
      /\ Len(r) = Len(q) - 1 /\ \A i \in 1..Len(r) : r[i] = q[i + 1]
  BY DEF Distinct
<1>1. /\ Len(q) \in Nat \ {0} /\ Head(q) = q[1] /\ 1 \in 1..Len(q)
  OBVIOUS
<1> HIDE DEF r
<1>2. \A i \in 1..Len(r) : r[i] = q[i + 1] /\ i + 1 \in 1..Len(q)
  BY <1>0, <1>1
<1>3. \A i \in 1..Len(q) : i = 1 \/ (i - 1 \in 1..Len(r) /\ q[i] = r[i - 1])
  BY <1>0, <1>1, <1>2
<1>5. \A i, j \in 1..Len(r) : r[i] = r[j] => i = j
  BY <1>0, <1>1, <1>2
<1>6. Head(q) \notin {r[i] : i \in 1..Len(r)}
  <2>1. SUFFICES ASSUME NEW i \in 1..Len(r), r[i] = Head(q) PROVE FALSE
    OBVIOUS
  <2>2. i + 1 = 1
    BY <2>1, <1>0, <1>1, <1>2
  <2> QED
    BY <2>2, <1>1
<1>7. {q[i] : i \in 1..Len(q)} = {r[i] : i \in 1..Len(r)} \cup {Head(q)}
  <2>1. \A i \in 1..Len(q) : q[i] \in {r[j] : j \in 1..Len(r)} \cup {Head(q)}
    BY <1>1, <1>3
  <2>2. \A i \in 1..Len(r) : r[i] \in {q[j] : j \in 1..Len(q)}
    BY <1>2
  <2>3. Head(q) \in {q[j] : j \in 1..Len(q)}
    BY <1>1
  <2> QED
    BY <2>1, <2>2, <2>3
<1> QED
  BY <1>0, <1>5, <1>6, <1>7 DEF Entries, Distinct, r

-----------------------------------------------------------------------------
(* Counting.                                                               *)

LEMMA DisjointSum ==
  ASSUME NEW S, NEW T, IsFiniteSet(S), IsFiniteSet(T), S \cap T = {}
  PROVE  /\ IsFiniteSet(S \cup T)
         /\ Cardinality(S \cup T) = Cardinality(S) + Cardinality(T)
<1>1. /\ IsFiniteSet(S \cup T)
      /\ Cardinality(S \cup T) =
           Cardinality(S) + Cardinality(T) - Cardinality(S \cap T)
  BY FS_Union
<1>2. Cardinality(S \cap T) = 0
  BY FS_EmptySet
<1>3. Cardinality(S) \in Nat /\ Cardinality(T) \in Nat
  BY FS_CardinalityType
<1> QED
  BY <1>1, <1>2, <1>3

\* With one fate for each resource, and none in hand, the counts of the
\* ledger reconcile, whether its valid resources are counted as evaluated or
\* as unevaluated.
LEMMA FatesAreCountable ==
  ASSUME TypeOK, FrontierIsExact, OneFate, pc # "fetching",
         NEW ev, NEW un, ev \cap un = {}, ev \cup un = valid
  PROVE  Countable(ev, un)
<1> DEFINE waiting == discovered \ attempted
<1>1. /\ attempted \subseteq discovered /\ discovered \subseteq Urls
      /\ attempted = retrieved \cup failed /\ failed \cap retrieved = {}
      /\ retrieved = valid \cup indeterminate /\ valid \cap indeterminate = {}
  BY DEF TypeOK, FrontierIsExact, OneFate
<1>2. IsFiniteSet(Urls)
  BY SiteAssumption
<1>3. /\ IsFiniteSet(ev) /\ IsFiniteSet(un) /\ IsFiniteSet(valid)
      /\ IsFiniteSet(indeterminate) /\ IsFiniteSet(failed)
      /\ IsFiniteSet(retrieved) /\ IsFiniteSet(attempted)
      /\ IsFiniteSet(waiting)
  <2>1. /\ ev \subseteq Urls /\ un \subseteq Urls /\ valid \subseteq Urls
        /\ indeterminate \subseteq Urls /\ failed \subseteq Urls
        /\ retrieved \subseteq Urls /\ attempted \subseteq Urls
        /\ waiting \subseteq Urls
    BY <1>1
  <2> QED
    BY <2>1, <1>2, FS_Subset
<1>4. Cardinality(valid) = Cardinality(ev) + Cardinality(un)
  BY <1>3, DisjointSum
<1>5. Cardinality(retrieved) = Cardinality(valid) + Cardinality(indeterminate)
  BY <1>1, <1>3, DisjointSum
<1>6. Cardinality(attempted) = Cardinality(retrieved) + Cardinality(failed)
  BY <1>1, <1>3, DisjointSum, retrieved \cap failed = {}
<1>7. Cardinality(discovered) = Cardinality(attempted) + Cardinality(waiting)
  <2>1. discovered = attempted \cup waiting /\ attempted \cap waiting = {}
    BY <1>1
  <2> QED
    BY <2>1, <1>3, DisjointSum
<1>8. /\ Cardinality(ev) \in Nat /\ Cardinality(un) \in Nat
      /\ Cardinality(indeterminate) \in Nat /\ Cardinality(failed) \in Nat
      /\ Cardinality(waiting) \in Nat
  BY <1>3, FS_CardinalityType
<1>9. Unresolved(ev, un) = {}
  BY <1>1 DEF Unresolved
<1>10. Reconciled(Populations(ev, un))
  BY <1>4, <1>5, <1>6, <1>7, <1>8 DEF Reconciled, Populations
<1> QED
  BY <1>9, <1>10 DEF Countable

-----------------------------------------------------------------------------
(* Types.                                                                  *)

LEMMA EnqueueTypes ==
  ASSUME TypeOK, NEW l \in Links, Enqueue(l)
  PROVE  queue' \in Seq(Urls) /\ discovered' \subseteq Urls
<1>1. CASE Ignored(l)
  BY <1>1 DEF Enqueue, TypeOK, frontier
<1>2. CASE ~Ignored(l)
  <2>1. /\ l \in Urls /\ queue' = Append(queue, l)
        /\ discovered' = discovered \cup {l}
    BY <1>2 DEF Enqueue, Ignored, Links
  <2>2. queue \in Seq(Urls) /\ discovered \subseteq Urls
    BY DEF TypeOK
  <2> QED
    BY <2>1, <2>2
<1> QED
  BY <1>1, <1>2

LEMMA TypesStay ==
  ASSUME IInv, [Next]_vars
  PROVE  TypeOK'
<1> USE DEF IInv
<1>1. CASE Begin
  BY <1>1 DEF Begin, ReadClock, TypeOK, Budgets, Ended, maps, journey
<1>2. CASE RobotsDone
  BY <1>2, SiteAssumption
     DEF RobotsDone, ReadClock, TypeOK, Stage, Budgets, Ended, maps, journey
<1>3. CASE SitemapsDone
  <2>1. queue' \in Seq(Urls) /\ discovered' \subseteq Urls
    BY <1>3, SiteAssumption DEF SitemapsDone
  <2> QED
    BY <1>3, <2>1
       DEF SitemapsDone, ReadClock, TypeOK, Budgets, Ended, journey, Links
<1>4. ASSUME NEW S \in Sitemaps, NEW more \in BOOLEAN,
             NEW quality \in {"fine", "faulty", "limited"},
             ReadSitemap(S, quality, more)
      PROVE  TypeOK'
  <2>1. /\ documents' = documents + 1 /\ documents < MaxSitemapDocuments
        /\ awaited' # "none" => documents' # MaxSitemapDocuments
        /\ awaited' \in {"none", "head"}
    BY <1>4 DEF ReadSitemap, TypeOK
  <2>2. documents' \in 0..MaxSitemapDocuments
        /\ (awaited' # "none" => documents' < MaxSitemapDocuments)
    BY <2>1, SiteAssumption DEF TypeOK
  <2>3. topologyStatus' \in {"complete", "indeterminate", "truncated"}
    BY <1>4 DEF ReadSitemap, Worse, TypeOK
  <2>4. sitemapUrls' \subseteq Urls \cup Unledgered
    BY <1>4, SiteAssumption DEF ReadSitemap, TypeOK
  <2> QED
    BY <1>4, <2>1, <2>2, <2>3, <2>4
       DEF ReadSitemap, TypeOK, Budgets, Ended, journey
<1>5. CASE Seed
  <2>1. queue' \in Seq(Urls) /\ discovered' \subseteq Urls
    BY <1>5, EnqueueTypes DEF Seed, TypeOK
  <2> QED
    BY <1>5, <2>1 DEF Seed, TypeOK, Budgets, Ended, maps, journey
<1>6. CASE Leave
  BY <1>6 DEF Leave, ReadClock, TypeOK, Budgets, Ended, maps, journey
<1>7. CASE TakeNext
  <2>1. queue' \in Seq(Urls) /\ current' \in Urls
    BY <1>7 DEF TakeNext, TypeOK
  <2> QED
    BY <1>7, <2>1 DEF TakeNext, TypeOK, Budgets, Ended, maps
<1>8. CASE FetchFails
  BY <1>8 DEF FetchFails, Caught, TypeOK, Budgets, Ended, maps
<1>9. ASSUME NEW ok \in BOOLEAN, NEW isHtml \in BOOLEAN, ReadPage(ok, isHtml)
      PROVE  TypeOK'
  <2>1. linksLeft' \subseteq Links
    <3>1. site \in [Urls -> SUBSET Links] /\ current \in Urls
      BY SiteAssumption DEF TypeOK
    <3> QED
      BY <1>9, <3>1 DEF ReadPage
  <2> QED
    BY <1>9, <2>1 DEF ReadPage, ReadClock, TypeOK, Budgets, Ended, maps
<1>10. CASE FollowLink
  <2>1. queue' \in Seq(Urls) /\ discovered' \subseteq Urls
    BY <1>10, EnqueueTypes DEF FollowLink, TypeOK
  <2>2. pc' \in {"links", "pages", "rejected"} /\ awaited' = awaited /\ pc = "links"
        /\ linksLeft' \subseteq linksLeft
    BY <1>10 DEF FollowLink, Caught
  <2> QED
    BY <1>10, <2>1, <2>2 DEF FollowLink, TypeOK, Budgets, Ended, maps
<1>11. CASE StopFollowing
  BY <1>11 DEF StopFollowing, ReadClock, TypeOK, Budgets, Ended, maps, journey
<1>12. CASE Close
  BY <1>12 DEF Close, ReadClock, TypeOK, Budgets, Ended, maps, journey
<1>13. CASE PreviewCoverage
  BY <1>13 DEF PreviewCoverage, TypeOK, Budgets, Ended, maps, journey
<1>14. CASE FinalizeCoverage
  BY <1>14 DEF FinalizeCoverage, TypeOK, Budgets, Ended, maps, journey
<1>15. CASE HeadArrives
  BY <1>15 DEF HeadArrives, TypeOK, Budgets, Ended, maps, journey
<1>16. CASE Expire
  BY <1>16 DEF Expire, TypeOK, Budgets, Ended, maps, journey
<1>17. CASE UNCHANGED vars
  BY <1>17 DEF TypeOK, vars, Budgets, Ended, maps, journey
<1> QED
  BY <1>1, <1>2, <1>3, <1>4, <1>5, <1>6, <1>7, <1>8, <1>9, <1>10, <1>11,
     <1>12, <1>13, <1>14, <1>15, <1>16, <1>17 DEF Next, Step

-----------------------------------------------------------------------------
(* The frontier.                                                           *)

\* A link goes to the back of the frontier and into the ledger, or nowhere.
LEMMA EnqueueKeepsFrontier ==
  ASSUME TypeOK, FrontierIsExact, NEW l \in Links, Enqueue(l),
         UNCHANGED <<seen, attempted>>
  PROVE  FrontierIsExact'
<1>1. CASE Ignored(l)
  <2>1. UNCHANGED <<queue, discovered, seen, attempted>>
    BY <1>1 DEF Enqueue, frontier
  <2> QED
    BY <2>1 DEF FrontierIsExact, QueueSet
<1>2. CASE ~Ignored(l)
  <2>1. /\ l \in Urls /\ queue \in Seq(Urls) /\ queue' = Append(queue, l)
        /\ l \notin QueueSet /\ l \notin seen
        /\ discovered' = discovered \cup {l}
    BY <1>2 DEF Enqueue, Ignored, Links, TypeOK
  <2>2. QueueSet' = QueueSet \cup {l}
    BY <2>1, AppendSet DEF QueueSet
  <2>3. (\A i, j \in 1..Len(queue) : queue[i] = queue[j] => i = j)'
    BY <2>1, AppendDistinct DEF QueueSet, FrontierIsExact
  <2> QED
    BY <2>1, <2>2, <2>3 DEF FrontierIsExact
<1> QED
  BY <1>1, <1>2

LEMMA FrontierStays ==
  ASSUME IInv, [Next]_vars
  PROVE  FrontierIsExact'
<1> USE DEF IInv
<1>1. ASSUME UNCHANGED <<queue, discovered, seen, attempted>>
      PROVE  FrontierIsExact'
  BY <1>1 DEF FrontierIsExact, QueueSet
<1>2. CASE SitemapsDone
  <2>1. /\ queue' = <<Start>> /\ discovered' = {Start}
        /\ seen' = {} /\ attempted' = {}
    BY <1>2 DEF SitemapsDone, Stage, journey
  <2>2. QueueSet' = {Start}
    BY <2>1 DEF QueueSet
  <2>3. Cardinality(seen') =< MaxPages
    BY <2>1, FS_EmptySet, SiteAssumption
  <2> QED
    BY <2>1, <2>2, <2>3 DEF FrontierIsExact
<1>3. CASE Seed
  <2>1. CASE \E l \in linksLeft : Enqueue(l)
    <3>1. PICK l \in linksLeft : Enqueue(l)
      BY <2>1
    <3>2. l \in Links /\ UNCHANGED <<seen, attempted>>
      BY <1>3, <3>1 DEF Seed, TypeOK, journey
    <3> QED
      BY <3>1, <3>2, EnqueueKeepsFrontier
  <2>2. CASE ~\E l \in linksLeft : Enqueue(l)
    BY <1>1, <1>3, <2>2 DEF Seed, journey
  <2> QED
    BY <2>1, <2>2
<1>4. CASE TakeNext
  <2>1. /\ queue \in Seq(Urls) /\ queue # <<>> /\ queue' = Tail(queue)
        /\ seen' = seen \cup {Head(queue)}
        /\ attempted' = attempted \cup {Head(queue)}
        /\ discovered' = discovered /\ Cardinality(seen) < MaxPages
    BY <1>4 DEF TakeNext, TypeOK
  <2>2. /\ (\A i, j \in 1..Len(queue) : queue[i] = queue[j] => i = j)'
        /\ QueueSet = QueueSet' \cup {Head(queue)}
        /\ Head(queue) \notin QueueSet'
    <3>1. Distinct(queue)
      BY DEF FrontierIsExact, Distinct
    <3>2. /\ Distinct(Tail(queue))
          /\ Entries(queue) = Entries(Tail(queue)) \cup {Head(queue)}
          /\ Head(queue) \notin Entries(Tail(queue))
      BY <2>1, <3>1, TailSet
    <3>3. queue' = Tail(queue)
      BY <2>1
    <3>4. /\ (\A i, j \in 1..Len(queue) : queue[i] = queue[j] => i = j)' = Distinct(Tail(queue))
          /\ QueueSet' = Entries(Tail(queue))
      BY <3>3 DEF QueueSet, Entries, Distinct
    <3>5. QueueSet = Entries(queue)
      BY DEF QueueSet, Entries
    <3> QED
      BY <3>2, <3>4, <3>5
  <2>3. Cardinality(seen') =< MaxPages
    <3>1. IsFiniteSet(seen)
      BY SiteAssumption, FS_Subset DEF TypeOK
    <3>2. Cardinality(seen) \in Nat
      BY <3>1, FS_CardinalityType
    <3>3. Cardinality(seen') \in {Cardinality(seen), Cardinality(seen) + 1}
      BY <3>1, <2>1, FS_AddElement
    <3> QED
      BY <2>1, <3>2, <3>3, SiteAssumption
  <2> QED
    BY <2>1, <2>2, <2>3 DEF FrontierIsExact
<1>5. CASE FollowLink
  <2>1. CASE \E l \in linksLeft : Enqueue(l) /\ UNCHANGED journey
    <3>1. PICK l \in linksLeft : Enqueue(l) /\ UNCHANGED journey
      BY <2>1
    <3>2. l \in Links /\ UNCHANGED <<seen, attempted>>
      BY <1>5, <3>1 DEF FollowLink, TypeOK, journey
    <3> QED
      BY <3>1, <3>2, EnqueueKeepsFrontier
  <2>2. CASE ~\E l \in linksLeft : Enqueue(l) /\ UNCHANGED journey
    BY <1>1, <1>5, <2>2 DEF FollowLink, Caught, journey
  <2> QED
    BY <2>1, <2>2
<1>6. CASE \E S \in Sitemaps, more \in BOOLEAN,
              quality \in {"fine", "faulty", "limited"} :
                ReadSitemap(S, quality, more)
  BY <1>1, <1>6 DEF ReadSitemap, journey
<1>7. CASE \E ok, isHtml \in BOOLEAN : ReadPage(ok, isHtml)
  BY <1>1, <1>7 DEF ReadPage
<1>8. CASE Begin \/ RobotsDone \/ Leave \/ StopFollowing \/ Close
  BY <1>1, <1>8 DEF Begin, RobotsDone, Leave, StopFollowing, Close, journey
<1>9. CASE FetchFails
  BY <1>1, <1>9 DEF FetchFails, Caught
<1>10. CASE PreviewCoverage \/ FinalizeCoverage
  BY <1>1, <1>10 DEF PreviewCoverage, FinalizeCoverage, journey
<1>11. CASE HeadArrives \/ Expire \/ UNCHANGED vars
  BY <1>1, <1>11 DEF HeadArrives, Expire, vars, journey
<1> QED
  BY <1>2, <1>3, <1>4, <1>5, <1>6, <1>7, <1>8, <1>9, <1>10, <1>11
     DEF Next, Step

-----------------------------------------------------------------------------
(* Fates.                                                                  *)

\* Where the ledger's account of the resource in hand does not move, and it
\* stays in hand or was not, the fates stand.
LEMMA FatesStand ==
  ASSUME OneFate, UNCHANGED <<journey, current>>, evaluated' \subseteq valid,
         pc = "fetching" <=> pc' = "fetching"
  PROVE  OneFate'
BY DEF OneFate, journey

\* The catch fails what was not retrieved and nothing else.
LEMMA CaughtKeepsFates ==
  ASSUME IInv, Caught, pc \in {"fetching", "links"},
         UNCHANGED <<current, evaluated>>
  PROVE  OneFate'
<1>1. CASE CanFail(current)
  <2>1. /\ failed' = failed \cup {current} /\ pc' = "pages"
        /\ UNCHANGED <<attempted, retrieved, valid, indeterminate>>
        /\ current \in attempted \ retrieved
    BY <1>1 DEF Caught, CanFail
  <2>2. evaluated' \subseteq valid'
    BY <2>1 DEF IInv, OneFate
  <2> QED
    BY <2>1, <2>2 DEF IInv, OneFate, Stage
<1>2. CASE ~CanFail(current)
  <2>1. /\ UNCHANGED <<failed, attempted, retrieved, valid, indeterminate>>
        /\ pc' = "rejected"
    BY <1>2 DEF Caught
  <2>2. pc = "links"
    <3>1. SUFFICES ASSUME pc = "fetching" PROVE CanFail(current)
      BY <1>2
    <3>2. current \in attempted \ retrieved /\ current \notin failed
      BY <3>1 DEF IInv, OneFate
    <3>3. current \notin evaluated /\ current \notin indeterminate
      BY <3>1 DEF IInv, OneFate
    <3> QED
      BY <3>2, <3>3 DEF CanFail, StateOf, Terminal
  <2> QED
    BY <2>1, <2>2 DEF IInv, OneFate
<1> QED
  BY <1>1, <1>2

LEMMA FatesStay ==
  ASSUME IInv, [Next]_vars
  PROVE  OneFate'
<1> USE DEF IInv
<1>1. evaluated \subseteq valid
  BY DEF OneFate
<1>2. CASE Begin \/ RobotsDone \/ SitemapsDone
  BY <1>1, <1>2, FatesStand DEF Begin, RobotsDone, SitemapsDone
<1>3. CASE \E S \in Sitemaps, more \in BOOLEAN,
              quality \in {"fine", "faulty", "limited"} :
                ReadSitemap(S, quality, more)
  BY <1>1, <1>3, FatesStand DEF ReadSitemap
<1>4. CASE Seed
  <2>1. /\ UNCHANGED <<journey, current, evaluated>>
        /\ pc = "seeding" /\ pc' \in {"seeding", "pages", "rejected"}
    BY <1>4 DEF Seed
  <2> QED
    BY <1>1, <2>1, FatesStand
<1>5. CASE Leave \/ StopFollowing \/ Close
  BY <1>1, <1>5, FatesStand DEF Leave, StopFollowing, Close
<1>6. CASE TakeNext
  <2>1. /\ Head(queue) \notin attempted
        /\ pc = "pages" /\ pc' = "fetching" /\ current' = Head(queue)
        /\ attempted' = attempted \cup {Head(queue)}
        /\ UNCHANGED <<retrieved, valid, failed, indeterminate, evaluated>>
    <3>1. Head(queue) \in QueueSet
      BY <1>6 DEF TakeNext, TypeOK, QueueSet
    <3> QED
      BY <1>6, <3>1 DEF TakeNext, FrontierIsExact
  <2> QED
    BY <2>1 DEF OneFate
<1>7. CASE FetchFails
  BY <1>7, CaughtKeepsFates DEF FetchFails
<1>8. ASSUME NEW ok \in BOOLEAN, NEW isHtml \in BOOLEAN, ReadPage(ok, isHtml)
      PROVE  OneFate'
  <2>1. /\ current \notin retrieved \cup failed /\ pc' # "fetching"
        /\ retrieved' = retrieved \cup {current}
        /\ UNCHANGED <<attempted, failed, evaluated, current>>
        /\ attempted = retrieved \cup failed \cup {current}
    BY <1>8 DEF ReadPage, OneFate
  <2>2. \/ valid' = valid \cup {current} /\ indeterminate' = indeterminate
        \/ indeterminate' = indeterminate \cup {current} /\ valid' = valid
    BY <1>8 DEF ReadPage, Classify
  <2> QED
    BY <2>1, <2>2 DEF OneFate
<1>9. CASE FollowLink
  <2>1. CASE Caught
    BY <1>9, <2>1, CaughtKeepsFates DEF FollowLink
  <2>2. CASE ~Caught
    <3>1. /\ UNCHANGED <<journey, current, evaluated>>
          /\ pc = "links" /\ pc' \in {"links", "pages"}
      BY <1>9, <2>2 DEF FollowLink
    <3> QED
      BY <1>1, <3>1, FatesStand
  <2> QED
    BY <2>1, <2>2
<1>10. CASE PreviewCoverage \/ FinalizeCoverage
  BY <1>1, <1>10, FatesStand DEF PreviewCoverage, FinalizeCoverage
<1>11. CASE HeadArrives \/ Expire \/ UNCHANGED vars
  BY <1>1, <1>11, FatesStand DEF HeadArrives, Expire, vars
<1> QED
  BY <1>2, <1>3, <1>4, <1>5, <1>6, <1>7, <1>8, <1>9, <1>10, <1>11
     DEF Next, Step

LEMMA StageStays ==
  ASSUME IInv, [Next]_vars
  PROVE  Stage'
<1> USE DEF IInv
<1>1. CASE Begin \/ RobotsDone \/ SitemapsDone
  BY <1>1 DEF Begin, RobotsDone, SitemapsDone, Stage, maps, journey
<1>2. CASE \E S \in Sitemaps, more \in BOOLEAN,
              quality \in {"fine", "faulty", "limited"} :
                ReadSitemap(S, quality, more)
  BY <1>2 DEF ReadSitemap, Stage, journey
<1>3. CASE Seed
  BY <1>3 DEF Seed, Stage, maps, journey
<1>4. CASE Leave \/ StopFollowing \/ Close
  BY <1>4 DEF Leave, StopFollowing, Close, Stage, maps, journey
<1>5. CASE TakeNext
  BY <1>5 DEF TakeNext, Stage
<1>6. CASE FetchFails
  BY <1>6 DEF FetchFails, Caught, Stage
<1>7. CASE \E ok, isHtml \in BOOLEAN : ReadPage(ok, isHtml)
  BY <1>7 DEF ReadPage, Stage
<1>8. CASE FollowLink
  BY <1>8 DEF FollowLink, Caught, Stage, journey
<1>9. CASE PreviewCoverage \/ FinalizeCoverage
  BY <1>9 DEF PreviewCoverage, FinalizeCoverage, Stage, journey
<1>10. CASE HeadArrives \/ Expire \/ UNCHANGED vars
  BY <1>10 DEF HeadArrives, Expire, Stage, vars, maps, journey, Ended
<1> QED
  BY <1>1, <1>2, <1>3, <1>4, <1>5, <1>6, <1>7, <1>8, <1>9, <1>10
     DEF Next, Step

-----------------------------------------------------------------------------
LEMMA InitHolds == Init => IInv
<1> SUFFICES ASSUME Init PROVE IInv
  OBVIOUS
<1>1. TypeOK
  <2>1. queue \in Seq(Urls) /\ current \in Urls
    BY SiteAssumption DEF Init
  <2>2. documents \in 0..MaxSitemapDocuments /\ documents < MaxSitemapDocuments
    BY SiteAssumption DEF Init
  <2> QED
    BY <2>1, <2>2 DEF Init, TypeOK, Ended, Budgets
<1>2. FrontierIsExact
  BY SiteAssumption, FS_EmptySet DEF Init, FrontierIsExact, QueueSet
<1>3. OneFate /\ Stage
  BY DEF Init, OneFate, Stage
<1> QED
  BY <1>1, <1>2, <1>3 DEF IInv

THEOREM Inductive == Spec => []IInv
<1>1. IInv /\ [Next]_vars => IInv'
  BY TypesStay, FrontierStays, FatesStay, StageStays DEF IInv
<1> QED
  BY <1>1, InitHolds, PTL DEF Spec

\* Types and the bounds of the two traversals.
THEOREM TypeCorrect == Spec => []TypeOK
<1>1. IInv => TypeOK
  BY DEF IInv
<1> QED
  BY <1>1, Inductive, PTL

\* The frontier and the ledger name the same resources, each once, and the
\* page budget holds.
THEOREM FrontierExact == Spec => []FrontierIsExact
<1>1. IInv => FrontierIsExact
  BY DEF IInv
<1> QED
  BY <1>1, Inductive, PTL

\* A resource has one fate at most, and only the URL in hand has none yet.
THEOREM FatesAreUnique == Spec => []OneFate
<1>1. IInv => OneFate
  BY DEF IInv
<1> QED
  BY <1>1, Inductive, PTL

\* No transition that site.js and audit.js ask of the ledger is refused.
THEOREM Accepted == Spec => []LedgerAccepts
<1>1. IInv => LedgerAccepts
  <2> SUFFICES ASSUME IInv PROVE LedgerAccepts
    OBVIOUS
  <2> USE DEF IInv
  <2>1. ASSUME pc = "pages", queue # <<>> PROVE CanAttempt(Head(queue))
    <3>1. Head(queue) \in QueueSet
      BY <2>1 DEF TypeOK, QueueSet
    <3>2. Head(queue) \in discovered /\ Head(queue) \notin attempted
      BY <3>1 DEF FrontierIsExact
    <3>3. Head(queue) \notin retrieved \cup failed \cup indeterminate
                              \cup valid \cup evaluated
      BY <3>2 DEF OneFate
    <3> QED
      BY <3>2, <3>3 DEF CanAttempt, StateOf, Terminal
  <2>2. ASSUME pc = "fetching" PROVE CanRetrieve(current) /\ CanFail(current)
    <3>1. /\ current \in attempted \ retrieved
          /\ current \notin failed \cup indeterminate \cup evaluated
      BY <2>2 DEF OneFate
    <3> QED
      BY <3>1 DEF CanRetrieve, CanFail, StateOf, Terminal
  <2>3. ASSUME pc = "previewed", NEW u \in valid PROVE CanEvaluate(u)
    <3>1. u \notin failed \cup indeterminate \cup evaluated
      BY <2>3 DEF OneFate, Stage
    <3> QED
      BY <3>1 DEF CanEvaluate, StateOf, Terminal
  <2> QED
    BY <2>1, <2>2, <2>3 DEF LedgerAccepts
<1> QED
  BY <1>1, Inductive, PTL

\* The preview and the sealing of the coverage of a collected site reconcile.
THEOREM Counts == Spec => []CoverageCounts
<1>1. Init => CoverageCounts
  BY DEF Init, CoverageCounts
<1>2. IInv /\ CoverageCounts /\ [Next]_vars => CoverageCounts'
  <2> SUFFICES ASSUME IInv, CoverageCounts, [Next]_vars PROVE CoverageCounts'
    OBVIOUS
  <2>1. CASE PreviewCoverage
    <3>1. Countable({}, valid)
      BY <2>1, FatesAreCountable DEF PreviewCoverage, IInv
    <3> QED
      BY <2>1, <3>1 DEF PreviewCoverage, CoverageCounts
  <2>2. CASE FinalizeCoverage
    <3>1. Countable(valid, {})
      BY <2>2, FatesAreCountable DEF FinalizeCoverage, IInv
    <3> QED
      BY <2>2, <3>1 DEF FinalizeCoverage, CoverageCounts
  <2>3. CASE Begin \/ RobotsDone \/ SitemapsDone \/ Seed \/ Leave
    BY <2>3 DEF Begin, RobotsDone, SitemapsDone, Seed, Leave, CoverageCounts
  <2>4. CASE TakeNext \/ FetchFails \/ FollowLink \/ StopFollowing \/ Close
    BY <2>4 DEF TakeNext, FetchFails, Caught, FollowLink, StopFollowing, Close,
                CoverageCounts
  <2>5. CASE \E ok, isHtml \in BOOLEAN : ReadPage(ok, isHtml)
    BY <2>5 DEF ReadPage, CoverageCounts
  <2>6. CASE \E S \in Sitemaps, more \in BOOLEAN,
                quality \in {"fine", "faulty", "limited"} :
                  ReadSitemap(S, quality, more)
    BY <2>6 DEF ReadSitemap, CoverageCounts
  <2>7. CASE HeadArrives \/ Expire \/ UNCHANGED vars
    BY <2>7 DEF HeadArrives, Expire, vars, CoverageCounts
  <2> QED
    BY <2>1, <2>2, <2>3, <2>4, <2>5, <2>6, <2>7 DEF Next, Step
<1> QED
  BY <1>1, <1>2, Inductive, PTL DEF Spec

-----------------------------------------------------------------------------
(* What complete coverage means.                                           *)

Under == {"pages", "fetching", "links", "closing", "collected", "previewed", "sealed"}

\* The links of u that may still wait in linksLeft.
Waiting(u) == IF pc = "links" /\ u = current THEN linksLeft ELSE {}

\* The sitemaps and the pages read so far are in the ledger, but for the links
\* still to follow; a clock that cut the traversal has left its stop reason.
Walk ==
  /\ pc \in Under \cup {"seeding"} => Start \in discovered
  /\ pc = "seeding" => sitemapUrls \subseteq discovered \cup linksLeft
  /\ pc \in Under => sitemapUrls \subseteq discovered
  /\ pc # "rejected" /\ stopReason \notin Budgets =>
       \A u \in html : site[u] \subseteq discovered \cup Outside \cup Waiting(u)
  /\ coverage.kind = "final" =>
       pc = "sealed" /\ evaluated = valid /\ coverage = CoverageOf("final", valid, {})

LEMMA EnqueueKnows ==
  ASSUME TypeOK, FrontierIsExact, NEW l \in Links, Enqueue(l)
  PROVE  discovered \subseteq discovered' /\ l \in discovered' \cup Outside
<1>1. CASE Ignored(l)
  BY <1>1 DEF Enqueue, Ignored, frontier, FrontierIsExact
<1>2. CASE ~Ignored(l)
  BY <1>2 DEF Enqueue
<1> QED
  BY <1>1, <1>2

\* A step that adds to the ledger at most, reads no page and leaves what waits
\* alone keeps the walk.
LEMMA WalkStands ==
  ASSUME TypeOK, Walk, UNCHANGED <<site, html, sitemapUrls, coverage, evaluated>>,
         discovered \subseteq discovered', pc \notin {"seeding", "links", "sealed"},
         pc' \notin {"seeding", "links", "sealed"}, pc' \in Under => pc \in Under,
         pc' # "rejected" => pc # "rejected",
         stopReason' \notin Budgets => stopReason \notin Budgets
  PROVE  Walk'
<1>1. pc' \in Under \cup {"seeding"} => Start \in discovered'
  BY DEF Walk
<1>2. pc' \in Under => sitemapUrls' \subseteq discovered'
  BY DEF Walk
<1>3. ASSUME pc' # "rejected", stopReason' \notin Budgets, NEW u \in html'
      PROVE  site'[u] \subseteq discovered' \cup Outside
  BY <1>3 DEF Walk, Waiting
<1>4. coverage'.kind # "final"
  BY DEF Walk
<1> QED
  BY <1>1, <1>2, <1>3, <1>4 DEF Walk, Waiting

LEMMA WalkStays ==
  ASSUME IInv, Walk, [Next]_vars
  PROVE  Walk'
<1> USE DEF IInv
<1>1. CASE Begin \/ RobotsDone \/ Leave \/ Close
  <2>1. UNCHANGED <<site, html, sitemapUrls, coverage, evaluated, discovered>>
    BY <1>1 DEF Begin, RobotsDone, Leave, Close, maps
  <2>2. stopReason' \notin Budgets => stopReason \notin Budgets
    BY <1>1 DEF Begin, RobotsDone, Leave, Close, ReadClock, Budgets
  <2>3. /\ pc \notin {"seeding", "links", "sealed", "rejected"}
        /\ pc' \notin {"seeding", "links", "sealed"} /\ (pc' \in Under => pc \in Under)
    BY <1>1 DEF Begin, RobotsDone, Leave, Close, Under
  <2> QED
    BY <2>1, <2>2, <2>3, WalkStands
<1>2. CASE SitemapsDone
  <2>1. /\ discovered' = {Start} /\ discovered = {} /\ linksLeft' = sitemapUrls /\ pc' = "seeding"
        /\ UNCHANGED <<site, html, sitemapUrls, coverage>> /\ pc = "sitemaps"
        /\ (stopReason' \notin Budgets => stopReason \notin Budgets)
    BY <1>2 DEF SitemapsDone, Stage, ReadClock, Budgets
  <2> QED
    BY <2>1 DEF Walk, Waiting, Under
<1>3. CASE \E S \in Sitemaps, more \in BOOLEAN, quality \in {"fine", "faulty", "limited"} :
             ReadSitemap(S, quality, more)
  <2>1. pc = "sitemaps" /\ UNCHANGED <<site, pc, stopReason, html, discovered, coverage>>
    BY <1>3 DEF ReadSitemap
  <2> QED
    BY <2>1 DEF Walk, Waiting, Under
<1>4. CASE Seed
  <2>1. /\ UNCHANGED <<site, html, stopReason, sitemapUrls, coverage>> /\ pc = "seeding"
        /\ linksLeft \subseteq Links /\ coverage.kind # "final"
    BY <1>4 DEF Seed, maps, TypeOK, Walk
  <2>2. CASE linksLeft = {} /\ pc' = "pages" /\ UNCHANGED <<linksLeft, queue, discovered>>
    BY <2>1, <2>2 DEF Walk, Waiting, Under
  <2>3. ASSUME NEW l \in linksLeft, Enqueue(l), linksLeft' = linksLeft \ {l}, pc' = pc
        PROVE  Walk'
    <3>1. l \in Links /\ discovered \subseteq discovered' /\ l \in discovered' \cup Outside
      BY <2>1, <2>3, EnqueueKnows
    <3>2. l \in sitemapUrls => l \notin Outside
      BY SiteAssumption DEF TypeOK
    <3> QED
      BY <2>1, <2>3, <3>1, <3>2 DEF Walk, Waiting, Under
  <2>4. CASE pc' = "rejected" /\ UNCHANGED <<linksLeft, queue, discovered>>
    BY <2>1, <2>4 DEF Walk, Under
  <2> QED
    BY <1>4, <2>2, <2>3, <2>4 DEF Seed
<1>5. CASE TakeNext
  BY <1>5, WalkStands DEF TakeNext, maps, Under
<1>6. CASE FetchFails
  BY <1>6, WalkStands DEF FetchFails, Caught, maps, Under
<1>7. ASSUME NEW ok \in BOOLEAN, NEW isHtml \in BOOLEAN, ReadPage(ok, isHtml)
      PROVE  Walk'
  <2>1. /\ pc = "fetching" /\ pc' \in {"closing", "links", "pages"}
        /\ UNCHANGED <<site, sitemapUrls, discovered, current, coverage>>
        /\ html' \subseteq html \cup {current} /\ (html' # html => isHtml)
        /\ (pc' = "links" => ~expired /\ isHtml)
        /\ (~expired => linksLeft' = IF isHtml THEN site[current] ELSE {})
        /\ (stopReason' \notin Budgets => stopReason \notin Budgets /\ ~expired)
        /\ (~expired /\ isHtml => pc' = "links")
    BY <1>7 DEF ReadPage, maps, ReadClock, Budgets, TypeOK
  <2>2. ASSUME stopReason' \notin Budgets, NEW u \in html'
        PROVE  site'[u] \subseteq discovered' \cup Outside \cup Waiting(u)'
    <3>1. CASE u \in html
      BY <2>1, <2>2, <3>1 DEF Walk, Waiting
    <3>2. CASE u \notin html
      BY <2>1, <2>2, <3>2 DEF Waiting
    <3> QED
      BY <3>1, <3>2
  <2> QED
    BY <2>1, <2>2 DEF Walk, Under
<1>8. CASE FollowLink
  <2>1. /\ UNCHANGED <<site, html, stopReason, sitemapUrls, coverage, current>> /\ pc = "links"
        /\ linksLeft \subseteq Links /\ coverage.kind # "final" /\ current \in retrieved
    BY <1>8 DEF FollowLink, maps, TypeOK, Walk, Stage
  <2>2. CASE linksLeft = {} /\ pc' = "pages" /\ UNCHANGED <<linksLeft, queue, discovered>>
    BY <2>1, <2>2 DEF Walk, Waiting, Under
  <2>3. ASSUME NEW l \in linksLeft, Enqueue(l), linksLeft' = linksLeft \ {l}, pc' = pc
        PROVE  Walk'
    <3>1. l \in Links /\ discovered \subseteq discovered' /\ l \in discovered' \cup Outside
      BY <2>1, <2>3, EnqueueKnows
    <3>2. ASSUME stopReason' \notin Budgets, NEW u \in html'
          PROVE  site'[u] \subseteq discovered' \cup Outside \cup Waiting(u)'
      BY <2>1, <2>3, <3>1, <3>2 DEF Walk, Waiting
    <3> QED
      BY <2>1, <2>3, <3>1, <3>2 DEF Walk, Under
  <2>4. CASE Caught /\ UNCHANGED <<linksLeft, queue, discovered>>
    <3>1. pc' = "rejected"
      BY <2>1, <2>4 DEF Caught, CanFail
    <3> QED
      BY <2>1, <2>4, <3>1 DEF Walk, Under
  <2> QED
    BY <1>8, <2>2, <2>3, <2>4 DEF FollowLink
<1>9. CASE StopFollowing
  <2>1. /\ UNCHANGED <<site, html, sitemapUrls, coverage, discovered, current, linksLeft>>
        /\ pc = "links" /\ pc' \in {"pages", "closing"} /\ coverage.kind # "final"
        /\ (stopReason' \notin Budgets => stopReason \notin Budgets /\ linksLeft = {})
    BY <1>9 DEF StopFollowing, maps, Walk, ReadClock, Budgets, TypeOK
  <2>2. ASSUME stopReason' \notin Budgets, NEW u \in html'
        PROVE  site'[u] \subseteq discovered' \cup Outside
    BY <2>1, <2>2 DEF Walk, Waiting
  <2> QED
    BY <2>1, <2>2 DEF Walk, Under
<1>10. CASE PreviewCoverage
  <2>1. /\ pc = "collected" /\ pc' \in {"previewed", "failed"} /\ coverage'.kind # "final"
        /\ UNCHANGED <<site, html, sitemapUrls, discovered, stopReason>>
    BY <1>10 DEF PreviewCoverage, maps, Walk, CoverageOf
  <2> QED
    BY <2>1 DEF Walk, Waiting, Under
<1>11. CASE FinalizeCoverage
  <2>1. /\ pc = "previewed" /\ pc' \in {"sealed", "failed"} /\ evaluated' = valid
        /\ (pc' = "sealed" => coverage' = CoverageOf("final", valid, {}))
        /\ (pc' = "failed" => coverage' = coverage)
        /\ UNCHANGED <<site, html, stopReason, maps, discovered, journey>>
    BY <1>11 DEF FinalizeCoverage, maps
  <2>2. CoverageOf("final", valid, {})' = CoverageOf("final", valid, {})
    BY <2>1 DEF CoverageOf, Populations, CoverageStatus, journey, maps
  <2>3. coverage'.kind = "final" => pc' = "sealed"
    BY <2>1 DEF Walk
  <2> QED
    BY <2>1, <2>2, <2>3 DEF Walk, Waiting, Under, maps, journey
<1>12. CASE HeadArrives \/ Expire
  <2>1. /\ pc' = pc /\ pc # "sealed"
        /\ UNCHANGED <<site, html, stopReason, maps, discovered, linksLeft, current, coverage>>
    BY <1>12 DEF HeadArrives, Expire, Ended, TypeOK
  <2> QED
    BY <2>1 DEF Walk, Waiting, maps, Under
<1>13. CASE UNCHANGED vars
  <2>1. CoverageOf("final", valid, {})' = CoverageOf("final", valid, {})
    BY <1>13 DEF vars, CoverageOf, Populations, CoverageStatus, journey, maps
  <2> QED
    BY <1>13, <2>1 DEF vars, Walk, Waiting, maps, journey, Under
<1> QED
  BY <1>1, <1>2, <1>3, <1>4, <1>5, <1>6, <1>7, <1>8, <1>9, <1>10, <1>11, <1>12, <1>13
     DEF Next, Step

LEMMA NothingInSum ==
  \A i, j, k \in Nat : i + j + 0 + k = 0 => i = 0 /\ j = 0 /\ k = 0
OBVIOUS

\* Counts that are all zero leave nothing out.
LEMMA CompleteCounts ==
  ASSUME TypeOK, FrontierIsExact, OneFate, pc = "sealed", evaluated = valid,
         CoverageStatus(Populations(valid, {})) = "complete"
  PROVE  /\ discovered = evaluated /\ stopReason = "frontier_exhausted"
         /\ topologyStatus = "complete"
<1> DEFINE waiting == discovered \ attempted
<1>1. /\ IsFiniteSet(failed) /\ IsFiniteSet(indeterminate) /\ IsFiniteSet(waiting)
  <2>1. failed \subseteq Urls /\ indeterminate \subseteq Urls /\ waiting \subseteq Urls
    BY DEF TypeOK, FrontierIsExact, OneFate
  <2> QED
    BY <2>1, SiteAssumption, FS_Subset
<1>2. /\ Cardinality(failed) \in Nat /\ Cardinality(indeterminate) \in Nat
      /\ Cardinality(waiting) \in Nat /\ Cardinality({}) = 0
  BY <1>1, FS_CardinalityType, FS_EmptySet
<1>3. /\ stopReason \notin Budgets /\ topologyStatus = "complete"
      /\ Cardinality(failed) + Cardinality(indeterminate) + Cardinality({})
         + Cardinality(waiting) = 0
  BY DEF CoverageStatus, Populations
<1>4. Cardinality(failed) = 0 /\ Cardinality(indeterminate) = 0 /\ Cardinality(waiting) = 0
  BY <1>2, <1>3, NothingInSum
<1>5. failed = {} /\ indeterminate = {} /\ waiting = {}
  BY <1>1, <1>4, FS_EmptySet
<1> QED
  BY <1>3, <1>5 DEF TypeOK, FrontierIsExact, OneFate, Budgets

\* A collection whose coverage says complete has read all it could reach: the
\* start URL, the URLs of the sitemaps and the links of every HTML page.
THEOREM CompleteMeansClosed == Spec => []CompleteIsClosed
<1>1. Init => Walk
  BY DEF Init, Walk, NoCoverage, Under, Budgets
<1>2. IInv /\ Walk => CompleteIsClosed
  <2> SUFFICES ASSUME IInv, Walk, coverage.kind = "final", coverage.status = "complete"
               PROVE  /\ stopReason = "frontier_exhausted" /\ topologyStatus = "complete"
                      /\ {Start} \cup sitemapUrls \subseteq evaluated
                      /\ \A u \in evaluated \cap html : site[u] \subseteq evaluated \cup Outside
    BY DEF CompleteIsClosed
  <2>1. /\ pc = "sealed" /\ evaluated = valid /\ CoverageStatus(Populations(valid, {})) = "complete"
    BY DEF Walk, CoverageOf
  <2>2. discovered = evaluated /\ stopReason = "frontier_exhausted" /\ topologyStatus = "complete"
    BY <2>1, CompleteCounts DEF IInv
  <2> QED
    BY <2>1, <2>2 DEF Walk, Waiting, Under, Budgets
<1> QED
  BY <1>1, <1>2, WalkStays, Inductive, PTL DEF Spec

-----------------------------------------------------------------------------
(***************************************************************************)
(* Numbers, and folds over a sequence, one element after the other.        *)
(***************************************************************************)
LEMMA LeastNumber ==
  ASSUME NEW T \in SUBSET Nat, T # {}
  PROVE  \E n \in T : \A m \in T : n <= m
<1> DEFINE Less == {ss \in Nat \X Nat : ss[1] < ss[2]}
<1>1. IsWellFoundedOn(Less, Nat)
  BY NatLessThanWellFounded DEF OpToRel
<1>2. \A m, n \in Nat : m < n => <<m, n>> \in Less
  OBVIOUS
<1> HIDE DEF Less
<1>3. PICK n \in T : \A m \in T : ~(<<m, n>> \in Less)
  BY <1>1, WFMin
<1>4. \A m \in T : m \in Nat /\ n \in Nat /\ ~(m < n)
  BY <1>2, <1>3
<1> QED BY <1>4

\* The greatest element is the least number that is above all of them.
LEMMA GreatestNumber ==
  ASSUME NEW N \in Nat, NEW S \in SUBSET (0..N), S # {}
  PROVE  \E i \in S : \A j \in S : j <= i
<1> DEFINE Above == {m \in 0..N : \A j \in S : j <= m}
<1>1. Above \in SUBSET Nat /\ N \in Above
  OBVIOUS
<1>2. PICK i \in Above : \A m \in Above : i <= m
  <2> HIDE DEF Above
  <2> QED BY <1>1, LeastNumber
<1>3. ASSUME i \notin S PROVE FALSE
  <2>1. \A j \in S : j <= i - 1
    BY <1>3
  <2>2. PICK j \in S : TRUE
    OBVIOUS
  <2>3. i - 1 \in Above
    BY <2>1, <2>2
  <2> QED BY <1>2, <2>3
<1> QED BY <1>3

\* A set of numbers that has 0, and with a number the next one, has all: the
\* least number that it lacks has a predecessor that it has.
LEMMA Counting ==
  ASSUME NEW N \in Nat, NEW Counted \in SUBSET (0..N), 0 \in Counted,
         \A n \in 1..N : n - 1 \in Counted => n \in Counted
  PROVE  \A n \in 0..N : n \in Counted
<1> DEFINE Lacks == (0..N) \ Counted
<1>1. SUFFICES ASSUME Lacks # {} PROVE FALSE
  OBVIOUS
<1>2. Lacks \in SUBSET Nat
  OBVIOUS
<1>3. PICK n \in Lacks : \A m \in Lacks : n <= m
  <2> HIDE DEF Lacks
  <2> QED BY <1>1, <1>2, LeastNumber
<1>4. n \in 1..N /\ n - 1 \in 0..N /\ ~(n <= n - 1)
  OBVIOUS
<1>5. n - 1 \in Counted
  BY <1>3, <1>4
<1> QED BY <1>4, <1>5

LEMMA LargestOf ==
  ASSUME NEW N \in Nat, NEW s \in SUBSET (1..N), s # {}
  PROVE  Max(s) \in s /\ \A k \in s : k <= Max(s)
<1>1. \E i \in s : \A k \in s : i >= k
  <2>1. s \in SUBSET (0..N)
    OBVIOUS
  <2> QED BY <2>1, GreatestNumber
<1> QED BY <1>1 DEF Max

LEMMA LargestIs ==
  ASSUME NEW n \in Nat \ {0}
  PROVE  /\ 1..n \in SUBSET (1..n) /\ 1..n # {} /\ (1..n) \ {n} = 1..(n - 1)
         /\ \A s \in SUBSET (1..n) : n \in s => Max(s) = n
<1>1. ASSUME NEW s \in SUBSET (1..n), n \in s PROVE Max(s) = n
  <2>1. s # {} /\ n \in Nat
    BY <1>1
  <2>2. Max(s) \in s /\ \A k \in s : k <= Max(s)
    BY <2>1, LargestOf
  <2>3. n <= Max(s) /\ Max(s) \in 1..n
    BY <1>1, <2>2
  <2> QED BY <2>3
<1>2. 1..n # {} /\ (1..n) \ {n} = 1..(n - 1)
  OBVIOUS
<1> QED BY <1>1, <1>2

LEMMA Intervals ==
  ASSUME NEW N \in Nat, NEW n \in 1..N
  PROVE  /\ n \in Nat \ {0} /\ n \in 0..N /\ n - 1 \in 0..N
         /\ 1..n \in SUBSET (1..N) /\ 1..n # {} /\ (1..n) \ {n} = 1..(n - 1) /\ Max(1..n) = n
<1>1. n \in Nat \ {0} /\ n \in 0..N /\ n - 1 \in 0..N
  OBVIOUS
<1>2. 1..n \in SUBSET (1..n) /\ n \in 1..n
  BY <1>1
<1>3. Max(1..n) = n
  BY <1>1, <1>2, LargestIs
<1>4. 1..n # {} /\ (1..n) \ {n} = 1..(n - 1)
  BY <1>1, LargestIs
<1>5. \A k \in 1..n : k \in 1..N
  BY <1>1
<1> QED BY <1>1, <1>3, <1>4, <1>5

\* A fold takes its elements from the first to the last: for any step f there
\* is the function that the definition of a fold chooses.
IsStep(f, N, A) == f \in [1..N -> [A -> A]]
IsFold(it, N, A, base, f) ==
  /\ it \in [SUBSET (1..N) -> A]
  /\ \A s \in SUBSET (1..N) : it[s] = IF s = {} THEN base ELSE f[Max(s)][it[s \ {Max(s)}]]

LEMMA FoldIs ==
  ASSUME NEW N \in Nat, NEW A, NEW base \in A, NEW f, IsStep(f, N, A)
  PROVE  \E it : IsFold(it, N, A, base, f)
<1> USE DEF IsStep
<1> DEFINE OneStep(it, s) == IF s = {} THEN base ELSE f[Max(s)][it[s \ {Max(s)}]]
           Fold(n, it) == it \in [SUBSET (1..n) -> A] /\ \A s \in SUBSET (1..n) : it[s] = OneStep(it, s)
           Counted == {n \in 0..N : \E it : Fold(n, it)}
<1>1. 0 \in Counted
  <2> DEFINE it == [s \in SUBSET (1..0) |-> base]
  <2>1. \A s \in SUBSET (1..0) : s = {}
    OBVIOUS
  <2>2. \A s \in SUBSET (1..0) : OneStep(it, s) = base
    BY <2>1
  <2>3. Fold(0, it)
    <3> HIDE DEF OneStep
    <3> QED BY <2>2
  <2> HIDE DEF Fold
  <2> QED BY <2>3
<1>2. ASSUME NEW n \in 1..N, n - 1 \in Counted PROVE n \in Counted
  <2>1. PICK it : Fold(n - 1, it)
    <3> HIDE DEF Fold
    <3> QED BY <1>2
  <2> DEFINE more == [s \in SUBSET (1..n) |->
        IF n \in s THEN f[n][it[s \ {n}]] ELSE it[s]]
  <2>0. \A s \in SUBSET (1..n) : n \notin s => s \in SUBSET (1..(n - 1))
    OBVIOUS
  <2>2. ASSUME NEW s \in SUBSET (1..n)
        PROVE  more[s] = OneStep(more, s) /\ more[s] \in A
    <3>1. CASE n \in s
      <4>1. Max(s) = n
        BY <3>1, LargestIs
      <4>2. s \ {n} \in SUBSET (1..(n - 1)) /\ s \ {n} \in SUBSET (1..n) /\ n \notin s \ {n}
        OBVIOUS
      <4>3. more[s] = f[n][it[s \ {n}]] /\ more[s \ {n}] = it[s \ {n}] /\ it[s \ {n}] \in A
        BY <2>1, <3>1, <4>2
      <4> QED BY <3>1, <4>1, <4>3
    <3>2. CASE n \notin s
      <4>1. s \in SUBSET (1..(n - 1))
        BY <2>0, <3>2
      <4>2. it[s] = OneStep(it, s) /\ it[s] \in A
        <5> HIDE DEF OneStep
        <5> QED BY <2>1, <4>1
      <4>3. s \ {Max(s)} \in SUBSET (1..n) /\ n \notin s \ {Max(s)}
        BY <3>2
      <4>4. more[s] = it[s] /\ more[s \ {Max(s)}] = it[s \ {Max(s)}]
        BY <3>2, <4>3
      <4> HIDE DEF more
      <4> QED BY <4>2, <4>4
    <3> QED BY <3>1, <3>2
  <2>3. Fold(n, more)
    <3>1. more = [s \in SUBSET (1..n) |-> more[s]]
      OBVIOUS
    <3> HIDE DEF OneStep, more
    <3> QED BY <2>2, <3>1
  <2> HIDE DEF Fold, more
  <2> QED BY <2>3
<1>3. \E it : Fold(N, it)
  <2> HIDE DEF Fold
  <2>1. Counted \in SUBSET (0..N)
    OBVIOUS
  <2>2. \A n \in 0..N : n \in Counted
    <3> HIDE DEF Counted
    <3> QED BY <1>1, <1>2, <2>1, Counting
  <2> QED BY <2>2
<1> HIDE DEF OneStep
<1>4. PICK it : Fold(N, it)
  BY <1>3
<1> QED BY <1>4 DEF OneStep, IsFold

-----------------------------------------------------------------------------
(***************************************************************************)
(* The parser of sitemaps.  Its state keeps its type, whatever is read,    *)
(* and a structural error is never forgotten.                              *)
(***************************************************************************)
\* The text of documents, and the words of the parser.
Words == {"", "root", "extra", "entry", "stray", "loc", "lastmod", "ignored", "entries", "tokens"}
Text == STRING \cup Words

Frame == [name : Text, role : Text, retained : BOOLEAN]
ParserType ==
  [stack : Seq(Frame), root : Text, roots : Nat, closed : BOOLEAN, tokens : Nat, entries : Nat,
   locs : Seq(Text), dates : Nat, text : Text, urls : Seq(Text), children : Seq(Text),
   structural : BOOLEAN, errors : BOOLEAN, truncated : Text, halted : BOOLEAN]

LEMMA ParserFields ==
  ASSUME NEW p \in ParserType
  PROVE  /\ \A v \in Seq(Frame) : [p EXCEPT !.stack = v] \in ParserType
         /\ \A v \in Text : [p EXCEPT !.root = v] \in ParserType /\ [p EXCEPT !.text = v] \in ParserType
         /\ \A v \in Text : [p EXCEPT !.truncated = v] \in ParserType
         /\ \A v \in Nat : [p EXCEPT !.roots = v] \in ParserType /\ [p EXCEPT !.tokens = v] \in ParserType
         /\ \A v \in Nat : [p EXCEPT !.entries = v] \in ParserType /\ [p EXCEPT !.dates = v] \in ParserType
         /\ \A v \in Seq(Text) : [p EXCEPT !.locs = v] \in ParserType
         /\ \A v \in Seq(Text) : [p EXCEPT !.urls = v] \in ParserType /\ [p EXCEPT !.children = v] \in ParserType
         /\ \A v \in BOOLEAN : [p EXCEPT !.closed = v] \in ParserType /\ [p EXCEPT !.errors = v] \in ParserType
         /\ \A v \in BOOLEAN : [p EXCEPT !.structural = v] \in ParserType /\ [p EXCEPT !.halted = v] \in ParserType
<1>1. \A v \in Seq(Frame) : [p EXCEPT !.stack = v] \in ParserType
  BY DEF ParserType
<1>2. \A v \in Text : [p EXCEPT !.root = v] \in ParserType
  BY DEF ParserType
<1>3. \A v \in Text : [p EXCEPT !.text = v] \in ParserType
  BY DEF ParserType
<1>4. \A v \in Text : [p EXCEPT !.truncated = v] \in ParserType
  BY DEF ParserType
<1>5. \A v \in Nat : [p EXCEPT !.roots = v] \in ParserType
  BY DEF ParserType
<1>6. \A v \in Nat : [p EXCEPT !.tokens = v] \in ParserType
  BY DEF ParserType
<1>7. \A v \in Nat : [p EXCEPT !.entries = v] \in ParserType
  BY DEF ParserType
<1>8. \A v \in Nat : [p EXCEPT !.dates = v] \in ParserType
  BY DEF ParserType
<1>9. \A v \in Seq(Text) : [p EXCEPT !.locs = v] \in ParserType
  BY DEF ParserType
<1>10. \A v \in Seq(Text) : [p EXCEPT !.urls = v] \in ParserType
  BY DEF ParserType
<1>11. \A v \in Seq(Text) : [p EXCEPT !.children = v] \in ParserType
  BY DEF ParserType
<1>12. \A v \in BOOLEAN : [p EXCEPT !.closed = v] \in ParserType /\ [p EXCEPT !.errors = v] \in ParserType
  BY DEF ParserType
<1>13. \A v \in BOOLEAN : [p EXCEPT !.structural = v] \in ParserType /\ [p EXCEPT !.halted = v] \in ParserType
  BY DEF ParserType
<1> QED
  BY <1>1, <1>2, <1>3, <1>4, <1>5, <1>6, <1>7, <1>8, <1>9, <1>10, <1>11, <1>12, <1>13

\* The types of the fields.
LEMMA ParserParts ==
  ASSUME NEW p \in ParserType
  PROVE  /\ p.stack \in Seq(Frame) /\ p.root \in Text /\ p.roots \in Nat /\ p.closed \in BOOLEAN
         /\ p.tokens \in Nat /\ p.entries \in Nat /\ p.locs \in Seq(Text) /\ p.dates \in Nat
         /\ p.text \in Text /\ p.urls \in Seq(Text) /\ p.children \in Seq(Text)
         /\ p.structural \in BOOLEAN /\ p.errors \in BOOLEAN /\ p.truncated \in Text /\ p.halted \in BOOLEAN
BY DEF ParserType

LEMMA CloseEntryType ==
  ASSUME NEW p \in ParserType
  PROVE  CloseEntry(p) \in ParserType
<1>1. CASE p.locs = << >>
  BY <1>1, ParserFields DEF CloseEntry
<1>2. CASE p.locs # << >>
  <2> DEFINE wrong == p.errors \/ Len(p.locs) > 1 \/ p.dates > 1
             told == [p EXCEPT !.errors = wrong]
  <2>1. told \in ParserType
    <3>1. wrong \in BOOLEAN
      BY ParserParts
    <3> HIDE DEF wrong
    <3> QED BY <3>1, ParserFields
  <2>2. CloseEntry(p) = IF p.root = "sitemapindex" THEN [told EXCEPT !.children = Append(@, Head(p.locs))]
                                                  ELSE [told EXCEPT !.urls = Append(@, Head(p.locs))]
    BY <1>2 DEF CloseEntry
  <2> HIDE DEF told
  <2>3. Append(told.children, Head(p.locs)) \in Seq(Text) /\ Append(told.urls, Head(p.locs)) \in Seq(Text)
    BY <1>2, <2>1, ParserParts
  <2> QED BY <2>1, <2>2, <2>3, ParserFields
<1> QED BY <1>1, <1>2

LEMMA CloseFrameType ==
  ASSUME NEW p \in ParserType, NEW frame, NEW matched \in BOOLEAN
  PROVE  CloseFrame(p, frame, matched) \in ParserType
<1>1. Append(p.locs, p.text) \in Seq(Text) /\ p.dates + 1 \in Nat
  BY ParserParts
<1> QED BY <1>1, CloseEntryType, ParserFields DEF CloseFrame

\* What closing an element leaves alone.
LEMMA CloseFrameKeeps ==
  ASSUME NEW p \in ParserType, NEW frame, NEW matched \in BOOLEAN
  PROVE  LET q == CloseFrame(p, frame, matched) IN
         /\ q.structural = p.structural /\ q.halted = p.halted /\ q.stack = p.stack
         /\ q.root = p.root /\ q.roots = p.roots /\ q.truncated = p.truncated
         /\ q.text = p.text /\ (p.errors => q.errors)
BY DEF CloseFrame, CloseEntry, ParserType

LEMMA StructuralErrorType ==
  ASSUME NEW p \in ParserType
  PROVE  StructuralError(p) \in ParserType /\ StructuralError(p).structural
<1>1. [p EXCEPT !.structural = TRUE] \in ParserType
  BY ParserFields
<1>2. [[p EXCEPT !.structural = TRUE] EXCEPT !.errors = TRUE] \in ParserType
  BY <1>1, ParserFields
<1> QED BY <1>2 DEF StructuralError, ParserType





LEMMA StructuralErrorKeeps ==
  ASSUME NEW p \in ParserType
  PROVE  LET q == StructuralError(p) IN
         /\ q.stack = p.stack /\ q.root = p.root /\ q.roots = p.roots /\ q.halted = p.halted
         /\ q.truncated = p.truncated /\ q.text = p.text /\ q.locs = p.locs
         /\ q.urls = p.urls /\ q.children = p.children /\ q.entries = p.entries
BY DEF StructuralError, ParserType

\* Elements that are given up.
GivenUp(p, frames) == FoldLeft(LAMBDA q, frame : CloseFrame(q, frame, FALSE), p, frames)
Alike(p) == {q \in ParserType : q.structural = p.structural /\ q.stack = p.stack}

GivesUp(run, p, frames, N) ==
  /\ run \in [0..N -> Alike(p)] /\ run[0] = p
  /\ \A n \in 1..N : run[n] = CloseFrame(run[n - 1], frames[n], FALSE)
  /\ GivenUp(p, frames) = run[N]

LEMMA GivenUpRun ==
  ASSUME NEW p \in ParserType, NEW frames, NEW N \in Nat, DOMAIN frames = 1..N
  PROVE  \E run : GivesUp(run, p, frames, N)
<1> DEFINE A == Alike(p)
           OneStep(it, s) == IF s = {} THEN p ELSE CloseFrame(it[s \ {Max(s)}], frames[Max(s)], FALSE)
           iter == CHOOSE it : it = [s \in SUBSET (1..N) |-> OneStep(it, s)]
           run == [n \in 0..N |-> iter[1..n]]
<1>a. p \in A
  BY DEF Alike
<1>b. ASSUME NEW i \in 1..N, NEW a \in A PROVE CloseFrame(a, frames[i], FALSE) \in A
  <2> DEFINE q == CloseFrame(a, frames[i], FALSE)
  <2>0. a \in ParserType /\ a.structural = p.structural /\ a.stack = p.stack
    BY DEF Alike
  <2>1. q \in ParserType
    BY <2>0, CloseFrameType
  <2>2. q.structural = a.structural /\ q.stack = a.stack
    BY <2>0, CloseFrameKeeps
  <2> QED BY <2>0, <2>1, <2>2 DEF Alike
<1>0. p \in A /\ \A i \in 1..N, a \in A : CloseFrame(a, frames[i], FALSE) \in A
  BY <1>a, <1>b
<1>1. \E it : it = [s \in SUBSET (1..N) |-> OneStep(it, s)]
  <2> DEFINE f == [i \in 1..N |-> [a \in A |-> CloseFrame(a, frames[i], FALSE)]]
  <2>1. IsStep(f, N, A)
    BY <1>0 DEF IsStep
  <2>2. \A i \in 1..N, a \in A : f[i][a] = CloseFrame(a, frames[i], FALSE)
    OBVIOUS
  <2> HIDE DEF f, A
  <2>3. PICK it : IsFold(it, N, A, p, f)
    BY <1>a, <2>1, FoldIs
  <2>4. ASSUME NEW s \in SUBSET (1..N) PROVE it[s] = OneStep(it, s)
    <3>1. CASE s = {}
      BY <2>3, <3>1 DEF IsFold
    <3>2. CASE s # {}
      <4>0. Max(s) \in 1..N
        BY <3>2, LargestOf
      <4>1. Max(s) \in 1..N /\ it[s \ {Max(s)}] \in A
        BY <2>3, <4>0 DEF IsFold
      <4>2. f[Max(s)][it[s \ {Max(s)}]] = CloseFrame(it[s \ {Max(s)}], frames[Max(s)], FALSE)
        BY <2>2, <4>1
      <4> QED BY <2>3, <3>2, <4>2 DEF IsFold
    <3> QED BY <3>1, <3>2
  <2> HIDE DEF OneStep
  <2>5. it = [s \in SUBSET (1..N) |-> it[s]]
    BY <2>3 DEF IsFold
  <2>6. it = [s \in SUBSET (1..N) |-> OneStep(it, s)]
    BY <2>4, <2>5
  <2> QED BY <2>6
<1>2. \A s \in SUBSET (1..N) : iter[s] = OneStep(iter, s)
  <2> HIDE DEF OneStep
  <2>1. iter = [s \in SUBSET (1..N) |-> OneStep(iter, s)]
    BY <1>1
  <2> HIDE DEF iter
  <2> QED BY <2>1
<1>3. GivenUp(p, frames) = iter[1..N]
  BY Zenon DEF FoldLeft, MapThenFoldSet, GivenUp
<1> HIDE DEF iter, A
<1>4. ASSUME NEW n \in 1..N PROVE iter[1..n] = CloseFrame(iter[1..(n - 1)], frames[n], FALSE)
  <2>1. 1..n \in SUBSET (1..N) /\ 1..n # {} /\ (1..n) \ {n} = 1..(n - 1) /\ Max(1..n) = n
    BY Intervals
  <2> QED BY <1>2, <2>1
<1>5. iter[1..0] = p
  <2>1. 1..0 = {}
    OBVIOUS
  <2> QED BY <1>2, <2>1
<1> HIDE DEF OneStep
<1>6. \A n \in 0..N : iter[1..n] \in A
  <2> DEFINE Counted == {n \in 0..N : iter[1..n] \in A}
  <2>1. 0 \in Counted
    BY <1>0, <1>5
  <2>2. ASSUME NEW n \in 1..N, n - 1 \in Counted PROVE n \in Counted
    <3>1. n \in 0..N /\ iter[1..(n - 1)] \in A
      BY <2>2, Intervals
    <3> QED BY <1>b, <1>4, <3>1
  <2>3. Counted \in SUBSET (0..N)
    OBVIOUS
  <2>4. \A n \in 0..N : n \in Counted
    <3> HIDE DEF Counted
    <3> QED BY <2>1, <2>2, <2>3, Counting
  <2> QED BY <2>4
<1>7. run \in [0..N -> A] /\ run[0] = p /\ run[N] = iter[1..N]
  BY <1>5, <1>6
<1>8. \A n \in 1..N : run[n] = CloseFrame(run[n - 1], frames[n], FALSE)
  <2>1. \A n \in 1..N : run[n] = iter[1..n] /\ run[n - 1] = iter[1..(n - 1)]
    OBVIOUS
  <2> HIDE DEF run
  <2> QED BY <1>4, <2>1
<1> HIDE DEF run
<1> QED BY <1>3, <1>7, <1>8 DEF A, GivesUp

LEMMA GivenUpType ==
  ASSUME NEW p \in ParserType, NEW frames, NEW N \in Nat, DOMAIN frames = 1..N
  PROVE  /\ GivenUp(p, frames) \in ParserType
         /\ GivenUp(p, frames).structural = p.structural /\ GivenUp(p, frames).stack = p.stack
<1>1. PICK run : GivesUp(run, p, frames, N)
  BY GivenUpRun
<1>2. GivenUp(p, frames) \in Alike(p)
  BY <1>1 DEF GivesUp
<1> QED BY <1>2 DEF Alike

LEMMA CutType ==
  ASSUME NEW p \in ParserType, NEW reason \in Text
  PROVE  Cut(p, reason) \in ParserType
<1>1. (IF p.truncated = "" THEN reason ELSE p.truncated) \in Text
  BY ParserParts
<1> QED BY <1>1, ParserFields DEF Cut

\* What becomes of the parser when an element of some role is opened.
Entered(p, name, role) ==
  CASE role = "root"  -> [p EXCEPT !.root = name, !.roots = 1]
    [] role = "extra" -> [StructuralError(p) EXCEPT !.roots = @ + 1]
    [] role = "stray" -> StructuralError(p)
    [] role = "entry" -> LET more == [p EXCEPT !.entries = @ + 1, !.locs = << >>, !.dates = 0]
                         IN  IF more.entries > MaxEntries THEN Cut(more, "entries") ELSE more
    [] role \in {"loc", "lastmod"} -> [p EXCEPT !.text = ""]
    [] OTHER          -> p

LEMMA OpenedIs ==
  ASSUME NEW p, NEW name
  PROVE  LET role == RoleIn(p, name)
             q == Entered(p, name, role) IN
         Opened(p, name) =
           IF Len(p.stack) >= MaxXmlDepth THEN [StructuralError(q) EXCEPT !.halted = TRUE]
           ELSE [q EXCEPT !.stack = Append(@, [name |-> name, role |-> role, retained |-> q.entries <= MaxEntries])]
BY DEF Opened, Entered

LEMMA RolesAre ==
  ASSUME NEW p, NEW name
  PROVE  RoleIn(p, name) \in {"root", "extra", "entry", "stray", "loc", "lastmod", "ignored"}
BY DEF RoleIn

LEMMA EnteredType ==
  ASSUME NEW p \in ParserType, NEW name \in Text, NEW role \in Text
  PROVE  /\ Entered(p, name, role) \in ParserType
         /\ p.structural => Entered(p, name, role).structural
<1>1. StructuralError(p) \in ParserType /\ StructuralError(p).structural
  BY StructuralErrorType
<1>2. CASE role = "root"
  <2>1. [p EXCEPT !.root = name] \in ParserType
    BY ParserFields
  <2>2. [[p EXCEPT !.root = name] EXCEPT !.roots = 1] \in ParserType
    BY <2>1, ParserFields
  <2>3. Entered(p, name, role) = [[p EXCEPT !.root = name] EXCEPT !.roots = 1]
    BY <1>2 DEF Entered
  <2>4. p.structural = [[p EXCEPT !.root = name] EXCEPT !.roots = 1].structural
    BY DEF ParserType
  <2> QED BY <2>2, <2>3, <2>4
<1>3. CASE role = "extra"
  <2> DEFINE e == StructuralError(p)
  <2>1. e.roots + 1 \in Nat
    BY <1>1, ParserParts
  <2>2. Entered(p, name, role) = [e EXCEPT !.roots = @ + 1]
    BY <1>3 DEF Entered
  <2>3. [e EXCEPT !.roots = @ + 1] \in ParserType
    BY <1>1, <2>1, ParserFields
  <2>4. [e EXCEPT !.roots = @ + 1].structural = e.structural
    <3> HIDE DEF e
    <3> QED BY <1>1 DEF ParserType
  <2> QED BY <1>1, <2>2, <2>3, <2>4
<1>4. CASE role = "stray"
  BY <1>1, <1>4 DEF Entered
<1>5. CASE role = "entry"
  <2> DEFINE more == [p EXCEPT !.entries = @ + 1, !.locs = << >>, !.dates = 0]
  <2>1. p.entries + 1 \in Nat /\ << >> \in Seq(Text)
    BY ParserParts
  <2>2. [p EXCEPT !.entries = @ + 1] \in ParserType
    BY <2>1, ParserFields
  <2>3. [[p EXCEPT !.entries = @ + 1] EXCEPT !.locs = << >>] \in ParserType
    BY <2>1, <2>2, ParserFields
  <2>4. more \in ParserType
    BY <2>3, ParserFields
  <2>5. p.structural = more.structural
    BY DEF ParserType
  <2>6. Entered(p, name, role) = IF more.entries > MaxEntries THEN Cut(more, "entries") ELSE more
    BY <1>5 DEF Entered
  <2> HIDE DEF more
  <2>7. Cut(more, "entries") \in ParserType
    <3>1. "entries" \in Text
      BY DEF Text, Words
    <3> QED BY <2>4, <3>1, CutType
  <2>8. Cut(more, "entries").structural = more.structural
    BY <2>4 DEF Cut, ParserType
  <2> QED BY <2>4, <2>5, <2>6, <2>7, <2>8
<1>6. CASE role \in {"loc", "lastmod"}
  <2>1. Entered(p, name, role) = [p EXCEPT !.text = ""]
    BY <1>6 DEF Entered
  <2>2. [p EXCEPT !.text = ""].structural = p.structural
    BY DEF ParserType
  <2>3. "" \in Text
    BY DEF Text, Words
  <2>4. [p EXCEPT !.text = ""] \in ParserType
    BY <2>3, ParserFields
  <2> QED BY <2>1, <2>2, <2>4
<1>7. CASE role \notin {"root", "extra", "stray", "entry", "loc", "lastmod"}
  BY <1>7 DEF Entered
<1> QED BY <1>2, <1>3, <1>4, <1>5, <1>6, <1>7

LEMMA OpenedType ==
  ASSUME NEW p \in ParserType, NEW name \in Text
  PROVE  /\ Opened(p, name) \in ParserType
         /\ p.structural => Opened(p, name).structural
<1> DEFINE role == RoleIn(p, name)
           q == Entered(p, name, role)
           frame == [name |-> name, role |-> role, retained |-> q.entries <= MaxEntries]
<1>0. role \in Text
  <2>1. role \in {"root", "extra", "entry", "stray", "loc", "lastmod", "ignored"}
    BY RolesAre
  <2> HIDE DEF role
  <2> QED BY <2>1 DEF Text, Words
<1>1. q \in ParserType /\ (p.structural => q.structural)
  BY <1>0, EnteredType
<1>2. frame \in Frame
  BY <1>0, <1>1 DEF Frame
<1>3. Opened(p, name) = IF Len(p.stack) >= MaxXmlDepth THEN [StructuralError(q) EXCEPT !.halted = TRUE]
                        ELSE [q EXCEPT !.stack = Append(@, frame)]
  BY OpenedIs
<1> HIDE DEF q, frame, role
<1>4. StructuralError(q) \in ParserType /\ StructuralError(q).structural
  BY <1>1, StructuralErrorType
<1>5. [StructuralError(q) EXCEPT !.halted = TRUE] \in ParserType
  BY <1>4, ParserFields
<1>6. [StructuralError(q) EXCEPT !.halted = TRUE].structural
  BY <1>4 DEF ParserType
<1>7. Append(q.stack, frame) \in Seq(Frame)
  BY <1>1, <1>2, ParserParts
<1>8. [q EXCEPT !.stack = Append(@, frame)] \in ParserType
  BY <1>1, <1>7, ParserFields
<1>9. [q EXCEPT !.stack = Append(@, frame)].structural = q.structural
  BY <1>1 DEF ParserType
<1> QED BY <1>1, <1>3, <1>5, <1>6, <1>8, <1>9

\* The elements left open in one that is closed.
LeftOpen(p, i) == Reverse(SubSeq(p.stack, i + 1, Len(p.stack)))

LEMMA ClosedType ==
  ASSUME NEW p \in ParserType, NEW name \in Text
  PROVE  /\ Closed(p, name) \in ParserType
         /\ p.structural => Closed(p, name).structural
<1> DEFINE depth == Len(p.stack)
           same == {i \in 1..depth : p.stack[i].name = name}
           told == IF depth = 0 \/ Last(p.stack).name # name THEN StructuralError(p) ELSE p
           i == CHOOSE i \in same : \A j \in same : j <= i
           given == GivenUp(told, LeftOpen(p, i))
           cut == [given EXCEPT !.stack = SubSeq(@, 1, i - 1)]
<1>1. Closed(p, name) = IF same = {} THEN told ELSE CloseFrame(cut, p.stack[i], TRUE)
  BY DEF Closed, LeftOpen, GivenUp
<1>2. told \in ParserType /\ (p.structural => told.structural) /\ told.stack = p.stack
  BY StructuralErrorType, StructuralErrorKeeps
<1>3. depth \in Nat /\ p.stack \in Seq(Frame)
  BY ParserParts
<1>4. CASE same # {}
  <2> HIDE DEF told
  <2>1. i \in 1..depth
    <3>1. depth \in Nat /\ same \in SUBSET (0..depth)
      BY <1>3
    <3> HIDE DEF same, depth
    <3>2. \E k \in same : \A j \in same : j <= k
      BY <1>4, <3>1, GreatestNumber
    <3>3. i \in same
      BY <3>2
    <3> QED BY <3>3 DEF same
  <2> HIDE DEF i, same
  <2> DEFINE frames == LeftOpen(p, i)
             N == depth - i
  <2>2. N \in Nat
    BY <1>3, <2>1
  <2>3. DOMAIN frames = 1..N
    <3>1. SubSeq(p.stack, i + 1, depth) \in Seq(Frame) /\ Len(SubSeq(p.stack, i + 1, depth)) = N
      BY <1>3, <2>1
    <3> QED BY <3>1 DEF LeftOpen, Reverse
  <2> HIDE DEF N, frames
  <2>6. given \in ParserType /\ given.structural = told.structural /\ given.stack = told.stack
    <3>1. /\ GivenUp(told, frames) \in ParserType
          /\ GivenUp(told, frames).structural = told.structural /\ GivenUp(told, frames).stack = told.stack
      BY <1>2, <2>2, <2>3, GivenUpType
    <3> QED BY <3>1 DEF frames
  <2> HIDE DEF given
  <2>7. SubSeq(given.stack, 1, i - 1) \in Seq(Frame)
    <3>1. given.stack \in Seq(Frame) /\ Len(given.stack) = depth
      BY <1>2, <2>6, ParserParts
    <3>2. i - 1 \in 0..depth
      BY <1>3, <2>1
    <3> QED BY <3>1, <3>2
  <2>8. cut \in ParserType /\ cut.structural = given.structural
    <3>1. cut \in ParserType
      BY <2>6, <2>7, ParserFields
    <3> QED BY <2>6, <3>1 DEF ParserType
  <2> HIDE DEF cut
  <2> DEFINE closed == CloseFrame(cut, p.stack[i], TRUE)
  <2>9. closed \in ParserType
    BY <2>8, CloseFrameType
  <2>10. closed.structural = cut.structural
    BY <2>8, CloseFrameKeeps
  <2> QED BY <1>1, <1>2, <1>4, <2>6, <2>8, <2>9, <2>10
<1> QED BY <1>1, <1>2, <1>4

LEMMA TextReadType ==
  ASSUME NEW p \in ParserType, NEW value \in Text
  PROVE  /\ TextRead(p, value) \in ParserType
         /\ p.structural => TextRead(p, value).structural
<1>1. StructuralError(p) \in ParserType /\ StructuralError(p).structural
  BY StructuralErrorType
<1>2. [p EXCEPT !.text = value] \in ParserType
  BY ParserFields
<1>3. [p EXCEPT !.errors = TRUE] \in ParserType
  BY ParserFields
<1>4. [p EXCEPT !.text = value].structural = p.structural /\ [p EXCEPT !.errors = TRUE].structural = p.structural
  BY DEF ParserType
<1> QED BY <1>1, <1>2, <1>3, <1>4 DEF TextRead

LEMMA ReadTokenType ==
  ASSUME NEW p \in ParserType, NEW token \in Token
  PROVE  /\ ReadToken(p, token) \in ParserType
         /\ p.structural => ReadToken(p, token).structural
<1> DEFINE q == [p EXCEPT !.tokens = @ + 1]
<1>1. q \in ParserType /\ q.structural = p.structural
  <2>1. p.tokens + 1 \in Nat
    BY ParserParts
  <2>2. q \in ParserType
    BY <2>1, ParserFields
  <2> QED BY <2>2 DEF ParserType
<1>2. token.name \in Text /\ token.value \in Text /\ "tokens" \in Text
      /\ token.type \in {"open", "close", "text", "invalid", "error"}
  BY DEF Token, Text, Words
<1>3. q.tokens \in Nat /\ MaxTokens \in Nat /\ p.halted \in BOOLEAN
  BY <1>1, ParserParts, XmlAssumption
<1> DEFINE inner ==
       CASE token.type = "error"   -> [StructuralError(q) EXCEPT !.halted = TRUE]
         [] token.type = "invalid" -> StructuralError(q)
         [] token.type = "text"    -> TextRead(q, token.value)
         [] token.type = "open"    -> Opened(q, token.name)
         [] token.type = "close"   -> Closed(q, token.name)
           over == [Cut(StructuralError(q), "tokens") EXCEPT !.halted = TRUE]
<1>4. ReadToken(p, token) =
        CASE p.halted -> p
          [] ~p.halted /\ q.tokens > MaxTokens -> over
          [] ~p.halted /\ q.tokens <= MaxTokens -> inner
  BY DEF ReadToken
<1> HIDE DEF q
<1>5. StructuralError(q) \in ParserType /\ StructuralError(q).structural
  BY <1>1, StructuralErrorType
<1>6. Cut(StructuralError(q), "tokens") \in ParserType /\ Cut(StructuralError(q), "tokens").structural
  <2>1. Cut(StructuralError(q), "tokens") \in ParserType
    BY <1>2, <1>5, CutType
  <2> QED BY <1>5, <2>1 DEF Cut, ParserType
<1>7. ASSUME NEW r \in ParserType, r.structural
      PROVE  [r EXCEPT !.halted = TRUE] \in ParserType /\ [r EXCEPT !.halted = TRUE].structural
  <2>1. [r EXCEPT !.halted = TRUE] \in ParserType
    BY ParserFields
  <2>2. [r EXCEPT !.halted = TRUE].structural
    BY <1>7 DEF ParserType
  <2> QED BY <2>1, <2>2
<1>8. /\ TextRead(q, token.value) \in ParserType /\ (q.structural => TextRead(q, token.value).structural)
      /\ Opened(q, token.name) \in ParserType /\ (q.structural => Opened(q, token.name).structural)
      /\ Closed(q, token.name) \in ParserType /\ (q.structural => Closed(q, token.name).structural)
  BY <1>1, <1>2, TextReadType, OpenedType, ClosedType
<1> DEFINE err == StructuralError(q)
<1>9. /\ over \in ParserType /\ over.structural
      /\ [err EXCEPT !.halted = TRUE] \in ParserType /\ [err EXCEPT !.halted = TRUE].structural
  BY <1>5, <1>6, <1>7
<1>10. CASE p.halted
  <2> HIDE DEF inner, over
  <2> QED BY <1>3, <1>4, <1>10
<1>11. CASE ~p.halted /\ q.tokens > MaxTokens
  <2> HIDE DEF inner, over
  <2> QED BY <1>3, <1>4, <1>9, <1>11
<1>12. CASE ~p.halted /\ q.tokens <= MaxTokens
  <2>a. ReadToken(p, token) = inner
    <3> HIDE DEF inner, over
    <3> QED BY <1>3, <1>4, <1>12
  <2>0. ReadToken(p, token) =
          CASE token.type = "error"   -> [err EXCEPT !.halted = TRUE]
            [] token.type = "invalid" -> err
            [] token.type = "text"    -> TextRead(q, token.value)
            [] token.type = "open"    -> Opened(q, token.name)
            [] token.type = "close"   -> Closed(q, token.name)
    BY <2>a
  <2> HIDE DEF err
  <2>1. CASE token.type = "error"
    BY <1>9, <2>0, <2>1
  <2>2. CASE token.type = "invalid"
    BY <1>5, <2>0, <2>2 DEF err
  <2>3. CASE token.type = "text"
    BY <1>1, <1>8, <2>0, <2>3
  <2>4. CASE token.type = "open"
    BY <1>1, <1>8, <2>0, <2>4
  <2>5. CASE token.type = "close"
    BY <1>1, <1>8, <2>0, <2>5
  <2> QED BY <1>2, <2>1, <2>2, <2>3, <2>4, <2>5
<1> QED BY <1>3, <1>10, <1>11, <1>12

\* The reading of a document, token by token.
Reads(run, tokens, N) ==
  /\ run \in [0..N -> ParserType] /\ run[0] = ParserStart
  /\ \A n \in 1..N : run[n] = ReadToken(run[n - 1], tokens[n])
  /\ FoldLeft(ReadToken, ParserStart, tokens) = run[N]

LEMMA ReadRun ==
  ASSUME NEW tokens, NEW N \in Nat, DOMAIN tokens = 1..N, \A i \in 1..N : tokens[i] \in Token
  PROVE  \E run : Reads(run, tokens, N)
<1> DEFINE A == ParserType
           OneStep(it, s) == IF s = {} THEN ParserStart ELSE ReadToken(it[s \ {Max(s)}], tokens[Max(s)])
           iter == CHOOSE it : it = [s \in SUBSET (1..N) |-> OneStep(it, s)]
           run == [n \in 0..N |-> iter[1..n]]
<1>a. ParserStart \in A
  BY DEF ParserStart, ParserType, Text, Words
<1>b. ASSUME NEW i \in 1..N, NEW a \in A PROVE ReadToken(a, tokens[i]) \in A
  BY ReadTokenType
<1>0. ParserStart \in A /\ \A i \in 1..N, a \in A : ReadToken(a, tokens[i]) \in A
  BY <1>a, <1>b
<1>1. \E it : it = [s \in SUBSET (1..N) |-> OneStep(it, s)]
  <2> DEFINE f == [i \in 1..N |-> [a \in A |-> ReadToken(a, tokens[i])]]
  <2>1. IsStep(f, N, A)
    BY <1>0 DEF IsStep
  <2>2. \A i \in 1..N, a \in A : f[i][a] = ReadToken(a, tokens[i])
    OBVIOUS
  <2> HIDE DEF f, A
  <2>3. PICK it : IsFold(it, N, A, ParserStart, f)
    BY <1>a, <2>1, FoldIs
  <2>4. ASSUME NEW s \in SUBSET (1..N) PROVE it[s] = OneStep(it, s)
    <3>1. CASE s = {}
      BY <2>3, <3>1 DEF IsFold
    <3>2. CASE s # {}
      <4>0. Max(s) \in 1..N
        BY <3>2, LargestOf
      <4>1. Max(s) \in 1..N /\ it[s \ {Max(s)}] \in A
        BY <2>3, <4>0 DEF IsFold
      <4>2. f[Max(s)][it[s \ {Max(s)}]] = ReadToken(it[s \ {Max(s)}], tokens[Max(s)])
        BY <2>2, <4>1
      <4> QED BY <2>3, <3>2, <4>2 DEF IsFold
    <3> QED BY <3>1, <3>2
  <2> HIDE DEF OneStep
  <2>5. it = [s \in SUBSET (1..N) |-> it[s]]
    BY <2>3 DEF IsFold
  <2>6. it = [s \in SUBSET (1..N) |-> OneStep(it, s)]
    BY <2>4, <2>5
  <2> QED BY <2>6
<1>2. \A s \in SUBSET (1..N) : iter[s] = OneStep(iter, s)
  <2> HIDE DEF OneStep
  <2>1. iter = [s \in SUBSET (1..N) |-> OneStep(iter, s)]
    BY <1>1
  <2> HIDE DEF iter
  <2> QED BY <2>1
<1>3. FoldLeft(ReadToken, ParserStart, tokens) = iter[1..N]
  BY Zenon DEF FoldLeft, MapThenFoldSet
<1> HIDE DEF iter, A
<1>4. ASSUME NEW n \in 1..N PROVE iter[1..n] = ReadToken(iter[1..(n - 1)], tokens[n])
  <2>1. 1..n \in SUBSET (1..N) /\ 1..n # {} /\ (1..n) \ {n} = 1..(n - 1) /\ Max(1..n) = n
    BY Intervals
  <2> QED BY <1>2, <2>1
<1>5. iter[1..0] = ParserStart
  <2>1. 1..0 = {}
    OBVIOUS
  <2> QED BY <1>2, <2>1
<1> HIDE DEF OneStep
<1>6. \A n \in 0..N : iter[1..n] \in A
  <2> DEFINE Counted == {n \in 0..N : iter[1..n] \in A}
  <2>1. 0 \in Counted
    BY <1>0, <1>5
  <2>2. ASSUME NEW n \in 1..N, n - 1 \in Counted PROVE n \in Counted
    <3>1. n \in 0..N /\ iter[1..(n - 1)] \in A
      BY <2>2, Intervals
    <3> QED BY <1>b, <1>4, <3>1
  <2>3. Counted \in SUBSET (0..N)
    OBVIOUS
  <2>4. \A n \in 0..N : n \in Counted
    <3> HIDE DEF Counted
    <3> QED BY <2>1, <2>2, <2>3, Counting
  <2> QED BY <2>4
<1>7. run \in [0..N -> A] /\ run[0] = ParserStart /\ run[N] = iter[1..N]
  BY <1>5, <1>6
<1>8. \A n \in 1..N : run[n] = ReadToken(run[n - 1], tokens[n])
  <2>1. \A n \in 1..N : run[n] = iter[1..n] /\ run[n - 1] = iter[1..(n - 1)]
    OBVIOUS
  <2> HIDE DEF run
  <2> QED BY <1>4, <2>1
<1> HIDE DEF run
<1> QED BY <1>3, <1>7, <1>8 DEF A, Reads

-----------------------------------------------------------------------------
(***************************************************************************)
(* How deep the tags are nested, and the stack of the parser: the elements *)
(* on it are those that are open, each at its depth.                       *)
(***************************************************************************)
LEMMA NestingStep ==
  ASSUME NEW tokens \in Seq(Token), NEW n \in 1..Len(tokens)
  PROVE  /\ Nesting(tokens, n) \in Int /\ Nesting(tokens, n - 1) \in Int
         /\ tokens[n].type = "open"  => Nesting(tokens, n) = Nesting(tokens, n - 1) + 1
         /\ tokens[n].type = "close" => Nesting(tokens, n) = Nesting(tokens, n - 1) - 1
         /\ tokens[n].type \notin {"open", "close"} => Nesting(tokens, n) = Nesting(tokens, n - 1)
<1> DEFINE Of(type, k) == {i \in 1..k : tokens[i].type = type}
<1>1. n \in Nat /\ n - 1 \in Nat /\ n \notin 1..(n - 1) /\ 1..n = (1..(n - 1)) \cup {n}
  OBVIOUS
<1>2. ASSUME NEW type
      PROVE  /\ IsFiniteSet(Of(type, n - 1))
             /\ Of(type, n) = IF tokens[n].type = type THEN Of(type, n - 1) \cup {n} ELSE Of(type, n - 1)
             /\ n \notin Of(type, n - 1)
  <2>1. Of(type, n - 1) \in SUBSET (1..(n - 1))
    OBVIOUS
  <2>2. IsFiniteSet(Of(type, n - 1))
    <3>1. IsFiniteSet(1..(n - 1))
      BY <1>1, FS_Interval
    <3> HIDE DEF Of
    <3> QED BY <2>1, <3>1, FS_Subset
  <2>3. Of(type, n) = IF tokens[n].type = type THEN Of(type, n - 1) \cup {n} ELSE Of(type, n - 1)
    BY <1>1
  <2>4. n \notin Of(type, n - 1)
    BY <1>1
  <2> QED BY <2>2, <2>3, <2>4
<1> HIDE DEF Of
<1>3. ASSUME NEW type
      PROVE  /\ Cardinality(Of(type, n - 1)) \in Nat
             /\ Cardinality(Of(type, n)) =
                  IF tokens[n].type = type THEN Cardinality(Of(type, n - 1)) + 1 ELSE Cardinality(Of(type, n - 1))
  <2>1. Cardinality(Of(type, n - 1)) \in Nat
    BY <1>2, FS_CardinalityType
  <2>2. Cardinality(Of(type, n - 1) \cup {n}) = Cardinality(Of(type, n - 1)) + 1
    BY <1>2, FS_AddElement
  <2> QED BY <1>2, <2>1, <2>2
<1>4. /\ Nesting(tokens, n) = Cardinality(Of("open", n)) - Cardinality(Of("close", n))
      /\ Nesting(tokens, n - 1) = Cardinality(Of("open", n - 1)) - Cardinality(Of("close", n - 1))
  BY DEF Nesting, Of
<1>5. /\ Cardinality(Of("open", n - 1)) \in Nat /\ Cardinality(Of("close", n - 1)) \in Nat
      /\ Cardinality(Of("open", n)) =
           IF tokens[n].type = "open" THEN Cardinality(Of("open", n - 1)) + 1 ELSE Cardinality(Of("open", n - 1))
      /\ Cardinality(Of("close", n)) =
           IF tokens[n].type = "close" THEN Cardinality(Of("close", n - 1)) + 1 ELSE Cardinality(Of("close", n - 1))
  BY <1>3
<1> QED BY <1>4, <1>5

LEMMA NestingStart ==
  ASSUME NEW tokens
  PROVE  Nesting(tokens, 0) = 0
<1>1. \A P : {i \in 1..0 : P} = {}
  OBVIOUS
<1>2. {i \in 1..0 : tokens[i].type = "open"} = {} /\ {i \in 1..0 : tokens[i].type = "close"} = {}
  OBVIOUS
<1>3. Cardinality({}) = 0
  BY FS_EmptySet
<1> QED BY <1>2, <1>3 DEF Nesting

LEMMA WithinStep ==
  ASSUME NEW tokens, NEW n \in Nat \ {0}, NEW j \in 1..n
  PROVE  /\ j < n => (Within(tokens, j, n) <=> Within(tokens, j, n - 1) /\ Nesting(tokens, j) <= Nesting(tokens, n))
         /\ j = n => (Within(tokens, j, n) <=> tokens[n].type = "open" /\ Nesting(tokens, n) <= Nesting(tokens, n))
<1>1. j < n => j..n = (j..(n - 1)) \cup {n}
  OBVIOUS
<1>2. j = n => j..n = {n}
  OBVIOUS
<1> QED BY <1>1, <1>2 DEF Within

\* pos is where the elements of a stack were opened, among the first n tokens.
Placed(tokens, stack, n, pos) ==
  /\ pos \in [1..Len(stack) -> 1..n]
  /\ Nesting(tokens, n) = Len(stack)
  /\ \A k \in 1..Len(stack) : /\ tokens[pos[k]].type = "open" /\ tokens[pos[k]].name = stack[k].name
                              /\ Nesting(tokens, pos[k]) = k /\ Within(tokens, pos[k], n)
  /\ \A j \in 1..n : Within(tokens, j, n) => \E k \in 1..Len(stack) : pos[k] = j

LEMMA PlacedOpen ==
  ASSUME NEW tokens \in Seq(Token), NEW n \in 1..Len(tokens), tokens[n].type = "open",
         NEW stack \in Seq(Frame), NEW pos, Placed(tokens, stack, n - 1, pos),
         NEW frame \in Frame, frame.name = tokens[n].name
  PROVE  Placed(tokens, Append(stack, frame), n, [k \in 1..(Len(stack) + 1) |-> IF k = Len(stack) + 1 THEN n ELSE pos[k]])
<1> DEFINE d == Len(stack)
           more == Append(stack, frame)
           spot == [k \in 1..(d + 1) |-> IF k = d + 1 THEN n ELSE pos[k]]
<1>1. /\ d \in Nat /\ Len(more) = d + 1 /\ more[d + 1] = frame
      /\ \A k \in 1..d : more[k] = stack[k]
  OBVIOUS
<1>2. n \in Nat \ {0} /\ n - 1 \in Nat /\ \A j \in 1..(n - 1) : j \in 1..n /\ j < n
  OBVIOUS
<1>3. /\ pos \in [1..d -> 1..(n - 1)] /\ Nesting(tokens, n - 1) = d
      /\ \A k \in 1..d : /\ tokens[pos[k]].type = "open" /\ tokens[pos[k]].name = stack[k].name
                         /\ Nesting(tokens, pos[k]) = k /\ Within(tokens, pos[k], n - 1)
      /\ \A j \in 1..(n - 1) : Within(tokens, j, n - 1) => \E k \in 1..d : pos[k] = j
  BY DEF Placed
<1>4. Nesting(tokens, n) = d + 1
  BY <1>3, NestingStep
<1>5. spot[d + 1] = n /\ \A k \in 1..d : spot[k] = pos[k]
  BY <1>1
<1>6. spot \in [1..(d + 1) -> 1..n]
  BY <1>1, <1>2, <1>3
<1> HIDE DEF d, more, spot
<1>7. ASSUME NEW k \in 1..(d + 1)
      PROVE  /\ tokens[spot[k]].type = "open" /\ tokens[spot[k]].name = more[k].name
             /\ Nesting(tokens, spot[k]) = k /\ Within(tokens, spot[k], n)
  <2>1. CASE k = d + 1
    BY <1>1, <1>2, <1>4, <1>5, <2>1, WithinStep
  <2>2. CASE k \in 1..d
    <3>1. pos[k] \in 1..n /\ pos[k] < n
      BY <1>2, <1>3, <2>2
    <3>2. Nesting(tokens, pos[k]) <= Nesting(tokens, n)
      BY <1>1, <1>3, <1>4, <2>2
    <3> QED BY <1>1, <1>2, <1>3, <1>5, <2>2, <3>1, <3>2, WithinStep
  <2> QED BY <1>1, <2>1, <2>2
<1>8. ASSUME NEW j \in 1..n, Within(tokens, j, n) PROVE \E k \in 1..(d + 1) : spot[k] = j
  <2>1. CASE j = n
    BY <1>1, <1>5, <2>1
  <2>2. CASE j < n
    <3>1. Within(tokens, j, n - 1) /\ j \in 1..(n - 1)
      BY <1>2, <1>8, <2>2, WithinStep
    <3> QED BY <1>1, <1>3, <1>5, <3>1
  <2> QED BY <2>1, <2>2
<1>9. Placed(tokens, more, n, spot)
  BY <1>1, <1>4, <1>6, <1>7, <1>8 DEF Placed
<1> QED BY <1>9 DEF d, more, spot

\* A stack without its top.
LEMMA WithoutTop ==
  ASSUME NEW S, NEW stack \in Seq(S), stack # << >>
  PROVE  LET less == SubSeq(stack, 1, Len(stack) - 1) IN
         /\ Len(stack) \in Nat \ {0} /\ less \in Seq(S) /\ Len(less) = Len(stack) - 1
         /\ \A k \in 1..(Len(stack) - 1) : less[k] = stack[k] /\ k \in 1..Len(stack)
         /\ Last(stack) = stack[Len(stack)] /\ Last(stack) \in S
<1> DEFINE d == Len(stack)
<1>1. d \in Nat \ {0}
  OBVIOUS
<1>2. 1 \in 1..(d + 1) /\ d - 1 \in 0..d
  BY <1>1
<1>3. SubSeq(stack, 1, d - 1) \in Seq(S) /\ Len(SubSeq(stack, 1, d - 1)) = d - 1
  <2> DEFINE e == d - 1
  <2>1. e \in 0..d /\ e \in Nat
    BY <1>1
  <2>2. SubSeq(stack, 1, e) \in Seq(S)
    <3> HIDE DEF e
    <3> QED BY <2>1
  <2>3. Len(SubSeq(stack, 1, e)) = e
    <3> HIDE DEF e
    <3> QED BY <2>1
  <2> QED BY <2>2, <2>3
<1>4. \A k \in 1..(d - 1) : SubSeq(stack, 1, d - 1)[k] = stack[k] /\ k \in 1..d
  BY <1>1
<1>5. Last(stack) = stack[d] /\ stack[d] \in S
  BY <1>1 DEF Last
<1> QED BY <1>1, <1>3, <1>4, <1>5

LEMMA PlacedClose ==
  ASSUME NEW tokens \in Seq(Token), NEW n \in 1..Len(tokens), tokens[n].type = "close",
         NEW stack \in Seq(Frame), stack # << >>, NEW pos, Placed(tokens, stack, n - 1, pos)
  PROVE  Placed(tokens, SubSeq(stack, 1, Len(stack) - 1), n, [k \in 1..(Len(stack) - 1) |-> pos[k]])
<1> DEFINE d == Len(stack)
           less == SubSeq(stack, 1, d - 1)
           spot == [k \in 1..(d - 1) |-> pos[k]]
<1>1. /\ d \in Nat \ {0} /\ Len(less) = d - 1
      /\ \A k \in 1..(d - 1) : less[k] = stack[k] /\ k \in 1..d
  BY WithoutTop
<1>2. n \in Nat \ {0} /\ n - 1 \in Nat /\ \A j \in 1..(n - 1) : j \in 1..n /\ j < n
  OBVIOUS
<1>3. /\ pos \in [1..d -> 1..(n - 1)] /\ Nesting(tokens, n - 1) = d
      /\ \A k \in 1..d : /\ tokens[pos[k]].type = "open" /\ tokens[pos[k]].name = stack[k].name
                         /\ Nesting(tokens, pos[k]) = k /\ Within(tokens, pos[k], n - 1)
      /\ \A j \in 1..(n - 1) : Within(tokens, j, n - 1) => \E k \in 1..d : pos[k] = j
  BY DEF Placed
<1>4. Nesting(tokens, n) = d - 1
  BY <1>3, NestingStep
<1>5. \A k \in 1..(d - 1) : spot[k] = pos[k]
  OBVIOUS
<1>6. spot \in [1..(d - 1) -> 1..n]
  BY <1>1, <1>2, <1>3
<1> HIDE DEF d, less, spot
<1>7. ASSUME NEW k \in 1..(d - 1)
      PROVE  /\ tokens[spot[k]].type = "open" /\ tokens[spot[k]].name = less[k].name
             /\ Nesting(tokens, spot[k]) = k /\ Within(tokens, spot[k], n)
  <2>1. pos[k] \in 1..n /\ pos[k] < n
    BY <1>1, <1>2, <1>3
  <2>2. Nesting(tokens, pos[k]) <= Nesting(tokens, n)
    BY <1>1, <1>3, <1>4
  <2>3. k \in 1..d /\ Within(tokens, pos[k], n - 1) /\ spot[k] = pos[k]
    BY <1>1, <1>3, <1>5
  <2>4. Within(tokens, pos[k], n)
    BY <1>2, <2>1, <2>2, <2>3, WithinStep
  <2> QED BY <1>1, <1>3, <2>3, <2>4
<1>8. ASSUME NEW j \in 1..n, Within(tokens, j, n) PROVE \E k \in 1..(d - 1) : spot[k] = j
  <2>1. CASE j = n
    BY <1>2, <1>8, <2>1, WithinStep
  <2>2. CASE j < n
    <3>1. Within(tokens, j, n - 1) /\ j \in 1..(n - 1) /\ Nesting(tokens, j) <= d - 1
      BY <1>2, <1>4, <1>8, <2>2, WithinStep
    <3>2. PICK k \in 1..d : pos[k] = j
      BY <1>3, <3>1
    <3>3. k \in 1..(d - 1)
      BY <1>1, <1>3, <3>1, <3>2
    <3> QED BY <1>5, <3>2, <3>3
  <2> QED BY <2>1, <2>2
<1>9. Placed(tokens, less, n, spot)
  BY <1>1, <1>4, <1>6, <1>7, <1>8 DEF Placed
<1> QED BY <1>9 DEF d, less, spot

LEMMA PlacedText ==
  ASSUME NEW tokens \in Seq(Token), NEW n \in 1..Len(tokens), tokens[n].type = "text",
         NEW stack \in Seq(Frame), NEW pos, Placed(tokens, stack, n - 1, pos)
  PROVE  Placed(tokens, stack, n, pos)
<1> DEFINE d == Len(stack)
<1>1. d \in Nat
  OBVIOUS
<1>2. n \in Nat \ {0} /\ n - 1 \in Nat /\ \A j \in 1..(n - 1) : j \in 1..n /\ j < n
  OBVIOUS
<1>3. /\ pos \in [1..d -> 1..(n - 1)] /\ Nesting(tokens, n - 1) = d
      /\ \A k \in 1..d : /\ tokens[pos[k]].type = "open" /\ tokens[pos[k]].name = stack[k].name
                         /\ Nesting(tokens, pos[k]) = k /\ Within(tokens, pos[k], n - 1)
      /\ \A j \in 1..(n - 1) : Within(tokens, j, n - 1) => \E k \in 1..d : pos[k] = j
  BY DEF Placed
<1>4. Nesting(tokens, n) = d
  BY <1>3, NestingStep
<1> HIDE DEF d
<1>6. pos \in [1..d -> 1..n]
  BY <1>2, <1>3
<1>7. ASSUME NEW k \in 1..d PROVE Within(tokens, pos[k], n)
  <2>1. pos[k] \in 1..n /\ pos[k] < n /\ Nesting(tokens, pos[k]) <= Nesting(tokens, n)
    BY <1>1, <1>2, <1>3, <1>4
  <2> QED BY <1>2, <1>3, <2>1, WithinStep
<1>8. ASSUME NEW j \in 1..n, Within(tokens, j, n) PROVE \E k \in 1..d : pos[k] = j
  <2>1. CASE j = n
    BY <1>2, <1>8, <2>1, WithinStep
  <2>2. CASE j < n
    <3>1. Within(tokens, j, n - 1) /\ j \in 1..(n - 1)
      BY <1>2, <1>8, <2>2, WithinStep
    <3> QED BY <1>3, <3>1
  <2> QED BY <2>1, <2>2
<1> QED BY <1>3, <1>4, <1>6, <1>7, <1>8 DEF Placed, d

\* What the elements on the stack can be.
Shaped(stack, root) ==
  /\ Len(stack) >= 1 => stack[1].role = "root" /\ stack[1].name = root
  /\ Len(stack) >= 2 => stack[2].role = "entry" /\ stack[2].name = EntryOf(root)
  /\ Len(stack) >= 3 => \/ stack[3].role \in {"loc", "lastmod"} /\ stack[3].name = stack[3].role /\ Len(stack) = 3
                        \/ stack[3].role = "ignored" /\ stack[3].name \notin {"loc", "url", "sitemap"}
  /\ \A k \in 4..Len(stack) : stack[k].role = "ignored"

LocOpen(stack) == Len(stack) = 3 /\ stack[3].role = "loc"

LEMMA Depths ==
  ASSUME NEW d \in Nat
  PROVE  /\ d = 3 => d >= 1 /\ d >= 2 /\ d >= 3 /\ 1 \in 1..d /\ 2 \in 1..d /\ 3 \in 1..d
         /\ d >= 4 => d >= 1 /\ d >= 3 /\ d # 3 /\ 1 \in 1..d /\ 3 \in 1..d
         /\ \A k \in 1..d : d >= 1
<1>1. d >= 4 => d >= 1 /\ d >= 3 /\ d # 3 /\ 1 \in 1..d /\ 3 \in 1..d
  OBVIOUS
<1>2. d = 3 => d >= 1 /\ d >= 2 /\ d >= 3 /\ 1 \in 1..d /\ 2 \in 1..d /\ 3 \in 1..d
  OBVIOUS
<1>3. \A k \in 1..d : d >= 1
  OBVIOUS
<1> QED BY <1>1, <1>2, <1>3

\* The text that counts is that of a location on top of the stack.
LEMMA NamesText ==
  ASSUME NEW tokens \in Seq(Token), NEW n \in 1..Len(tokens), tokens[n].type = "text",
         NEW stack \in Seq(Frame), NEW pos, Placed(tokens, stack, n - 1, pos),
         NEW root, Shaped(stack, root), Len(stack) >= 1 => root \in Roots /\ IsRoot(tokens, pos[1])
  PROVE  Names(tokens, n) <=> LocOpen(stack) /\ pos[3] = n - 1 /\ tokens[n].value # ""
<1> DEFINE d == Len(stack)
<1>1. d \in Nat /\ n \in Nat \ {0}
  OBVIOUS
<1>b. /\ n > 1 => n - 1 \in 1..(n - 1) /\ n - 1 \in Nat \ {0}
      /\ \A j \in 1..(n - 1) : n > 1 /\ j \in 1..n /\ j \in Int
  BY <1>1
<1>c. /\ d = 3 => d >= 1 /\ d >= 2 /\ d >= 3 /\ 1 \in 1..d /\ 2 \in 1..d /\ 3 \in 1..d
      /\ d >= 4 => d >= 1 /\ d >= 3 /\ d # 3 /\ 1 \in 1..d /\ 3 \in 1..d
      /\ \A k \in 1..d : d >= 1
  BY <1>1, Depths
<1>2. /\ pos \in [1..d -> 1..(n - 1)] /\ Nesting(tokens, n - 1) = d
      /\ \A k \in 1..d : /\ tokens[pos[k]].type = "open" /\ tokens[pos[k]].name = stack[k].name
                         /\ Nesting(tokens, pos[k]) = k
      /\ \A j \in 1..(n - 1) : Within(tokens, j, n - 1) => \E k \in 1..d : pos[k] = j
  BY DEF Placed
<1>3. /\ \A k \in 1..d : Within(tokens, pos[k], n)
      /\ \A j \in 1..n : Within(tokens, j, n) => \E k \in 1..d : pos[k] = j
  <2>1. Placed(tokens, stack, n, pos)
    BY PlacedText
  <2> QED BY <2>1 DEF Placed
<1>4. /\ d >= 1 => stack[1].name = root
      /\ d >= 2 => stack[2].name = EntryOf(root)
      /\ d >= 3 => \/ stack[3].role \in {"loc", "lastmod"} /\ stack[3].name = stack[3].role /\ d = 3
                   \/ stack[3].role = "ignored" /\ stack[3].name \notin {"loc", "url", "sitemap"}
  BY DEF Shaped
<1>5. d >= 1 => root # "loc" /\ IsRoot(tokens, pos[1]) /\ EntryOf(root) \in {"url", "sitemap"}
  BY DEF Roots, EntryOf
<1>a. LocOpen(stack) <=> d = 3 /\ stack[3].role = "loc"
  BY DEF LocOpen
<1> HIDE DEF d
<1>6. ASSUME LocOpen(stack), pos[3] = n - 1, tokens[n].value # ""
      PROVE  Names(tokens, n)
  <2>1. d = 3 /\ stack[3].name = "loc"
    BY <1>4, <1>6, <1>a, <1>c
  <2>2. n > 1 /\ tokens[n - 1].type = "open" /\ tokens[n - 1].name = "loc"
    <3>1. pos[3] \in 1..(n - 1) /\ tokens[pos[3]].type = "open" /\ tokens[pos[3]].name = stack[3].name
      BY <1>2, <1>c, <2>1
    <3>2. n - 1 \in 1..(n - 1)
      BY <1>6, <3>1
    <3>3. n > 1
      BY <1>b, <3>2
    <3> QED BY <1>6, <2>1, <3>1, <3>3
  <2>3. ASSUME NEW j \in 1..n, Within(tokens, j, n)
        PROVE  IsRoot(tokens, j) \/ tokens[j].name \in {"url", "sitemap", "loc"}
    <3>1. PICK k \in 1..d : pos[k] = j
      BY <1>3, <2>3
    <3>2. CASE k = 1
      BY <1>5, <2>1, <3>1, <3>2
    <3>3. CASE k = 2
      BY <1>2, <1>4, <1>5, <2>1, <3>1, <3>3
    <3>4. CASE k = 3
      BY <1>2, <2>1, <3>1, <3>4
    <3> QED BY <2>1, <3>2, <3>3, <3>4
  <2>4. ~Aside(tokens, n)
    BY <2>3 DEF Aside
  <2> QED BY <1>6, <2>2, <2>4 DEF Names
<1>7. ASSUME Names(tokens, n)
      PROVE  LocOpen(stack) /\ pos[3] = n - 1 /\ tokens[n].value # ""
  <2>1. /\ n > 1 /\ tokens[n].value # "" /\ tokens[n - 1].type = "open" /\ tokens[n - 1].name = "loc"
        /\ ~Aside(tokens, n)
    BY <1>7 DEF Names
  <2>2. n - 1 \in 1..(n - 1) /\ Within(tokens, n - 1, n - 1)
    <3>1. n - 1 \in 1..(n - 1) /\ n - 1 \in Nat \ {0}
      BY <1>b, <2>1
    <3>2. Nesting(tokens, n - 1) <= Nesting(tokens, n - 1)
      BY <1>1, <1>2
    <3> QED BY <2>1, <3>1, <3>2, WithinStep
  <2>3. PICK k \in 1..d : pos[k] = n - 1
    BY <1>2, <2>2
  <2>4. k = d /\ d >= 1 /\ stack[d].name = "loc"
    <3>1. Nesting(tokens, pos[k]) = k /\ tokens[pos[k]].name = stack[k].name
      BY <1>2
    <3>2. k = d
      BY <1>2, <2>3, <3>1
    <3>3. d >= 1
      BY <1>c
    <3> QED BY <2>1, <2>3, <3>1, <3>2, <3>3
  <2>5. d # 1 /\ d # 2
    BY <1>4, <1>5, <2>4
  <2>6. d = 3 => stack[3].role = "loc"
    BY <1>4, <2>4
  <2>7. ASSUME d >= 4 PROVE FALSE
    <3>1. 1 \in 1..d /\ 3 \in 1..d /\ d >= 1 /\ d >= 3 /\ d # 3
      BY <1>c, <2>7
    <3>a. stack[3].name \notin {"url", "sitemap", "loc"}
      BY <1>4, <3>1
    <3>2. /\ tokens[pos[1]].type = "open" /\ tokens[pos[3]].type = "open"
          /\ Nesting(tokens, pos[1]) = 1 /\ Nesting(tokens, pos[3]) = 3
          /\ tokens[pos[3]].name \notin {"url", "sitemap", "loc"} /\ Within(tokens, pos[3], n)
          /\ pos[1] \in 1..(n - 1) /\ pos[3] \in 1..(n - 1)
      <4>1. /\ tokens[pos[1]].type = "open" /\ Nesting(tokens, pos[1]) = 1 /\ pos[1] \in 1..(n - 1)
        BY <1>2, <3>1
      <4>2. /\ tokens[pos[3]].type = "open" /\ Nesting(tokens, pos[3]) = 3 /\ pos[3] \in 1..(n - 1)
            /\ tokens[pos[3]].name = stack[3].name
        BY <1>2, <3>1
      <4>3. Within(tokens, pos[3], n)
        BY <1>3, <3>1
      <4> QED BY <3>a, <4>1, <4>2, <4>3
    <3>3. ~IsRoot(tokens, pos[3])
      <4>1. IsRoot(tokens, pos[1])
        BY <1>5, <3>1
      <4>2. SUFFICES ASSUME IsRoot(tokens, pos[3]) PROVE FALSE
        OBVIOUS
      <4>3. pos[1] \notin 1..(pos[3] - 1) /\ pos[3] \notin 1..(pos[1] - 1)
        BY <3>2, <4>1, <4>2 DEF IsRoot
      <4>4. pos[1] = pos[3]
        <5>1. pos[1] \in Nat \ {0} /\ pos[3] \in Nat \ {0}
          BY <1>1, <3>2
        <5> QED BY <4>3, <5>1
      <4> QED BY <3>2, <4>4
    <3>4. pos[3] \in 1..n
      BY <1>b, <3>2
    <3> QED BY <2>1, <3>2, <3>3, <3>4 DEF Aside
  <2>8. d = 3
    BY <1>1, <2>4, <2>5, <2>7
  <2> QED BY <1>a, <2>1, <2>3, <2>4, <2>6, <2>8
<1> QED BY <1>6, <1>7

\* The role of the top tells how deep the stack is.
LEMMA TopRole ==
  ASSUME NEW stack \in Seq(Frame), stack # << >>, NEW root, Shaped(stack, root)
  PROVE  /\ Last(stack).role \in {"root", "entry", "loc", "lastmod", "ignored"}
         /\ Last(stack).role = "root" <=> Len(stack) = 1
         /\ Last(stack).role = "entry" <=> Len(stack) = 2
         /\ Last(stack).role \in {"loc", "lastmod"} => Len(stack) = 3
         /\ Last(stack).role = "ignored" => Len(stack) >= 3 /\ stack[3].role = "ignored"
<1> DEFINE d == Len(stack)
<1>1. d \in Nat \ {0} /\ Last(stack) = stack[d]
  BY WithoutTop
<1>2. /\ d >= 1 => stack[1].role = "root"
      /\ d >= 2 => stack[2].role = "entry"
      /\ d >= 3 => \/ stack[3].role \in {"loc", "lastmod"} /\ d = 3
                   \/ stack[3].role = "ignored"
      /\ \A k \in 4..d : stack[k].role = "ignored"
  BY DEF Shaped
<1> HIDE DEF d
<1>3. CASE d = 1
  BY <1>1, <1>2, <1>3 DEF d
<1>4. CASE d = 2
  BY <1>1, <1>2, <1>4 DEF d
<1>5. CASE d = 3
  BY <1>1, <1>2, <1>5 DEF d
<1>6. CASE d >= 4
  <2>1. d \in 4..d /\ d # 3 /\ d >= 3
    BY <1>1, <1>6
  <2>2. stack[d].role = "ignored" /\ stack[3].role = "ignored"
    BY <1>2, <2>1
  <2> QED BY <1>1, <1>6, <2>2 DEF d
<1> QED BY <1>1, <1>3, <1>4, <1>5, <1>6

LEMMA RoleParent ==
  ASSUME NEW p \in ParserType, NEW name, p.stack # << >> => Last(p.stack).role # "none"
  PROVE  LET role == RoleIn(p, name)
             top  == Last(p.stack).role IN
         /\ role = "root" => p.stack = << >> /\ p.roots = 0 /\ name \in Roots
         /\ role = "entry" => p.stack # << >> /\ top = "root" /\ name = EntryOf(p.root)
         /\ role \in {"loc", "lastmod"} => p.stack # << >> /\ top = "entry" /\ name = role
         /\ role = "ignored" => /\ p.stack # << >>
                                /\ \/ top = "entry" /\ name \notin {"loc", "lastmod", "url", "sitemap"}
                                   \/ top \notin {"root", "entry", "loc", "lastmod"}
<1> DEFINE parent == IF p.stack = << >> THEN "none" ELSE Last(p.stack).role
<1>1. RoleIn(p, name) =
        CASE parent = "none"  -> IF p.roots = 0 /\ name \in Roots THEN "root" ELSE "extra"
          [] parent = "root"  -> IF name = EntryOf(p.root) THEN "entry" ELSE "stray"
          [] parent = "entry" -> IF name \in {"loc", "lastmod"} THEN name ELSE IF name \in {"url", "sitemap"} THEN "stray" ELSE "ignored"
          [] parent \in {"loc", "lastmod"} -> "stray"
          [] OTHER            -> "ignored"
  BY DEF RoleIn
<1>2. (parent = "none") <=> (p.stack = << >>)
  OBVIOUS
<1>3. p.stack # << >> => Last(p.stack).role = parent
  OBVIOUS
<1> HIDE DEF parent
<1>4. CASE parent = "none"
  BY <1>1, <1>2, <1>3, <1>4
<1>5. CASE parent = "root"
  BY <1>1, <1>2, <1>3, <1>5
<1>6. CASE parent = "entry"
  BY <1>1, <1>2, <1>3, <1>6
<1>7. CASE parent \notin {"none", "root", "entry"}
  BY <1>1, <1>2, <1>3, <1>7
<1> QED BY <1>4, <1>5, <1>6, <1>7

\* The opening of an element that is no structural error.
LEMMA OpenedPlain ==
  ASSUME NEW p \in ParserType, NEW name \in Text, ~Opened(p, name).structural
  PROVE  LET role == RoleIn(p, name)
             q == Opened(p, name) IN
         /\ role \in {"root", "entry", "loc", "lastmod", "ignored"}
         /\ \E frame \in Frame :
              /\ frame.name = name /\ frame.role = role /\ q.stack = Append(p.stack, frame)
              /\ role = "entry" /\ q.truncated = "" => frame.retained
         /\ q.urls = p.urls /\ q.children = p.children /\ q.errors = p.errors /\ q.halted = p.halted
         /\ role = "root" => q.root = name /\ q.roots = 1
         /\ role # "root" => q.root = p.root /\ q.roots = p.roots
         /\ role = "entry" => q.locs = << >>
         /\ role # "entry" => q.locs = p.locs
         /\ role = "loc" => q.text = ""
         /\ q.truncated = "" => p.truncated = ""
<1> DEFINE role == RoleIn(p, name)
           e == Entered(p, name, role)
           frame == [name |-> name, role |-> role, retained |-> e.entries <= MaxEntries]
           q == Opened(p, name)
<1>1. q = IF Len(p.stack) >= MaxXmlDepth THEN [StructuralError(e) EXCEPT !.halted = TRUE]
          ELSE [e EXCEPT !.stack = Append(@, frame)]
  BY OpenedIs
<1>0. role \in {"root", "extra", "entry", "stray", "loc", "lastmod", "ignored"}
  BY RolesAre
<1> HIDE DEF role
<1>2. role \in Text
  BY <1>0 DEF Text, Words
<1>3. e \in ParserType
  BY <1>2, EnteredType
<1>4. ~(Len(p.stack) >= MaxXmlDepth)
  <2> SUFFICES ASSUME Len(p.stack) >= MaxXmlDepth PROVE FALSE
    OBVIOUS
  <2> HIDE DEF e
  <2>1. StructuralError(e) \in ParserType /\ StructuralError(e).structural
    BY <1>3, StructuralErrorType
  <2>2. [StructuralError(e) EXCEPT !.halted = TRUE].structural
    BY <2>1 DEF ParserType
  <2> QED BY <1>1, <2>2
<1>5. frame \in Frame
  BY <1>2 DEF Frame
<1>6. /\ q.stack = Append(e.stack, frame) /\ q.urls = e.urls /\ q.children = e.children
      /\ q.errors = e.errors /\ q.halted = e.halted /\ q.root = e.root /\ q.roots = e.roots
      /\ q.locs = e.locs /\ q.text = e.text /\ q.truncated = e.truncated /\ q.structural = e.structural
  <2>1. q = [e EXCEPT !.stack = Append(@, frame)]
    BY <1>1, <1>4
  <2> HIDE DEF e, frame, q
  <2> QED BY <1>3, <2>1 DEF ParserType
<1>7. role \notin {"extra", "stray"}
  <2> SUFFICES ASSUME role \in {"extra", "stray"} PROVE FALSE
    OBVIOUS
  <2>1. StructuralError(p) \in ParserType /\ StructuralError(p).structural
    BY StructuralErrorType
  <2>2. e.structural
    <3>1. [StructuralError(p) EXCEPT !.roots = @ + 1].structural
      BY <2>1 DEF ParserType
    <3> QED BY <2>1, <3>1 DEF Entered
  <2> QED BY <1>6, <2>2
<1>8. /\ e.stack = p.stack /\ e.urls = p.urls /\ e.children = p.children /\ e.errors = p.errors /\ e.halted = p.halted
      /\ role = "root" => e.root = name /\ e.roots = 1
      /\ role # "root" => e.root = p.root /\ e.roots = p.roots
      /\ role = "entry" => e.locs = << >>
      /\ role # "entry" => e.locs = p.locs
      /\ role = "loc" => e.text = ""
      /\ e.truncated = "" => p.truncated = ""
      /\ role = "entry" /\ e.truncated = "" => e.entries <= MaxEntries
  <2>1. CASE role = "root"
    BY <2>1 DEF Entered, ParserType
  <2>2. CASE role = "entry"
    <3> DEFINE more == [p EXCEPT !.entries = @ + 1, !.locs = << >>, !.dates = 0]
    <3>1. e = IF more.entries > MaxEntries THEN Cut(more, "entries") ELSE more
      BY <2>2 DEF Entered
    <3>2. /\ more.stack = p.stack /\ more.urls = p.urls /\ more.children = p.children
          /\ more.errors = p.errors /\ more.halted = p.halted /\ more.root = p.root /\ more.roots = p.roots
          /\ more.locs = << >> /\ more.truncated = p.truncated /\ more.entries = p.entries + 1
      BY DEF ParserType
    <3>3. more.entries \in Nat /\ MaxEntries \in Nat
      BY <3>2, ParserParts, XmlAssumption
    <3>4. CASE more.entries > MaxEntries
      <4>1. e = [more EXCEPT !.truncated = IF more.truncated = "" THEN "entries" ELSE more.truncated]
        BY <3>1, <3>4 DEF Cut
      <4>2. /\ e.stack = more.stack /\ e.urls = more.urls /\ e.children = more.children /\ e.errors = more.errors
            /\ e.halted = more.halted /\ e.root = more.root /\ e.roots = more.roots /\ e.locs = more.locs
            /\ e.truncated = IF more.truncated = "" THEN "entries" ELSE more.truncated
        BY <4>1 DEF ParserType
      <4>3. e.truncated # ""
        BY <4>2
      <4> HIDE DEF more, e
      <4> QED BY <2>2, <3>2, <4>2, <4>3
    <3>5. CASE ~(more.entries > MaxEntries)
      <4>1. e = more
        BY <3>1, <3>5
      <4>2. e.entries <= MaxEntries
        <5> HIDE DEF more, e
        <5> QED BY <3>3, <3>5, <4>1
      <4> HIDE DEF more, e
      <4> QED BY <2>2, <3>2, <4>1, <4>2
    <3> QED BY <3>4, <3>5
  <2>3. CASE role \in {"loc", "lastmod"}
    <3>1. e = [p EXCEPT !.text = ""]
      BY <2>3 DEF Entered
    <3> HIDE DEF e
    <3> QED BY <2>3, <3>1 DEF ParserType
  <2>4. CASE role = "ignored"
    <3>1. e = p
      BY <2>4 DEF Entered
    <3> HIDE DEF e
    <3> QED BY <2>4, <3>1
  <2> QED BY <1>0, <1>7, <2>1, <2>2, <2>3, <2>4
<1>9. frame.name = name /\ frame.role = role /\ frame.retained = (e.entries <= MaxEntries)
  OBVIOUS
<1> HIDE DEF e, q, frame
<1>10. /\ frame \in Frame /\ frame.name = name /\ frame.role = role /\ q.stack = Append(p.stack, frame)
       /\ role = "entry" /\ q.truncated = "" => frame.retained
  BY <1>5, <1>6, <1>8, <1>9
<1>11. /\ role \in {"root", "entry", "loc", "lastmod", "ignored"}
       /\ q.urls = p.urls /\ q.children = p.children /\ q.errors = p.errors /\ q.halted = p.halted
       /\ role = "root" => q.root = name /\ q.roots = 1
       /\ role # "root" => q.root = p.root /\ q.roots = p.roots
       /\ role = "entry" => q.locs = << >>
       /\ role # "entry" => q.locs = p.locs
       /\ role = "loc" => q.text = ""
       /\ q.truncated = "" => p.truncated = ""
  BY <1>0, <1>6, <1>7, <1>8
<1> QED BY <1>10, <1>11 DEF q, role

\* Nothing is given up where nothing is left open.
LEMMA NothingGivenUp ==
  ASSUME NEW p \in ParserType
  PROVE  GivenUp(p, << >>) = p
<1>1. DOMAIN << >> = 1..0 /\ 0 \in Nat
  OBVIOUS
<1>2. PICK run : GivesUp(run, p, << >>, 0)
  BY <1>1, GivenUpRun
<1> QED BY <1>2 DEF GivesUp

\* A closing tag that is no structural error closes the top of the stack.
LEMMA ClosedPlain ==
  ASSUME NEW p \in ParserType, NEW name \in Text, ~Closed(p, name).structural
  PROVE  /\ p.stack # << >>
         /\ Closed(p, name) = CloseFrame([p EXCEPT !.stack = SubSeq(p.stack, 1, Len(p.stack) - 1)], Last(p.stack), TRUE)
<1> DEFINE depth == Len(p.stack)
           same == {i \in 1..depth : p.stack[i].name = name}
           told == IF depth = 0 \/ Last(p.stack).name # name THEN StructuralError(p) ELSE p
           i == CHOOSE i \in same : \A j \in same : j <= i
           given == GivenUp(told, LeftOpen(p, i))
           cut == [given EXCEPT !.stack = SubSeq(@, 1, i - 1)]
           q == Closed(p, name)
<1>1. q = IF same = {} THEN told ELSE CloseFrame(cut, p.stack[i], TRUE)
  BY DEF Closed, LeftOpen, GivenUp
<1>2. depth \in Nat /\ p.stack \in Seq(Frame)
  BY ParserParts
<1>3. ~told.structural
  <2> SUFFICES ASSUME told.structural PROVE FALSE
    OBVIOUS
  <2>1. told \in ParserType
    BY StructuralErrorType
  <2>2. CASE same = {}
    BY <1>1, <2>2
  <2>3. CASE same # {}
    <3>1. i \in 1..depth
      <4>1. depth \in Nat /\ same \in SUBSET (0..depth)
        BY <1>2
      <4> HIDE DEF same, depth
      <4>2. \E k \in same : \A j \in same : j <= k
        BY <2>3, <4>1, GreatestNumber
      <4>3. i \in same
        BY <4>2
      <4> QED BY <4>3 DEF same
    <3> HIDE DEF told, i, same
    <3> DEFINE frames == LeftOpen(p, i)
               N == depth - i
    <3>2. N \in Nat
      BY <1>2, <3>1
    <3>3. DOMAIN frames = 1..N
      <4>1. SubSeq(p.stack, i + 1, depth) \in Seq(Frame) /\ Len(SubSeq(p.stack, i + 1, depth)) = N
        BY <1>2, <3>1
      <4> QED BY <4>1 DEF LeftOpen, Reverse
    <3> HIDE DEF N, frames
    <3>4. GivenUp(told, frames) \in ParserType /\ GivenUp(told, frames).structural = told.structural
          /\ GivenUp(told, frames).stack = told.stack
      BY <2>1, <3>2, <3>3, GivenUpType
    <3>5. given \in ParserType /\ given.structural /\ given.stack = told.stack
      BY <3>4 DEF frames
    <3> HIDE DEF given
    <3>6. SubSeq(given.stack, 1, i - 1) \in Seq(Frame)
      <4>0. told.stack = p.stack
        BY StructuralErrorKeeps DEF told
      <4>1. given.stack \in Seq(Frame) /\ Len(given.stack) = depth
        BY <3>5, <4>0, ParserParts
      <4>2. i - 1 \in 0..depth
        BY <1>2, <3>1
      <4> QED BY <4>1, <4>2
    <3>7. cut \in ParserType
      BY <3>5, <3>6, ParserFields
    <3>8. cut.structural
      BY <3>5 DEF ParserType
    <3> DEFINE closed == CloseFrame(cut, p.stack[i], TRUE)
    <3> HIDE DEF cut
    <3>9. closed.structural
      BY <3>7, <3>8, CloseFrameKeeps
    <3> HIDE DEF closed
    <3> QED BY <1>1, <2>3, <3>9 DEF closed
  <2> QED BY <2>2, <2>3
<1>4. told = p /\ depth # 0 /\ Last(p.stack).name = name
  <2>1. StructuralError(p).structural
    BY StructuralErrorType
  <2> QED BY <1>3, <2>1
<1>5. p.stack # << >>
  BY <1>4
<1>6. Last(p.stack) = p.stack[depth] /\ depth \in Nat \ {0}
  BY <1>2, <1>5, WithoutTop
<1>7. depth \in same
  <2> HIDE DEF depth
  <2> QED BY <1>4, <1>6
<1>8. i = depth
  <2>1. \A j \in same : j <= depth /\ j \in Nat
    BY <1>2
  <2> HIDE DEF same, depth
  <2>2. i \in same /\ \A j \in same : j <= i
    BY <1>7, <2>1
  <2> HIDE DEF i
  <2>3. i \in Nat /\ i <= depth /\ depth <= i
    BY <1>7, <2>1, <2>2
  <2> QED BY <1>6, <2>3
<1>9. LeftOpen(p, depth) = << >>
  <2>1. SubSeq(p.stack, depth + 1, depth) = << >>
    BY <1>2
  <2>2. Reverse(<< >>) = << >>
    BY DEF Reverse
  <2> QED BY <2>1, <2>2 DEF LeftOpen
<1>10. given = p
  <2> HIDE DEF i, told, depth
  <2> QED BY <1>4, <1>8, <1>9, NothingGivenUp
<1>11. cut = [p EXCEPT !.stack = SubSeq(p.stack, 1, depth - 1)]
  <2> HIDE DEF i, told, depth, given
  <2> QED BY <1>8, <1>10
<1>12. q = CloseFrame(cut, p.stack[i], TRUE)
  <2> HIDE DEF i, told, depth, given, cut, q
  <2> QED BY <1>1, <1>7
<1>13. q = CloseFrame([p EXCEPT !.stack = SubSeq(p.stack, 1, depth - 1)], Last(p.stack), TRUE)
  <2> HIDE DEF i, told, depth, given, cut, q
  <2> QED BY <1>6, <1>8, <1>11, <1>12
<1> QED BY <1>5, <1>13 DEF q, depth

\* What closing the top does to what was read.
LEMMA ClosedReads ==
  ASSUME NEW p \in ParserType, NEW name \in Text, ~Closed(p, name).structural
  PROVE  LET q   == Closed(p, name)
             top == Last(p.stack) IN
         /\ p.stack # << >> /\ q.stack = SubSeq(p.stack, 1, Len(p.stack) - 1)
         /\ q.root = p.root /\ q.roots = p.roots /\ q.halted = p.halted /\ q.truncated = p.truncated
         /\ q.text = p.text /\ (p.errors => q.errors) /\ (top.role = "root" => q.closed)
         /\ top.role = "loc" /\ p.text # "" => q.locs = Append(p.locs, p.text)
         /\ ~(top.role = "loc" /\ p.text # "") => q.locs = p.locs
         /\ ~(top.role = "entry" /\ top.retained) => q.urls = p.urls /\ q.children = p.children
         /\ top.role = "entry" /\ top.retained =>
              IF p.locs = << >> THEN q.errors /\ q.urls = p.urls /\ q.children = p.children
              ELSE /\ Len(p.locs) > 1 => q.errors
                   /\ IF p.root = "sitemapindex" THEN q.children = Append(p.children, Head(p.locs)) /\ q.urls = p.urls
                                                 ELSE q.urls = Append(p.urls, Head(p.locs)) /\ q.children = p.children
<1> DEFINE q == Closed(p, name)
           top == Last(p.stack)
           c == [p EXCEPT !.stack = SubSeq(p.stack, 1, Len(p.stack) - 1)]
<1>1. p.stack # << >> /\ q = CloseFrame(c, top, TRUE)
  BY ClosedPlain
<1>2. SubSeq(p.stack, 1, Len(p.stack) - 1) \in Seq(Frame)
  BY <1>1, ParserParts, WithoutTop
<1>3. c \in ParserType
  BY <1>2, ParserFields
<1>4. /\ c.stack = SubSeq(p.stack, 1, Len(p.stack) - 1) /\ c.root = p.root /\ c.roots = p.roots
      /\ c.halted = p.halted /\ c.truncated = p.truncated /\ c.text = p.text /\ c.errors = p.errors
      /\ c.locs = p.locs /\ c.urls = p.urls /\ c.children = p.children
  BY DEF ParserType
<1> HIDE DEF c, top
<1>5. /\ q.stack = c.stack /\ q.root = c.root /\ q.roots = c.roots /\ q.halted = c.halted
      /\ q.truncated = c.truncated /\ q.text = c.text /\ (c.errors => q.errors)
  <2> DEFINE r == CloseFrame(c, top, TRUE)
  <2>1. /\ r.stack = c.stack /\ r.root = c.root /\ r.roots = c.roots /\ r.halted = c.halted
        /\ r.truncated = c.truncated /\ r.text = c.text /\ (c.errors => r.errors)
    BY <1>3 DEF CloseFrame, CloseEntry, ParserType
  <2>2. q = r
    BY <1>1
  <2> HIDE DEF q, r
  <2> QED BY <2>1, <2>2
<1> HIDE DEF q
<1>6. CASE top.role = "loc" /\ c.text # ""
  <2>1. q = [c EXCEPT !.locs = Append(@, c.text)]
    BY <1>1, <1>6 DEF CloseFrame
  <2>2. q.locs = Append(c.locs, c.text) /\ q.urls = c.urls /\ q.children = c.children
    BY <1>3, <2>1 DEF ParserType
  <2> QED BY <1>1, <1>4, <1>5, <1>6, <2>2 DEF q, top
<1>7. CASE top.role = "entry" /\ top.retained
  <2>0. top.role # "loc"
    BY <1>7
  <2>1. q = CloseEntry(c)
    BY <1>1, <1>7 DEF CloseFrame
  <2>2. q.locs = c.locs
    BY <1>3, <2>1 DEF CloseEntry, ParserType
  <2>3. CASE c.locs = << >>
    <3>1. q = [c EXCEPT !.errors = TRUE]
      BY <2>1, <2>3 DEF CloseEntry
    <3>2. q.errors /\ q.urls = c.urls /\ q.children = c.children
      BY <1>3, <3>1 DEF ParserType
    <3> QED BY <1>1, <1>4, <1>5, <1>7, <2>0, <2>2, <2>3, <3>2 DEF q, top
  <2>4. CASE c.locs # << >>
    <3> DEFINE told == [c EXCEPT !.errors = @ \/ Len(c.locs) > 1 \/ c.dates > 1]
    <3>1. q = IF c.root = "sitemapindex" THEN [told EXCEPT !.children = Append(@, Head(c.locs))]
                                         ELSE [told EXCEPT !.urls = Append(@, Head(c.locs))]
      BY <2>1, <2>4 DEF CloseEntry
    <3>2. Len(c.locs) > 1 => q.errors
      BY <1>3, <3>1 DEF ParserType
    <3>3. IF c.root = "sitemapindex" THEN q.children = Append(c.children, Head(c.locs)) /\ q.urls = c.urls
                                     ELSE q.urls = Append(c.urls, Head(c.locs)) /\ q.children = c.children
      BY <1>3, <3>1 DEF ParserType
    <3> HIDE DEF told
    <3> QED BY <1>1, <1>4, <1>5, <1>7, <2>0, <2>2, <2>4, <3>2, <3>3 DEF q, top
  <2> QED BY <2>3, <2>4
<1>8. CASE ~(top.role = "loc" /\ c.text # "") /\ ~(top.role = "entry" /\ top.retained)
  <2>1. q.locs = c.locs /\ q.urls = c.urls /\ q.children = c.children
    BY <1>1, <1>3, <1>8 DEF CloseFrame, ParserType
  <2>2. top.role = "root" => q.closed
    <3> SUFFICES ASSUME top.role = "root" PROVE q.closed
      OBVIOUS
    <3>1. q = [c EXCEPT !.closed = TRUE]
      BY <1>1, <1>8 DEF CloseFrame
    <3> QED BY <1>3, <3>1 DEF ParserType
  <2> QED BY <1>1, <1>4, <1>5, <1>8, <2>1, <2>2 DEF q, top
<1> QED BY <1>6, <1>7, <1>8

\* A text that is no structural error.
LEMMA TextPlain ==
  ASSUME NEW p \in ParserType, NEW value \in Text, ~TextRead(p, value).structural
  PROVE  LET q   == TextRead(p, value)
             top == Last(p.stack).role IN
         /\ q.stack = p.stack /\ q.root = p.root /\ q.roots = p.roots /\ q.halted = p.halted
         /\ q.truncated = p.truncated /\ q.locs = p.locs /\ q.urls = p.urls /\ q.children = p.children
         /\ q.closed = p.closed /\ (p.errors => q.errors)
         /\ p.stack # << >> /\ top \in {"loc", "lastmod"} => q.text = value
<1> DEFINE role == IF p.stack = << >> THEN "none" ELSE Last(p.stack).role
           q == TextRead(p, value)
<1>1. q = CASE role = "none" /\ value # ""  -> StructuralError(p)
            [] role \in {"loc", "lastmod"}  -> [p EXCEPT !.text = value]
            [] role = "entry" /\ value # "" -> [p EXCEPT !.errors = TRUE]
            [] OTHER                        -> p
  BY DEF TextRead
<1>2. p.stack # << >> => Last(p.stack).role = role
  OBVIOUS
<1> HIDE DEF role
<1>3. ~(role = "none" /\ value # "")
  BY <1>1, StructuralErrorType
<1> HIDE DEF q
<1>4. CASE role \in {"loc", "lastmod"}
  <2>1. q = [p EXCEPT !.text = value]
    BY <1>1, <1>3, <1>4
  <2> QED BY <1>2, <2>1 DEF ParserType, q
<1>5. CASE role = "entry" /\ value # ""
  <2>1. q = [p EXCEPT !.errors = TRUE]
    BY <1>1, <1>3, <1>5
  <2> QED BY <1>2, <1>5, <2>1 DEF ParserType, q
<1>6. CASE role \notin {"loc", "lastmod"} /\ ~(role = "entry" /\ value # "")
  <2>1. q = p
    BY <1>1, <1>3, <1>6
  <2> QED BY <1>2, <1>6, <2>1 DEF q
<1> QED BY <1>4, <1>5, <1>6

\* A token that is no structural error: the count of the tokens aside.
LEMMA ReadPlain ==
  ASSUME NEW p \in ParserType, NEW token \in Token, ~ReadToken(p, token).structural, ~p.halted
  PROVE  LET q == [p EXCEPT !.tokens = @ + 1] IN
         /\ q \in ParserType /\ token.type \in {"text", "open", "close"}
         /\ token.type = "text"  => ReadToken(p, token) = TextRead(q, token.value)
         /\ token.type = "open"  => ReadToken(p, token) = Opened(q, token.name)
         /\ token.type = "close" => ReadToken(p, token) = Closed(q, token.name)
<1> DEFINE q == [p EXCEPT !.tokens = @ + 1]
           err == StructuralError(q)
           over == [Cut(err, "tokens") EXCEPT !.halted = TRUE]
           inner ==
             CASE token.type = "error"   -> [err EXCEPT !.halted = TRUE]
               [] token.type = "invalid" -> err
               [] token.type = "text"    -> TextRead(q, token.value)
               [] token.type = "open"    -> Opened(q, token.name)
               [] token.type = "close"   -> Closed(q, token.name)
           r == ReadToken(p, token)
<1>1. q \in ParserType
  <2>1. p.tokens + 1 \in Nat
    BY ParserParts
  <2> QED BY <2>1, ParserFields
<1>2. token.type \in {"open", "close", "text", "invalid", "error"}
  BY DEF Token
<1>3. q.tokens \in Nat /\ MaxTokens \in Nat
  BY <1>1, ParserParts, XmlAssumption
<1>4. r = CASE p.halted -> p
            [] ~p.halted /\ q.tokens > MaxTokens -> over
            [] ~p.halted /\ q.tokens <= MaxTokens -> inner
  BY DEF ReadToken
<1> HIDE DEF q
<1>5. err \in ParserType /\ err.structural
  BY <1>1, StructuralErrorType
<1>6. over.structural /\ [err EXCEPT !.halted = TRUE].structural
  <2> HIDE DEF err
  <2>1. "tokens" \in Text
    BY DEF Text, Words
  <2>2. Cut(err, "tokens") \in ParserType
    BY <1>5, <2>1, CutType
  <2>3. Cut(err, "tokens").structural
    BY <1>5 DEF Cut, ParserType
  <2>4. over.structural
    BY <2>2, <2>3 DEF ParserType
  <2>5. [err EXCEPT !.halted = TRUE].structural
    BY <1>5 DEF ParserType
  <2> QED BY <2>4, <2>5
<1>7. r = inner
  <2> HIDE DEF inner, over, r
  <2>1. q.tokens > MaxTokens \/ q.tokens <= MaxTokens
    BY <1>3
  <2>2. ~(q.tokens > MaxTokens)
    BY <1>3, <1>4, <1>6 DEF r
  <2> QED BY <1>3, <1>4, <2>1, <2>2
<1>8. token.type \notin {"error", "invalid"}
  <2> HIDE DEF err
  <2> QED BY <1>5, <1>6, <1>7
<1>9. /\ token.type = "text"  => r = TextRead(q, token.value)
      /\ token.type = "open"  => r = Opened(q, token.name)
      /\ token.type = "close" => r = Closed(q, token.name)
  <2> HIDE DEF r, err
  <2> QED BY <1>7
<1> HIDE DEF r
<1> QED BY <1>1, <1>2, <1>8, <1>9 DEF q, r

-----------------------------------------------------------------------------
(***************************************************************************)
(* What the parser has read after n tokens, as long as nothing was a       *)
(* structural error, is what the document names up to there.               *)
(***************************************************************************)
NamedTo(tokens, n) == {tokens[i].value : i \in {i \in 1..n : Names(tokens, i)}}

\* What is read of the entry that is open.
Pending(p) ==
  (IF Len(p.stack) >= 2 THEN Range(p.locs) ELSE {}) \cup (IF LocOpen(p.stack) /\ p.text # "" THEN {p.text} ELSE {})
ReadOff(p) == Range(p.urls) \cup Range(p.children) \cup Pending(p)

Rooted(tokens, p, n, pos) ==
  /\ p.roots = 0 => /\ p.stack = << >> /\ p.urls = << >> /\ p.children = << >>
                    /\ \A i \in 1..n : tokens[i].type # "open"
  /\ p.roots # 0 => /\ p.roots = 1 /\ p.root \in Roots
                    /\ \E j \in 1..n : IsRoot(tokens, j) /\ tokens[j].name = p.root
  /\ Len(p.stack) >= 1 => IsRoot(tokens, pos[1])
  /\ p.root = "sitemapindex" => p.urls = << >>
  /\ p.root # "sitemapindex" => p.children = << >>
  /\ p.roots # 0 /\ p.stack = << >> => p.closed

\* The text that is held is that of the location that was opened last.
Held(tokens, p, n, pos) ==
  LocOpen(p.stack) => \/ pos[3] = n /\ p.text = ""
                      \/ pos[3] = n - 1 /\ tokens[n].type = "text" /\ p.text = tokens[n].value

\* Nothing that is named is missing, unless the parser says so.
NoneMissing(tokens, p, n) ==
  ~p.errors /\ p.truncated = "" =>
    NamedTo(tokens, n) \subseteq ReadOff(p) /\ (Len(p.stack) >= 2 => p.stack[2].retained)

ParserInv(tokens, p, n) ==
  /\ ~p.halted /\ Shaped(p.stack, p.root)
  /\ \E pos : Placed(tokens, p.stack, n, pos) /\ Rooted(tokens, p, n, pos) /\ Held(tokens, p, n, pos)
  /\ ReadOff(p) \subseteq NamedTo(tokens, n)
  /\ NoneMissing(tokens, p, n)

LEMMA NamedStep ==
  ASSUME NEW tokens, NEW n \in Nat \ {0}
  PROVE  /\ Names(tokens, n)  => NamedTo(tokens, n) = NamedTo(tokens, n - 1) \cup {tokens[n].value}
         /\ ~Names(tokens, n) => NamedTo(tokens, n) = NamedTo(tokens, n - 1)
<1>1. 1..n = (1..(n - 1)) \cup {n} /\ n \notin 1..(n - 1)
  OBVIOUS
<1>2. Names(tokens, n)  => {i \in 1..n : Names(tokens, i)} = {i \in 1..(n - 1) : Names(tokens, i)} \cup {n}
  BY <1>1
<1>3. ~Names(tokens, n) => {i \in 1..n : Names(tokens, i)} = {i \in 1..(n - 1) : Names(tokens, i)}
  BY <1>1
<1> QED BY <1>2, <1>3 DEF NamedTo

LEMMA RangeOf ==
  /\ Range(<< >>) = {}
  /\ \A s \in Seq(Text), x \in Text : Range(Append(s, x)) = Range(s) \cup {x}
  /\ \A s \in Seq(Text) : s # << >> => Head(s) \in Range(s) /\ (~(Len(s) > 1) => Range(s) = {Head(s)})
<1>1. Range(<< >>) = {}
  BY DEF Range
<1>2. ASSUME NEW s \in Seq(Text), NEW x \in Text
      PROVE  Range(Append(s, x)) = Range(s) \cup {x}
  <2> DEFINE d == Len(s)
             a == Append(s, x)
  <2>1. d \in Nat /\ DOMAIN s = 1..d /\ DOMAIN a = 1..(d + 1)
    OBVIOUS
  <2>2. a[d + 1] = x /\ \A k \in 1..d : a[k] = s[k]
    OBVIOUS
  <2>3. 1..(d + 1) = (1..d) \cup {d + 1}
    BY <2>1
  <2> HIDE DEF d, a
  <2> QED BY <2>1, <2>2, <2>3 DEF Range, a
<1>3. ASSUME NEW s \in Seq(Text), s # << >>
      PROVE  Head(s) \in Range(s) /\ (~(Len(s) > 1) => Range(s) = {Head(s)})
  <2>1. Len(s) \in Nat /\ Len(s) # 0 /\ DOMAIN s = 1..Len(s) /\ Head(s) = s[1]
    BY <1>3
  <2>2. Head(s) \in Range(s)
    BY <2>1 DEF Range
  <2>3. ~(Len(s) > 1) => DOMAIN s = {1}
    BY <2>1
  <2> QED BY <2>1, <2>2, <2>3 DEF Range
<1> QED BY <1>1, <1>2, <1>3

\* The parser at its start.
LEMMA ParserInvStart ==
  ASSUME NEW tokens
  PROVE  ParserInv(tokens, ParserStart, 0)
<1> DEFINE p == ParserStart
           pos == << >>
<1>1. /\ p.stack = << >> /\ p.root = "" /\ p.roots = 0 /\ p.urls = << >> /\ p.children = << >>
      /\ ~p.halted /\ p.text = ""
  BY DEF ParserStart
<1>2. Len(<< >>) = 0 /\ ~(Len(<< >>) >= 1) /\ ~(Len(<< >>) >= 2) /\ ~(Len(<< >>) >= 3) /\ 4..Len(<< >>) = {}
      /\ 1..Len(<< >>) = {} /\ Len(<< >>) # 3
  OBVIOUS
<1>3. \A k \in 1..0 : FALSE
  OBVIOUS
<1> HIDE DEF p
<1>4. Shaped(p.stack, p.root)
  BY <1>1, <1>2 DEF Shaped
<1>5. Placed(tokens, p.stack, 0, pos)
  <2>1. pos \in [1..Len(<< >>) -> 1..0]
    BY <1>2
  <2>2. Nesting(tokens, 0) = Len(<< >>)
    BY <1>2, NestingStart
  <2> QED BY <1>1, <1>2, <1>3, <2>1, <2>2 DEF Placed
<1>6. Rooted(tokens, p, 0, pos) /\ Held(tokens, p, 0, pos)
  BY <1>1, <1>2, <1>3 DEF Rooted, Held, LocOpen
<1>7. ReadOff(p) = {}
  BY <1>1, <1>2, RangeOf DEF ReadOff, Pending, LocOpen
<1>8. NamedTo(tokens, 0) = {}
  <2>1. {i \in 1..0 : Names(tokens, i)} = {}
    BY <1>3
  <2> QED BY <2>1 DEF NamedTo
<1>9. NoneMissing(tokens, p, 0)
  BY <1>1, <1>2, <1>7, <1>8 DEF NoneMissing
<1>10. ParserInv(tokens, p, 0)
  BY <1>1, <1>4, <1>5, <1>6, <1>7, <1>8, <1>9 DEF ParserInv
<1> QED BY <1>10 DEF p

\* Only what the parser has read counts.
LEMMA ParserInvOf ==
  ASSUME NEW tokens, NEW n, NEW p \in ParserType, ParserInv(tokens, p, n), NEW q \in ParserType,
         q.stack = p.stack, q.root = p.root, q.roots = p.roots, q.halted = p.halted, q.truncated = p.truncated,
         q.errors = p.errors, q.locs = p.locs, q.urls = p.urls, q.children = p.children, q.text = p.text,
         q.closed = p.closed
  PROVE  ParserInv(tokens, q, n)
<1>1. ReadOff(q) = ReadOff(p)
  BY DEF ReadOff, Pending
<1>2. NoneMissing(tokens, q, n)
  BY <1>1 DEF ParserInv, NoneMissing
<1>3. ASSUME NEW pos, Placed(tokens, p.stack, n, pos), Rooted(tokens, p, n, pos), Held(tokens, p, n, pos)
      PROVE  Placed(tokens, q.stack, n, pos) /\ Rooted(tokens, q, n, pos) /\ Held(tokens, q, n, pos)
  <2>1. Rooted(tokens, q, n, pos)
    BY <1>3 DEF Rooted
  <2>2. Held(tokens, q, n, pos)
    BY <1>3 DEF Held
  <2> QED BY <1>3, <2>1, <2>2
<1> QED BY <1>1, <1>2, <1>3 DEF ParserInv

\* One more element on the stack.
LEMMA OneMore ==
  ASSUME NEW stack \in Seq(Frame), NEW frame \in Frame
  PROVE  LET more == Append(stack, frame) IN
         /\ more \in Seq(Frame) /\ Len(stack) \in Nat /\ Len(more) = Len(stack) + 1
         /\ more[Len(stack) + 1] = frame /\ \A k \in 1..Len(stack) : more[k] = stack[k]
OBVIOUS

\* The few depths that matter, told apart without arithmetic.
Sized(k) ==
  /\ k = 0 => k # 1 /\ k # 2 /\ k # 3 /\ k + 1 = 1 /\ ~(k >= 1) /\ ~(k >= 2) /\ ~(k >= 3) /\ 4..k = {}
  /\ k = 1 => k # 2 /\ k # 3 /\ k + 1 = 2 /\ k >= 1 /\ ~(k >= 2) /\ ~(k >= 3) /\ 4..k = {} /\ 1 \in 1..k
  /\ k = 2 => /\ k # 3 /\ k + 1 = 3 /\ k >= 1 /\ k >= 2 /\ ~(k >= 3) /\ 4..k = {}
              /\ 1 \in 1..k /\ 2 \in 1..k
  /\ k = 3 => k >= 1 /\ k >= 2 /\ k >= 3 /\ 4..k = {} /\ 1 \in 1..k /\ 2 \in 1..k /\ 3 \in 1..k
  /\ k >= 3 => /\ k >= 1 /\ k >= 2 /\ k # 0 /\ k # 1 /\ k # 2 /\ k + 1 # 3
               /\ 1 \in 1..k /\ 2 \in 1..k /\ 3 \in 1..k
  /\ k >= 2 => k >= 1 /\ k # 0 /\ k # 1 /\ 1 \in 1..k /\ 2 \in 1..k
  /\ k >= 1 => k # 0 /\ 1 \in 1..k
  /\ k + 1 = 3 => k = 2

LEMMA Sizes ==
  ASSUME NEW k \in Nat
  PROVE  Sized(k)
<1>1. k = 0 => k # 1 /\ k # 2 /\ k # 3 /\ k + 1 = 1 /\ ~(k >= 1) /\ ~(k >= 2) /\ ~(k >= 3) /\ 4..k = {}
  OBVIOUS
<1>2. k = 1 => k # 2 /\ k # 3 /\ k + 1 = 2 /\ k >= 1 /\ ~(k >= 2) /\ ~(k >= 3) /\ 4..k = {} /\ 1 \in 1..k
  OBVIOUS
<1>3. k = 2 => /\ k # 3 /\ k + 1 = 3 /\ k >= 1 /\ k >= 2 /\ ~(k >= 3) /\ 4..k = {}
               /\ 1 \in 1..k /\ 2 \in 1..k
  OBVIOUS
<1>4. k = 3 => k >= 1 /\ k >= 2 /\ k >= 3 /\ 4..k = {} /\ 1 \in 1..k /\ 2 \in 1..k /\ 3 \in 1..k
  OBVIOUS
<1>5. k >= 3 => /\ k >= 1 /\ k >= 2 /\ k # 0 /\ k # 1 /\ k # 2 /\ k + 1 # 3
                /\ 1 \in 1..k /\ 2 \in 1..k /\ 3 \in 1..k
  OBVIOUS
<1>6. k >= 2 => k >= 1 /\ k # 0 /\ k # 1 /\ 1 \in 1..k /\ 2 \in 1..k
  OBVIOUS
<1>7. k >= 1 => k # 0 /\ 1 \in 1..k
  OBVIOUS
<1>8. k + 1 = 3 => k = 2
  OBVIOUS
<1> QED BY <1>1, <1>2, <1>3, <1>4, <1>5, <1>6, <1>7, <1>8 DEF Sized

LEMMA ParserInvOpen ==
  ASSUME NEW tokens, Scanned(tokens), NEW n \in 1..Len(tokens), tokens[n].type = "open",
         NEW p \in ParserType, ParserInv(tokens, p, n - 1),
         ~Opened(p, tokens[n].name).structural
  PROVE  ParserInv(tokens, Opened(p, tokens[n].name), n)
<1> DEFINE name == tokens[n].name
           q == Opened(p, name)
           role == RoleIn(p, name)
           stack == p.stack
           d == Len(stack)
<1>1. tokens \in Seq(Token) /\ name \in Text /\ n \in Nat \ {0} /\ n - 1 \in Nat
  <2>1. tokens \in Seq(Token) /\ tokens[n] \in Token
    BY DEF Scanned
  <2> QED BY <2>1 DEF Token, Text
<1>2. /\ ~p.halted /\ Shaped(stack, p.root) /\ ReadOff(p) \subseteq NamedTo(tokens, n - 1)
      /\ NoneMissing(tokens, p, n - 1)
  BY DEF ParserInv
<1>3. PICK pos : Placed(tokens, stack, n - 1, pos) /\ Rooted(tokens, p, n - 1, pos) /\ Held(tokens, p, n - 1, pos)
  BY DEF ParserInv
<1>4. stack \in Seq(Frame) /\ d \in Nat
  BY ParserParts
<1>5. PICK frame \in Frame : /\ frame.name = name /\ frame.role = role /\ q.stack = Append(stack, frame)
                             /\ role = "entry" /\ q.truncated = "" => frame.retained
  BY <1>1, OpenedPlain
<1>6. /\ role \in {"root", "entry", "loc", "lastmod", "ignored"}
      /\ q.urls = p.urls /\ q.children = p.children /\ q.errors = p.errors /\ q.halted = p.halted
      /\ role = "root" => q.root = name /\ q.roots = 1
      /\ role # "root" => q.root = p.root /\ q.roots = p.roots
      /\ role = "entry" => q.locs = << >>
      /\ role # "entry" => q.locs = p.locs
      /\ role = "loc" => q.text = ""
      /\ q.truncated = "" => p.truncated = ""
  BY <1>1, OpenedPlain
<1>7. stack # << >> =>
        /\ Last(stack).role \in {"root", "entry", "loc", "lastmod", "ignored"}
        /\ Last(stack).role = "root" <=> d = 1
        /\ Last(stack).role = "entry" <=> d = 2
        /\ Last(stack).role = "ignored" => d >= 3 /\ stack[3].role = "ignored"
  BY <1>2, <1>4, TopRole
<1>8. /\ role = "root" => d = 0 /\ p.roots = 0 /\ name \in Roots
      /\ role = "entry" => d = 1 /\ name = EntryOf(p.root)
      /\ role \in {"loc", "lastmod"} => d = 2 /\ name = role
      /\ role = "ignored" => \/ d = 2 /\ name \notin {"loc", "url", "sitemap"}
                             \/ d >= 3 /\ stack[3].role = "ignored"
  <2>1. stack # << >> => Last(stack).role # "none"
    BY <1>7
  <2>2. LET top  == Last(stack).role IN
        /\ role = "root" => stack = << >> /\ p.roots = 0 /\ name \in Roots
        /\ role = "entry" => stack # << >> /\ top = "root" /\ name = EntryOf(p.root)
        /\ role \in {"loc", "lastmod"} => stack # << >> /\ top = "entry" /\ name = role
        /\ role = "ignored" => /\ stack # << >>
                               /\ \/ top = "entry" /\ name \notin {"loc", "lastmod", "url", "sitemap"}
                                  \/ top \notin {"root", "entry", "loc", "lastmod"}
    BY <2>1, RoleParent
  <2>3. stack = << >> => d = 0
    OBVIOUS
  <2> HIDE DEF role, d, stack, name
  <2> QED BY <1>7, <2>2, <2>3
<1> DEFINE more == Append(stack, frame)
           spot == [k \in 1..(d + 1) |-> IF k = d + 1 THEN n ELSE pos[k]]
<1>9. /\ Len(more) = d + 1 /\ more[d + 1] = frame /\ \A k \in 1..d : more[k] = stack[k]
  BY <1>4, OneMore
<1>10. Placed(tokens, more, n, spot)
  BY <1>1, <1>3, <1>4, <1>5, PlacedOpen
<1>11. spot[d + 1] = n /\ \A k \in 1..d : spot[k] = pos[k]
  BY <1>4
<1>12. q.stack = more
  BY <1>5
<1>s. d \in Nat /\ d + 1 \in Nat /\ Sized(d) /\ Sized(d + 1)
  BY <1>4, Sizes
<1>t. 1 + 1 = 2 /\ 2 + 1 = 3 /\ 0 + 1 = 1
  OBVIOUS
<1>a. name = tokens[n].name
  OBVIOUS
<1> HIDE DEF q, role, stack, d, more, spot, name
<1>13. Shaped(more, q.root)
  <2>1. /\ d >= 1 => stack[1].role = "root" /\ stack[1].name = p.root
        /\ d >= 2 => stack[2].role = "entry" /\ stack[2].name = EntryOf(p.root)
        /\ d >= 3 => \/ stack[3].role \in {"loc", "lastmod"} /\ stack[3].name = stack[3].role /\ d = 3
                     \/ stack[3].role = "ignored" /\ stack[3].name \notin {"loc", "url", "sitemap"}
        /\ \A k \in 4..d : stack[k].role = "ignored"
    BY <1>2 DEF Shaped, d
  <2>2. CASE role = "root"
    <3>1. Len(more) = 1 /\ more[1] = frame
      BY <1>8, <1>9, <2>2
    <3>2. ~(Len(more) >= 2) /\ ~(Len(more) >= 3) /\ 4..Len(more) = {}
      BY <3>1
    <3>3. more[1].role = "root" /\ more[1].name = q.root
      BY <1>5, <1>6, <2>2, <3>1
    <3> QED BY <3>2, <3>3 DEF Shaped
  <2>3. CASE role = "entry"
    <3>1. Len(more) = 2 /\ more[2] = frame /\ more[1] = stack[1] /\ d = 1
      BY <1>8, <1>9, <2>3
    <3>2. ~(Len(more) >= 3) /\ 4..Len(more) = {}
      BY <3>1
    <3>3. more[1].role = "root" /\ more[1].name = q.root
      BY <1>6, <1>s, <2>1, <2>3, <3>1 DEF Sized
    <3>4. more[2].role = "entry" /\ more[2].name = EntryOf(q.root)
      BY <1>5, <1>6, <1>8, <2>3, <3>1
    <3> QED BY <3>2, <3>3, <3>4 DEF Shaped
  <2>4. CASE role \in {"loc", "lastmod"}
    <3>1. Len(more) = 3 /\ more[3] = frame /\ more[1] = stack[1] /\ more[2] = stack[2] /\ d = 2
      BY <1>8, <1>9, <2>4
    <3>2. 4..Len(more) = {}
      BY <3>1
    <3>3. q.root = p.root /\ d >= 1 /\ d >= 2
      BY <1>6, <1>s, <2>4, <3>1 DEF Sized
    <3>4. /\ more[1].role = "root" /\ more[1].name = q.root
          /\ more[2].role = "entry" /\ more[2].name = EntryOf(q.root)
      BY <2>1, <3>1, <3>3
    <3>5. more[3].role \in {"loc", "lastmod"} /\ more[3].name = more[3].role
      BY <1>5, <1>8, <2>4, <3>1
    <3> QED BY <3>1, <3>2, <3>4, <3>5 DEF Shaped
  <2>5. CASE role = "ignored" /\ d = 2
    <3>1. Len(more) = 3 /\ more[3] = frame /\ more[1] = stack[1] /\ more[2] = stack[2]
      BY <1>8, <1>9, <2>5
    <3>2. 4..Len(more) = {}
      BY <3>1
    <3>3. q.root = p.root /\ d >= 1 /\ d >= 2 /\ ~(d >= 3)
      BY <1>6, <1>s, <2>5 DEF Sized
    <3>4. /\ more[1].role = "root" /\ more[1].name = q.root
          /\ more[2].role = "entry" /\ more[2].name = EntryOf(q.root)
      BY <2>1, <3>1, <3>3
    <3>5. more[3].role = "ignored" /\ more[3].name \notin {"loc", "url", "sitemap"}
      BY <1>5, <1>8, <2>5, <3>1, <3>3
    <3> QED BY <3>2, <3>4, <3>5 DEF Shaped
  <2>6. CASE role = "ignored" /\ d >= 3
    <3>1. /\ 1 \in 1..d /\ 2 \in 1..d /\ 3 \in 1..d /\ d >= 1 /\ d >= 2 /\ d + 1 # 3 /\ stack[3].role = "ignored"
      BY <1>4, <1>8, <2>6
    <3>2. more[1] = stack[1] /\ more[2] = stack[2] /\ more[3] = stack[3]
      BY <1>9, <3>1
    <3>3. ASSUME NEW k \in 4..(d + 1) PROVE more[k].role = "ignored"
      <4>1. CASE k = d + 1
        BY <1>5, <1>9, <2>6, <4>1
      <4>2. CASE k # d + 1
        <5>1. k \in 4..d /\ k \in 1..d
          BY <1>4, <4>2
        <5> QED BY <1>9, <2>1, <5>1
      <4> QED BY <4>1, <4>2
    <3>4. more[3].role = "ignored" /\ more[3].name \notin {"loc", "url", "sitemap"}
      BY <2>1, <2>6, <3>1, <3>2
    <3>5. /\ more[1].role = "root" /\ more[1].name = p.root
          /\ more[2].role = "entry" /\ more[2].name = EntryOf(p.root)
      BY <2>1, <3>1, <3>2
    <3>6. q.root = p.root
      BY <1>6, <2>6
    <3> QED BY <1>9, <3>3, <3>4, <3>5, <3>6 DEF Shaped
  <2> QED BY <1>6, <1>8, <2>2, <2>3, <2>4, <2>5, <2>6
<1>14. Rooted(tokens, q, n, spot)
  <2>0. /\ p.roots = 0 => /\ stack = << >> /\ p.urls = << >> /\ p.children = << >>
                          /\ \A i \in 1..(n - 1) : tokens[i].type # "open"
        /\ p.roots # 0 => /\ p.roots = 1 /\ p.root \in Roots
                          /\ \E j \in 1..(n - 1) : IsRoot(tokens, j) /\ tokens[j].name = p.root
        /\ d >= 1 => IsRoot(tokens, pos[1])
        /\ p.root = "sitemapindex" => p.urls = << >>
        /\ p.root # "sitemapindex" => p.children = << >>
    BY <1>3 DEF Rooted, stack, d
  <2>a. q.stack # << >>
    <3>1. Len(more) # 0
      BY <1>9, <1>s
    <3> QED BY <1>12, <3>1
  <2>1. CASE role = "root"
    <3>1. IsRoot(tokens, n)
      BY <1>8, <2>0, <2>1 DEF IsRoot
    <3>2. spot[1] = n /\ d = 0 /\ n \in 1..n
      BY <1>1, <1>8, <1>11, <2>1
    <3>3. q.roots = 1 /\ q.root \in Roots /\ tokens[n].name = q.root /\ q.urls = << >> /\ q.children = << >>
      BY <1>6, <1>8, <1>a, <2>0, <2>1
    <3> QED BY <2>a, <3>1, <3>2, <3>3 DEF Rooted
  <2>2. CASE role # "root"
    <3>1. d >= 1 /\ spot[1] = pos[1]
      <4>1. d >= 1
        BY <1>6, <1>8, <1>s, <2>2 DEF Sized
      <4>2. 1 \in 1..d
        BY <1>4, <4>1
      <4> QED BY <1>11, <4>1, <4>2
    <3>2. p.roots # 0
      <4>1. stack = << >> => d = 0
        BY DEF d
      <4> QED BY <1>4, <2>0, <3>1, <4>1
    <3>3. \A j \in 1..(n - 1) : j \in 1..n
      BY <1>1
    <3>4. q.roots = p.roots /\ q.root = p.root /\ q.urls = p.urls /\ q.children = p.children
      BY <1>6, <2>2
    <3>5. \E j \in 1..n : IsRoot(tokens, j) /\ tokens[j].name = q.root
      BY <2>0, <3>2, <3>3, <3>4
    <3> QED BY <2>0, <2>a, <3>1, <3>2, <3>4, <3>5 DEF Rooted
  <2> QED BY <2>1, <2>2
<1>15. LocOpen(more) => role = "loc" /\ spot[3] = n
  <2> SUFFICES ASSUME LocOpen(more) PROVE role = "loc" /\ spot[3] = n
    OBVIOUS
  <2>1. d + 1 = 3 /\ more[3].role = "loc"
    BY <1>9 DEF LocOpen
  <2> QED BY <1>5, <1>9, <1>11, <2>1
<1>16. Held(tokens, q, n, spot)
  BY <1>6, <1>12, <1>15 DEF Held
<1>17. ReadOff(q) = ReadOff(p)
  <2>1. ~(LocOpen(stack))
    <3> SUFFICES ASSUME LocOpen(stack) PROVE FALSE
      OBVIOUS
    <3>1. d = 3 /\ stack[3].role = "loc"
      BY DEF LocOpen, d
    <3> QED BY <1>6, <1>8, <1>s, <3>1 DEF Sized
  <2>2. LocOpen(more) => q.text = ""
    BY <1>6, <1>15
  <2>3. Pending(p) = IF d >= 2 THEN Range(p.locs) ELSE {}
    BY <2>1 DEF Pending, stack, d
  <2>a. (d + 1 >= 2) <=> (d >= 1)
    BY <1>4 DEF d
  <2>4. Pending(q) = IF d >= 1 THEN Range(q.locs) ELSE {}
    BY <1>9, <1>12, <2>2, <2>a DEF Pending
  <2>5. Range(<< >>) = {}
    BY RangeOf
  <2>6. Pending(q) = Pending(p)
    <3>1. CASE role = "root"
      BY <1>8, <1>s, <2>3, <2>4, <3>1 DEF Sized
    <3>2. CASE role = "entry"
      BY <1>6, <1>8, <1>s, <2>3, <2>4, <2>5, <3>2 DEF Sized
    <3>3. CASE role \notin {"root", "entry"}
      <4>1. d >= 2 /\ d >= 1 /\ q.locs = p.locs
        BY <1>6, <1>8, <1>s, <3>3 DEF Sized
      <4> QED BY <2>3, <2>4, <4>1
    <3> QED BY <3>1, <3>2, <3>3
  <2> QED BY <1>6, <2>6 DEF ReadOff
<1>18. NamedTo(tokens, n) = NamedTo(tokens, n - 1)
  <2>1. ~Names(tokens, n)
    BY DEF Names
  <2> QED BY <1>1, <2>1, NamedStep
<1>19. NoneMissing(tokens, q, n)
  <2> SUFFICES ASSUME ~q.errors, q.truncated = ""
               PROVE  NamedTo(tokens, n) \subseteq ReadOff(q) /\ (Len(q.stack) >= 2 => q.stack[2].retained)
    BY DEF NoneMissing
  <2>1. ~p.errors /\ p.truncated = ""
    BY <1>6
  <2>2. NamedTo(tokens, n - 1) \subseteq ReadOff(p) /\ (d >= 2 => stack[2].retained)
    BY <1>2, <2>1 DEF NoneMissing, d, stack
  <2>3. ASSUME d + 1 >= 2 PROVE more[2].retained
    <3>1. CASE role = "root"
      <4>1. ~(d + 1 >= 2)
        BY <1>8, <1>t, <3>1, <1>s DEF Sized
      <4> QED BY <2>3, <4>1
    <3>2. CASE role = "entry"
      <4>1. d + 1 = 2
        BY <1>8, <1>t, <3>2
      <4>2. more[2] = frame
        BY <1>9, <4>1
      <4> QED BY <1>5, <3>2, <4>2
    <3>3. CASE role \notin {"root", "entry"}
      <4>1. d >= 2
        BY <1>6, <1>8, <1>s, <3>3 DEF Sized
      <4>2. 2 \in 1..d
        BY <1>s, <4>1 DEF Sized
      <4> QED BY <1>9, <2>2, <4>1, <4>2
    <3> QED BY <3>1, <3>2, <3>3
  <2> QED BY <1>9, <1>12, <1>17, <1>18, <2>2, <2>3
<1>20. ParserInv(tokens, q, n)
  <2>1. Placed(tokens, q.stack, n, spot) /\ Rooted(tokens, q, n, spot) /\ Held(tokens, q, n, spot)
    BY <1>10, <1>12, <1>14, <1>16
  <2>2. ~q.halted
    BY <1>2, <1>6
  <2> QED BY <1>2, <1>12, <1>13, <1>17, <1>18, <1>19, <2>1, <2>2 DEF ParserInv
<1> QED BY <1>20 DEF q, name

LEMMA ParserInvText ==
  ASSUME NEW tokens, Scanned(tokens), NEW n \in 1..Len(tokens), tokens[n].type = "text",
         NEW p \in ParserType, ParserInv(tokens, p, n - 1),
         ~TextRead(p, tokens[n].value).structural
  PROVE  ParserInv(tokens, TextRead(p, tokens[n].value), n)
<1> DEFINE value == tokens[n].value
           q == TextRead(p, value)
           stack == p.stack
           d == Len(stack)
<1>1. tokens \in Seq(Token) /\ value \in Text /\ n \in Nat \ {0} /\ n - 1 \in Nat
  <2>1. tokens \in Seq(Token) /\ tokens[n] \in Token
    BY DEF Scanned
  <2> QED BY <2>1 DEF Token, Text
<1>2. /\ ~p.halted /\ Shaped(stack, p.root) /\ ReadOff(p) \subseteq NamedTo(tokens, n - 1)
      /\ NoneMissing(tokens, p, n - 1)
  BY DEF ParserInv
<1>3. PICK pos : Placed(tokens, stack, n - 1, pos) /\ Rooted(tokens, p, n - 1, pos) /\ Held(tokens, p, n - 1, pos)
  BY DEF ParserInv
<1>4. stack \in Seq(Frame) /\ d \in Nat
  BY ParserParts
<1>5. /\ q.stack = stack /\ q.root = p.root /\ q.roots = p.roots /\ q.halted = p.halted
      /\ q.truncated = p.truncated /\ q.locs = p.locs /\ q.urls = p.urls /\ q.children = p.children
      /\ q.closed = p.closed /\ (p.errors => q.errors)
      /\ stack # << >> /\ Last(stack).role \in {"loc", "lastmod"} => q.text = value
  BY <1>1, TextPlain
<1>6. Placed(tokens, stack, n, pos)
  BY <1>1, <1>3, <1>4, PlacedText
<1>7. /\ p.roots = 0 => /\ stack = << >> /\ p.urls = << >> /\ p.children = << >>
                        /\ \A i \in 1..(n - 1) : tokens[i].type # "open"
      /\ p.roots # 0 => /\ p.roots = 1 /\ p.root \in Roots
                        /\ \E j \in 1..(n - 1) : IsRoot(tokens, j) /\ tokens[j].name = p.root
      /\ d >= 1 => IsRoot(tokens, pos[1])
      /\ p.root = "sitemapindex" => p.urls = << >>
      /\ p.root # "sitemapindex" => p.children = << >>
      /\ p.roots # 0 /\ stack = << >> => p.closed
  BY <1>3 DEF Rooted
<1>8. d >= 1 => p.root \in Roots /\ IsRoot(tokens, pos[1])
  <2>1. stack = << >> => ~(d >= 1)
    OBVIOUS
  <2> QED BY <1>7, <2>1
<1>9. Names(tokens, n) <=> LocOpen(stack) /\ pos[3] = n - 1 /\ value # ""
  BY <1>1, <1>2, <1>3, <1>4, <1>8, NamesText
<1>10. LocOpen(stack) => pos[3] = n - 1 /\ p.text = "" /\ q.text = value
  <2> SUFFICES ASSUME LocOpen(stack) PROVE pos[3] = n - 1 /\ p.text = "" /\ q.text = value
    OBVIOUS
  <2>1. d = 3 /\ stack[3].role = "loc"
    BY DEF LocOpen
  <2>2. stack # << >> /\ Last(stack) = stack[3]
    <3>1. stack # << >>
      BY <2>1
    <3>2. Last(stack) = stack[d]
      BY <1>4, <3>1, WithoutTop
    <3> HIDE DEF d
    <3> QED BY <2>1, <3>1, <3>2
  <2>3. q.text = value
    BY <1>5, <2>1, <2>2
  <2>4. \/ pos[3] = n - 1 /\ p.text = ""
        \/ tokens[n - 1].type = "text"
    BY <1>3 DEF Held
  <2>5. tokens[n - 1].type # "text"
    <3>1. pos \in [1..d -> 1..(n - 1)] /\ 3 \in 1..d
      BY <1>3, <2>1 DEF Placed
    <3>2. n \in 2..Len(tokens)
      <4>1. pos[3] \in 1..(n - 1)
        BY <3>1
      <4> QED BY <1>1, <4>1
    <3> QED BY <3>2 DEF Scanned
  <2> QED BY <2>3, <2>4, <2>5
<1> HIDE DEF q, stack, d, value
<1>11. Rooted(tokens, q, n, pos)
  <2>1. \A i \in 1..(n - 1) : i \in 1..n
    BY <1>1
  <2>2. \A i \in 1..n : i = n \/ i \in 1..(n - 1)
    BY <1>1
  <2>3. p.roots = 0 => \A i \in 1..n : tokens[i].type # "open"
    BY <1>7, <2>2
  <2>4. p.roots # 0 => \E j \in 1..n : IsRoot(tokens, j) /\ tokens[j].name = p.root
    BY <1>7, <2>1
  <2> QED BY <1>5, <1>7, <2>3, <2>4 DEF Rooted, d
<1>12. Held(tokens, q, n, pos)
  BY <1>5, <1>10 DEF Held, value
<1>13. /\ Names(tokens, n)  => ReadOff(q) = ReadOff(p) \cup {value}
       /\ ~Names(tokens, n) => ReadOff(q) = ReadOff(p)
  <2>1. CASE LocOpen(stack)
    <3>1. Pending(p) = IF d >= 2 THEN Range(p.locs) ELSE {}
      BY <1>10, <2>1 DEF Pending, stack, d
    <3>2. Pending(q) = Pending(p) \cup (IF value # "" THEN {value} ELSE {})
      BY <1>5, <1>10, <2>1, <3>1 DEF Pending, d
    <3> QED BY <1>5, <1>9, <1>10, <2>1, <3>2 DEF ReadOff
  <2>2. CASE ~LocOpen(stack)
    <3>1. Pending(q) = Pending(p)
      BY <1>5, <2>2 DEF Pending, stack
    <3> QED BY <1>5, <1>9, <2>2, <3>1 DEF ReadOff
  <2> QED BY <2>1, <2>2
<1>14. /\ Names(tokens, n)  => NamedTo(tokens, n) = NamedTo(tokens, n - 1) \cup {value}
       /\ ~Names(tokens, n) => NamedTo(tokens, n) = NamedTo(tokens, n - 1)
  BY <1>1, NamedStep DEF value
<1>15. ReadOff(q) \subseteq NamedTo(tokens, n)
  BY <1>2, <1>13, <1>14
<1>16. NoneMissing(tokens, q, n)
  <2> SUFFICES ASSUME ~q.errors, q.truncated = ""
               PROVE  NamedTo(tokens, n) \subseteq ReadOff(q) /\ (Len(q.stack) >= 2 => q.stack[2].retained)
    BY DEF NoneMissing
  <2>1. NamedTo(tokens, n - 1) \subseteq ReadOff(p) /\ (d >= 2 => stack[2].retained)
    BY <1>2, <1>5 DEF NoneMissing, d, stack
  <2> QED BY <1>5, <1>13, <1>14, <2>1 DEF d
<1>17. ParserInv(tokens, q, n)
  BY <1>2, <1>5, <1>6, <1>11, <1>12, <1>15, <1>16 DEF ParserInv
<1> QED BY <1>17 DEF q, value

LEMMA ParserInvClose ==
  ASSUME NEW tokens, Scanned(tokens), NEW n \in 1..Len(tokens), tokens[n].type = "close",
         NEW p \in ParserType, ParserInv(tokens, p, n - 1),
         ~Closed(p, tokens[n].name).structural
  PROVE  ParserInv(tokens, Closed(p, tokens[n].name), n)
<1> DEFINE name == tokens[n].name
           q == Closed(p, name)
           stack == p.stack
           d == Len(stack)
           less == SubSeq(stack, 1, d - 1)

           top == Last(stack)
<1>1. tokens \in Seq(Token) /\ name \in Text /\ n \in Nat \ {0} /\ n - 1 \in Nat
  <2>1. tokens \in Seq(Token) /\ tokens[n] \in Token
    BY DEF Scanned
  <2> QED BY <2>1 DEF Token, Text
<1>2. /\ ~p.halted /\ Shaped(stack, p.root) /\ ReadOff(p) \subseteq NamedTo(tokens, n - 1)
      /\ NoneMissing(tokens, p, n - 1)
  BY DEF ParserInv
<1>3. PICK pos : Placed(tokens, stack, n - 1, pos) /\ Rooted(tokens, p, n - 1, pos) /\ Held(tokens, p, n - 1, pos)
  BY DEF ParserInv
<1>4. stack \in Seq(Frame) /\ d \in Nat /\ p.locs \in Seq(Text) /\ p.text \in Text
  BY ParserParts
<1>5. /\ stack # << >> /\ q.stack = less
      /\ q.root = p.root /\ q.roots = p.roots /\ q.halted = p.halted /\ q.truncated = p.truncated
      /\ q.text = p.text /\ (p.errors => q.errors) /\ (top.role = "root" => q.closed)
      /\ top.role = "loc" /\ p.text # "" => q.locs = Append(p.locs, p.text)
      /\ ~(top.role = "loc" /\ p.text # "") => q.locs = p.locs
      /\ ~(top.role = "entry" /\ top.retained) => q.urls = p.urls /\ q.children = p.children
      /\ top.role = "entry" /\ top.retained =>
           IF p.locs = << >> THEN q.errors /\ q.urls = p.urls /\ q.children = p.children
           ELSE /\ Len(p.locs) > 1 => q.errors
                /\ IF p.root = "sitemapindex" THEN q.children = Append(p.children, Head(p.locs)) /\ q.urls = p.urls
                                              ELSE q.urls = Append(p.urls, Head(p.locs)) /\ q.children = p.children
  BY <1>1, ClosedReads
<1>6. /\ d \in Nat \ {0} /\ less \in Seq(Frame) /\ Len(less) = d - 1 /\ top = stack[d]
      /\ \A k \in 1..(d - 1) : less[k] = stack[k]
  <2>1. stack # << >>
    BY <1>5
  <2> HIDE DEF stack
  <2> QED BY <1>4, <2>1, WithoutTop
<1>7. Placed(tokens, less, n, [k \in 1..(d - 1) |-> pos[k]])
  BY <1>1, <1>3, <1>4, <1>5, PlacedClose
<1> DEFINE spot == [k \in 1..(d - 1) |-> pos[k]]
<1>8. /\ top.role \in {"root", "entry", "loc", "lastmod", "ignored"}
      /\ top.role = "root" <=> d = 1
      /\ top.role = "entry" <=> d = 2
      /\ top.role \in {"loc", "lastmod"} => d = 3
      /\ top.role = "ignored" => d >= 3 /\ stack[3].role = "ignored"
  BY <1>2, <1>4, <1>5, TopRole
<1>9. \A k \in 1..(d - 1) : spot[k] = pos[k]
  OBVIOUS
<1>b. Placed(tokens, less, n, spot)
  BY <1>7
<1>s. d \in Nat /\ d - 1 \in Nat /\ Sized(d) /\ Sized(d - 1)
  BY <1>6, Sizes
<1>t. /\ d - 1 >= 1 => d >= 1 /\ d >= 2
      /\ d - 1 >= 2 => d >= 2 /\ d >= 3
      /\ d - 1 >= 3 => d >= 3 /\ d # 3
      /\ d = 1 => d - 1 = 0
      /\ d = 2 => d - 1 = 1
      /\ d = 3 => d - 1 = 2
      /\ d >= 3 => d - 1 >= 2
  BY <1>6
<1>c. 4..(d - 1) \subseteq 4..d /\ 4..(d - 1) \subseteq 1..(d - 1)
  BY <1>6
<1> HIDE DEF q, stack, d, less, spot, top, name
<1>10. /\ d >= 1 => stack[1].role = "root" /\ stack[1].name = p.root
       /\ d >= 2 => stack[2].role = "entry" /\ stack[2].name = EntryOf(p.root)
       /\ d >= 3 => \/ stack[3].role \in {"loc", "lastmod"} /\ stack[3].name = stack[3].role /\ d = 3
                    \/ stack[3].role = "ignored" /\ stack[3].name \notin {"loc", "url", "sitemap"}
       /\ \A k \in 4..d : stack[k].role = "ignored"
  BY <1>2 DEF Shaped, d
<1>11. Shaped(less, q.root)
  <2>1. d - 1 >= 1 => less[1].role = "root" /\ less[1].name = q.root
    BY <1>5, <1>6, <1>10, <1>s, <1>t DEF Sized
  <2>2. d - 1 >= 2 => less[2].role = "entry" /\ less[2].name = EntryOf(q.root)
    BY <1>5, <1>6, <1>10, <1>s, <1>t DEF Sized
  <2>3. d - 1 >= 3 => less[3].role = "ignored" /\ less[3].name \notin {"loc", "url", "sitemap"}
    BY <1>5, <1>6, <1>10, <1>s, <1>t DEF Sized
  <2>4. \A k \in 4..(d - 1) : less[k].role = "ignored"
    BY <1>6, <1>10, <1>c
  <2> QED BY <1>6, <2>1, <2>2, <2>3, <2>4 DEF Shaped
<1>12. Rooted(tokens, q, n, spot)
  <2>1. /\ p.roots = 0 => stack = << >>
        /\ p.roots # 0 => /\ p.roots = 1 /\ p.root \in Roots
                          /\ \E j \in 1..(n - 1) : IsRoot(tokens, j) /\ tokens[j].name = p.root
        /\ d >= 1 => IsRoot(tokens, pos[1])
        /\ p.root = "sitemapindex" => p.urls = << >>
        /\ p.root # "sitemapindex" => p.children = << >>
    BY <1>3 DEF Rooted, stack, d
  <2>2. q.roots # 0 /\ q.roots = 1 /\ q.root \in Roots
    BY <1>5, <2>1
  <2>3. \E j \in 1..n : IsRoot(tokens, j) /\ tokens[j].name = q.root
    <3>1. \A j \in 1..(n - 1) : j \in 1..n
      BY <1>1
    <3> QED BY <1>5, <2>1, <3>1
  <2>4. Len(q.stack) >= 1 => IsRoot(tokens, spot[1])
    BY <1>5, <1>6, <1>9, <1>s, <1>t, <2>1 DEF Sized
  <2>5. q.root = "sitemapindex" => q.urls = << >>
    BY <1>5, <2>1
  <2>6. q.root # "sitemapindex" => q.children = << >>
    BY <1>5, <2>1
  <2>7. q.stack = << >> => q.closed
    <3> SUFFICES ASSUME less = << >> PROVE q.closed
      BY <1>5
    <3>1. d - 1 = 0
      BY <1>6
    <3>2. d = 1
      BY <1>6, <3>1
    <3> QED BY <1>5, <1>8, <3>2
  <2> QED BY <2>2, <2>3, <2>4, <2>5, <2>6, <2>7 DEF Rooted
<1>13. ~LocOpen(less)
  <2> SUFFICES ASSUME LocOpen(less) PROVE FALSE
    OBVIOUS
  <2>1. d - 1 = 3 /\ less[3].role = "loc"
    BY <1>6 DEF LocOpen
  <2>2. d >= 3 /\ d # 3 /\ less[3] = stack[3]
    BY <1>6, <1>s, <1>t, <2>1 DEF Sized
  <2> QED BY <1>10, <2>1, <2>2
<1>14. Held(tokens, q, n, spot)
  BY <1>5, <1>13 DEF Held
<1>15. NamedTo(tokens, n) = NamedTo(tokens, n - 1)
  <2>1. ~Names(tokens, n)
    BY DEF Names
  <2> QED BY <1>1, <2>1, NamedStep
<1>16. Pending(q) = IF d - 1 >= 2 THEN Range(q.locs) ELSE {}
  BY <1>5, <1>6, <1>13 DEF Pending
<1>17. LocOpen(stack) <=> top.role = "loc"
  <2>1. LocOpen(stack) <=> d = 3 /\ stack[3].role = "loc"
    BY DEF LocOpen, d
  <2> QED BY <1>6, <1>8, <2>1
<1>18. Pending(p) = (IF d >= 2 THEN Range(p.locs) ELSE {}) \cup (IF top.role = "loc" /\ p.text # "" THEN {p.text} ELSE {})
  BY <1>17 DEF Pending, stack, d
<1>19. /\ ReadOff(q) \subseteq ReadOff(p)
       /\ ~q.errors /\ (top.role = "entry" => top.retained) => ReadOff(q) = ReadOff(p)
  <2>1. CASE top.role = "root"
    <3>1. Pending(p) = {} /\ Pending(q) = {}
      BY <1>8, <1>16, <1>18, <1>s, <1>t, <2>1 DEF Sized
    <3> QED BY <1>5, <2>1, <3>1 DEF ReadOff
  <2>2. CASE top.role = "entry"
    <3>1. Pending(p) = Range(p.locs) /\ Pending(q) = {}
      BY <1>8, <1>16, <1>18, <1>s, <1>t, <2>2 DEF Sized
    <3>2. CASE ~top.retained
      <4>1. q.urls = p.urls /\ q.children = p.children
        BY <1>5, <3>2
      <4> QED BY <2>2, <3>1, <3>2, <4>1 DEF ReadOff
    <3>3. CASE top.retained /\ p.locs = << >>
      <4>1. q.urls = p.urls /\ q.children = p.children /\ q.errors
        BY <1>5, <2>2, <3>3
      <4> QED BY <3>1, <4>1 DEF ReadOff
    <3>4. CASE top.retained /\ p.locs # << >>
      <4>1. Head(p.locs) \in Range(p.locs) /\ (~(Len(p.locs) > 1) => Range(p.locs) = {Head(p.locs)})
        BY <1>4, <3>4, RangeOf
      <4>2. Len(p.locs) > 1 => q.errors
        BY <1>5, <2>2, <3>4
      <4>3. Range(q.urls) \cup Range(q.children) = Range(p.urls) \cup Range(p.children) \cup {Head(p.locs)}
        <5>1. p.urls \in Seq(Text) /\ p.children \in Seq(Text) /\ Head(p.locs) \in Text
          BY <1>4, <3>4, ParserParts
        <5>2. CASE p.root = "sitemapindex"
          <6>1. q.children = Append(p.children, Head(p.locs)) /\ q.urls = p.urls
            BY <1>5, <2>2, <3>4, <5>2
          <6>2. Range(q.children) = Range(p.children) \cup {Head(p.locs)}
            BY <5>1, <6>1, RangeOf
          <6> QED BY <6>1, <6>2
        <5>3. CASE p.root # "sitemapindex"
          <6>1. q.urls = Append(p.urls, Head(p.locs)) /\ q.children = p.children
            BY <1>5, <2>2, <3>4, <5>3
          <6>2. Range(q.urls) = Range(p.urls) \cup {Head(p.locs)}
            BY <5>1, <6>1, RangeOf
          <6> QED BY <6>1, <6>2
        <5> QED BY <5>2, <5>3
      <4> QED BY <3>1, <4>1, <4>2, <4>3 DEF ReadOff
    <3> QED BY <3>2, <3>3, <3>4
  <2>3. CASE top.role \notin {"root", "entry"}
    <3>1. d >= 2 /\ d - 1 >= 2
      BY <1>8, <1>s, <1>t, <2>3 DEF Sized
    <3>2. q.urls = p.urls /\ q.children = p.children
      BY <1>5, <2>3
    <3>3. Pending(q) = Pending(p)
      <4>1. CASE top.role = "loc" /\ p.text # ""
        <5>1. q.locs = Append(p.locs, p.text)
          BY <1>5, <4>1
        <5>2. Range(q.locs) = Range(p.locs) \cup {p.text}
          BY <1>4, <5>1, RangeOf
        <5> QED BY <1>16, <1>18, <3>1, <4>1, <5>2
      <4>2. CASE ~(top.role = "loc" /\ p.text # "")
        <5>1. q.locs = p.locs
          BY <1>5, <4>2
        <5> QED BY <1>16, <1>18, <3>1, <4>2, <5>1
      <4> QED BY <4>1, <4>2
    <3> QED BY <3>2, <3>3 DEF ReadOff
  <2> QED BY <2>1, <2>2, <2>3
<1>20. NoneMissing(tokens, q, n)
  <2> SUFFICES ASSUME ~q.errors, q.truncated = ""
               PROVE  NamedTo(tokens, n) \subseteq ReadOff(q) /\ (Len(q.stack) >= 2 => q.stack[2].retained)
    BY DEF NoneMissing
  <2>1. NamedTo(tokens, n - 1) \subseteq ReadOff(p) /\ (d >= 2 => stack[2].retained)
    BY <1>2, <1>5 DEF NoneMissing, d, stack
  <2>2. top.role = "entry" => top.retained
    BY <1>6, <1>8, <1>s, <2>1 DEF Sized
  <2>3. d - 1 >= 2 => less[2].retained
    BY <1>6, <1>s, <1>t, <2>1 DEF Sized
  <2> QED BY <1>5, <1>6, <1>15, <1>19, <2>1, <2>2, <2>3
<1>21. ParserInv(tokens, q, n)
  <2>1. ReadOff(q) \subseteq NamedTo(tokens, n)
    BY <1>2, <1>15, <1>19
  <2>2. ~q.halted /\ Placed(tokens, q.stack, n, spot)
    BY <1>2, <1>5, <1>b
  <2> QED BY <1>5, <1>11, <1>12, <1>14, <1>20, <2>1, <2>2 DEF ParserInv
<1> QED BY <1>21 DEF q, name

\* A token, whichever it is.
LEMMA ParserInvStep ==
  ASSUME NEW tokens, Scanned(tokens), NEW n \in 1..Len(tokens),
         NEW p \in ParserType, ParserInv(tokens, p, n - 1), ~ReadToken(p, tokens[n]).structural
  PROVE  ParserInv(tokens, ReadToken(p, tokens[n]), n)
<1> DEFINE q == [p EXCEPT !.tokens = @ + 1]
           r == ReadToken(p, tokens[n])
<1>1. tokens[n] \in Token
  BY DEF Scanned
<1>2. ~p.halted
  BY DEF ParserInv
<1>3. /\ q \in ParserType /\ tokens[n].type \in {"text", "open", "close"}
      /\ tokens[n].type = "text"  => r = TextRead(q, tokens[n].value)
      /\ tokens[n].type = "open"  => r = Opened(q, tokens[n].name)
      /\ tokens[n].type = "close" => r = Closed(q, tokens[n].name)
  BY <1>1, <1>2, ReadPlain
<1>4. /\ q.stack = p.stack /\ q.root = p.root /\ q.roots = p.roots /\ q.halted = p.halted
      /\ q.truncated = p.truncated /\ q.errors = p.errors /\ q.locs = p.locs /\ q.urls = p.urls
      /\ q.children = p.children /\ q.text = p.text /\ q.closed = p.closed
  BY DEF ParserType
<1> HIDE DEF q, r
<1>5. ParserInv(tokens, q, n - 1)
  BY <1>3, <1>4, ParserInvOf
<1>6. ~r.structural
  BY DEF r
<1>7. CASE tokens[n].type = "text"
  BY <1>3, <1>5, <1>6, <1>7, ParserInvText DEF r
<1>8. CASE tokens[n].type = "open"
  BY <1>3, <1>5, <1>6, <1>8, ParserInvOpen DEF r
<1>9. CASE tokens[n].type = "close"
  BY <1>3, <1>5, <1>6, <1>9, ParserInvClose DEF r
<1> QED BY <1>3, <1>7, <1>8, <1>9

LEMMA Parsed ==
  ASSUME NEW tokens, Scanned(tokens)
  PROVE  LET p == FoldLeft(ReadToken, ParserStart, tokens) IN
         p \in ParserType /\ (~p.structural => ParserInv(tokens, p, Len(tokens)))
<1> DEFINE N == Len(tokens)
<1>1. tokens \in Seq(Token) /\ N \in Nat /\ DOMAIN tokens = 1..N /\ \A i \in 1..N : tokens[i] \in Token
  BY DEF Scanned
<1>2. PICK run : Reads(run, tokens, N)
  <2> HIDE DEF N
  <2> QED BY <1>1, ReadRun
<1>3. /\ run \in [0..N -> ParserType] /\ run[0] = ParserStart
      /\ \A n \in 1..N : run[n] = ReadToken(run[n - 1], tokens[n])
      /\ FoldLeft(ReadToken, ParserStart, tokens) = run[N]
  BY <1>2 DEF Reads
<1> DEFINE Counted == {n \in 0..N : ~run[n].structural => ParserInv(tokens, run[n], n)}
<1>4. 0 \in Counted
  BY <1>1, <1>3, ParserInvStart
<1>5. ASSUME NEW n \in 1..N, n - 1 \in Counted PROVE n \in Counted
  <2>1. n \in 0..N /\ n - 1 \in 0..N
    BY <1>1, Intervals
  <2>2. SUFFICES ASSUME ~run[n].structural PROVE ParserInv(tokens, run[n], n)
    BY <2>1
  <2>3. run[n - 1] \in ParserType /\ run[n] = ReadToken(run[n - 1], tokens[n])
    BY <1>3, <2>1
  <2>4. ~run[n - 1].structural
    BY <1>1, <2>2, <2>3, ReadTokenType
  <2>5. ParserInv(tokens, run[n - 1], n - 1)
    BY <1>5, <2>4
  <2> HIDE DEF Counted, N
  <2>6. ParserInv(tokens, ReadToken(run[n - 1], tokens[n]), n)
    BY <2>2, <2>3, <2>5, ParserInvStep DEF N
  <2> QED BY <2>3, <2>6
<1>6. \A n \in 0..N : n \in Counted
  <2>1. Counted \in SUBSET (0..N)
    OBVIOUS
  <2> HIDE DEF Counted, N
  <2> QED BY <1>1, <1>4, <1>5, <2>1, Counting
<1>7. N \in 0..N /\ run[N] \in ParserType
  BY <1>1, <1>3
<1> QED BY <1>3, <1>6, <1>7

\* What is read without an error has a root element that is whole.
LEMMA RootValid ==
  ASSUME NEW tokens, Scanned(tokens), ~ParseSitemap(tokens).errors
  PROVE  ParseSitemap(tokens).rootValid
<1> DEFINE p == FoldLeft(ReadToken, ParserStart, tokens)
           ill == p.structural \/ p.stack # << >> \/ p.roots = 0
           parsed == ParseSitemap(tokens)
<1>1. /\ parsed.rootValid = (p.roots = 1 /\ p.closed /\ ~ill) /\ parsed.errors = (p.errors \/ ill)
  BY DEF ParseSitemap
<1>2. ~p.structural /\ p.stack = << >> /\ p.roots # 0
  BY <1>1
<1>3. ParserInv(tokens, p, Len(tokens))
  BY <1>2, Parsed
<1> HIDE DEF p
<1>4. PICK pos : Rooted(tokens, p, Len(tokens), pos)
  BY <1>3 DEF ParserInv
<1>5. p.roots = 1 /\ p.closed
  BY <1>2, <1>4 DEF Rooted
<1> QED BY <1>1, <1>2, <1>5

\* A document whose root element is whole is read as it is written: the parser
\* makes up no URL and leaves out none without saying so; an index has no
\* pages, and what is none has no children (parseSitemap, src/crawler/sitemap.js).
THEOREM SitemapIsRead ==
  ASSUME NEW tokens, Scanned(tokens), ParseSitemap(tokens).rootValid
  PROVE  LET parsed == ParseSitemap(tokens) IN
         /\ Range(parsed.urls) \cup Range(parsed.children) \subseteq Named(tokens)
         /\ ~parsed.errors /\ parsed.truncated = "" => Range(parsed.urls) \cup Range(parsed.children) = Named(tokens)
         /\ ListsSitemaps(tokens)  => parsed.urls = << >>
         /\ ~ListsSitemaps(tokens) => parsed.children = << >>
         /\ parsed.urls \in Seq(Text) /\ parsed.children \in Seq(Text)
<1> DEFINE p == FoldLeft(ReadToken, ParserStart, tokens)
           ill == p.structural \/ p.stack # << >> \/ p.roots = 0
           N == Len(tokens)
           parsed == ParseSitemap(tokens)
<1>1. /\ parsed.rootValid = (p.roots = 1 /\ p.closed /\ ~ill) /\ parsed.urls = p.urls
      /\ parsed.children = p.children /\ parsed.errors = (p.errors \/ ill) /\ parsed.truncated = p.truncated
  BY DEF ParseSitemap
<1>2. ~p.structural /\ p.stack = << >> /\ p.roots # 0
  BY <1>1
<1>3. p \in ParserType /\ ParserInv(tokens, p, N)
  BY <1>2, Parsed
<1> HIDE DEF p
<1>4. /\ ReadOff(p) \subseteq NamedTo(tokens, N)
      /\ ~p.errors /\ p.truncated = "" => NamedTo(tokens, N) \subseteq ReadOff(p)
  BY <1>3 DEF ParserInv, NoneMissing
<1>5. ReadOff(p) = Range(p.urls) \cup Range(p.children)
  <2>1. ~(Len(<< >>) >= 2) /\ Len(<< >>) # 3
    OBVIOUS
  <2>2. Pending(p) = {}
    BY <1>2, <2>1 DEF Pending, LocOpen
  <2> QED BY <2>2 DEF ReadOff
<1>6. tokens \in Seq(Token) /\ DOMAIN tokens = 1..N /\ N \in Nat
  BY DEF Scanned
<1>7. NamedTo(tokens, N) = Named(tokens)
  BY <1>6 DEF NamedTo, Named
<1>8. PICK pos : Rooted(tokens, p, N, pos)
  BY <1>3 DEF ParserInv
<1>9. /\ \E j \in 1..N : IsRoot(tokens, j) /\ tokens[j].name = p.root
      /\ p.root = "sitemapindex" => p.urls = << >>
      /\ p.root # "sitemapindex" => p.children = << >>
  BY <1>2, <1>8 DEF Rooted
<1>10. ListsSitemaps(tokens) <=> p.root = "sitemapindex"
  <2>1. PICK j \in 1..N : IsRoot(tokens, j) /\ tokens[j].name = p.root
    BY <1>9
  <2>2. ASSUME NEW i \in 1..N, IsRoot(tokens, i) PROVE i = j
    <3>1. i \notin 1..(j - 1) /\ j \notin 1..(i - 1)
      BY <2>1, <2>2 DEF IsRoot
    <3> QED BY <1>6, <3>1
  <2> QED BY <1>6, <2>1, <2>2 DEF ListsSitemaps
<1>11. p.urls \in Seq(Text) /\ p.children \in Seq(Text)
  BY <1>3, ParserParts
<1> HIDE DEF parsed
<1>12. ~parsed.errors => ~p.errors
  BY <1>1
<1>13. /\ Range(parsed.urls) \cup Range(parsed.children) \subseteq Named(tokens)
       /\ ~parsed.errors /\ parsed.truncated = "" => Range(parsed.urls) \cup Range(parsed.children) = Named(tokens)
  BY <1>1, <1>4, <1>5, <1>7, <1>12
<1>14. /\ ListsSitemaps(tokens)  => parsed.urls = << >>
       /\ ~ListsSitemaps(tokens) => parsed.children = << >>
       /\ parsed.urls \in Seq(Text) /\ parsed.children \in Seq(Text)
  BY <1>1, <1>9, <1>10, <1>11
<1> QED BY <1>13, <1>14 DEF parsed

-----------------------------------------------------------------------------
(***************************************************************************)
(* What is reachable from the entries: the least set that has them and     *)
(* whatever an index or a redirect in it leads to.                         *)
(***************************************************************************)
Leads(url) ==
  IF url \notin DOMAIN web THEN {}
  ELSE CASE web[url].status = 301 -> {web[url].to}
         [] web[url].status = 200 -> IF IsIndex(url) THEN Locations(url) ELSE {}
         [] OTHER -> {}

\* A set of URLs that nothing in it leads out of.
Whole(urls) == \A url \in urls : Leads(url) \subseteq urls

LEMMA BeyondIs ==
  ASSUME NEW urls
  PROVE  /\ \A x : x \in Beyond(urls) <=> x \in urls \/ \E url \in urls : x \in Leads(url)
         /\ urls \subseteq Beyond(urls)
         /\ Whole(urls) => Beyond(urls) = urls
<1>1. Beyond(urls) = urls \cup UNION {Leads(url) : url \in urls}
  BY DEF Beyond, Leads
<1> QED BY <1>1 DEF Whole

LEMMA ReachableIs ==
  ASSUME origin \in DOMAIN Origins
  PROVE  /\ Range(EntrySitemaps) \subseteq Reachable /\ Whole(Reachable)
         /\ \A urls : Range(EntrySitemaps) \subseteq urls /\ Whole(urls) => Reachable \subseteq urls
<1> DEFINE C == Cardinality(DOMAIN web)
           Next1(f, n) == IF n = 0 THEN Range(EntrySitemaps) ELSE Beyond(f[n - 1])
           after == CHOOSE f : f = [n \in 0..C |-> Next1(f, n)]
<1>1. IsFiniteSet(DOMAIN web) /\ C \in Nat
  <2>1. IsFiniteSet(DOMAIN web)
    BY OriginsAssumption DEF web
  <2> QED BY <2>1, FS_CardinalityType
<1> HIDE DEF C
<1>2. \E f : f = [n \in 0..C |-> Next1(f, n)]
  <2> DEFINE Upto(k, f) == f = [n \in 0..k |-> f[n]] /\ \A n \in 0..k : f[n] = Next1(f, n)
             Counted == {k \in 0..C : \E f : Upto(k, f)}
  <2>1. 0 \in Counted
    <3> DEFINE f == [n \in 0..0 |-> Range(EntrySitemaps)]
    <3>1. Upto(0, f)
      OBVIOUS
    <3> HIDE DEF f, Upto
    <3> QED BY <1>1, <3>1
  <2>2. ASSUME NEW k \in 1..C, k - 1 \in Counted PROVE k \in Counted
    <3>1. PICK f : Upto(k - 1, f)
      <4> HIDE DEF Upto
      <4> QED BY <2>2
    <3> DEFINE g == [n \in 0..k |-> IF n = k THEN Beyond(f[k - 1]) ELSE f[n]]
    <3>2. k \in Nat \ {0} /\ \A n \in 0..k : n = k \/ (n \in 0..(k - 1) /\ (n # 0 => n - 1 \in 0..(k - 1)))
      BY <1>1
    <3>3. /\ k \in 0..k /\ k - 1 \in 0..k /\ k - 1 # k /\ k # 0
          /\ \A n \in 0..(k - 1) : n \in 0..k /\ n # k /\ (n # 0 => n - 1 \in 0..k /\ n - 1 # k)
      BY <1>1
    <3>4. g[k] = Next1(g, k)
      BY <3>3
    <3>5. ASSUME NEW n \in 0..(k - 1) PROVE g[n] = Next1(g, n)
      <4>1. g[n] = f[n] /\ (n # 0 => g[n - 1] = f[n - 1])
        BY <3>3
      <4>2. f[n] = Next1(f, n)
        BY <3>1
      <4> HIDE DEF g
      <4> QED BY <4>1, <4>2
    <3>6. Upto(k, g)
      <4>1. g = [n \in 0..k |-> g[n]]
        OBVIOUS
      <4> HIDE DEF g, Next1
      <4> QED BY <3>2, <3>4, <3>5, <4>1
    <3> HIDE DEF g, Upto
    <3> QED BY <1>1, <3>6
  <2>3. \A k \in 0..C : k \in Counted
    <3>1. Counted \in SUBSET (0..C)
      OBVIOUS
    <3> HIDE DEF Counted
    <3> QED BY <1>1, <2>1, <2>2, <3>1, Counting
  <2>4. PICK f : Upto(C, f)
    <3> HIDE DEF Upto
    <3> QED BY <1>1, <2>3
  <2>5. f = [n \in 0..C |-> f[n]] /\ \A n \in 0..C : f[n] = Next1(f, n)
    BY <2>4
  <2> HIDE DEF Next1
  <2>6. f = [n \in 0..C |-> Next1(f, n)]
    BY <2>5
  <2> QED BY <2>6
<1>3. after = [n \in 0..C |-> Next1(after, n)]
  <2> HIDE DEF Next1
  <2> QED BY <1>2
<1>4. Reachable = after[C]
  BY DEF Reachable, C
<1> HIDE DEF after
<1>5. after[0] = Range(EntrySitemaps) /\ \A n \in 1..C : after[n] = Beyond(after[n - 1])
  <2>1. 0 \in 0..C /\ \A n \in 1..C : n \in 0..C /\ n # 0
    BY <1>1
  <2>2. \A n \in 0..C : after[n] = Next1(after, n)
    <3> HIDE DEF Next1
    <3> QED BY <1>3
  <2> QED BY <2>1, <2>2
<1> HIDE DEF Next1
<1>6. \A n \in 0..C : Range(EntrySitemaps) \subseteq after[n]
  <2> DEFINE Counted == {n \in 0..C : Range(EntrySitemaps) \subseteq after[n]}
  <2>1. 0 \in Counted /\ Counted \in SUBSET (0..C)
    BY <1>1, <1>5
  <2>2. ASSUME NEW n \in 1..C, n - 1 \in Counted PROVE n \in Counted
    <3>1. n \in 0..C /\ after[n] = Beyond(after[n - 1]) /\ after[n - 1] \subseteq Beyond(after[n - 1])
      BY <1>1, <1>5, BeyondIs, Intervals
    <3> QED BY <2>2, <3>1
  <2>3. \A n \in 0..C : n \in Counted
    <3> HIDE DEF Counted
    <3> QED BY <1>1, <2>1, <2>2, Counting
  <2> QED BY <2>3
<1> DEFINE Known(n) == after[n] \cap DOMAIN web
<1>7. ASSUME NEW n \in 0..C
      PROVE  IsFiniteSet(Known(n)) /\ Cardinality(Known(n)) \in Nat /\ Cardinality(Known(n)) <= C
  <2>1. Known(n) \in SUBSET DOMAIN web
    OBVIOUS
  <2> HIDE DEF Known
  <2> QED BY <1>1, <2>1, FS_Subset, FS_CardinalityType DEF C
<1>8. \A n \in 0..C : Whole(after[n]) \/ Cardinality(Known(n)) >= n + 1
  <2> DEFINE Counted == {n \in 0..C : Whole(after[n]) \/ Cardinality(Known(n)) >= n + 1}
  <2>1. 0 \in Counted
    <3>1. ASSUME ~Whole(after[0]) PROVE Cardinality(Known(0)) >= 0 + 1
      <4>1. PICK url \in after[0] : ~(Leads(url) \subseteq after[0])
        BY <3>1 DEF Whole
      <4>2. url \in Known(0)
        BY <4>1 DEF Leads
      <4>3. Known(0) # {} /\ 0 \in 0..C
        BY <1>1, <4>2
      <4> HIDE DEF Known
      <4>4. Cardinality(Known(0)) # 0
        BY <1>7, <4>3, FS_EmptySet
      <4> QED BY <1>7, <4>3, <4>4
    <3>2. 0 \in 0..C
      BY <1>1
    <3> HIDE DEF Known
    <3> QED BY <3>1, <3>2
  <2>2. ASSUME NEW n \in 1..C, n - 1 \in Counted PROVE n \in Counted
    <3>1. n \in 0..C /\ n - 1 \in 0..C /\ after[n] = Beyond(after[n - 1]) /\ after[n - 1] \subseteq after[n]
      BY <1>1, <1>5, BeyondIs, Intervals
    <3>2. SUFFICES ASSUME ~Whole(after[n]) PROVE Cardinality(Known(n)) >= n + 1
      BY <3>1
    <3>3. ~Whole(after[n - 1])
      BY <3>1, <3>2, BeyondIs
    <3>4. Cardinality(Known(n - 1)) >= n
      <4>1. Cardinality(Known(n - 1)) >= (n - 1) + 1
        <5> HIDE DEF Known
        <5> QED BY <2>2, <3>3
      <4>2. (n - 1) + 1 = n
        BY <1>1
      <4> HIDE DEF Known
      <4> QED BY <4>1, <4>2
    <3>5. Known(n - 1) # Known(n)
      <4> SUFFICES ASSUME Known(n - 1) = Known(n) PROVE FALSE
        OBVIOUS
      <4>1. PICK url \in after[n] : ~(Leads(url) \subseteq after[n])
        BY <3>2 DEF Whole
      <4>2. url \in Known(n - 1)
        BY <4>1 DEF Leads
      <4>3. Leads(url) \subseteq Beyond(after[n - 1])
        BY <4>2, BeyondIs
      <4> QED BY <3>1, <4>1, <4>3
    <3>6. Known(n - 1) \in SUBSET Known(n)
      BY <3>1
    <3>7. Cardinality(Known(n - 1)) <= Cardinality(Known(n)) /\ Cardinality(Known(n - 1)) # Cardinality(Known(n))
      <4> HIDE DEF Known
      <4> QED BY <1>7, <3>1, <3>5, <3>6, FS_Subset
    <3>8. n \in Nat /\ Cardinality(Known(n - 1)) \in Nat /\ Cardinality(Known(n)) \in Nat
      <4> HIDE DEF Known
      <4> QED BY <1>1, <1>7, <3>1
    <3> HIDE DEF Known
    <3> QED BY <3>4, <3>7, <3>8
  <2>3. \A n \in 0..C : n \in Counted
    <3>1. Counted \in SUBSET (0..C)
      OBVIOUS
    <3> HIDE DEF Counted
    <3> QED BY <1>1, <2>1, <2>2, <3>1, Counting
  <2> HIDE DEF Known
  <2> QED BY <2>3
<1>9. Whole(Reachable)
  <2>1. C \in 0..C
    BY <1>1
  <2>2. Cardinality(Known(C)) \in Nat /\ Cardinality(Known(C)) <= C
    <3> HIDE DEF Known
    <3> QED BY <1>7, <2>1
  <2>3. ~(Cardinality(Known(C)) >= C + 1)
    <3> HIDE DEF Known
    <3> QED BY <1>1, <2>2
  <2> HIDE DEF Known
  <2> QED BY <1>4, <1>8, <2>1, <2>3
<1>10. Range(EntrySitemaps) \subseteq Reachable
  <2>1. C \in 0..C
    BY <1>1
  <2> QED BY <1>4, <1>6, <2>1
<1>11. ASSUME NEW urls, Range(EntrySitemaps) \subseteq urls, Whole(urls)
       PROVE  Reachable \subseteq urls
  <2> DEFINE Counted == {n \in 0..C : after[n] \subseteq urls}
  <2>1. 0 \in Counted /\ Counted \in SUBSET (0..C)
    BY <1>1, <1>5, <1>11
  <2>2. ASSUME NEW n \in 1..C, n - 1 \in Counted PROVE n \in Counted
    <3>1. n \in 0..C /\ after[n] = Beyond(after[n - 1]) /\ after[n - 1] \subseteq urls
      BY <1>1, <1>5, <2>2, Intervals
    <3>2. ASSUME NEW x \in Beyond(after[n - 1]) PROVE x \in urls
      BY <1>11, <3>1, BeyondIs DEF Whole
    <3> QED BY <3>1, <3>2
  <2>3. \A n \in 0..C : n \in Counted
    <3> HIDE DEF Counted
    <3> QED BY <1>1, <2>1, <2>2, Counting
  <2>4. C \in 0..C
    BY <1>1
  <2> QED BY <1>4, <2>3, <2>4
<1> QED BY <1>9, <1>10, <1>11

-----------------------------------------------------------------------------
(***************************************************************************)
(* The topology: what is taken from a document only adds to it, and what   *)
(* is left out is told.                                                    *)
(***************************************************************************)
Verdicts == {"failed", "malformed", "truncated", "fetched"}
Reasons ==
  {"malformed_url", "out_of_origin", "duplicate", "none", "max_queued_documents_exceeded",
   "max_discovered_urls_exceeded", "max_raw_entries_exceeded", "max_xml_tokens_exceeded",
   "time_budget_exhausted", "max_documents_exceeded", "max_depth_exceeded",
   "max_total_uncompressed_bytes_exceeded"}
QueueEntry == [url : Text, depth : Nat]

TopologyType(t) ==
  [phase : {"next", "fetching", "end", "done"}, queue : Seq(QueueEntry), queued : SUBSET Text,
   documents : Seq(Verdicts), urls : SUBSET Text, stops : SUBSET Reasons, wrong : SUBSET Reasons,
   unpacked : {t.unpacked}, depth : Nat, late : BOOLEAN, going : BOOLEAN]

LEMMA TopologyParts ==
  ASSUME NEW t, NEW e \in TopologyType(t)
  PROVE  /\ e.phase \in {"next", "fetching", "end", "done"} /\ e.queue \in Seq(QueueEntry)
         /\ e.queued \in SUBSET Text /\ e.documents \in Seq(Verdicts) /\ e.urls \in SUBSET Text
         /\ e.stops \in SUBSET Reasons /\ e.wrong \in SUBSET Reasons /\ e.unpacked = t.unpacked
         /\ e.depth \in Nat /\ e.late \in BOOLEAN /\ e.going \in BOOLEAN
BY DEF TopologyType

LEMMA TopologyFields ==
  ASSUME NEW t, NEW e \in TopologyType(t)
  PROVE  /\ \A v \in {"next", "fetching", "end", "done"} : [e EXCEPT !.phase = v] \in TopologyType(t)
         /\ \A v \in Seq(QueueEntry) : [e EXCEPT !.queue = v] \in TopologyType(t)
         /\ \A v \in SUBSET Text : [e EXCEPT !.queued = v] \in TopologyType(t)
         /\ \A v \in SUBSET Text : [e EXCEPT !.urls = v] \in TopologyType(t)
         /\ \A v \in Seq(Verdicts) : [e EXCEPT !.documents = v] \in TopologyType(t)
         /\ \A v \in SUBSET Reasons : [e EXCEPT !.stops = v] \in TopologyType(t)
         /\ \A v \in SUBSET Reasons : [e EXCEPT !.wrong = v] \in TopologyType(t)
         /\ \A v \in BOOLEAN : [e EXCEPT !.going = v] \in TopologyType(t)
         /\ \A v \in BOOLEAN : [e EXCEPT !.late = v] \in TopologyType(t)
         /\ \A v \in Nat : [e EXCEPT !.depth = v] \in TopologyType(t)
<1>1. \A v \in {"next", "fetching", "end", "done"} : [e EXCEPT !.phase = v] \in TopologyType(t)
  BY DEF TopologyType
<1>2. \A v \in Seq(QueueEntry) : [e EXCEPT !.queue = v] \in TopologyType(t)
  BY DEF TopologyType
<1>3. \A v \in SUBSET Text : [e EXCEPT !.queued = v] \in TopologyType(t)
  BY DEF TopologyType
<1>4. \A v \in SUBSET Text : [e EXCEPT !.urls = v] \in TopologyType(t)
  BY DEF TopologyType
<1>5. \A v \in Seq(Verdicts) : [e EXCEPT !.documents = v] \in TopologyType(t)
  BY DEF TopologyType
<1>6. \A v \in SUBSET Reasons : [e EXCEPT !.stops = v] \in TopologyType(t)
  BY DEF TopologyType
<1>7. \A v \in SUBSET Reasons : [e EXCEPT !.wrong = v] \in TopologyType(t)
  BY DEF TopologyType
<1>8. \A v \in BOOLEAN : [e EXCEPT !.going = v] \in TopologyType(t)
  BY DEF TopologyType
<1>9. \A v \in BOOLEAN : [e EXCEPT !.late = v] \in TopologyType(t)
  BY DEF TopologyType
<1>10. \A v \in Nat : [e EXCEPT !.depth = v] \in TopologyType(t)
  BY DEF TopologyType
<1> QED BY <1>1, <1>2, <1>3, <1>4, <1>5, <1>6, <1>7, <1>8, <1>9, <1>10

\* The URLs that wait in a queue.
Queued(rest) == {rest[i].url : i \in 1..Len(rest)}

LEMMA WaitingAppend ==
  ASSUME NEW rest \in Seq(QueueEntry), NEW entry \in QueueEntry
  PROVE  Queued(Append(rest, entry)) = Queued(rest) \cup {entry.url}
<1> DEFINE more == Append(rest, entry)
<1>1. /\ Len(rest) \in Nat /\ Len(more) = Len(rest) + 1 /\ more[Len(rest) + 1] = entry
      /\ \A i \in 1..Len(rest) : more[i] = rest[i] /\ i \in 1..(Len(rest) + 1)
  OBVIOUS
<1>2. \A i \in 1..(Len(rest) + 1) : i = Len(rest) + 1 \/ i \in 1..Len(rest)
  BY <1>1
<1>3. Len(rest) + 1 \in 1..(Len(rest) + 1)
  BY <1>1
<1> HIDE DEF more
<1> QED BY <1>1, <1>2, <1>3 DEF Queued, more

LEMMA WaitingTail ==
  ASSUME NEW rest \in Seq(QueueEntry), rest # << >>
  PROVE  /\ Queued(rest) = {Head(rest).url} \cup Queued(Tail(rest))
         /\ Tail(rest) \in Seq(QueueEntry) /\ Head(rest) \in QueueEntry
<1>1. /\ Tail(rest) \in Seq(QueueEntry) /\ Head(rest) \in QueueEntry /\ Head(rest) = rest[1]
      /\ Len(rest) \in Nat \ {0} /\ Len(Tail(rest)) = Len(rest) - 1
      /\ \A i \in 1..(Len(rest) - 1) : Tail(rest)[i] = rest[i + 1]
  OBVIOUS
<1>2. ASSUME NEW x \in Queued(rest) PROVE x = Head(rest).url \/ x \in Queued(Tail(rest))
  <2>1. PICK i \in 1..Len(rest) : x = rest[i].url
    BY DEF Queued
  <2>2. CASE i = 1
    BY <1>1, <2>1, <2>2
  <2>3. CASE i # 1
    <3>1. i - 1 \in 1..(Len(rest) - 1) /\ (i - 1) + 1 = i
      BY <1>1, <2>3
    <3>2. Tail(rest)[i - 1] = rest[i]
      BY <1>1, <3>1
    <3> QED BY <1>1, <2>1, <3>1, <3>2 DEF Queued
  <2> QED BY <2>2, <2>3
<1>3. ASSUME NEW x \in Queued(Tail(rest)) PROVE x \in Queued(rest)
  <2>1. PICK i \in 1..(Len(rest) - 1) : x = Tail(rest)[i].url
    BY <1>1 DEF Queued
  <2>2. i + 1 \in 1..Len(rest)
    BY <1>1
  <2> QED BY <1>1, <2>1, <2>2 DEF Queued
<1>4. Head(rest).url \in Queued(rest)
  <2>1. 1 \in 1..Len(rest)
    BY <1>1
  <2> QED BY <1>1, <2>1 DEF Queued
<1> QED BY <1>1, <1>2, <1>3, <1>4

\* Nothing was left out so far.
Unflawed(t) == t.stops = {} /\ t.wrong = {}

\* e comes of t by taking further URLs.
Grows(t, e) ==
  /\ t.queued \subseteq e.queued /\ t.urls \subseteq e.urls
  /\ t.stops \subseteq e.stops /\ t.wrong \subseteq e.wrong
  /\ Queued(t.queue) \subseteq Queued(e.queue)
  /\ e.queued \subseteq t.queued \cup Queued(e.queue)
  /\ Queued(e.queue) \subseteq Queued(t.queue) \cup e.queued
  /\ e.phase = t.phase /\ (Unflawed(e) => e.documents = t.documents)

LEMMA GrowsFurther ==
  ASSUME NEW t, NEW e, NEW n, Grows(t, e), Grows(e, n)
  PROVE  Grows(t, n)
BY DEF Grows, Unflawed

LEMMA StopType ==
  ASSUME NEW t, NEW e \in TopologyType(t), NEW reason \in Reasons
  PROVE  LET n == Stop(e, reason) IN
         /\ n \in TopologyType(t) /\ n.stops = e.stops \cup {reason} /\ n.wrong = e.wrong
         /\ n.queue = e.queue /\ n.queued = e.queued /\ n.urls = e.urls /\ n.documents = e.documents
         /\ n.going = e.going /\ n.phase = e.phase /\ n.unpacked = e.unpacked /\ ~Unflawed(n)
<1> DEFINE n == Stop(e, reason)
           more == e.stops \cup {reason}
<1>1. n = [e EXCEPT !.stops = more]
  BY DEF Stop
<1>2. more \in SUBSET Reasons
  BY TopologyParts
<1>3. n \in TopologyType(t)
  <2> HIDE DEF more, n
  <2> QED BY <1>1, <1>2, TopologyFields
<1>4. n.stops = e.stops \cup {reason}
  BY <1>1 DEF TopologyType
<1>5. /\ n.wrong = e.wrong /\ n.queue = e.queue /\ n.queued = e.queued /\ n.urls = e.urls
      /\ n.documents = e.documents /\ n.going = e.going /\ n.phase = e.phase /\ n.unpacked = e.unpacked
  BY <1>1
<1> QED BY <1>3, <1>4, <1>5 DEF Unflawed

LEMMA WrongType ==
  ASSUME NEW t, NEW e \in TopologyType(t), NEW reason \in Reasons
  PROVE  LET n == Wrong(e, reason) IN
         /\ n \in TopologyType(t) /\ n.stops = e.stops /\ n.wrong = e.wrong \cup {reason}
         /\ n.queue = e.queue /\ n.queued = e.queued /\ n.urls = e.urls /\ n.documents = e.documents
         /\ n.going = e.going /\ n.phase = e.phase /\ n.unpacked = e.unpacked /\ ~Unflawed(n)
<1> DEFINE n == Wrong(e, reason)
           more == e.wrong \cup {reason}
<1>1. n = [e EXCEPT !.wrong = more]
  BY DEF Wrong
<1>2. more \in SUBSET Reasons
  BY TopologyParts
<1>3. n \in TopologyType(t)
  <2> HIDE DEF more, n
  <2> QED BY <1>1, <1>2, TopologyFields
<1>4. n.wrong = e.wrong \cup {reason}
  BY <1>1 DEF TopologyType
<1>5. /\ n.stops = e.stops /\ n.queue = e.queue /\ n.queued = e.queued /\ n.urls = e.urls
      /\ n.documents = e.documents /\ n.going = e.going /\ n.phase = e.phase /\ n.unpacked = e.unpacked
  BY <1>1
<1> QED BY <1>3, <1>4, <1>5 DEF Unflawed

LEMMA MarkedType ==
  ASSUME NEW t, NEW e \in TopologyType(t), NEW status \in Verdicts
  PROVE  LET n == Marked(e, status) IN
         /\ n \in TopologyType(t) /\ n.stops = e.stops /\ n.wrong = e.wrong
         /\ n.queue = e.queue /\ n.queued = e.queued /\ n.urls = e.urls
         /\ n.going = e.going /\ n.phase = e.phase /\ n.unpacked = e.unpacked
         /\ Len(n.documents) = Len(e.documents)
         /\ \A i \in 1..Len(e.documents) : n.documents[i] = IF i = Len(e.documents) THEN status ELSE e.documents[i]
<1> DEFINE n == Marked(e, status)
           records == [e.documents EXCEPT ![Len(e.documents)] = status]
<1>1. n = [e EXCEPT !.documents = records]
  BY DEF Marked
<1>2. e.documents \in Seq(Verdicts)
  BY TopologyParts
<1>3. /\ records \in Seq(Verdicts) /\ Len(records) = Len(e.documents)
      /\ \A i \in 1..Len(e.documents) : records[i] = IF i = Len(e.documents) THEN status ELSE e.documents[i]
  <2>1. Len(e.documents) \in Nat /\ e.documents \in [1..Len(e.documents) -> Verdicts]
    BY <1>2
  <2>2. /\ records \in [1..Len(e.documents) -> Verdicts]
        /\ \A i \in 1..Len(e.documents) : records[i] = IF i = Len(e.documents) THEN status ELSE e.documents[i]
    BY <2>1
  <2> HIDE DEF records
  <2>3. records \in Seq(Verdicts) /\ Len(records) = Len(e.documents)
    BY <2>1, <2>2
  <2> QED BY <2>2, <2>3
<1> HIDE DEF records
<1>4. n \in TopologyType(t)
  BY <1>1, <1>3, TopologyFields
<1>5. n.documents = records
  BY <1>1 DEF TopologyType
<1>6. /\ n.stops = e.stops /\ n.wrong = e.wrong /\ n.queue = e.queue /\ n.queued = e.queued
      /\ n.urls = e.urls /\ n.going = e.going /\ n.phase = e.phase /\ n.unpacked = e.unpacked
  BY <1>1
<1> QED BY <1>3, <1>4, <1>5, <1>6

LEMMA GoingType ==
  ASSUME NEW t, NEW e \in TopologyType(t), NEW going \in BOOLEAN
  PROVE  LET n == [e EXCEPT !.going = going] IN
         /\ n \in TopologyType(t) /\ n.stops = e.stops /\ n.wrong = e.wrong
         /\ n.queue = e.queue /\ n.queued = e.queued /\ n.urls = e.urls /\ n.documents = e.documents
         /\ n.going = going /\ n.phase = e.phase /\ n.unpacked = e.unpacked
<1> DEFINE n == [e EXCEPT !.going = going]
<1>1. n \in TopologyType(t)
  BY TopologyFields
<1>2. n.going = going
  BY DEF TopologyType
<1> QED BY <1>1, <1>2

\* enqueue takes a URL, or knows it, or tells.
LEMMA EnqueuedIs ==
  ASSUME NEW t, NEW e \in TopologyType(t), NEW url \in Text, NEW depth \in Nat
  PROVE  LET n == Enqueued(e, url, depth) IN
         /\ n \in TopologyType(t) /\ Grows(e, n) /\ n.queued \subseteq e.queued \cup {url}
         /\ n.urls = e.urls /\ n.documents = e.documents /\ n.going = e.going
         /\ Unflawed(n) => url \in n.queued
         /\ Refusal(e, url) \in {"malformed_url", "max_queued_documents_exceeded"} => ~Unflawed(n)
<1> DEFINE n == Enqueued(e, url, depth)
           refusal == Refusal(e, url)
<1>1. refusal \in {"malformed_url", "out_of_origin", "duplicate", "max_queued_documents_exceeded", "none"}
  BY DEF Refusal
<1>2. /\ refusal \in {"malformed_url", "out_of_origin"} => n = Wrong(e, refusal)
      /\ refusal = "max_queued_documents_exceeded" => n = Stop(e, refusal)
      /\ refusal = "duplicate" => n = e /\ url \in e.queued
      /\ refusal = "none" => n = [e EXCEPT !.queued = @ \cup {url}, !.queue = Append(@, [url |-> url, depth |-> depth])]
  <2>1. refusal = "duplicate" => url \in e.queued
    BY DEF Refusal
  <2> HIDE DEF refusal
  <2> QED BY <1>1, <2>1 DEF Enqueued, refusal
<1> HIDE DEF refusal
<1>3. CASE refusal \in {"malformed_url", "out_of_origin"}
  <2>1. refusal \in Reasons
    BY <1>3 DEF Reasons
  <2> HIDE DEF n
  <2> QED BY <1>2, <1>3, <2>1, WrongType DEF Grows, n
<1>4. CASE refusal = "max_queued_documents_exceeded"
  <2>1. refusal \in Reasons
    BY <1>4 DEF Reasons
  <2> HIDE DEF n
  <2> QED BY <1>2, <1>4, <2>1, StopType DEF Grows, n
<1>5. CASE refusal = "duplicate"
  BY <1>2, <1>5 DEF Grows, refusal
<1>6. CASE refusal = "none"
  <2> DEFINE entry == [url |-> url, depth |-> depth]
             queued == e.queued \cup {url}
             rest == Append(e.queue, entry)
  <2>1. entry \in QueueEntry /\ entry.url = url /\ e.queue \in Seq(QueueEntry)
    BY TopologyParts DEF QueueEntry
  <2> HIDE DEF entry
  <2>2. queued \in SUBSET Text /\ rest \in Seq(QueueEntry)
    BY <2>1, TopologyParts
  <2>3. Queued(rest) = Queued(e.queue) \cup {url}
    BY <2>1, WaitingAppend
  <2>4. n = [[e EXCEPT !.queued = queued] EXCEPT !.queue = rest]
    BY <1>2, <1>6 DEF entry
  <2> HIDE DEF queued, rest, n
  <2>5. [e EXCEPT !.queued = queued] \in TopologyType(t)
    BY <2>2, TopologyFields
  <2>6. n \in TopologyType(t)
    BY <2>2, <2>4, <2>5, TopologyFields
  <2>7. n.queued = queued /\ n.queue = rest
    BY <2>4 DEF TopologyType
  <2>8. /\ n.urls = e.urls /\ n.documents = e.documents /\ n.going = e.going /\ n.phase = e.phase
        /\ n.stops = e.stops /\ n.wrong = e.wrong
    BY <2>4
  <2>9. Grows(e, n) /\ n.queued \subseteq e.queued \cup {url} /\ url \in n.queued
    BY <2>3, <2>7, <2>8 DEF Grows, queued
  <2> QED BY <1>6, <2>6, <2>8, <2>9 DEF n, refusal
<1> QED BY <1>1, <1>3, <1>4, <1>5, <1>6

\* A topology that only loses its clean record keeps what it has.
LEMMA MarkedGrows ==
  ASSUME NEW t, NEW e \in TopologyType(t), NEW n \in TopologyType(t), Grows(e, n), ~Unflawed(n),
         NEW status \in Verdicts, NEW going \in BOOLEAN
  PROVE  LET m == [Marked(n, status) EXCEPT !.going = going] IN
         /\ m \in TopologyType(t) /\ Grows(e, m) /\ ~Unflawed(m)
         /\ m.queued = n.queued /\ m.phase = n.phase /\ m.urls = n.urls /\ m.going = going
<1> DEFINE k == Marked(n, status)
           m == [k EXCEPT !.going = going]
<1>1. /\ k \in TopologyType(t) /\ k.stops = n.stops /\ k.wrong = n.wrong
      /\ k.queue = n.queue /\ k.queued = n.queued /\ k.phase = n.phase /\ k.urls = n.urls
  BY MarkedType
<1> HIDE DEF k
<1>2. /\ m \in TopologyType(t) /\ m.stops = k.stops /\ m.wrong = k.wrong
      /\ m.queue = k.queue /\ m.queued = k.queued /\ m.phase = k.phase /\ m.urls = k.urls /\ m.going = going
  BY <1>1, GoingType
<1> HIDE DEF m
<1>3. Grows(e, m) /\ ~Unflawed(m)
  BY <1>1, <1>2 DEF Grows, Unflawed
<1> QED BY <1>1, <1>2, <1>3 DEF m, k

LEMMA MarkedGoes ==
  ASSUME NEW t, NEW n \in TopologyType(t), NEW status \in Verdicts
  PROVE  Marked(n, status) = [Marked(n, status) EXCEPT !.going = n.going]
<1>1. Marked(n, status) \in TopologyType(t) /\ Marked(n, status).going = n.going
  BY MarkedType
<1> DEFINE k == Marked(n, status)
<1> HIDE DEF k
<1>2. k \in TopologyType(t) => k = [k EXCEPT !.going = k.going]
  BY DEF TopologyType
<1> QED BY <1>1, <1>2 DEF k

LEMMA TakeChildIs ==
  ASSUME NEW t, NEW e \in TopologyType(t), NEW url \in Text, NEW depth \in Nat
  PROVE  LET n == TakeChild(depth, e, url) IN
         /\ n \in TopologyType(t) /\ Grows(e, n) /\ n.queued \subseteq e.queued \cup {url} /\ n.urls = e.urls
         /\ Unflawed(n) /\ e.going => n.going /\ url \in n.queued
<1> DEFINE n == TakeChild(depth, e, url)
           next == Enqueued(e, url, depth)
           refusal == Refusal(e, url)
<1>1. CASE ~e.going
  <2>1. n = e
    BY <1>1 DEF TakeChild
  <2> QED BY <1>1, <2>1 DEF Grows
<1>2. CASE e.going
  <2>1. /\ refusal = "malformed_url" => n = Marked(next, "malformed")
        /\ refusal = "max_queued_documents_exceeded" => n = [Marked(next, "truncated") EXCEPT !.going = FALSE]
        /\ refusal \notin {"malformed_url", "max_queued_documents_exceeded"} => n = next
    BY <1>2 DEF TakeChild
  <2>2. /\ next \in TopologyType(t) /\ Grows(e, next) /\ next.queued \subseteq e.queued \cup {url}
        /\ next.urls = e.urls /\ next.going = e.going
        /\ Unflawed(next) => url \in next.queued
        /\ refusal \in {"malformed_url", "max_queued_documents_exceeded"} => ~Unflawed(next)
    BY EnqueuedIs
  <2> HIDE DEF next, refusal, n
  <2>3. "malformed" \in Verdicts /\ "truncated" \in Verdicts /\ FALSE \in BOOLEAN /\ next.going \in BOOLEAN
    BY <2>2, TopologyParts DEF Verdicts
  <2>4. CASE refusal = "malformed_url"
    <3>1. n = [Marked(next, "malformed") EXCEPT !.going = next.going]
      BY <2>1, <2>2, <2>3, <2>4, MarkedGoes
    <3> QED BY <2>2, <2>3, <2>4, <3>1, MarkedGrows DEF n
  <2>5. CASE refusal = "max_queued_documents_exceeded"
    <3> DEFINE no == FALSE
               m == [Marked(next, "truncated") EXCEPT !.going = no]
    <3>0. no \in BOOLEAN
      OBVIOUS
    <3>1. n = m /\ ~Unflawed(next)
      BY <2>1, <2>2, <2>5
    <3> HIDE DEF no
    <3>2. m \in TopologyType(t) /\ Grows(e, m) /\ ~Unflawed(m) /\ m.queued = next.queued /\ m.phase = next.phase /\ m.urls = next.urls
      BY <2>2, <2>3, <3>0, <3>1, MarkedGrows
    <3> HIDE DEF m
    <3> QED BY <2>2, <3>1, <3>2 DEF n
  <2>6. CASE refusal \notin {"malformed_url", "max_queued_documents_exceeded"}
    BY <1>2, <2>1, <2>2, <2>6 DEF n
  <2> QED BY <2>4, <2>5, <2>6
<1> QED BY <1>1, <1>2, TopologyParts

LEMMA TakeUrlIs ==
  ASSUME NEW t, NEW e \in TopologyType(t), NEW url \in Text
  PROVE  LET n == TakeUrl(e, url) IN
         /\ n \in TopologyType(t) /\ Grows(e, n) /\ n.queued = e.queued /\ n.phase = e.phase /\ n.urls \subseteq e.urls \cup {url}
         /\ Unflawed(n) /\ e.going => n.going /\ url \in n.urls
<1> DEFINE n == TakeUrl(e, url)
<1>0. /\ "malformed" \in Verdicts /\ "truncated" \in Verdicts /\ FALSE \in BOOLEAN
      /\ "malformed_url" \in Reasons /\ "out_of_origin" \in Reasons /\ "max_discovered_urls_exceeded" \in Reasons
  BY DEF Verdicts, Reasons
<1>1. CASE ~e.going \/ url \in e.urls
  <2>1. n = e
    BY <1>1 DEF TakeUrl
  <2> QED BY <1>1, <2>1 DEF Grows
<1>2. CASE e.going /\ url \notin e.urls /\ url \in Malformed
  <2> DEFINE k == Marked(e, "malformed")
  <2>1. n = Wrong(k, "malformed_url")
    BY <1>2 DEF TakeUrl
  <2>2. /\ k \in TopologyType(t) /\ k.stops = e.stops /\ k.wrong = e.wrong
        /\ k.queue = e.queue /\ k.queued = e.queued /\ k.phase = e.phase /\ k.urls = e.urls
    BY <1>0, MarkedType
  <2> HIDE DEF k, n
  <2>3. /\ n \in TopologyType(t) /\ n.stops = k.stops /\ k.wrong \subseteq n.wrong
        /\ n.queue = k.queue /\ n.queued = k.queued /\ n.phase = k.phase /\ n.urls = k.urls /\ ~Unflawed(n)
    BY <1>0, <2>1, <2>2, WrongType
  <2> QED BY <2>2, <2>3 DEF Grows, n
<1>3. CASE e.going /\ url \notin e.urls /\ url \notin Malformed /\ url \in Foreign
  <2>1. n = Wrong(e, "out_of_origin")
    BY <1>3 DEF TakeUrl
  <2> HIDE DEF n
  <2>2. /\ n \in TopologyType(t) /\ n.stops = e.stops /\ e.wrong \subseteq n.wrong
        /\ n.queue = e.queue /\ n.queued = e.queued /\ n.phase = e.phase /\ n.urls = e.urls /\ ~Unflawed(n)
    BY <1>0, <2>1, WrongType
  <2> QED BY <2>2 DEF Grows, n
<1>4. CASE e.going /\ url \notin e.urls \cup Malformed \cup Foreign /\ Cardinality(e.urls) >= MaxDiscovered
  <2> DEFINE j == Marked(e, "truncated")
             k == Stop(j, "max_discovered_urls_exceeded")
  <2>1. n = [k EXCEPT !.going = FALSE]
    BY <1>4 DEF TakeUrl
  <2>2. /\ j \in TopologyType(t) /\ j.stops = e.stops /\ j.wrong = e.wrong
        /\ j.queue = e.queue /\ j.queued = e.queued /\ j.phase = e.phase /\ j.urls = e.urls
    BY <1>0, MarkedType
  <2> HIDE DEF j
  <2>3. /\ k \in TopologyType(t) /\ j.stops \subseteq k.stops /\ k.wrong = j.wrong
        /\ k.queue = j.queue /\ k.queued = j.queued /\ k.phase = j.phase /\ k.urls = j.urls /\ ~Unflawed(k)
    BY <1>0, <2>2, StopType
  <2> HIDE DEF k, n
  <2>4. /\ n \in TopologyType(t) /\ n.stops = k.stops /\ k.wrong = n.wrong
        /\ n.queue = k.queue /\ n.queued = k.queued /\ n.phase = k.phase /\ n.urls = k.urls
    BY <1>0, <2>1, <2>3, GoingType
  <2>5. ~Unflawed(n)
    BY <2>3, <2>4 DEF Unflawed
  <2> QED BY <2>2, <2>3, <2>4, <2>5 DEF Grows, n
<1>5. CASE e.going /\ url \notin e.urls \cup Malformed \cup Foreign /\ ~(Cardinality(e.urls) >= MaxDiscovered)
  <2> DEFINE urls == e.urls \cup {url}
  <2>1. n = [e EXCEPT !.urls = urls]
    BY <1>5 DEF TakeUrl
  <2>2. urls \in SUBSET Text
    BY TopologyParts
  <2> HIDE DEF urls, n
  <2>3. n \in TopologyType(t)
    BY <2>1, <2>2, TopologyFields
  <2>4. n.urls = urls
    BY <2>1 DEF TopologyType
  <2>5. /\ n.queued = e.queued /\ n.phase = e.phase /\ n.queue = e.queue /\ n.documents = e.documents /\ n.going = e.going
        /\ n.stops = e.stops /\ n.wrong = e.wrong
    BY <2>1
  <2> QED BY <1>5, <2>3, <2>4, <2>5 DEF Grows, n, urls
<1> QED BY <1>1, <1>2, <1>3, <1>4, <1>5

\* What a fold has come to after each of its elements.
IsRun(run, N, A, base, f) ==
  run \in [0..N -> A] /\ run[0] = base /\ \A n \in 1..N : run[n] = f[n][run[n - 1]]

Unfolds(iter, N, A, base, f) ==
  /\ iter[{}] = base
  /\ \A s \in SUBSET (1..N) : s # {} /\ iter[s \ {Max(s)}] \in A => iter[s] = f[Max(s)][iter[s \ {Max(s)}]]

LEMMA FoldRun ==
  ASSUME NEW N \in Nat, NEW A, NEW base \in A, NEW f, IsStep(f, N, A), NEW iter, Unfolds(iter, N, A, base, f)
  PROVE  \E run : IsRun(run, N, A, base, f) /\ run[N] = iter[1..N]
<1> DEFINE run == [n \in 0..N |-> iter[1..n]]
           Counted == {n \in 0..N : iter[1..n] \in A}
<1>1. iter[1..0] = base
  <2>1. 1..0 = {}
    OBVIOUS
  <2> QED BY <2>1 DEF Unfolds
<1>2. ASSUME NEW n \in 1..N, iter[1..(n - 1)] \in A
      PROVE  iter[1..n] = f[n][iter[1..(n - 1)]] /\ iter[1..n] \in A
  <2>1. 1..n \in SUBSET (1..N) /\ 1..n # {} /\ (1..n) \ {n} = 1..(n - 1) /\ Max(1..n) = n
    BY Intervals
  <2>2. iter[1..n] = f[n][iter[1..(n - 1)]]
    BY <1>2, <2>1 DEF Unfolds
  <2> QED BY <1>2, <2>2 DEF IsStep
<1>3. \A n \in 0..N : n \in Counted
  <2>1. 0 \in Counted /\ Counted \in SUBSET (0..N)
    BY <1>1
  <2>2. ASSUME NEW n \in 1..N, n - 1 \in Counted PROVE n \in Counted
    <3>1. n \in 0..N
      BY Intervals
    <3> QED BY <1>2, <2>2, <3>1
  <2> HIDE DEF Counted
  <2> QED BY <2>1, <2>2, Counting
<1>4. run \in [0..N -> A] /\ run[0] = base /\ run[N] = iter[1..N]
  BY <1>1, <1>3
<1>5. \A n \in 1..N : run[n] = f[n][run[n - 1]]
  <2>1. \A n \in 1..N : run[n] = iter[1..n] /\ run[n - 1] = iter[1..(n - 1)] /\ n - 1 \in 0..N
    OBVIOUS
  <2> HIDE DEF run
  <2> QED BY <1>2, <1>3, <2>1
<1> HIDE DEF run
<1> QED BY <1>4, <1>5 DEF IsRun

-----------------------------------------------------------------------------
\* A list of URLs is taken one after the other.
Gathers(t, X, Y) ==
  {e \in TopologyType(t) : Grows(t, e) /\ e.queued \subseteq t.queued \cup X /\ e.urls \subseteq t.urls \cup Y}

\* If nothing was left out at the end, nothing was on the way.
LEMMA AllTaken ==
  ASSUME NEW N \in Nat, NEW seq, NEW run, NEW got, run[0].going,
         \A n \in 1..N : /\ Grows(run[n - 1], run[n]) /\ got[n - 1] \subseteq got[n]
                         /\ Unflawed(run[n]) /\ run[n - 1].going => run[n].going /\ seq[n] \in got[n]
  PROVE  Unflawed(run[N]) => \A i \in 1..N : seq[i] \in got[N]
<1> DEFINE Counted == {n \in 0..N : Unflawed(run[n]) => run[n].going /\ \A i \in 1..n : seq[i] \in got[n]}
<1>1. 0 \in Counted /\ Counted \in SUBSET (0..N)
  OBVIOUS
<1>2. ASSUME NEW n \in 1..N, n - 1 \in Counted PROVE n \in Counted
  <2>1. n \in 0..N /\ \A i \in 1..n : i = n \/ i \in 1..(n - 1)
    OBVIOUS
  <2>2. SUFFICES ASSUME Unflawed(run[n]) PROVE run[n].going /\ \A i \in 1..n : seq[i] \in got[n]
    BY <2>1
  <2>3. Unflawed(run[n - 1])
    BY <2>2 DEF Unflawed, Grows
  <2>4. run[n - 1].going /\ \A i \in 1..(n - 1) : seq[i] \in got[n - 1]
    BY <1>2, <2>3
  <2> HIDE DEF Counted
  <2> QED BY <2>1, <2>2, <2>4
<1>3. N \in Counted
  <2>1. \A n \in 0..N : n \in Counted
    <3> HIDE DEF Counted
    <3> QED BY <1>1, <1>2, Counting
  <2> QED BY <2>1
<1> QED BY <1>3

WithEntries(t, entries) == FoldLeft(LAMBDA e, url : Enqueued(e, url, 0), t, entries)
WithChildren(depth, t, entries) == FoldLeft(LAMBDA e, url : TakeChild(depth, e, url), t, entries)

\* The entries.
EntersAll(run, t, entries, N) ==
  /\ run \in [0..N -> {g \in Gathers(t, Range(entries), {}) : g.going}] /\ run[0] = t
  /\ \A n \in 1..N : run[n] = Enqueued(run[n - 1], entries[n], 0)
  /\ WithEntries(t, entries) = run[N]

LEMMA EntryRun ==
  ASSUME NEW t, t \in TopologyType(t), t.going, NEW N \in Nat, NEW entries,
         DOMAIN entries = 1..N, \A i \in 1..N : entries[i] \in Text
  PROVE  \E run : EntersAll(run, t, entries, N)
<1> DEFINE A == {g \in Gathers(t, Range(entries), {}) : g.going}
           f == [i \in 1..N |-> [a \in A |-> Enqueued(a, entries[i], 0)]]
           OneStep(it, s) == IF s = {} THEN t ELSE Enqueued(it[s \ {Max(s)}], entries[Max(s)], 0)
           iter == CHOOSE it : it = [s \in SUBSET (1..N) |-> OneStep(it, s)]
<1>1. t \in A
  BY DEF Gathers, Grows
<1>2. ASSUME NEW i \in 1..N, NEW a \in A PROVE Enqueued(a, entries[i], 0) \in A
  <2> DEFINE n == Enqueued(a, entries[i], 0)
  <2>1. a \in TopologyType(t) /\ entries[i] \in Text /\ entries[i] \in Range(entries) /\ 0 \in Nat
    BY DEF Gathers, Range
  <2>2. /\ n \in TopologyType(t) /\ Grows(a, n)
        /\ n.queued \subseteq a.queued \cup {entries[i]} /\ n.urls = a.urls /\ n.going
    BY <2>1, EnqueuedIs
  <2> HIDE DEF n
  <2>3. Grows(t, n)
    <3>1. Grows(t, a)
      BY DEF Gathers
    <3> QED BY <2>2, <3>1, GrowsFurther
  <2> QED BY <2>1, <2>2, <2>3 DEF Gathers, n
<1>3. IsStep(f, N, A)
  BY <1>2 DEF IsStep
<1>4. \A i \in 1..N, a \in A : f[i][a] = Enqueued(a, entries[i], 0)
  OBVIOUS
<1> HIDE DEF f, A
<1>5. \E it : it = [s \in SUBSET (1..N) |-> OneStep(it, s)]
  <2>1. PICK it : IsFold(it, N, A, t, f)
    BY <1>1, <1>3, FoldIs
  <2>2. ASSUME NEW s \in SUBSET (1..N) PROVE it[s] = OneStep(it, s)
    <3>1. CASE s = {}
      BY <2>1, <3>1 DEF IsFold
    <3>2. CASE s # {}
      <4>1. Max(s) \in 1..N
        BY <3>2, LargestOf
      <4>2. it[s \ {Max(s)}] \in A
        BY <2>1 DEF IsFold
      <4>3. f[Max(s)][it[s \ {Max(s)}]] = Enqueued(it[s \ {Max(s)}], entries[Max(s)], 0)
        BY <1>4, <4>1, <4>2
      <4> QED BY <2>1, <3>2, <4>3 DEF IsFold
    <3> QED BY <3>1, <3>2
  <2> HIDE DEF OneStep
  <2>3. it = [s \in SUBSET (1..N) |-> it[s]]
    BY <2>1 DEF IsFold
  <2>4. it = [s \in SUBSET (1..N) |-> OneStep(it, s)]
    BY <2>2, <2>3
  <2> QED BY <2>4
<1>6. \A s \in SUBSET (1..N) : iter[s] = OneStep(iter, s)
  <2> HIDE DEF OneStep
  <2>1. iter = [s \in SUBSET (1..N) |-> OneStep(iter, s)]
    BY <1>5
  <2> HIDE DEF iter
  <2> QED BY <2>1
<1>7. WithEntries(t, entries) = iter[1..N]
  BY Zenon DEF FoldLeft, MapThenFoldSet, WithEntries
<1> HIDE DEF iter
<1>8. iter[{}] = t
  BY <1>6
<1>9. ASSUME NEW s \in SUBSET (1..N), s # {}, iter[s \ {Max(s)}] \in A
      PROVE  iter[s] = f[Max(s)][iter[s \ {Max(s)}]]
  <2>1. Max(s) \in 1..N
    BY <1>9, LargestOf
  <2>2. f[Max(s)][iter[s \ {Max(s)}]] = Enqueued(iter[s \ {Max(s)}], entries[Max(s)], 0)
    BY <1>4, <1>9, <2>1
  <2> QED BY <1>6, <1>9, <2>2
<1> HIDE DEF OneStep
<1>10. PICK run : IsRun(run, N, A, t, f) /\ run[N] = iter[1..N]
  <2>1. Unfolds(iter, N, A, t, f)
    BY <1>8, <1>9 DEF Unfolds
  <2> QED BY <1>1, <1>3, <2>1, FoldRun
<1>11. \A n \in 1..N : run[n] = Enqueued(run[n - 1], entries[n], 0)
  <2>1. \A n \in 1..N : n - 1 \in 0..N
    OBVIOUS
  <2> QED BY <1>4, <1>10, <2>1 DEF IsRun
<1> QED BY <1>7, <1>10, <1>11 DEF A, IsRun, EntersAll

\* The children of a document.
TakesChildren(run, t, entries, N, depth) ==
  /\ run \in [0..N -> Gathers(t, Range(entries), {})] /\ run[0] = t
  /\ \A n \in 1..N : run[n] = TakeChild(depth, run[n - 1], entries[n])
  /\ WithChildren(depth, t, entries) = run[N]

LEMMA ChildRun ==
  ASSUME NEW t, t \in TopologyType(t), t.going, NEW N \in Nat, NEW depth \in Nat, NEW entries,
         DOMAIN entries = 1..N, \A i \in 1..N : entries[i] \in Text
  PROVE  \E run : TakesChildren(run, t, entries, N, depth)
<1> DEFINE A == Gathers(t, Range(entries), {})
           f == [i \in 1..N |-> [a \in A |-> TakeChild(depth, a, entries[i])]]
           OneStep(it, s) == IF s = {} THEN t ELSE TakeChild(depth, it[s \ {Max(s)}], entries[Max(s)])
           iter == CHOOSE it : it = [s \in SUBSET (1..N) |-> OneStep(it, s)]
<1>1. t \in A
  BY DEF Gathers, Grows
<1>2. ASSUME NEW i \in 1..N, NEW a \in A PROVE TakeChild(depth, a, entries[i]) \in A
  <2> DEFINE n == TakeChild(depth, a, entries[i])
  <2>1. a \in TopologyType(t) /\ entries[i] \in Text /\ entries[i] \in Range(entries) /\ 0 \in Nat
    BY DEF Gathers, Range
  <2>2. /\ n \in TopologyType(t) /\ Grows(a, n)
        /\ n.queued \subseteq a.queued \cup {entries[i]} /\ n.urls = a.urls
    BY <2>1, TakeChildIs
  <2> HIDE DEF n
  <2>3. Grows(t, n)
    <3>1. Grows(t, a)
      BY DEF Gathers
    <3> QED BY <2>2, <3>1, GrowsFurther
  <2> QED BY <2>1, <2>2, <2>3 DEF Gathers, n
<1>3. IsStep(f, N, A)
  BY <1>2 DEF IsStep
<1>4. \A i \in 1..N, a \in A : f[i][a] = TakeChild(depth, a, entries[i])
  OBVIOUS
<1> HIDE DEF f, A
<1>5. \E it : it = [s \in SUBSET (1..N) |-> OneStep(it, s)]
  <2>1. PICK it : IsFold(it, N, A, t, f)
    BY <1>1, <1>3, FoldIs
  <2>2. ASSUME NEW s \in SUBSET (1..N) PROVE it[s] = OneStep(it, s)
    <3>1. CASE s = {}
      BY <2>1, <3>1 DEF IsFold
    <3>2. CASE s # {}
      <4>1. Max(s) \in 1..N
        BY <3>2, LargestOf
      <4>2. it[s \ {Max(s)}] \in A
        BY <2>1 DEF IsFold
      <4>3. f[Max(s)][it[s \ {Max(s)}]] = TakeChild(depth, it[s \ {Max(s)}], entries[Max(s)])
        BY <1>4, <4>1, <4>2
      <4> QED BY <2>1, <3>2, <4>3 DEF IsFold
    <3> QED BY <3>1, <3>2
  <2> HIDE DEF OneStep
  <2>3. it = [s \in SUBSET (1..N) |-> it[s]]
    BY <2>1 DEF IsFold
  <2>4. it = [s \in SUBSET (1..N) |-> OneStep(it, s)]
    BY <2>2, <2>3
  <2> QED BY <2>4
<1>6. \A s \in SUBSET (1..N) : iter[s] = OneStep(iter, s)
  <2> HIDE DEF OneStep
  <2>1. iter = [s \in SUBSET (1..N) |-> OneStep(iter, s)]
    BY <1>5
  <2> HIDE DEF iter
  <2> QED BY <2>1
<1>7. WithChildren(depth, t, entries) = iter[1..N]
  BY Zenon DEF FoldLeft, MapThenFoldSet, WithChildren
<1> HIDE DEF iter
<1>8. iter[{}] = t
  BY <1>6
<1>9. ASSUME NEW s \in SUBSET (1..N), s # {}, iter[s \ {Max(s)}] \in A
      PROVE  iter[s] = f[Max(s)][iter[s \ {Max(s)}]]
  <2>1. Max(s) \in 1..N
    BY <1>9, LargestOf
  <2>2. f[Max(s)][iter[s \ {Max(s)}]] = TakeChild(depth, iter[s \ {Max(s)}], entries[Max(s)])
    BY <1>4, <1>9, <2>1
  <2> QED BY <1>6, <1>9, <2>2
<1> HIDE DEF OneStep
<1>10. PICK run : IsRun(run, N, A, t, f) /\ run[N] = iter[1..N]
  <2>1. Unfolds(iter, N, A, t, f)
    BY <1>8, <1>9 DEF Unfolds
  <2> QED BY <1>1, <1>3, <2>1, FoldRun
<1>11. \A n \in 1..N : run[n] = TakeChild(depth, run[n - 1], entries[n])
  <2>1. \A n \in 1..N : n - 1 \in 0..N
    OBVIOUS
  <2> QED BY <1>4, <1>10, <2>1 DEF IsRun
<1> QED BY <1>7, <1>10, <1>11 DEF A, IsRun, TakesChildren

\* The pages of a document.
TakesUrls(run, t, entries, N) ==
  /\ run \in [0..N -> Gathers(t, {}, Range(entries))] /\ run[0] = t
  /\ \A n \in 1..N : run[n] = TakeUrl(run[n - 1], entries[n])
  /\ FoldLeft(TakeUrl, t, entries) = run[N]

LEMMA UrlRun ==
  ASSUME NEW t, t \in TopologyType(t), t.going, NEW N \in Nat, NEW entries,
         DOMAIN entries = 1..N, \A i \in 1..N : entries[i] \in Text
  PROVE  \E run : TakesUrls(run, t, entries, N)
<1> DEFINE A == Gathers(t, {}, Range(entries))
           f == [i \in 1..N |-> [a \in A |-> TakeUrl(a, entries[i])]]
           OneStep(it, s) == IF s = {} THEN t ELSE TakeUrl(it[s \ {Max(s)}], entries[Max(s)])
           iter == CHOOSE it : it = [s \in SUBSET (1..N) |-> OneStep(it, s)]
<1>1. t \in A
  BY DEF Gathers, Grows
<1>2. ASSUME NEW i \in 1..N, NEW a \in A PROVE TakeUrl(a, entries[i]) \in A
  <2> DEFINE n == TakeUrl(a, entries[i])
  <2>1. a \in TopologyType(t) /\ entries[i] \in Text /\ entries[i] \in Range(entries) /\ 0 \in Nat
    BY DEF Gathers, Range
  <2>2. /\ n \in TopologyType(t) /\ Grows(a, n)
        /\ n.queued = a.queued /\ n.urls \subseteq a.urls \cup {entries[i]}
    BY <2>1, TakeUrlIs
  <2> HIDE DEF n
  <2>3. Grows(t, n)
    <3>1. Grows(t, a)
      BY DEF Gathers
    <3> QED BY <2>2, <3>1, GrowsFurther
  <2> QED BY <2>1, <2>2, <2>3 DEF Gathers, n
<1>3. IsStep(f, N, A)
  BY <1>2 DEF IsStep
<1>4. \A i \in 1..N, a \in A : f[i][a] = TakeUrl(a, entries[i])
  OBVIOUS
<1> HIDE DEF f, A
<1>5. \E it : it = [s \in SUBSET (1..N) |-> OneStep(it, s)]
  <2>1. PICK it : IsFold(it, N, A, t, f)
    BY <1>1, <1>3, FoldIs
  <2>2. ASSUME NEW s \in SUBSET (1..N) PROVE it[s] = OneStep(it, s)
    <3>1. CASE s = {}
      BY <2>1, <3>1 DEF IsFold
    <3>2. CASE s # {}
      <4>1. Max(s) \in 1..N
        BY <3>2, LargestOf
      <4>2. it[s \ {Max(s)}] \in A
        BY <2>1 DEF IsFold
      <4>3. f[Max(s)][it[s \ {Max(s)}]] = TakeUrl(it[s \ {Max(s)}], entries[Max(s)])
        BY <1>4, <4>1, <4>2
      <4> QED BY <2>1, <3>2, <4>3 DEF IsFold
    <3> QED BY <3>1, <3>2
  <2> HIDE DEF OneStep
  <2>3. it = [s \in SUBSET (1..N) |-> it[s]]
    BY <2>1 DEF IsFold
  <2>4. it = [s \in SUBSET (1..N) |-> OneStep(it, s)]
    BY <2>2, <2>3
  <2> QED BY <2>4
<1>6. \A s \in SUBSET (1..N) : iter[s] = OneStep(iter, s)
  <2> HIDE DEF OneStep
  <2>1. iter = [s \in SUBSET (1..N) |-> OneStep(iter, s)]
    BY <1>5
  <2> HIDE DEF iter
  <2> QED BY <2>1
<1>7. FoldLeft(TakeUrl, t, entries) = iter[1..N]
  BY Zenon DEF FoldLeft, MapThenFoldSet
<1> HIDE DEF iter
<1>8. iter[{}] = t
  BY <1>6
<1>9. ASSUME NEW s \in SUBSET (1..N), s # {}, iter[s \ {Max(s)}] \in A
      PROVE  iter[s] = f[Max(s)][iter[s \ {Max(s)}]]
  <2>1. Max(s) \in 1..N
    BY <1>9, LargestOf
  <2>2. f[Max(s)][iter[s \ {Max(s)}]] = TakeUrl(iter[s \ {Max(s)}], entries[Max(s)])
    BY <1>4, <1>9, <2>1
  <2> QED BY <1>6, <1>9, <2>2
<1> HIDE DEF OneStep
<1>10. PICK run : IsRun(run, N, A, t, f) /\ run[N] = iter[1..N]
  <2>1. Unfolds(iter, N, A, t, f)
    BY <1>8, <1>9 DEF Unfolds
  <2> QED BY <1>1, <1>3, <2>1, FoldRun
<1>11. \A n \in 1..N : run[n] = TakeUrl(run[n - 1], entries[n])
  <2>1. \A n \in 1..N : n - 1 \in 0..N
    OBVIOUS
  <2> QED BY <1>4, <1>10, <2>1 DEF IsRun
<1> QED BY <1>7, <1>10, <1>11 DEF A, IsRun, TakesUrls

LEMMA EntriesTaken ==
  ASSUME NEW t, t \in TopologyType(t), t.going, NEW entries \in Seq(Text)
  PROVE  LET e == WithEntries(t, entries) IN
         /\ e \in TopologyType(t) /\ Grows(t, e)
         /\ e.queued \subseteq t.queued \cup Range(entries) /\ e.urls = t.urls /\ e.going
         /\ Unflawed(e) => Range(entries) \subseteq e.queued
<1> DEFINE N == Len(entries)
           e == WithEntries(t, entries)
<1>1. N \in Nat /\ DOMAIN entries = 1..N /\ \A i \in 1..N : entries[i] \in Text
  OBVIOUS
<1> HIDE DEF N
<1>2. PICK run : EntersAll(run, t, entries, N)
  BY <1>1, EntryRun
<1>3. /\ run \in [0..N -> {g \in Gathers(t, Range(entries), {}) : g.going}] /\ run[0] = t /\ e = run[N]
      /\ \A n \in 1..N : run[n] = Enqueued(run[n - 1], entries[n], 0)
  BY <1>2 DEF EntersAll
<1> HIDE DEF e
<1> DEFINE got == [n \in 0..N |-> run[n].queued]
<1>4. ASSUME NEW n \in 1..N
      PROVE  /\ Grows(run[n - 1], run[n]) /\ got[n - 1] \subseteq got[n]
             /\ Unflawed(run[n]) /\ run[n - 1].going => run[n].going /\ entries[n] \in got[n]
  <2>1. n \in 0..N /\ n - 1 \in 0..N
    BY <1>1
  <2>2. run[n - 1] \in TopologyType(t) /\ entries[n] \in Text /\ run[n] = Enqueued(run[n - 1], entries[n], 0) /\ 0 \in Nat
    BY <1>1, <1>3, <2>1 DEF Gathers
  <2>3. /\ Grows(run[n - 1], run[n])
        /\ Unflawed(run[n]) /\ run[n - 1].going => run[n].going /\ entries[n] \in run[n].queued
    <3> DEFINE last == run[n - 1]
               url == entries[n]
               first == 0
    <3>1. last \in TopologyType(t) /\ url \in Text /\ run[n] = Enqueued(last, url, first)
      BY <2>2
    <3>0. first \in Nat
      OBVIOUS
    <3> HIDE DEF last, url, first
    <3>2. Grows(last, run[n]) /\ (Unflawed(run[n]) /\ last.going => run[n].going /\ url \in run[n].queued)
      BY <3>0, <3>1, EnqueuedIs
    <3> QED BY <3>2 DEF last, url
  <2> QED BY <2>1, <2>3 DEF Grows
<1>5. Unflawed(run[N]) => \A i \in 1..N : entries[i] \in got[N]
  <2> HIDE DEF got
  <2> QED BY <1>1, <1>3, <1>4, AllTaken
<1>6. e \in {g \in Gathers(t, Range(entries), {}) : g.going} /\ got[N] = e.queued
  BY <1>1, <1>3
<1>7. /\ e \in TopologyType(t) /\ Grows(t, e)
      /\ e.queued \subseteq t.queued \cup Range(entries) /\ e.urls = t.urls /\ e.going
  BY <1>6 DEF Gathers, Grows
<1>8. Unflawed(e) => Range(entries) \subseteq e.queued
  BY <1>1, <1>3, <1>5, <1>6 DEF Range
<1> QED BY <1>7, <1>8 DEF e

LEMMA ChildrenTaken ==
  ASSUME NEW t, t \in TopologyType(t), t.going, NEW depth \in Nat, NEW entries \in Seq(Text)
  PROVE  LET e == WithChildren(depth, t, entries) IN
         /\ e \in TopologyType(t) /\ Grows(t, e)
         /\ e.queued \subseteq t.queued \cup Range(entries) /\ e.urls = t.urls
         /\ Unflawed(e) => Range(entries) \subseteq e.queued
<1> DEFINE N == Len(entries)
           e == WithChildren(depth, t, entries)
<1>1. N \in Nat /\ DOMAIN entries = 1..N /\ \A i \in 1..N : entries[i] \in Text
  OBVIOUS
<1> HIDE DEF N
<1>2. PICK run : TakesChildren(run, t, entries, N, depth)
  BY <1>1, ChildRun
<1>3. /\ run \in [0..N -> Gathers(t, Range(entries), {})] /\ run[0] = t /\ e = run[N]
      /\ \A n \in 1..N : run[n] = TakeChild(depth, run[n - 1], entries[n])
  BY <1>2 DEF TakesChildren
<1> HIDE DEF e
<1> DEFINE got == [n \in 0..N |-> run[n].queued]
<1>4. ASSUME NEW n \in 1..N
      PROVE  /\ Grows(run[n - 1], run[n]) /\ got[n - 1] \subseteq got[n]
             /\ Unflawed(run[n]) /\ run[n - 1].going => run[n].going /\ entries[n] \in got[n]
  <2>1. n \in 0..N /\ n - 1 \in 0..N
    BY <1>1
  <2>2. run[n - 1] \in TopologyType(t) /\ entries[n] \in Text /\ run[n] = TakeChild(depth, run[n - 1], entries[n])
    BY <1>1, <1>3, <2>1 DEF Gathers
  <2>3. /\ Grows(run[n - 1], run[n])
        /\ Unflawed(run[n]) /\ run[n - 1].going => run[n].going /\ entries[n] \in run[n].queued
    <3> DEFINE last == run[n - 1]
               url == entries[n]
    <3>1. last \in TopologyType(t) /\ url \in Text /\ run[n] = TakeChild(depth, last, url) /\ depth \in Nat
      BY <2>2
    <3> HIDE DEF last, url, got
    <3>2. Grows(last, run[n]) /\ (Unflawed(run[n]) /\ last.going => run[n].going /\ url \in run[n].queued)
      BY <3>1, TakeChildIs
    <3> QED BY <3>2 DEF last, url
  <2> QED BY <2>1, <2>3 DEF Grows
<1>5. Unflawed(run[N]) => \A i \in 1..N : entries[i] \in got[N]
  <2> HIDE DEF got
  <2> QED BY <1>1, <1>3, <1>4, AllTaken
<1>6. e \in Gathers(t, Range(entries), {}) /\ got[N] = e.queued
  BY <1>1, <1>3
<1>7. /\ e \in TopologyType(t) /\ Grows(t, e)
      /\ e.queued \subseteq t.queued \cup Range(entries) /\ e.urls = t.urls
  BY <1>6 DEF Gathers, Grows
<1>8. Unflawed(e) => Range(entries) \subseteq e.queued
  BY <1>1, <1>3, <1>5, <1>6 DEF Range
<1> QED BY <1>7, <1>8 DEF e

LEMMA UrlsTaken ==
  ASSUME NEW t, t \in TopologyType(t), t.going, NEW entries \in Seq(Text)
  PROVE  LET e == FoldLeft(TakeUrl, t, entries) IN
         /\ e \in TopologyType(t) /\ Grows(t, e)
         /\ e.urls \subseteq t.urls \cup Range(entries) /\ e.queued = t.queued
         /\ Unflawed(e) => Range(entries) \subseteq e.urls
<1> DEFINE N == Len(entries)
           e == FoldLeft(TakeUrl, t, entries)
<1>1. N \in Nat /\ DOMAIN entries = 1..N /\ \A i \in 1..N : entries[i] \in Text
  OBVIOUS
<1> HIDE DEF N
<1>2. PICK run : TakesUrls(run, t, entries, N)
  BY <1>1, UrlRun
<1>3. /\ run \in [0..N -> Gathers(t, {}, Range(entries))] /\ run[0] = t /\ e = run[N]
      /\ \A n \in 1..N : run[n] = TakeUrl(run[n - 1], entries[n])
  BY <1>2 DEF TakesUrls
<1> HIDE DEF e
<1> DEFINE got == [n \in 0..N |-> run[n].urls]
<1>4. ASSUME NEW n \in 1..N
      PROVE  /\ Grows(run[n - 1], run[n]) /\ got[n - 1] \subseteq got[n]
             /\ Unflawed(run[n]) /\ run[n - 1].going => run[n].going /\ entries[n] \in got[n]
  <2>1. n \in 0..N /\ n - 1 \in 0..N
    BY <1>1
  <2>2. run[n - 1] \in TopologyType(t) /\ entries[n] \in Text /\ run[n] = TakeUrl(run[n - 1], entries[n])
    BY <1>1, <1>3, <2>1 DEF Gathers
  <2>3. /\ Grows(run[n - 1], run[n])
        /\ Unflawed(run[n]) /\ run[n - 1].going => run[n].going /\ entries[n] \in run[n].urls
    <3> DEFINE last == run[n - 1]
               url == entries[n]
    <3>1. last \in TopologyType(t) /\ url \in Text /\ run[n] = TakeUrl(last, url)
      BY <2>2
    <3> HIDE DEF last, url, got
    <3>2. Grows(last, run[n]) /\ (Unflawed(run[n]) /\ last.going => run[n].going /\ url \in run[n].urls)
      BY <3>1, TakeUrlIs
    <3> QED BY <3>2 DEF last, url
  <2> QED BY <2>1, <2>3 DEF Grows
<1>5. Unflawed(run[N]) => \A i \in 1..N : entries[i] \in got[N]
  <2> HIDE DEF got
  <2> QED BY <1>1, <1>3, <1>4, AllTaken
<1>6. e \in Gathers(t, {}, Range(entries)) /\ got[N] = e.urls
  BY <1>1, <1>3
<1>7. /\ e \in TopologyType(t) /\ Grows(t, e)
      /\ e.urls \subseteq t.urls \cup Range(entries) /\ e.queued = t.queued
  BY <1>6 DEF Gathers, Grows
<1>8. Unflawed(e) => Range(entries) \subseteq e.urls
  BY <1>1, <1>3, <1>5, <1>6 DEF Range
<1> QED BY <1>7, <1>8 DEF e

-----------------------------------------------------------------------------
LEMMA ContentsIs ==
  ASSUME NEW t, t \in TopologyType(t), t.going, NEW depth \in Nat, NEW parsed,
         NEW children \in Seq(Text), children = IF parsed.rootValid THEN parsed.children ELSE << >>,
         NEW pages \in Seq(Text), pages = IF parsed.rootValid THEN parsed.urls ELSE << >>
  PROVE  LET e == Contents(t, depth, parsed) IN
         /\ e \in TopologyType(t) /\ Grows(t, e) /\ e.going
         /\ e.queued \subseteq t.queued \cup Range(children) /\ e.urls \subseteq t.urls \cup Range(pages)
         /\ Unflawed(e) => Range(children) \subseteq e.queued /\ Range(pages) \subseteq e.urls
<1> DEFINE below == FoldLeft(LAMBDA acc, url : TakeChild(depth + 1, acc, url), t, children)
           yes == TRUE
           base == [below EXCEPT !.going = yes]
           read == FoldLeft(TakeUrl, base, pages)
           more == depth + 1
           e == [read EXCEPT !.going = yes]
<1>1. Contents(t, depth, parsed) = e
  BY DEF Contents
<1>2. /\ below \in TopologyType(t) /\ Grows(t, below)
      /\ below.queued \subseteq t.queued \cup Range(children) /\ below.urls = t.urls
      /\ Unflawed(below) => Range(children) \subseteq below.queued
  <2>1. more \in Nat /\ below = WithChildren(more, t, children)
    BY DEF WithChildren
  <2> HIDE DEF more, below
  <2> QED BY <2>1, ChildrenTaken
<1> HIDE DEF below
<1>3. yes \in BOOLEAN
  OBVIOUS
<1>4. /\ base \in TopologyType(t) /\ base.stops = below.stops /\ base.wrong = below.wrong /\ base.going = yes
      /\ base.queue = below.queue /\ base.queued = below.queued /\ base.phase = below.phase /\ base.urls = below.urls
      /\ base.documents = below.documents
  <2> HIDE DEF yes
  <2> QED BY <1>2, <1>3, GoingType
<1> HIDE DEF base
<1>5. TopologyType(base) = TopologyType(t)
  <2>1. base.unpacked = t.unpacked
    BY <1>4, TopologyParts
  <2> QED BY <2>1 DEF TopologyType
<1>6. /\ read \in TopologyType(t) /\ Grows(base, read)
      /\ read.urls \subseteq base.urls \cup Range(pages) /\ read.queued = base.queued
      /\ Unflawed(read) => Range(pages) \subseteq read.urls
  <2>1. base \in TopologyType(base) /\ base.going
    BY <1>4, <1>5
  <2> QED BY <1>5, <2>1, UrlsTaken
<1> HIDE DEF read
<1>7. /\ e \in TopologyType(t) /\ e.stops = read.stops /\ e.wrong = read.wrong /\ e.going = yes
      /\ e.queue = read.queue /\ e.queued = read.queued /\ e.phase = read.phase /\ e.urls = read.urls
      /\ e.documents = read.documents
  <2> HIDE DEF yes
  <2> QED BY <1>3, <1>6, GoingType
<1> HIDE DEF e
<1>8. Grows(t, base) /\ Grows(base, e)
  BY <1>2, <1>4, <1>6, <1>7 DEF Grows, Unflawed
<1>9. Grows(t, e)
  BY <1>8, GrowsFurther
<1>10. Unflawed(e) => Unflawed(read) /\ Unflawed(below)
  BY <1>4, <1>6, <1>7 DEF Grows, Unflawed
<1> QED BY <1>1, <1>2, <1>4, <1>6, <1>7, <1>9, <1>10

\* The record of a document that was read without a flaw says so.
LEMMA ParsedRecordIs ==
  ASSUME NEW t, t \in TopologyType(t), NEW parsed
  PROVE  LET r == ParsedRecord(t, parsed) IN
         /\ r \in TopologyType(t) /\ r.queue = t.queue /\ r.queued = t.queued /\ r.urls = t.urls
         /\ r.going = t.going /\ t.stops \subseteq r.stops /\ r.wrong = t.wrong
         /\ Len(r.documents) = Len(t.documents)
         /\ Unflawed(r) => /\ parsed.truncated = "" /\ Unflawed(t)
                           /\ \A i \in 1..Len(t.documents) :
                                r.documents[i] = IF i = Len(t.documents) THEN IF parsed.errors THEN "malformed" ELSE "fetched"
                                                 ELSE t.documents[i]
<1> DEFINE status == IF parsed.errors THEN "malformed" ELSE "fetched"
           read == Marked(t, status)
           late == "truncated"
           cut == Marked(read, late)
           reason == IF parsed.truncated = "tokens" THEN "max_xml_tokens_exceeded" ELSE "max_raw_entries_exceeded"
           r == ParsedRecord(t, parsed)
<1>1. status \in Verdicts /\ late \in Verdicts /\ reason \in Reasons
  BY DEF Verdicts, Reasons
<1>2. r = IF parsed.truncated = "" THEN read ELSE Stop(cut, reason)
  BY DEF ParsedRecord
<1> HIDE DEF r, reason, late
<1>3. /\ read \in TopologyType(t) /\ read.queue = t.queue /\ read.queued = t.queued /\ read.urls = t.urls
      /\ read.going = t.going /\ read.stops = t.stops /\ read.wrong = t.wrong
      /\ Len(read.documents) = Len(t.documents)
      /\ \A i \in 1..Len(t.documents) : read.documents[i] = IF i = Len(t.documents) THEN status ELSE t.documents[i]
  <2> HIDE DEF status
  <2> QED BY <1>1, MarkedType
<1> HIDE DEF read
<1>4. CASE parsed.truncated = ""
  <2>1. r = read
    BY <1>2, <1>4
  <2> HIDE DEF status
  <2>2. /\ r \in TopologyType(t) /\ r.queue = t.queue /\ r.queued = t.queued /\ r.urls = t.urls
        /\ r.going = t.going /\ r.stops = t.stops /\ r.wrong = t.wrong
        /\ Len(r.documents) = Len(t.documents)
        /\ \A i \in 1..Len(t.documents) : r.documents[i] = IF i = Len(t.documents) THEN status ELSE t.documents[i]
    BY <1>3, <2>1
  <2>3. Unflawed(r) => Unflawed(t)
    BY <2>2 DEF Unflawed
  <2> QED BY <1>4, <2>2, <2>3 DEF r, status
<1>5. CASE parsed.truncated # ""
  <2>1. /\ cut \in TopologyType(t) /\ cut.queue = read.queue /\ cut.queued = read.queued /\ cut.urls = read.urls
        /\ cut.going = read.going /\ cut.stops = read.stops /\ cut.wrong = read.wrong
        /\ Len(cut.documents) = Len(read.documents)
    BY <1>1, <1>3, MarkedType
  <2> HIDE DEF cut
  <2>2. r = Stop(cut, reason)
    BY <1>2, <1>5
  <2>3. /\ r \in TopologyType(t) /\ r.queue = cut.queue /\ r.queued = cut.queued /\ r.urls = cut.urls
        /\ r.going = cut.going /\ cut.stops \subseteq r.stops /\ r.wrong = cut.wrong
        /\ r.documents = cut.documents /\ ~Unflawed(r)
    BY <1>1, <2>1, <2>2, StopType
  <2> QED BY <1>3, <2>1, <2>3 DEF r
<1> QED BY <1>4, <1>5

-----------------------------------------------------------------------------
(***************************************************************************)
(* The retrieval of a document goes only where a redirect leads.           *)
(***************************************************************************)
IsSeq(s) == \E S : s \in Seq(S)

LEMMA SeqGrows ==
  ASSUME NEW s, IsSeq(s), NEW e
  PROVE  /\ IsSeq(Append(s, e)) /\ Len(Append(s, e)) = Len(s) + 1 /\ Len(s) \in Nat
         /\ Append(s, e)[Len(s) + 1] = e
         /\ \A i \in 1..Len(s) : Append(s, e)[i] = s[i]
<1>1. PICK S : s \in Seq(S)
  BY DEF IsSeq
<1>2. s \in Seq(S \cup {e}) /\ e \in S \cup {e}
  BY <1>1
<1>3. Append(s, e) \in Seq(S \cup {e})
  BY <1>2
<1> QED BY <1>1, <1>2, <1>3 DEF IsSeq
LEMMA RangeGrows ==
  ASSUME NEW s, IsSeq(s), NEW e
  PROVE  IsSeq(Append(s, e)) /\ Range(Append(s, e)) = Range(s) \cup {e}
<1> DEFINE more == Append(s, e)
<1>1. /\ IsSeq(more) /\ Len(more) = Len(s) + 1 /\ Len(s) \in Nat /\ more[Len(s) + 1] = e
      /\ \A i \in 1..Len(s) : more[i] = s[i]
  BY SeqGrows
<1>2. DOMAIN s = 1..Len(s) /\ DOMAIN more = 1..Len(more)
  BY <1>1 DEF IsSeq
<1> HIDE DEF more
<1>3. \A i \in 1..Len(more) : i = Len(s) + 1 \/ i \in 1..Len(s)
  BY <1>1
<1>4. Len(s) + 1 \in 1..Len(more) /\ \A i \in 1..Len(s) : i \in 1..Len(more)
  BY <1>1
<1> QED BY <1>1, <1>2, <1>3, <1>4 DEF Range, more

Retrievals(f) ==
  [is : {f.is}, requested : {f.requested}, at : {f.at}, hop : {f.hop}, attempt : {f.attempt}, number : {f.number},
   attempts : {f.attempts}, chain : {f.chain}, status : {f.status}, code : {f.code}]

RetrievalInv ==
  /\ fetch \in Retrievals(fetch) /\ IsSeq(fetch.chain) /\ fetch.at \in Reachable
  /\ \A url \in Range(fetch.chain) :
       url \in DOMAIN web /\ web[url].status = 301 /\ web[url].to \in Range(fetch.chain) \cup {fetch.at}
  /\ fetch.requested \in Range(fetch.chain) \cup {fetch.at}
  /\ fetch.is \in {"answered", "returned"} => fetch.status \in {Served(fetch.at).status, 503}

PagesOf(url) == IF url \in DOMAIN web /\ web[url].status = 200 /\ ~IsIndex(url) THEN Locations(url) ELSE {}

LEMMA SameOrigin ==
  ASSUME origin' = origin
  PROVE  /\ Reachable' = Reachable /\ PagesThere' = PagesThere
         /\ \A url : Leads(url)' = Leads(url) /\ PagesOf(url)' = PagesOf(url)
<1>1. web' = web
  BY DEF web
<1>2. Reachable' = Reachable
  BY DEF Reachable, Beyond, IsIndex, Locations, web
<1>3. PagesThere' = PagesThere
  BY <1>1, <1>2 DEF PagesThere, IsIndex, Locations
<1>4. \A url : Leads(url)' = Leads(url) /\ PagesOf(url)' = PagesOf(url)
  BY <1>1 DEF Leads, PagesOf, IsIndex, Locations
<1> QED BY <1>2, <1>3, <1>4

LEMMA RetrievalKeeps ==
  ASSUME RetrievalInv, origin' = origin, fetch' \in Retrievals(fetch'),
         fetch'.requested = fetch.requested, fetch'.at = fetch.at, fetch'.chain = fetch.chain,
         fetch'.is \in {"answered", "returned"} => fetch'.status \in {Served(fetch.at).status, 503}
  PROVE  RetrievalInv'
<1>1. Reachable' = Reachable /\ web' = web
  BY SameOrigin DEF web
<1>2. Served(fetch.at)' = Served(fetch'.at)
  BY <1>1 DEF Served
<1> QED BY <1>1 DEF RetrievalInv, Served

LEMMA StepRetrieval ==
  ASSUME RetrievalInv, RetrievalNext, origin \in DOMAIN Origins
  PROVE  RetrievalInv' /\ fetch'.requested = fetch.requested /\ origin' = origin
<1>0. fetch \in Retrievals(fetch)
  BY DEF RetrievalInv
<1>1. ASSUME NEW code, NEW attempts, fetch' = Failed(code, attempts)
      PROVE  /\ fetch' \in Retrievals(fetch') /\ fetch'.requested = fetch.requested /\ fetch'.at = fetch.at
             /\ fetch'.chain = fetch.chain /\ fetch'.is = "failed"
  BY <1>0, <1>1 DEF Failed, Retrievals
<1>2. ASSUME NEW attempts, fetch' = TryAgain(attempts)
      PROVE  /\ fetch' \in Retrievals(fetch') /\ fetch'.requested = fetch.requested /\ fetch'.at = fetch.at
             /\ fetch'.chain = fetch.chain /\ fetch'.is = fetch.is /\ fetch'.status = fetch.status
  BY <1>0, <1>2 DEF TryAgain, Retrievals
<1>3. CASE Refused
  <2>1. fetch' = Failed("FETCH_ERROR", Logged("error", "stop")) /\ origin' = origin
    BY <1>3 DEF Refused
  <2> QED BY <1>1, <2>1, RetrievalKeeps
<1>4. ASSUME NEW code, AttemptFails(code) PROVE RetrievalInv' /\ fetch'.requested = fetch.requested /\ origin' = origin
  <2>1. /\ fetch.is = "trying" /\ origin' = origin
        /\ fetch' = Failed(code, Logged("error", "stop")) \/ fetch' = TryAgain(Logged("error", "retry"))
    BY <1>4 DEF AttemptFails
  <2>2. /\ fetch' \in Retrievals(fetch') /\ fetch'.requested = fetch.requested /\ fetch'.at = fetch.at
        /\ fetch'.chain = fetch.chain /\ fetch'.is \in {"failed", "trying"}
    BY <1>1, <1>2, <2>1
  <2> QED BY <2>1, <2>2, RetrievalKeeps
<1>5. CASE MomentaryError
  <2>1. PICK attempts : fetch' = TryAgain(attempts) /\ fetch.is = "trying" /\ origin' = origin
    BY <1>5 DEF MomentaryError
  <2> QED BY <1>2, <2>1, RetrievalKeeps
<1>6. CASE Responds
  <2>1. PICK status \in {Served(fetch.at).status, 503} :
          fetch' = [fetch EXCEPT !.is = "answered", !.status = status] /\ origin' = origin
    BY <1>6 DEF Responds
  <2>2. /\ fetch' \in Retrievals(fetch') /\ fetch'.requested = fetch.requested /\ fetch'.at = fetch.at
        /\ fetch'.chain = fetch.chain /\ fetch'.status = status
    BY <1>0, <2>1 DEF Retrievals
  <2> QED BY <2>1, <2>2, RetrievalKeeps
<1>7. CASE FollowRedirect
  <2> DEFINE to == web[fetch.at].to
             told == Logged("response", IF fetch.hop = MaxHops THEN "stop" ELSE "redirect")
             next == [fetch EXCEPT !.is = "trying", !.at = to, !.hop = @ + 1, !.attempt = 1, !.number = @ + 1,
                                   !.attempts = told, !.chain = Append(@, fetch.at)]
  <2>1. fetch.is = "answered" /\ fetch.status = 301 /\ origin' = origin
    BY <1>7 DEF FollowRedirect
  <2>2. \/ \E code : fetch' = Failed(code, told)
        \/ fetch' = next
        \/ fetch' = [next EXCEPT !.is = "failed", !.code = "FETCH_ERROR", !.attempts = << >>]
    BY <1>7 DEF FollowRedirect
  <2>3. CASE \E code : fetch' = Failed(code, told)
    BY <1>1, <2>1, <2>3, RetrievalKeeps
  <2>4. CASE ~\E code : fetch' = Failed(code, told)
    <3>1. /\ fetch' \in Retrievals(fetch') /\ fetch'.requested = fetch.requested /\ fetch'.at = to
          /\ fetch'.chain = Append(fetch.chain, fetch.at) /\ fetch'.is \in {"trying", "failed"}
      <4>1. CASE fetch' = next
        <5> HIDE DEF told, to
        <5> QED BY <1>0, <4>1 DEF Retrievals
      <4>2. CASE fetch' = [next EXCEPT !.is = "failed", !.code = "FETCH_ERROR", !.attempts = << >>]
        <5> HIDE DEF told, to
        <5> QED BY <1>0, <4>2 DEF Retrievals
      <4> HIDE DEF next, told, to
      <4> QED BY <2>2, <2>4, <4>1, <4>2
    <3>2. fetch.at \in DOMAIN web /\ web[fetch.at].status = 301 /\ fetch.at \in Reachable
      BY <2>1 DEF RetrievalInv, Served
    <3>3. to \in Reachable
      <4>1. Leads(fetch.at) = {to}
        BY <3>2 DEF Leads
      <4>2. Leads(fetch.at) \subseteq Reachable
        BY <3>2, ReachableIs DEF Whole
      <4> QED BY <4>1, <4>2
    <3>4. /\ IsSeq(Append(fetch.chain, fetch.at))
          /\ Range(Append(fetch.chain, fetch.at)) = Range(fetch.chain) \cup {fetch.at}
      BY RangeGrows DEF RetrievalInv
    <3>5. Reachable' = Reachable /\ web' = web
      BY <2>1, SameOrigin DEF web
    <3>6. /\ IsSeq(fetch'.chain) /\ Range(fetch'.chain) = Range(fetch.chain) \cup {fetch.at}
      BY <3>1, <3>4
    <3>7. /\ \A url \in Range(fetch'.chain) :
               url \in DOMAIN web /\ web[url].status = 301 /\ web[url].to \in Range(fetch'.chain) \cup {fetch'.at}
          /\ fetch'.requested \in Range(fetch'.chain) \cup {fetch'.at}
      <4> HIDE DEF next, told
      <4> QED BY <3>1, <3>2, <3>6 DEF RetrievalInv
    <3> HIDE DEF to
    <3>8. fetch'.at \in Reachable
      BY <3>1, <3>3
    <3> QED BY <2>1, <3>1, <3>5, <3>6, <3>7, <3>8 DEF RetrievalInv
  <2> QED BY <2>3, <2>4
<1>8. CASE ReadBody
  <2>1. /\ fetch.is = "answered" /\ origin' = origin
        /\ \/ fetch' = Failed("FETCH_BODY_LIMIT", Logged("error", "stop"))
           \/ fetch' = Failed("FETCH_ERROR", Logged("error", "stop"))
           \/ fetch' = [fetch EXCEPT !.is = "returned",
                           !.attempts = Logged("response", IF fetch.status >= 500 THEN "stop" ELSE "complete")]
    BY <1>8 DEF ReadBody
  <2>2. CASE \/ fetch' = Failed("FETCH_BODY_LIMIT", Logged("error", "stop"))
             \/ fetch' = Failed("FETCH_ERROR", Logged("error", "stop"))
    <3>1. /\ fetch' \in Retrievals(fetch') /\ fetch'.requested = fetch.requested /\ fetch'.at = fetch.at
          /\ fetch'.chain = fetch.chain /\ fetch'.is = "failed"
      BY <1>1, <2>2
    <3> QED BY <2>1, <3>1, RetrievalKeeps
  <2>3. CASE fetch' = [fetch EXCEPT !.is = "returned",
                         !.attempts = Logged("response", IF fetch.status >= 500 THEN "stop" ELSE "complete")]
    <3>1. /\ fetch' \in Retrievals(fetch') /\ fetch'.requested = fetch.requested /\ fetch'.at = fetch.at
          /\ fetch'.chain = fetch.chain /\ fetch'.status = fetch.status
      BY <1>0, <2>3 DEF Retrievals
    <3>2. fetch.status \in {Served(fetch.at).status, 503}
      BY <2>1 DEF RetrievalInv
    <3> QED BY <2>1, <3>1, <3>2, RetrievalKeeps
  <2> QED BY <2>1, <2>2, <2>3
<1> QED BY <1>3, <1>4, <1>5, <1>6, <1>7, <1>8 DEF RetrievalNext

-----------------------------------------------------------------------------
(***************************************************************************)
(* The collection: as long as nothing was left out and no document failed  *)
(* or was malformed, there is a set of URLs that are done with: whatever   *)
(* they lead to is in it or was queued, and their pages are taken.         *)
(***************************************************************************)
BeingRead == IF topology.phase = "fetching" THEN {fetch.requested} ELSE {}

Flawless ==
  /\ Unflawed(topology)
  /\ \A i \in 1..Len(topology.documents) :
       \/ topology.documents[i] \notin {"failed", "malformed"}
       \/ topology.phase = "fetching" /\ i = Len(topology.documents)

DoneWith(urls) ==
  /\ Range(EntrySitemaps) \subseteq topology.queued
  /\ topology.queued \subseteq urls \cup Queued(topology.queue) \cup BeingRead
  /\ \A url \in urls : Leads(url) \subseteq urls \cup topology.queued /\ PagesOf(url) \subseteq topology.urls

TopologyInv ==
  /\ origin \in DOMAIN Origins
  /\ topology \in TopologyType(topology) /\ topology.going
  /\ topology.queued \subseteq Reachable /\ topology.urls \subseteq PagesThere
  /\ Queued(topology.queue) \subseteq topology.queued
  /\ topology.phase = "fetching" =>
       /\ RetrievalInv /\ fetch.requested \in topology.queued
       /\ Len(topology.documents) >= 1 /\ topology.documents[Len(topology.documents)] = "failed"
  /\ topology.phase = "end" => topology.stops # {}
  /\ topology.phase = "done" /\ topology.stops = {} => topology.queue = << >>
  /\ Flawless => \E urls : DoneWith(urls)

LEMMA InitTopology == TopologyInit => TopologyInv
<1> SUFFICES ASSUME TopologyInit PROVE TopologyInv
  OBVIOUS
<1> DEFINE entries == Listed(EntrySitemaps)
           more == IF Len(EntrySitemaps) > MaxEntries THEN {"max_raw_entries_exceeded"} ELSE {}
           start == [phase |-> "next", queue |-> << >>, queued |-> {}, documents |-> << >>, urls |-> {},
                     stops |-> more, wrong |-> {}, unpacked |-> 0, depth |-> 0, late |-> FALSE, going |-> TRUE]
<1>1. EntrySitemaps \in Seq(STRING) /\ Len(EntrySitemaps) \in Nat /\ MaxEntries \in Nat
  BY TopologyAssumption, XmlAssumption
<1>2. entries \in Seq(STRING) /\ Range(entries) \subseteq Range(EntrySitemaps)
  <2>1. CASE Len(EntrySitemaps) > MaxEntries
    <3>1. entries = SubSeq(EntrySitemaps, 1, MaxEntries)
      BY <2>1 DEF Listed
    <3>2. /\ entries \in Seq(STRING) /\ Len(entries) = MaxEntries
          /\ \A i \in 1..MaxEntries : entries[i] = EntrySitemaps[i] /\ i \in 1..Len(EntrySitemaps)
      BY <1>1, <2>1, <3>1
    <3> HIDE DEF entries
    <3> QED BY <1>1, <3>2 DEF Range
  <2>2. CASE ~(Len(EntrySitemaps) > MaxEntries)
    BY <1>1, <2>2 DEF Listed
  <2> QED BY <2>1, <2>2
<1>3. more = {} => entries = EntrySitemaps
  BY DEF Listed
<1>4. entries \in Seq(Text)
  <2> HIDE DEF entries
  <2> QED BY <1>2 DEF Text
<1>5. more \in SUBSET Reasons
  BY DEF Reasons
<1>6. topology = WithEntries(start, entries) /\ origin \in DOMAIN Origins
  BY DEF TopologyInit, WithEntries
<1> HIDE DEF entries, more
<1>7. start \in TopologyType(start)
  BY <1>5 DEF TopologyType
<1>8. /\ start.going /\ start.queued = {} /\ start.urls = {} /\ Queued(start.queue) = {} /\ start.stops = more
      /\ start.unpacked = 0 /\ start.documents = << >>
  BY DEF Queued
<1> HIDE DEF start
<1>9. /\ topology \in TopologyType(start) /\ Grows(start, topology)
      /\ topology.queued \subseteq Range(entries) /\ topology.urls = {} /\ topology.going
      /\ Unflawed(topology) => Range(entries) \subseteq topology.queued
  BY <1>4, <1>6, <1>7, <1>8, EntriesTaken
<1>10. topology \in TopologyType(topology)
  <2>1. topology.unpacked = start.unpacked
    BY <1>9, TopologyParts
  <2> QED BY <1>9, <2>1 DEF TopologyType
<1>11. topology.phase = "next" /\ Queued(topology.queue) \subseteq topology.queued
  <2>1. start.phase = "next"
    BY DEF start
  <2> QED BY <1>8, <1>9, <2>1 DEF Grows
<1>12. topology.queued \subseteq Reachable
  BY <1>2, <1>6, <1>9, ReachableIs
<1>13. Flawless => DoneWith({})
  <2> SUFFICES ASSUME Flawless PROVE DoneWith({})
    OBVIOUS
  <2>1. Unflawed(topology)
    BY DEF Flawless
  <2>2. more = {} /\ Range(entries) \subseteq topology.queued
    BY <1>8, <1>9, <2>1 DEF Grows, Unflawed
  <2>3. topology.queued \subseteq Queued(topology.queue)
    BY <1>8, <1>9 DEF Grows
  <2> QED BY <1>3, <2>2, <2>3 DEF DoneWith
<1> QED BY <1>6, <1>9, <1>10, <1>11, <1>12, <1>13 DEF TopologyInv

\* A step that takes no URLs.
LEMMA StepTakesNone ==
  ASSUME TopologyInv, origin' = origin, topology' \in TopologyType(topology'), topology'.going,
         topology'.queued = topology.queued, topology'.urls = topology.urls,
         Queued(topology'.queue) \subseteq Queued(topology.queue),
         topology'.phase = "fetching" =>
           /\ RetrievalInv' /\ fetch'.requested \in topology.queued
           /\ Len(topology'.documents) >= 1 /\ topology'.documents[Len(topology'.documents)] = "failed",
         topology'.phase = "end" => topology'.stops # {},
         topology'.phase = "done" /\ topology'.stops = {} => topology'.queue = << >>,
         Flawless' => /\ Flawless
                      /\ Queued(topology.queue) \cup BeingRead \subseteq Queued(topology'.queue) \cup BeingRead'
  PROVE  TopologyInv'
<1>1. Reachable' = Reachable /\ PagesThere' = PagesThere
  BY SameOrigin
<1>2. \A url : Leads(url)' = Leads(url) /\ PagesOf(url)' = PagesOf(url)
  BY SameOrigin
<1>3. ASSUME Flawless' PROVE (\E urls : DoneWith(urls))'
  <2>1. PICK urls : DoneWith(urls)
    BY <1>3 DEF TopologyInv
  <2>2. DoneWith(urls)'
    <3>1. /\ Range(EntrySitemaps) \subseteq topology'.queued
          /\ topology'.queued \subseteq urls \cup Queued(topology'.queue) \cup BeingRead'
      BY <1>3, <2>1 DEF DoneWith
    <3>2. \A url \in urls : Leads(url)' \subseteq urls \cup topology'.queued /\ PagesOf(url)' \subseteq topology'.urls
      BY <1>2, <2>1 DEF DoneWith
    <3> QED BY <3>1, <3>2 DEF DoneWith, Queued
  <2> QED BY <2>2
<1>4. origin' \in DOMAIN Origins /\ topology'.queued \subseteq Reachable' /\ topology'.urls \subseteq PagesThere'
  BY <1>1 DEF TopologyInv
<1>5. Queued(topology'.queue) \subseteq topology'.queued
  BY DEF TopologyInv
<1> QED BY <1>3, <1>4, <1>5 DEF TopologyInv, TopologyType, Queued

LEMMA StepTimeRunsOut == TopologyInv /\ TimeRunsOut => TopologyInv'
<1> SUFFICES ASSUME TopologyInv, TimeRunsOut PROVE TopologyInv'
  OBVIOUS
<1>1. /\ topology' = [topology EXCEPT !.late = TRUE] /\ origin' = origin /\ fetch' = fetch
  BY DEF TimeRunsOut, retrievalVars
<1>2. /\ topology'.phase = topology.phase /\ topology'.queue = topology.queue /\ topology'.queued = topology.queued
      /\ topology'.urls = topology.urls /\ topology'.stops = topology.stops /\ topology'.wrong = topology.wrong
      /\ topology'.documents = topology.documents /\ topology'.going = topology.going
      /\ topology'.unpacked = topology.unpacked
  BY <1>1
<1>3. topology' \in TopologyType(topology')
  <2>1. topology' \in TopologyType(topology)
    BY <1>1, TopologyFields DEF TopologyInv
  <2> QED BY <1>2, <2>1 DEF TopologyType
<1>4. Flawless' => Flawless /\ BeingRead' = BeingRead
  BY <1>1, <1>2 DEF Flawless, Unflawed, BeingRead
<1>5. topology.phase = "fetching" => RetrievalInv'
  <2>1. Reachable' = Reachable /\ web' = web
    BY <1>1, SameOrigin DEF web
  <2> QED BY <1>1, <2>1 DEF TopologyInv, RetrievalInv, Served
<1> QED BY <1>1, <1>2, <1>3, <1>4, <1>5, StepTakesNone DEF TopologyInv

LEMMA StepLoopStops == TopologyInv /\ LoopStops => TopologyInv'
<1> SUFFICES ASSUME TopologyInv, LoopStops PROVE TopologyInv'
  OBVIOUS
<1>1. PICK reason \in Reasons : topology' = [Stop(topology, reason) EXCEPT !.phase = "end"] /\ origin' = origin
  <2>1. "time_budget_exhausted" \in Reasons /\ "max_documents_exceeded" \in Reasons
    BY DEF Reasons
  <2> QED BY <2>1 DEF LoopStops, retrievalVars
<1> DEFINE k == Stop(topology, reason)
<1>2. topology \in TopologyType(topology)
  BY DEF TopologyInv
<1>3. /\ k \in TopologyType(topology) /\ k.queue = topology.queue /\ k.queued = topology.queued /\ k.urls = topology.urls
      /\ k.going = topology.going /\ k.unpacked = topology.unpacked /\ k.stops = topology.stops \cup {reason}
  BY <1>2, StopType
<1> HIDE DEF k
<1>4. topology' \in TopologyType(topology)
  BY <1>1, <1>3, TopologyFields DEF k
<1>5. /\ topology'.phase = "end" /\ topology'.queue = topology.queue /\ topology'.queued = topology.queued
      /\ topology'.urls = topology.urls /\ topology'.going = topology.going
      /\ topology'.unpacked = topology.unpacked /\ topology'.stops = topology.stops \cup {reason}
  BY <1>1, <1>3 DEF TopologyType, k
<1>6. topology' \in TopologyType(topology')
  BY <1>4, <1>5 DEF TopologyType
<1>7. ~Flawless'
  BY <1>5 DEF Flawless, Unflawed
<1>8. topology'.stops # {}
  BY <1>5
<1> QED BY <1>1, <1>5, <1>6, <1>7, <1>8, StepTakesNone DEF TopologyInv

LEMMA StepTooDeep == TopologyInv /\ TooDeep => TopologyInv'
<1> SUFFICES ASSUME TopologyInv, TooDeep PROVE TopologyInv'
  OBVIOUS
<1> DEFINE reason == "max_depth_exceeded"
           k == Stop(topology, reason)
<1>1. /\ topology' = [k EXCEPT !.queue = Tail(k.queue)] /\ origin' = origin
      /\ topology.phase = "next" /\ topology.queue # << >>
  BY DEF TooDeep, retrievalVars
<1>2. topology \in TopologyType(topology) /\ reason \in Reasons
  BY DEF TopologyInv, Reasons
<1> HIDE DEF reason
<1>3. /\ k \in TopologyType(topology) /\ k.queue = topology.queue /\ k.queued = topology.queued /\ k.urls = topology.urls
      /\ k.going = topology.going /\ k.unpacked = topology.unpacked /\ k.stops = topology.stops \cup {reason}
      /\ k.phase = topology.phase
  BY <1>2, StopType
<1> HIDE DEF k
<1>4. /\ Tail(topology.queue) \in Seq(QueueEntry)
      /\ Queued(Tail(topology.queue)) \subseteq Queued(topology.queue)
  <2>1. topology.queue \in Seq(QueueEntry)
    BY <1>2, TopologyParts
  <2> QED BY <1>1, <2>1, WaitingTail
<1>5. topology' \in TopologyType(topology)
  BY <1>1, <1>3, <1>4, TopologyFields
<1>6. /\ topology'.phase = "next" /\ topology'.queue = Tail(topology.queue) /\ topology'.queued = topology.queued
      /\ topology'.urls = topology.urls /\ topology'.going = topology.going
      /\ topology'.unpacked = topology.unpacked /\ topology'.stops = topology.stops \cup {reason}
  BY <1>1, <1>3 DEF TopologyType
<1>7. topology' \in TopologyType(topology')
  BY <1>5, <1>6 DEF TopologyType
<1>8. ~Flawless'
  BY <1>6 DEF Flawless, Unflawed
<1> QED BY <1>1, <1>4, <1>6, <1>7, <1>8, StepTakesNone DEF TopologyInv

LEMMA StepAskForDocument == TopologyInv /\ AskForDocument => TopologyInv'
<1> SUFFICES ASSUME TopologyInv, AskForDocument PROVE TopologyInv'
  OBVIOUS
<1> DEFINE rest == Tail(topology.queue)
           depth == Head(topology.queue).depth
           url == Head(topology.queue).url
           records == Append(topology.documents, "failed")
<1>1. /\ topology' = [topology EXCEPT !.queue = rest, !.depth = depth, !.documents = records, !.phase = "fetching"]
      /\ fetch' = Asked(url) /\ origin' = origin /\ topology.phase = "next" /\ topology.queue # << >>
  BY DEF AskForDocument
<1>2. /\ topology \in TopologyType(topology) /\ topology.queue \in Seq(QueueEntry)
      /\ topology.documents \in Seq(Verdicts)
  BY TopologyParts DEF TopologyInv
<1>3. /\ rest \in Seq(QueueEntry) /\ Head(topology.queue) \in QueueEntry
      /\ Queued(topology.queue) = {url} \cup Queued(rest)
  BY <1>1, <1>2, WaitingTail
<1>4. depth \in Nat
  BY <1>3 DEF QueueEntry
<1>5. /\ records \in Seq(Verdicts) /\ Len(records) = Len(topology.documents) + 1 /\ Len(topology.documents) \in Nat
      /\ records[Len(topology.documents) + 1] = "failed"
      /\ \A i \in 1..Len(topology.documents) : records[i] = topology.documents[i]
  <2>1. "failed" \in Verdicts
    BY DEF Verdicts
  <2> QED BY <1>2, <2>1
<1> HIDE DEF rest, depth, records, url
<1>6. topology' = [[[[topology EXCEPT !.queue = rest] EXCEPT !.depth = depth] EXCEPT !.documents = records]
                     EXCEPT !.phase = "fetching"]
  BY <1>1
<1>7. topology' \in TopologyType(topology)
  <2>1. [topology EXCEPT !.queue = rest] \in TopologyType(topology)
    BY <1>2, <1>3, TopologyFields
  <2>2. [[topology EXCEPT !.queue = rest] EXCEPT !.depth = depth] \in TopologyType(topology)
    BY <1>4, <2>1, TopologyFields
  <2>3. [[[topology EXCEPT !.queue = rest] EXCEPT !.depth = depth] EXCEPT !.documents = records] \in TopologyType(topology)
    BY <1>5, <2>2, TopologyFields
  <2> QED BY <1>6, <2>3, TopologyFields
<1>8. /\ topology'.phase = "fetching" /\ topology'.queue = rest /\ topology'.documents = records
  BY <1>1, <1>2 DEF TopologyType
<1>9. /\ topology'.queued = topology.queued /\ topology'.urls = topology.urls /\ topology'.going = topology.going
      /\ topology'.unpacked = topology.unpacked /\ topology'.stops = topology.stops /\ topology'.wrong = topology.wrong
  BY <1>1
<1>10. topology' \in TopologyType(topology')
  BY <1>7, <1>9 DEF TopologyType
<1>11. url \in topology.queued /\ url \in Reachable
  BY <1>3 DEF TopologyInv
<1>12. RetrievalInv' /\ fetch'.requested = url
  <2>1. Reachable' = Reachable
    BY <1>1, SameOrigin
  <2>2. IsSeq(<< >>) /\ Range(<< >>) = {}
    BY DEF IsSeq, Range
  <2>3. fetch' \in Retrievals(fetch')
    BY <1>1 DEF Asked, Retrievals
  <2>4. fetch'.at = url /\ fetch'.requested = url /\ fetch'.chain = << >> /\ fetch'.is = "trying"
    BY <1>1 DEF Asked
  <2> QED BY <1>11, <2>1, <2>2, <2>3, <2>4 DEF RetrievalInv
<1>13. BeingRead' = {url}
  BY <1>8, <1>12 DEF BeingRead
<1>14. Flawless' => Flawless
  <2> SUFFICES ASSUME Flawless' PROVE Flawless
    OBVIOUS
  <2>1. Unflawed(topology)
    BY <1>9 DEF Flawless, Unflawed
  <2>2. ASSUME NEW i \in 1..Len(topology.documents) PROVE topology.documents[i] \notin {"failed", "malformed"}
    <3>1. i \in 1..Len(records) /\ i # Len(records)
      BY <1>5
    <3> QED BY <1>5, <1>8, <3>1 DEF Flawless
  <2> QED BY <2>1, <2>2 DEF Flawless
<1>15. BeingRead = {}
  BY <1>1 DEF BeingRead
<1>16. Len(topology'.documents) >= 1 /\ topology'.documents[Len(topology'.documents)] = "failed"
  BY <1>5, <1>8
<1>17. Queued(topology'.queue) \subseteq Queued(topology.queue)
  BY <1>3, <1>8
<1>18. Queued(topology.queue) \cup BeingRead \subseteq Queued(topology'.queue) \cup BeingRead'
  BY <1>3, <1>8, <1>13, <1>15
<1> QED BY <1>1, <1>8, <1>9, <1>10, <1>11, <1>12, <1>14, <1>16, <1>17, <1>18, StepTakesNone DEF TopologyInv

LEMMA StepRetrieves == TopologyInv /\ Retrieves => TopologyInv'
<1> SUFFICES ASSUME TopologyInv, Retrieves PROVE TopologyInv'
  OBVIOUS
<1>1. topology' = topology /\ topology.phase = "fetching" /\ RetrievalNext
  BY DEF Retrieves
<1>2. RetrievalInv' /\ fetch'.requested = fetch.requested /\ origin' = origin
  BY <1>1, StepRetrieval DEF TopologyInv
<1>3. BeingRead' = BeingRead
  BY <1>1, <1>2 DEF BeingRead
<1>4. Flawless' => Flawless
  BY <1>1 DEF Flawless, Unflawed
<1> QED BY <1>1, <1>2, <1>3, <1>4, StepTakesNone DEF TopologyInv

LEMMA StepDocumentFails == TopologyInv /\ DocumentFails => TopologyInv'
<1> SUFFICES ASSUME TopologyInv, DocumentFails PROVE TopologyInv'
  OBVIOUS
<1>1. topology' = [topology EXCEPT !.phase = "next"] /\ topology.phase = "fetching" /\ origin' = origin
  BY DEF DocumentFails
<1>2. topology \in TopologyType(topology)
  BY DEF TopologyInv
<1>3. /\ topology'.queue = topology.queue /\ topology'.queued = topology.queued
      /\ topology'.urls = topology.urls /\ topology'.stops = topology.stops /\ topology'.wrong = topology.wrong
      /\ topology'.documents = topology.documents /\ topology'.going = topology.going
      /\ topology'.unpacked = topology.unpacked
  BY <1>1
<1>4. topology'.phase = "next" /\ topology' \in TopologyType(topology')
  <2>1. topology'.phase = "next" /\ topology' \in TopologyType(topology)
    BY <1>1, <1>2, TopologyFields DEF TopologyType
  <2> QED BY <1>3, <2>1 DEF TopologyType
<1>5. ~Flawless'
  <2>1. /\ Len(topology.documents) >= 1 /\ topology.documents[Len(topology.documents)] = "failed"
        /\ topology.documents \in Seq(Verdicts)
    BY <1>1, <1>2, TopologyParts DEF TopologyInv
  <2>2. Len(topology.documents) \in 1..Len(topology.documents)
    BY <2>1
  <2> QED BY <1>3, <1>4, <2>1, <2>2 DEF Flawless
<1> QED BY <1>1, <1>3, <1>4, <1>5, StepTakesNone DEF TopologyInv

LEMMA StepTopologyEnds == TopologyInv /\ TopologyEnds => TopologyInv'
<1> SUFFICES ASSUME TopologyInv, TopologyEnds PROVE TopologyInv'
  OBVIOUS
<1> DEFINE reason == "time_budget_exhausted"
           k == IF topology.late THEN Stop(topology, reason) ELSE topology
<1>1. /\ topology' = [k EXCEPT !.phase = "done"] /\ origin' = origin
      /\ topology.phase = "end" \/ (topology.phase = "next" /\ topology.queue = << >>)
  BY DEF TopologyEnds, retrievalVars
<1>2. topology \in TopologyType(topology) /\ reason \in Reasons
  BY DEF TopologyInv, Reasons
<1>3. /\ k \in TopologyType(topology) /\ k.queue = topology.queue /\ k.queued = topology.queued /\ k.urls = topology.urls
      /\ k.going = topology.going /\ k.unpacked = topology.unpacked /\ topology.stops \subseteq k.stops
      /\ k.wrong = topology.wrong /\ k.documents = topology.documents
  <2> HIDE DEF reason
  <2> QED BY <1>2, StopType
<1> HIDE DEF k
<1>4. topology' \in TopologyType(topology)
  BY <1>1, <1>3, TopologyFields
<1>5. /\ topology'.phase = "done" /\ topology'.queue = topology.queue /\ topology'.queued = topology.queued
      /\ topology'.urls = topology.urls /\ topology'.going = topology.going
      /\ topology'.unpacked = topology.unpacked /\ topology.stops \subseteq topology'.stops
      /\ topology'.wrong = topology.wrong /\ topology'.documents = topology.documents
  BY <1>1, <1>3 DEF TopologyType
<1>6. topology' \in TopologyType(topology')
  BY <1>4, <1>5 DEF TopologyType
<1>7. Flawless' => Flawless
  BY <1>5 DEF Flawless, Unflawed
<1>8. BeingRead = {} /\ BeingRead' = {}
  BY <1>1, <1>5 DEF BeingRead
<1>9. topology'.stops = {} => topology'.queue = << >>
  BY <1>1, <1>5 DEF TopologyInv
<1> QED BY <1>1, <1>5, <1>6, <1>7, <1>8, <1>9, StepTakesNone DEF TopologyInv

-----------------------------------------------------------------------------
\* What the parser makes of a document: what the document names, and all of it
\* unless that is told.
ChildrenIn(parsed) == IF parsed.rootValid THEN parsed.children ELSE << >>
PagesIn(parsed)    == IF parsed.rootValid THEN parsed.urls ELSE << >>

Says(url, parsed) ==
  /\ ChildrenIn(parsed) \in Seq(Text) /\ PagesIn(parsed) \in Seq(Text)
  /\ Range(ChildrenIn(parsed)) \subseteq Reachable /\ Range(PagesIn(parsed)) \subseteq PagesThere
  /\ ~parsed.errors /\ parsed.truncated = "" =>
       Leads(url) \subseteq Range(ChildrenIn(parsed)) /\ PagesOf(url) \subseteq Range(PagesIn(parsed))

LEMMA DocumentSays ==
  ASSUME NEW url, url \in DOMAIN web, web[url].status = 200, url \in Reachable, origin \in DOMAIN Origins
  PROVE  Says(url, ParseSitemap(web[url].tokens))
<1>p. PICK parsed : parsed = ParseSitemap(web[url].tokens)
  OBVIOUS
<1> SUFFICES
      /\ ChildrenIn(parsed) \in Seq(Text) /\ PagesIn(parsed) \in Seq(Text)
      /\ Range(ChildrenIn(parsed)) \subseteq Reachable /\ Range(PagesIn(parsed)) \subseteq PagesThere
      /\ ~parsed.errors /\ parsed.truncated = "" =>
           Leads(url) \subseteq Range(ChildrenIn(parsed)) /\ PagesOf(url) \subseteq Range(PagesIn(parsed))
  BY <1>p DEF Says
<1> DEFINE tokens == web[url].tokens
<1>1. Scanned(tokens)
  BY OriginsAssumption DEF web
<1>2. IsIndex(url) = ListsSitemaps(tokens) /\ Locations(url) = Named(tokens)
  BY DEF IsIndex, Locations
<1>3. /\ Leads(url) = IF ListsSitemaps(tokens) THEN Named(tokens) ELSE {}
      /\ PagesOf(url) = IF ListsSitemaps(tokens) THEN {} ELSE Named(tokens)
  <2> HIDE DEF tokens
  <2> QED BY <1>2 DEF Leads, PagesOf
<1>4. Leads(url) \subseteq Reachable /\ PagesOf(url) \subseteq PagesThere
  <2>1. Leads(url) \subseteq Reachable
    BY ReachableIs DEF Whole
  <2>2. PagesOf(url) \subseteq PagesThere
    BY DEF PagesThere, PagesOf
  <2> QED BY <2>1, <2>2
<1>5. Range(<< >>) = {} /\ << >> \in Seq(Text)
  BY DEF Range
<1>6. CASE ~parsed.rootValid
  <2>1. ChildrenIn(parsed) = << >> /\ PagesIn(parsed) = << >>
    BY <1>6 DEF ChildrenIn, PagesIn
  <2>2. parsed.errors
    BY <1>p, <1>1, <1>6, RootValid DEF tokens
  <2> HIDE DEF tokens
  <2> QED BY <1>5, <2>1, <2>2
<1>7. CASE parsed.rootValid
  <2> DEFINE children == parsed.children
             pages == parsed.urls
             all == ~parsed.errors /\ parsed.truncated = ""
  <2>1. ChildrenIn(parsed) = children /\ PagesIn(parsed) = pages
    BY <1>7 DEF ChildrenIn, PagesIn
  <2>2. /\ Range(pages) \cup Range(children) \subseteq Named(tokens)
        /\ all => Range(pages) \cup Range(children) = Named(tokens)
        /\ ListsSitemaps(tokens)  => pages = << >>
        /\ ~ListsSitemaps(tokens) => children = << >>
        /\ pages \in Seq(Text) /\ children \in Seq(Text)
    BY <1>p, <1>1, <1>7, SitemapIsRead DEF tokens
  <2> HIDE DEF tokens, children, pages, all
  <2>3. /\ Range(children) \subseteq Leads(url) /\ Range(pages) \subseteq PagesOf(url)
        /\ all => Leads(url) \subseteq Range(children) /\ PagesOf(url) \subseteq Range(pages)
    <3>1. CASE ListsSitemaps(tokens)
      BY <1>3, <1>5, <2>2, <3>1
    <3>2. CASE ~ListsSitemaps(tokens)
      BY <1>3, <1>5, <2>2, <3>2
    <3> QED BY <3>1, <3>2
  <2>4. Range(children) \subseteq Reachable /\ Range(pages) \subseteq PagesThere
    BY <1>4, <2>3
  <2>5. all = (~parsed.errors /\ parsed.truncated = "")
    BY DEF all
  <2> QED BY <2>1, <2>2, <2>3, <2>4, <2>5
<1> QED BY <1>6, <1>7

LEMMA StepDocumentIsRead == TopologyInv /\ DocumentIsRead => TopologyInv'
<1> SUFFICES ASSUME TopologyInv, DocumentIsRead PROVE TopologyInv'
  OBVIOUS
<1>p. PICK place : place = fetch.at
  OBVIOUS
<1> DEFINE total == topology.unpacked + web[place].unpacked
<1>0. topology.phase = "fetching" /\ Usable /\ origin' = origin
  BY DEF DocumentIsRead
<1>1. /\ topology \in TopologyType(topology) /\ topology.going /\ RetrievalInv
      /\ fetch.requested \in topology.queued
      /\ Len(topology.documents) >= 1 /\ topology.documents[Len(topology.documents)] = "failed"
  BY <1>0 DEF TopologyInv
<1>2. place \in DOMAIN web /\ web[place].status = 200 /\ place \in Reachable
  BY <1>p, <1>0, <1>1 DEF RetrievalInv, Usable, Served
<1>3. CASE total > MaxTotalUnpacked
  <2> DEFINE reason == "max_total_uncompressed_bytes_exceeded"
             cut == "truncated"
             j == Marked(topology, cut)
             k == Stop(j, reason)
  <2>1. topology' = [k EXCEPT !.phase = "end"]
    BY <1>p, <1>3 DEF DocumentIsRead
  <2>2. reason \in Reasons /\ cut \in Verdicts
    BY DEF Reasons, Verdicts
  <2> HIDE DEF reason, cut
  <2>3. /\ j \in TopologyType(topology) /\ j.queue = topology.queue /\ j.queued = topology.queued
        /\ j.urls = topology.urls /\ j.going = topology.going /\ j.unpacked = topology.unpacked
    BY <1>1, <2>2, MarkedType
  <2> HIDE DEF j
  <2>4. /\ k \in TopologyType(topology) /\ k.queue = j.queue /\ k.queued = j.queued
        /\ k.urls = j.urls /\ k.going = j.going /\ k.unpacked = j.unpacked /\ k.stops = j.stops \cup {reason}
    BY <2>2, <2>3, StopType
  <2> HIDE DEF k
  <2>5. topology' \in TopologyType(topology)
    BY <2>1, <2>4, TopologyFields
  <2>6. /\ topology'.phase = "end" /\ topology'.queue = topology.queue /\ topology'.queued = topology.queued
        /\ topology'.urls = topology.urls /\ topology'.going = topology.going
        /\ topology'.unpacked = topology.unpacked /\ topology'.stops # {}
    BY <2>1, <2>3, <2>4 DEF TopologyType
  <2>7. topology' \in TopologyType(topology')
    BY <2>5, <2>6 DEF TopologyType
  <2>8. ~Flawless'
    BY <2>6 DEF Flawless, Unflawed
  <2> QED BY <1>0, <1>1, <2>6, <2>7, <2>8, StepTakesNone DEF TopologyInv
<1>4. CASE ~(total > MaxTotalUnpacked)
  <2>0. PICK parsed : parsed = ParseSitemap(web[place].tokens)
    OBVIOUS
  <2> DEFINE t == [topology EXCEPT !.unpacked = total]
             r == ParsedRecord(t, parsed)
             children == IF parsed.rootValid THEN parsed.children ELSE << >>
             pages == IF parsed.rootValid THEN parsed.urls ELSE << >>
             read == Contents(r, topology.depth, parsed)
             phase == IF "max_discovered_urls_exceeded" \in read.stops THEN "end" ELSE "next"
  <2>1. topology' = [read EXCEPT !.phase = phase]
    BY <1>p, <1>4, <2>0 DEF DocumentIsRead
  <2>2. /\ t \in TopologyType(t) /\ t.queue = topology.queue /\ t.queued = topology.queued
        /\ t.urls = topology.urls /\ t.going = topology.going /\ t.stops = topology.stops /\ t.wrong = topology.wrong
        /\ t.documents = topology.documents
    <3> HIDE DEF total
    <3>1. t \in TopologyType(t)
      <4>1. t.unpacked = total
        BY <1>1 DEF TopologyType
      <4>2. t \in [phase : {"next", "fetching", "end", "done"}, queue : Seq(QueueEntry), queued : SUBSET Text,
                   documents : Seq(Verdicts), urls : SUBSET Text, stops : SUBSET Reasons, wrong : SUBSET Reasons,
                   unpacked : {total}, depth : Nat, late : BOOLEAN, going : BOOLEAN]
        BY <1>1 DEF TopologyType
      <4> HIDE DEF t
      <4> QED BY <4>1, <4>2 DEF TopologyType
    <3> QED BY <3>1
  <2> HIDE DEF t
  <2>3. /\ children \in Seq(Text) /\ pages \in Seq(Text)
        /\ Range(children) \subseteq Reachable /\ Range(pages) \subseteq PagesThere
        /\ ~parsed.errors /\ parsed.truncated = "" =>
             Leads(place) \subseteq Range(children) /\ PagesOf(place) \subseteq Range(pages)
    <3>1. origin \in DOMAIN Origins
      BY DEF TopologyInv
    <3>2. children = ChildrenIn(parsed) /\ pages = PagesIn(parsed)
      BY DEF ChildrenIn, PagesIn
    <3> HIDE DEF children, pages
    <3>3. /\ ChildrenIn(parsed) \in Seq(Text) /\ PagesIn(parsed) \in Seq(Text)
          /\ Range(ChildrenIn(parsed)) \subseteq Reachable /\ Range(PagesIn(parsed)) \subseteq PagesThere
          /\ ~parsed.errors /\ parsed.truncated = "" =>
               Leads(place) \subseteq Range(ChildrenIn(parsed)) /\ PagesOf(place) \subseteq Range(PagesIn(parsed))
      <4>1. place \in DOMAIN web
        BY <1>2
      <4>2. web[place].status = 200 /\ place \in Reachable
        BY <1>2
      <4>3. Says(place, ParseSitemap(web[place].tokens))
        BY <3>1, <4>1, <4>2, DocumentSays
      <4> QED BY <2>0, <4>3 DEF Says
    <3> QED BY <3>2, <3>3
  <2>4. /\ r \in TopologyType(t) /\ r.queue = t.queue /\ r.queued = t.queued /\ r.urls = t.urls
        /\ r.going = t.going /\ t.stops \subseteq r.stops /\ r.wrong = t.wrong
        /\ Len(r.documents) = Len(t.documents)
        /\ Unflawed(r) => /\ parsed.truncated = "" /\ Unflawed(t)
                          /\ \A i \in 1..Len(t.documents) :
                               r.documents[i] = IF i = Len(t.documents) THEN IF parsed.errors THEN "malformed" ELSE "fetched"
                                                ELSE t.documents[i]
    BY <2>2, ParsedRecordIs
  <2> HIDE DEF r
  <2>5. TopologyType(r) = TopologyType(t)
    <3>1. r.unpacked = t.unpacked
      BY <2>4, TopologyParts
    <3> QED BY <3>1 DEF TopologyType
  <2>6. /\ read \in TopologyType(r) /\ Grows(r, read) /\ read.going
        /\ read.queued \subseteq r.queued \cup Range(children) /\ read.urls \subseteq r.urls \cup Range(pages)
        /\ Unflawed(read) => Range(children) \subseteq read.queued /\ Range(pages) \subseteq read.urls
    <3>1. topology.depth \in Nat
      BY <1>1, TopologyParts
    <3>2. r \in TopologyType(r) /\ r.going
      BY <1>1, <2>2, <2>4, <2>5
    <3> HIDE DEF children, pages
    <3> QED BY <2>3, <3>1, <3>2, ContentsIs DEF children, pages
  <2> HIDE DEF read, children, pages
  <2>7. phase \in {"next", "end"} /\ (phase = "end" => read.stops # {})
    OBVIOUS
  <2> HIDE DEF phase
  <2>8. topology' \in TopologyType(r)
    BY <2>1, <2>6, <2>7, TopologyFields
  <2>9. /\ topology'.phase = phase /\ topology'.queue = read.queue /\ topology'.queued = read.queued
        /\ topology'.urls = read.urls /\ topology'.stops = read.stops /\ topology'.wrong = read.wrong
        /\ topology'.documents = read.documents /\ topology'.going = read.going
    BY <2>1, <2>6 DEF TopologyType
  <2>10. topology' \in TopologyType(topology')
    <3>1. topology'.unpacked = r.unpacked
      BY <2>8, TopologyParts
    <3> QED BY <2>8, <3>1 DEF TopologyType
  <2>11. Reachable' = Reachable /\ PagesThere' = PagesThere
    BY <1>0, SameOrigin
  <2>12. topology'.queued \subseteq Reachable' /\ topology'.urls \subseteq PagesThere'
    BY <2>2, <2>3, <2>4, <2>6, <2>9, <2>11 DEF TopologyInv
  <2>13. Queued(topology'.queue) \subseteq topology'.queued
    BY <2>2, <2>4, <2>6, <2>9 DEF TopologyInv, Grows
  <2>14. ASSUME Flawless' PROVE (\E urls : DoneWith(urls))'
    <3>1. Unflawed(read) /\ Unflawed(r) /\ Unflawed(topology)
      <4>1. Unflawed(read)
        BY <2>9, <2>14 DEF Flawless, Unflawed
      <4>2. Unflawed(r)
        BY <2>6, <4>1 DEF Grows, Unflawed
      <4>3. Unflawed(topology)
        BY <2>2, <2>4, <4>2 DEF Unflawed
      <4> QED BY <4>1, <4>2, <4>3
    <3>2. topology'.documents = r.documents /\ Len(topology'.documents) = Len(topology.documents)
      BY <2>2, <2>4, <2>6, <2>9, <3>1 DEF Grows
    <3>3. /\ Len(topology.documents) \in 1..Len(topology.documents)
          /\ \A i \in 1..Len(topology.documents) : topology'.documents[i] \notin {"failed", "malformed"}
      <4>1. Len(topology.documents) \in Nat
        BY <1>1, TopologyParts
      <4>2. topology'.phase # "fetching"
        BY <2>7, <2>9
      <4> QED BY <1>1, <2>14, <3>2, <4>1, <4>2 DEF Flawless
    <3>4. ~parsed.errors /\ parsed.truncated = ""
      BY <2>2, <2>4, <3>1, <3>2, <3>3
    <3>5. Flawless
      <4>1. ASSUME NEW i \in 1..Len(topology.documents), i # Len(topology.documents)
            PROVE  topology.documents[i] \notin {"failed", "malformed"}
        <5>1. r.documents[i] = topology.documents[i]
          BY <2>2, <2>4, <3>1, <4>1
        <5> QED BY <3>2, <3>3, <5>1
      <4> QED BY <1>0, <3>1, <4>1 DEF Flawless
    <3>6. PICK urls : DoneWith(urls)
      BY <3>5 DEF TopologyInv
    <3>0. PICK more : more = urls \cup Range(fetch.chain) \cup {place}
      OBVIOUS
    <3>7. Range(EntrySitemaps) \subseteq topology'.queued
      BY <2>2, <2>4, <2>6, <2>9, <3>6 DEF DoneWith, Grows
    <3>8. topology'.queued \subseteq more \cup Queued(topology'.queue)
      <4>1. BeingRead = {fetch.requested} /\ fetch.requested \in more
        BY <1>p, <1>0, <1>1, <3>0 DEF BeingRead, RetrievalInv
      <4>2. topology.queued \subseteq more \cup Queued(topology.queue)
        BY <3>0, <3>6, <4>1 DEF DoneWith
      <4> QED BY <2>2, <2>4, <2>6, <2>9, <4>2 DEF Grows
    <3>9. ASSUME NEW url \in more
          PROVE  Leads(url) \subseteq more \cup topology'.queued /\ PagesOf(url) \subseteq topology'.urls
      <4>1. CASE url \in urls
        <5>1. Leads(url) \subseteq urls \cup topology.queued /\ PagesOf(url) \subseteq topology.urls
          BY <3>6, <4>1 DEF DoneWith
        <5> QED BY <2>2, <2>4, <2>6, <2>9, <3>0, <5>1 DEF Grows
      <4>2. CASE url \in Range(fetch.chain)
        <5>1. url \in DOMAIN web /\ web[url].status = 301 /\ web[url].to \in more
          BY <1>p, <1>1, <3>0, <4>2 DEF RetrievalInv
        <5> QED BY <5>1 DEF Leads, PagesOf
      <4>3. CASE url = place
        BY <2>3, <2>6, <2>9, <3>1, <3>4, <4>3
      <4> QED BY <3>0, <4>1, <4>2, <4>3
    <3>10. \A url : Leads(url)' = Leads(url) /\ PagesOf(url)' = PagesOf(url)
      BY <1>0, SameOrigin
    <3>11. DoneWith(more)'
      <4>1. topology'.queued \subseteq more \cup Queued(topology'.queue) \cup BeingRead'
        BY <3>8
      <4>2. \A url \in more : Leads(url)' \subseteq more \cup topology'.queued /\ PagesOf(url)' \subseteq topology'.urls
        BY <3>9, <3>10
      <4> QED BY <3>7, <4>1, <4>2 DEF DoneWith, Queued
    <3> QED BY <3>11
  <2> QED BY <1>0, <2>6, <2>7, <2>9, <2>10, <2>12, <2>13, <2>14 DEF TopologyInv, TopologyType, Queued
<1> QED BY <1>3, <1>4

-----------------------------------------------------------------------------
LEMMA StepTopology == TopologyInv /\ [TopologyNext]_topologyVars => TopologyInv'
<1> SUFFICES ASSUME TopologyInv, [TopologyNext]_topologyVars PROVE TopologyInv'
  OBVIOUS
<1>1. CASE UNCHANGED topologyVars
  <2>1. topology' = topology /\ fetch' = fetch /\ origin' = origin
    BY <1>1 DEF topologyVars, retrievalVars
  <2>2. topology.phase = "fetching" => RetrievalInv'
    <3>1. Reachable' = Reachable /\ web' = web
      BY <2>1, SameOrigin DEF web
    <3>2. Served(fetch.at)' = Served(fetch.at)
      BY <2>1, <3>1 DEF Served
    <3> QED BY <2>1, <3>1, <3>2 DEF TopologyInv, RetrievalInv
  <2>3. (Flawless' => Flawless) /\ BeingRead' = BeingRead
    BY <2>1 DEF Flawless, BeingRead, Unflawed
  <2> QED BY <2>1, <2>2, <2>3, StepTakesNone DEF TopologyInv
<1>2. CASE TopologyNext
  BY <1>2, StepTimeRunsOut, StepLoopStops, StepTooDeep, StepAskForDocument, StepRetrieves, StepDocumentFails,
     StepDocumentIsRead, StepTopologyEnds DEF TopologyNext
<1> QED BY <1>1, <1>2

\* With nothing waiting and nothing left out, the URLs that are done with hold
\* all that can be reached.
LEMMA TopologyHolds == TopologyInv => CompleteListsAll
<1> SUFFICES ASSUME TopologyInv, topology.phase = "done", TopologyStatus(topology) = "complete"
             PROVE  topology.urls = PagesThere
  BY DEF CompleteListsAll
<1>1. /\ topology.stops = {} /\ topology.wrong = {}
      /\ \A i \in DOMAIN topology.documents : topology.documents[i] \notin {"failed", "malformed"}
  BY DEF TopologyStatus
<1>2. DOMAIN topology.documents = 1..Len(topology.documents)
  BY TopologyParts DEF TopologyInv
<1>3. Flawless
  BY <1>1, <1>2 DEF Flawless, Unflawed
<1>4. PICK urls : DoneWith(urls)
  BY <1>3 DEF TopologyInv
<1>5. topology.queue = << >> /\ BeingRead = {}
  BY <1>1 DEF TopologyInv, BeingRead
<1>6. Queued(topology.queue) = {}
  BY <1>5 DEF Queued
<1>7. topology.queued \subseteq urls /\ Range(EntrySitemaps) \subseteq urls
  BY <1>4, <1>5, <1>6 DEF DoneWith
<1>8. Whole(urls)
  BY <1>4, <1>7 DEF Whole, DoneWith
<1>9. Reachable \subseteq urls
  BY <1>7, <1>8, ReachableIs DEF TopologyInv
<1>10. PagesThere \subseteq topology.urls
  <2>1. \A url \in Reachable : PagesOf(url) \subseteq topology.urls
    BY <1>4, <1>9 DEF DoneWith
  <2>2. PagesThere = UNION {PagesOf(url) : url \in Reachable}
    BY DEF PagesThere, PagesOf
  <2> QED BY <2>1, <2>2
<1> QED BY <1>10 DEF TopologyInv

\* A topology that is called complete has every page URL that any sitemap of
\* the origin names, through indexes and redirects, whatever the documents are,
\* whatever fails and whatever the bounds
\* (status, src/crawler/sitemapCollector.js:228).
THEOREM CompleteTopologiesListAll == TopologySpec => []CompleteListsAll
<1>1. TopologyInit => TopologyInv
  BY InitTopology
<1>2. TopologyInv /\ [TopologyNext]_topologyVars => TopologyInv'
  BY StepTopology
<1>3. TopologyInv => CompleteListsAll
  BY TopologyHolds
<1> QED BY <1>1, <1>2, <1>3, PTL DEF TopologySpec
=============================================================================
