-------------------------- MODULE CollectionBudget --------------------------
(***************************************************************************)
(* SerpBudgetManager (src/authorize/collectionScheduler.js): a collection  *)
(* is authorized against the counters of its project, its query and its    *)
(* provider, and counted when it has been made.  Nothing is reserved in    *)
(* between, so collectors that work at the same time authorize against     *)
(* counters that do not have each other's requests.  A provider is looked  *)
(* up in lower case, in the counters and in the limits; the limits are     *)
(* keyed as the configuration writes them.                                 *)
(*                                                                         *)
(* The collector, which awaits the provider between the two calls, is the  *)
(* caller of the class.  requestAdaptiveFrequency only computes an answer  *)
(* and is left out.                                                        *)
(***************************************************************************)
EXTENDS Integers, FiniteSets

CONSTANTS
  Collectors,     \* who collect with one budget manager
  Queries,
  Suppliers,      \* the names of providers that requests use
  LowerCase,      \* supplier -> its name in lower case
  RequestLimit,   \* daily_request_limit
  CostLimit,      \* daily_cost_limit_minor_units
  QueryLimit,     \* per_query_daily_request_limit
  SupplierLimits, \* provider_limits: name -> [requests, cost], under any names
  Usage,          \* the usage of the configuration: [requests, cost, queryCount, suppliers]
  Costs           \* BOUND: what a collection is estimated at, and what it costs

\* Under which names provider_usages has the requests.
Accounts == {LowerCase[s] : s \in Suppliers}

ASSUME BudgetAssumption ==
  /\ IsFiniteSet(Collectors) /\ Collectors # {}
  /\ RequestLimit \in Nat /\ CostLimit \in Nat /\ QueryLimit \in Nat
  /\ Costs \subseteq Nat
  /\ \A p \in DOMAIN SupplierLimits : SupplierLimits[p] \in [requests : Nat, cost : Nat]
  /\ Usage.requests \in Nat /\ Usage.cost \in Nat
  /\ Usage.queryCount \in [Queries -> Nat]
  /\ Usage.suppliers \in [Accounts -> [requests : Nat, cost : Nat]]

VARIABLES
  requests,      \* current_request_count
  cost,          \* current_cost_minor_units
  queryCount,    \* query_request_counts
  supplierUsage, \* provider_usages
  collecting     \* what each collector has been authorized for

budgetVars == <<requests, cost, queryCount, supplierUsage, collecting>>

Resting == [on |-> FALSE]
Collection(q, s) == [on |-> TRUE, query |-> q, supplier |-> s]

BudgetInit ==
  /\ requests = Usage.requests
  /\ cost = Usage.cost
  /\ queryCount = Usage.queryCount
  /\ supplierUsage = Usage.suppliers
  /\ collecting = [c \in Collectors |-> Resting]

-----------------------------------------------------------------------------
WithinProject(estimate) == requests + 1 <= RequestLimit /\ cost + estimate <= CostLimit
WithinQuery(q) == queryCount[q] + 1 <= QueryLimit

\* Mutant: the limits of the provider are only for its costs.
WithinSupplier_CostOnly(s, estimate) ==
  LowerCase[s] \in DOMAIN SupplierLimits =>
    supplierUsage[LowerCase[s]].cost + estimate <= SupplierLimits[LowerCase[s]].cost

\* A limit is one for the requests of a provider only where its key is the
\* provider's name in lower case.
WithinSupplier(s, estimate) ==
  LET p == LowerCase[s] IN
  p \in DOMAIN SupplierLimits =>
    /\ supplierUsage[p].requests + 1 <= SupplierLimits[p].requests
    /\ supplierUsage[p].cost + estimate <= SupplierLimits[p].cost

\* authorizeCollection: a refusal changes nothing.
AuthorizeCollection(c, q, s, estimate) ==
  /\ ~collecting[c].on
  /\ WithinProject(estimate) /\ WithinQuery(q) /\ WithinSupplier(s, estimate)
  /\ collecting' = [collecting EXCEPT ![c] = Collection(q, s)]
  /\ UNCHANGED <<requests, cost, queryCount, supplierUsage>>

\* recordUsage: what it did cost is not what it was estimated at.
RecordUsage(c, actual) ==
  /\ collecting[c].on
  /\ requests' = requests + 1
  /\ cost' = cost + actual
  /\ queryCount' = [queryCount EXCEPT ![collecting[c].query] = @ + 1]
  /\ supplierUsage' = [supplierUsage EXCEPT ![LowerCase[collecting[c].supplier]] =
                         [requests |-> @.requests + 1, cost |-> @.cost + actual]]
  /\ collecting' = [collecting EXCEPT ![c] = Resting]

\* The collection fails, and is not recorded.
CollectionFails(c) ==
  /\ collecting[c].on
  /\ collecting' = [collecting EXCEPT ![c] = Resting]
  /\ UNCHANGED <<requests, cost, queryCount, supplierUsage>>

BudgetNext ==
  \E c \in Collectors :
    \/ \E q \in Queries, s \in Suppliers, estimate \in Costs : AuthorizeCollection(c, q, s, estimate)
    \/ \E actual \in Costs : RecordUsage(c, actual)
    \/ CollectionFails(c)

BudgetSpec == BudgetInit /\ [][BudgetNext]_budgetVars

-----------------------------------------------------------------------------
BudgetTypeOK ==
  /\ requests \in Nat /\ cost \in Nat
  /\ queryCount \in [Queries -> Nat]
  /\ supplierUsage \in [Accounts -> [requests : Nat, cost : Nat]]
  /\ collecting \in [Collectors -> {Resting} \cup {Collection(q, s) : q \in Queries, s \in Suppliers}]

Busy == {c \in Collectors : collecting[c].on}

\* How far the counters may be passed: by the collectors that were authorized
\* on the last request of the budget together.
Slack == Cardinality(Collectors) - 1

Bounded(count, configured, limit) == count <= limit + Slack \/ count = configured

\* The limits that are looked up.  One whose key has a capital, such as
\* "Google", is none of them, and nothing says so: its provider is only held
\* by the limits of the project and the query.
Enforced == DOMAIN SupplierLimits \cap Accounts

\* However collections overlap, fail and are recorded late, no count of
\* requests - of the project, a query or a provider whose limit is enforced -
\* passes its limit by more than the other collectors there are; one collector
\* alone never does.  A count that the configuration starts beyond that stays
\* as it is (src/authorize/collectionScheduler.js:18-25, :40, :72, :103:
\* authorization and recording are separate calls).
OverrunIsBounded ==
  /\ Bounded(requests, Usage.requests, RequestLimit)
  /\ \A q \in Queries : Bounded(queryCount[q], Usage.queryCount[q], QueryLimit)
  /\ \A p \in Enforced :
       Bounded(supplierUsage[p].requests, Usage.suppliers[p].requests, SupplierLimits[p].requests)

\* The inductive form: what is under way counts already, and nothing is where
\* the configuration has used up the limit.
AsksOf(q) == {c \in Collectors : collecting[c].on /\ collecting[c].query = q}
AsksFrom(p) == {c \in Collectors : collecting[c].on /\ LowerCase[collecting[c].supplier] = p}

Held(count, configured, limit, atWork) ==
  \/ count + Cardinality(atWork) <= limit + Slack
  \/ count = configured /\ count >= limit /\ atWork = {}

Committed ==
  /\ Held(requests, Usage.requests, RequestLimit, Busy)
  /\ \A q \in Queries : Held(queryCount[q], Usage.queryCount[q], QueryLimit, AsksOf(q))
  /\ \A p \in Enforced : Held(supplierUsage[p].requests, Usage.suppliers[p].requests,
                              SupplierLimits[p].requests, AsksFrom(p))
=============================================================================
