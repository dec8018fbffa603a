---------------------------- MODULE ReviewQueue ----------------------------
(***************************************************************************)
(* The reviews of `citable reviews` (src/commands/reviews.js): findings of *)
(* a sealed run that need a human are queued as items of a registry,       *)
(* ranked, sampled, decided by assigned reviewers, adjudicated, evaluated. *)
(* Decisions, assignments, inputs and adjudications are written into the   *)
(* registry by its owner; the commands compute the rest.                   *)
(*                                                                         *)
(* A hash is modelled by the value that is hashed.  Module                 *)
(* ExceptionRegistry has the saving of a registry, here one step.          *)
(***************************************************************************)
EXTENDS Naturals, FiniteSets

CONSTANTS
  Reviewable,  \* findings of the source run that are not deterministic, or
               \* ask for a review: the others are never queued
  Reviewers,   \* entries of the reviewers registry with a semantic role
  Independent, \* those that also are independent_reviewer
  Verdicts,    \* what a decision can say
  MaxReviewEdits \* BOUND: changes of an item's inputs or reviewers

ASSUME ReviewAssumption ==
  /\ Independent \subseteq Reviewers
  /\ MaxReviewEdits \in Nat

VARIABLES
  sealed,    \* the findings.json of the source run: "as queued", "changed" and
             \* sealed again, "missing", or "refused" by the loader
  items,     \* the review_items registry: finding -> item
  active,    \* reviewers of status active
  sample,    \* the sampling plan and what it selected
  reviewEdits \* how often inputs or assignments were changed

reviewVars == <<sealed, items, active, sample, reviewEdits>>

NoItems  == [f \in {} |-> 0]
NoSample == [status |-> "none"]

\* The runs the loader gives, each with other contents of the findings.
Loaded(run) == run \in {"as queued", "changed"}

(***************************************************************************)
(* priority: the score, tier and missing inputs of an item.  They depend   *)
(* on the inputs and the severity of the finding in the run, which counts  *)
(* nothing when the run is gone.                                           *)
(***************************************************************************)
Priority(inputs, run) == [inputs |-> inputs, severity |-> IF Loaded(run) THEN run ELSE "none"]

\* Mutant: the hash covers the adjudication as well.
Binding_Adjudicated(item) ==
  [hash |-> item.hash, inputs |-> item.inputs, priority |-> item.priority,
   assigned |-> item.assigned, adjudication |-> item.adjudication.on]

\* reviewBindingHash: everything but decisions, status and adjudication.
Binding(item) ==
  [hash |-> item.hash, inputs |-> item.inputs, priority |-> item.priority,
   assigned |-> item.assigned, adjudication |-> FALSE]

NoAdjudication == [on |-> FALSE]

Decided(item) == {r \in Reviewers : item.decisions[r].on}
Undecided     == [r \in Reviewers |-> [on |-> FALSE]]

ReviewInit ==
  /\ sealed = "as queued"
  /\ items = NoItems
  /\ active = Reviewers
  /\ sample = NoSample
  /\ reviewEdits = 0

-----------------------------------------------------------------------------
\* queueReviews --write: an item for each reviewable finding that has none.
Queue ==
  /\ Loaded(sealed)
  /\ LET created == Reviewable \ DOMAIN items IN
     /\ created # {}
     /\ items' = [f \in DOMAIN items \cup created |->
          IF f \in DOMAIN items THEN items[f]
          ELSE [hash |-> sealed, inputs |-> 0, priority |-> Priority(0, sealed), assigned |-> {},
                decisions |-> Undecided, adjudication |-> NoAdjudication]]
  /\ UNCHANGED <<sealed, active, sample, reviewEdits>>

\* prioritizeReviews --write: a run that is gone has no severities; a run the
\* loader refuses stops the command.
Prioritize ==
  /\ items # NoItems
  /\ sealed # "refused"
  /\ items' = [f \in DOMAIN items |->
       [items[f] EXCEPT !.priority = Priority(items[f].inputs, sealed)]]
  /\ UNCHANGED <<sealed, active, sample, reviewEdits>>

-----------------------------------------------------------------------------
\* The owner of the registry: inputs, assignments, decisions, adjudication.
SetInputs(f) ==
  /\ f \in DOMAIN items /\ reviewEdits < MaxReviewEdits
  /\ reviewEdits' = reviewEdits + 1
  /\ items' = [items EXCEPT ![f].inputs = @ + 1]
  /\ UNCHANGED <<sealed, active, sample>>

Assign(f) ==
  /\ f \in DOMAIN items /\ reviewEdits < MaxReviewEdits
  /\ reviewEdits' = reviewEdits + 1
  /\ \E R \in SUBSET Reviewers :
       R # items[f].assigned /\ items' = [items EXCEPT ![f].assigned = R]
  /\ UNCHANGED <<sealed, active, sample>>

Decide(f, r) ==
  /\ f \in DOMAIN items
  /\ r \in items[f].assigned \cap active
  /\ \E v \in Verdicts :
       items' = [items EXCEPT ![f].decisions[r] =
                    [on |-> TRUE, verdict |-> v, binding |-> Binding(items[f])]]
  /\ UNCHANGED <<sealed, active, sample, reviewEdits>>

Adjudicate(f, r) ==
  /\ f \in DOMAIN items
  /\ r \in Independent \cap active
  /\ Cardinality({items[f].decisions[d].verdict : d \in Decided(items[f])}) > 1
  /\ \E v \in Verdicts :
       items' = [items EXCEPT ![f].adjudication =
                    [on |-> TRUE, reviewer |-> r, verdict |-> v, binding |-> Binding(items[f])]]
  /\ UNCHANGED <<sealed, active, sample, reviewEdits>>

Deactivate(r) ==
  /\ r \in active
  /\ active' = active \ {r}
  /\ UNCHANGED <<sealed, items, sample, reviewEdits>>

\* The run is sealed again with other findings, tampered with, or removed.
RunChanges ==
  /\ sealed' \in {"changed", "refused", "missing"} \ {sealed}
  /\ UNCHANGED <<items, active, sample, reviewEdits>>

-----------------------------------------------------------------------------
RegisterPlan ==
  /\ sample = NoSample
  /\ sample' = [status |-> "registered"]
  /\ UNCHANGED <<sealed, items, active, reviewEdits>>

\* selectSample: the items whose status the plan names, all of them or the
\* first by hash; an empty population is refused.  (The hash of the population
\* is recorded with them, and read by nothing.)
SelectSample ==
  /\ sample # NoSample
  /\ items # NoItems
  /\ \E chosen \in SUBSET DOMAIN items \ {{}} :
       sample' = [status |-> "selected", items |-> chosen]
  /\ UNCHANGED <<sealed, items, active, reviewEdits>>

-----------------------------------------------------------------------------
\* evaluateReviews, for one item.
StaleDecision(item, r) == item.decisions[r].binding # Binding(item)

HasIssues(item) ==
  \/ ~Loaded(sealed)
  \/ item.hash # sealed
  \/ \E r \in Decided(item) : r \notin active \cap item.assigned \/ StaleDecision(item, r)

VerdictsOf(item) == {item.decisions[r].verdict : r \in Decided(item)}

Adjudicated(item) ==
  /\ item.adjudication.on
  /\ item.adjudication.reviewer \in active \cap Independent
  /\ item.adjudication.binding = Binding(item)

ReviewState(item) ==
  IF Decided(item) = {} THEN "review_required"
  ELSE IF Cardinality(VerdictsOf(item)) = 1 \/ Adjudicated(item) THEN "completed"
  ELSE "adjudication_required"

\* Whether a verdict is given, and which: an adjudication's, if there is one.
HasVerdict(item) == ReviewState(item) = "completed" /\ ~HasIssues(item)
VerdictOf(item) ==
  IF item.adjudication.on THEN item.adjudication.verdict
  ELSE CHOOSE v \in VerdictsOf(item) : TRUE

ReviewNext ==
  \/ Queue \/ Prioritize \/ RunChanges \/ RegisterPlan \/ SelectSample
  \/ \E f \in Reviewable : SetInputs(f) \/ Assign(f)
  \/ \E f \in Reviewable, r \in Reviewers : Decide(f, r) \/ Adjudicate(f, r)
  \/ \E r \in Reviewers : Deactivate(r)

ReviewSpec == ReviewInit /\ [][ReviewNext]_reviewVars

-----------------------------------------------------------------------------
ReviewTypeOK ==
  /\ sealed \in {"as queued", "changed", "refused", "missing"}
  /\ DOMAIN items \subseteq Reviewable
  /\ active \subseteq Reviewers
  /\ reviewEdits \in 0..MaxReviewEdits
  /\ \A f \in DOMAIN items :
       /\ items[f].assigned \subseteq Reviewers
       /\ DOMAIN items[f].decisions = Reviewers

\* The decisions of an item that an evaluation would not call stale.
CurrentDecisions(item) == {r \in Decided(item) : ~StaleDecision(item, r)}

\* A new ranking would change nothing.
Settled(item) == item.priority = Priority(item.inputs, sealed)

(***************************************************************************)
(* A decision made on an item whose ranking is up to date stays current    *)
(* until its inputs, its reviewers or its run change: not another ranking, *)
(* another decision or an adjudication makes it stale (reviews.js:11-14,   *)
(* whose hash covers the ranking that reviews.js:41-47 computes again).    *)
(***************************************************************************)
DecisionsStayCurrent ==
  [][\A f \in DOMAIN items :
       Settled(items[f]) /\ sealed' = sealed
       /\ items'[f].inputs = items[f].inputs /\ items'[f].assigned = items[f].assigned
         => CurrentDecisions(items[f]) \subseteq CurrentDecisions(items'[f])]_reviewVars

(***************************************************************************)
(* The verdict of an item is one its reviewers agree on, or that of a      *)
(* current decision of an active independent reviewer                      *)
(* ("Completion requires an evidence-linked, hash-bound decision from an   *)
(* active independent reviewer", skill/commands/reviews.md:17).            *)
(***************************************************************************)
VerdictWasGiven ==
  \A f \in DOMAIN items :
    HasVerdict(items[f]) =>
      Adjudicated(items[f]) \/ VerdictsOf(items[f]) = {VerdictOf(items[f])}
=============================================================================
