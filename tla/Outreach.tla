----------------------------- MODULE Outreach -----------------------------
(***************************************************************************)
(* The outreach product (products/outreach/src): opportunities and the     *)
(* judgements about them, drafts, the registry that keeps agents off one   *)
(* another and off suppressed recipients, the authorization boundary, the  *)
(* circuit breaker and the kill switches of a campaign, and the life of an *)
(* acquired link.                                                          *)
(*                                                                         *)
(* The package is a library.  Who calls it is modelled from its tests: an  *)
(* agent drafts, reserves, asks for authorization with what the registry   *)
(* and the monitor answer, sends, records the contact and releases.        *)
(***************************************************************************)
EXTENDS Integers, Sequences, FiniteSets

CONSTANTS
  Agents,
  Opportunities,  \* opportunity ids
  Recipients,     \* normalized e-mail addresses
  Cooldown,       \* cooldownDays
  Budget,         \* remaining_project_budget_minor_units at the start
  Price,          \* requested_cost_minor_units of a message
  Levels,         \* the levels of kill switches that are used
  LastDay,        \* BOUND: the days of a behaviour
  MaxLetters,     \* BOUND: the messages sent
  MaxChecks       \* BOUND: the observations of an acquired link

Nobody == "nobody"

ASSUME OutreachAssumption ==
  /\ Nobody \notin Agents
  /\ Cooldown \in Nat /\ LastDay \in Nat /\ MaxLetters \in Nat /\ MaxChecks \in Nat
  /\ Budget \in Nat /\ Price \in Nat
  /\ Levels \subseteq {"organization", "sender", "campaign", "strategy", "agent", "domain"}

\* What is off in the deliverability of the campaign: authentication, or a
\* rate above its threshold.
Problems == {"authentication", "bounce_rate", "spam_complaint_rate"}

VARIABLES
  day,        \* Date.now(), in days
  suppressed, \* the suppressed e-mail addresses, and "domain" for their domain
  engaged,    \* _activeEngagements: (opportunity, recipient) -> agent
  contacts,   \* _contactHistory: recipient -> days
  task,       \* what each agent is about
  letters,    \* the messages that went out
  budget,     \* what the caller passes as remaining budget
  health,     \* deliverabilityHealth: the problems there are
  breaker,    \* circuitBreaker.state
  halted,     \* killSwitches
  prospect,   \* the opportunity object, after each of its judgements
  page,       \* what the page of the publisher shows: the link, or nothing
  link        \* the lifecycle record of the acquired link

registryVars == <<suppressed, engaged, contacts>>
campaignVars == <<health, breaker, halted>>
outreachVars == <<day, registryVars, task, letters, budget, campaignVars, prospect, page, link>>

-----------------------------------------------------------------------------
(***************************************************************************)
(* Suppression, deduplication, cooldown                                    *)
(***************************************************************************)
\* isSuppressed with the domain of the recipient.
IsSuppressed(r) == r \in suppressed \/ "domain" \in suppressed

Recent(r) == {d \in contacts[r] : day - d < Cooldown}

\* Mutant: an engagement of another agent is overwritten.
MayEngage_Anyone(a, o, r) == r \notin suppressed /\ Recent(r) = {}

\* reserveEngagement: it asks isSuppressed for the address only.
MayEngage(a, o, r) ==
  /\ r \notin suppressed
  /\ engaged[o, r] \in {Nobody, a}
  /\ Recent(r) = {}

Idle == [doing |-> "idle"]

Suppress ==
  /\ \E s \in Recipients \cup {"domain"} : suppressed' = suppressed \cup {s}
  /\ UNCHANGED <<day, engaged, contacts, task, letters, budget, campaignVars, prospect, page, link>>

\* verifyDraftForFabrication: familiarity and relationship always reject,
\* a statistic only without evidence.
DraftStatus(text, evidence) ==
  IF text \in {"familiarity", "relationship"} \/ (text = "statistic" /\ ~evidence)
  THEN "REJECTED" ELSE "DRAFT_UNAUTHORIZED"

\* draftOutreachMessage
Draft(a, o, r) ==
  /\ task[a] = Idle
  /\ \E text \in {"plain", "familiarity", "statistic"}, evidence \in BOOLEAN :
       task' = [task EXCEPT ![a] = [doing |-> "drafted", opportunity |-> o, recipient |-> r,
                                    status |-> DraftStatus(text, evidence)]]
  /\ UNCHANGED <<day, registryVars, letters, budget, campaignVars, prospect, page, link>>

\* A rejected draft does not get to the review; a refused one is dropped.
Drop(a) ==
  /\ task[a].doing = "drafted" /\ task[a].status = "REJECTED"
  /\ task' = [task EXCEPT ![a] = Idle]
  /\ UNCHANGED <<day, registryVars, letters, budget, campaignVars, prospect, page, link>>

Reserve(a) ==
  LET t == task[a] IN
  /\ t.doing = "drafted" /\ t.status = "DRAFT_UNAUTHORIZED"
  /\ IF MayEngage(a, t.opportunity, t.recipient)
     THEN /\ engaged' = [engaged EXCEPT ![<<t.opportunity, t.recipient>>] = a]
          /\ task' = [task EXCEPT ![a].doing = "reserved"]
     ELSE task' = [task EXCEPT ![a] = Idle] /\ UNCHANGED engaged
  /\ UNCHANGED <<day, suppressed, contacts, letters, budget, campaignVars, prospect, page, link>>

-----------------------------------------------------------------------------
(***************************************************************************)
(* The authorization boundary and the campaign                             *)
(***************************************************************************)
\* isExecutionHalted: a switch below the organization and the campaign
\* counts only when the context names its scope.
ExecutionHalted(scopes) ==
  \/ halted \cap ({"organization", "campaign"} \cup scopes) # {}
  \/ breaker = "TRIPPED_HALTED"

\* authorizeOutreachExecution: the order of the refusals.
AuthorizationStatus(approved, r) ==
  CASE ~approved       -> "REFUSED_NOT_AUTHORIZED"
    [] IsSuppressed(r) -> "REFUSED_SUPPRESSED"
    [] ExecutionHalted(Levels) -> "REFUSED_CIRCUIT_BREAKER_ACTIVE"
    [] budget < Price  -> "REFUSED_BUDGET_EXHAUSTED"
    [] OTHER           -> "AUTHORIZED"

Authorize(a) ==
  /\ task[a].doing = "reserved"
  /\ \E approved \in BOOLEAN :
       IF AuthorizationStatus(approved, task[a].recipient) = "AUTHORIZED"
       THEN /\ task' = [task EXCEPT ![a].doing = "authorized"]
            /\ budget' = budget - Price
       ELSE task' = [task EXCEPT ![a].doing = "done"] /\ UNCHANGED budget
  /\ UNCHANGED <<day, registryVars, letters, campaignVars, prospect, page, link>>

\* The message goes out; nothing is asked again.
Send(a) ==
  LET t == task[a] IN
  /\ t.doing = "authorized" /\ Len(letters) < MaxLetters
  /\ letters' = Append(letters, [opportunity |-> t.opportunity, recipient |-> t.recipient, day |-> day])
  /\ task' = [task EXCEPT ![a].doing = "sent"]
  /\ UNCHANGED <<day, registryVars, budget, campaignVars, prospect, page, link>>

RecordContactSent(a) ==
  /\ task[a].doing = "sent"
  /\ contacts' = [contacts EXCEPT ![task[a].recipient] = @ \cup {day}]
  /\ task' = [task EXCEPT ![a].doing = "done"]
  /\ UNCHANGED <<day, suppressed, engaged, letters, budget, campaignVars, prospect, page, link>>

ReleaseEngagement(a) ==
  LET t == task[a] IN
  /\ t.doing = "done"
  /\ engaged' = [engaged EXCEPT ![<<t.opportunity, t.recipient>>] = Nobody]
  /\ task' = [task EXCEPT ![a] = Idle]
  /\ UNCHANGED <<day, suppressed, contacts, letters, budget, campaignVars, prospect, page, link>>

Tick ==
  /\ day < LastDay /\ day' = day + 1
  /\ UNCHANGED <<registryVars, task, letters, budget, campaignVars, prospect, page, link>>

\* A breaker that was reauthorized is not tripped again.
Breaker(problems) ==
  IF problems # {} /\ breaker # "EXPLICITLY_REAUTHORIZED" THEN "TRIPPED_HALTED" ELSE breaker

UpdateDeliverabilityMetrics ==
  /\ \E problems \in SUBSET Problems :
       /\ Cardinality(problems) =< 1
       /\ health' = problems /\ breaker' = Breaker(problems)
  /\ UNCHANGED <<day, registryVars, task, letters, budget, halted, prospect, page, link>>

\* Any operator may, whatever the state of the breaker.
ReauthorizeCircuitBreaker ==
  /\ breaker' = "EXPLICITLY_REAUTHORIZED"
  /\ UNCHANGED <<day, registryVars, task, letters, budget, health, halted, prospect, page, link>>

SetKillSwitch ==
  /\ \E l \in Levels : halted' \in {halted \cup {l}, halted \ {l}}
  /\ UNCHANGED <<day, registryVars, task, letters, budget, health, breaker, prospect, page, link>>

-----------------------------------------------------------------------------
(***************************************************************************)
(* Opportunities                                                           *)
(***************************************************************************)
\* What is known of a domain and of a page, as far as it matters.
DomainData == [flagged : BOOLEAN, legitimacy : {"QUESTIONABLE", "LOW", "HIGH"}, status : {"QUALIFIED", "NEEDS_REVIEW"}]
PageData   == [relevance : {"IRRELEVANT", "HIGH"}, links : {50, 80, 81}, status : {"QUALIFIED", "NEEDS_REVIEW"}]

\* qualifyDomainAndPage: a domain of low legitimacy keeps the status it was
\* given; between 51 and 80 links only the given status qualifies a page.
DomainStatus(d) ==
  IF d.flagged \/ d.legitimacy = "QUESTIONABLE" THEN "DISQUALIFIED"
  ELSE IF d.legitimacy = "HIGH" THEN "QUALIFIED" ELSE d.status

PageStatus(p) ==
  IF p.relevance = "IRRELEVANT" \/ p.links > 80 THEN "DISQUALIFIED"
  ELSE IF p.links =< 50 THEN "QUALIFIED" ELSE p.status

\* isOpportunityFullyQualified
FullyQualified(q) == q.domain = "QUALIFIED" /\ q.page = "QUALIFIED"

\* evaluateLinkableAssetForOpportunity: a verified asset of the strategy and
\* the topic whose evidence is good enough, or none at all.
Assets == [verified : BOOLEAN, fits : BOOLEAN, quality : {"MEDIUM", "HIGH"}]
LinkableAsset(assets, required) ==
  \E a \in assets : a.verified /\ a.fits /\ (required = "HIGH" => a.quality = "HIGH")

\* resolvePublicContact: an address that was seen in public, and not one of
\* the billing department by its address or its role.
Contact == [inferred : BOOLEAN, valid : BOOLEAN, billing : BOOLEAN]
ContactResolved(c) == ~c.inferred /\ c.valid /\ ~c.billing

NoProspect == [stage |-> "none"]

\* createOutreachOpportunity: the observation is frozen; nothing is judged.
CreateOutreachOpportunity ==
  /\ prospect = NoProspect
  /\ prospect' = [stage |-> "created", hypothesis |-> 1,
                  domain |-> "NEEDS_REVIEW", page |-> "NEEDS_REVIEW", asset |-> FALSE, contact |-> FALSE]
  /\ UNCHANGED <<day, registryVars, task, letters, budget, campaignVars, page, link>>

UpdateOpportunityHypothesis ==
  /\ prospect # NoProspect /\ prospect.hypothesis = 1
  /\ prospect' = [prospect EXCEPT !.hypothesis = 2]
  /\ UNCHANGED <<day, registryVars, task, letters, budget, campaignVars, page, link>>

QualifyDomainAndPage ==
  /\ prospect # NoProspect /\ prospect.stage = "created"
  /\ \E d \in DomainData, p \in PageData :
       prospect' = [prospect EXCEPT !.stage = "qualified", !.domain = DomainStatus(d), !.page = PageStatus(p)]
  /\ UNCHANGED <<day, registryVars, task, letters, budget, campaignVars, page, link>>

EvaluateLinkableAsset ==
  /\ prospect # NoProspect /\ prospect.stage = "qualified"
  /\ FullyQualified(prospect)
  /\ \E a \in Assets, required \in {"MEDIUM", "HIGH"} :
       prospect' = [prospect EXCEPT !.stage = "evaluated", !.asset = LinkableAsset({a}, required)]
  /\ UNCHANGED <<day, registryVars, task, letters, budget, campaignVars, page, link>>

ResolvePublicContact ==
  /\ prospect # NoProspect /\ prospect.stage = "evaluated" /\ prospect.asset
  /\ \E c \in Contact :
       prospect' = [prospect EXCEPT !.stage = "resolved", !.contact = ContactResolved(c)]
  /\ UNCHANGED <<day, registryVars, task, letters, budget, campaignVars, page, link>>

-----------------------------------------------------------------------------
(***************************************************************************)
(* The life of an acquired link                                            *)
(***************************************************************************)
NoAnchor == ""
Shown    == [rel : {"sponsored", "ugc", "nofollow", "follow"}, anchor : {NoAnchor, "A", "B"}]
NoLink   == [rel |-> "none", anchor |-> NoAnchor]

\* determineLinkState
LinkState(rel) ==
  CASE rel = "sponsored" -> "ACTIVE_SPONSORED"
    [] rel = "ugc"       -> "ACTIVE_UGC"
    [] rel = "nofollow"  -> "ACTIVE_NOFOLLOW"
    [] OTHER             -> "ACTIVE_FOLLOW"

\* The owner of the page changes it.
EditPage ==
  /\ page' \in (Shown \cup {NoLink}) \ {page}
  /\ UNCHANGED <<day, registryVars, task, letters, budget, campaignVars, prospect, link>>

Unverified == [state |-> "UNVERIFIED", shown |-> NoLink, history |-> <<>>]

\* verifyAcquiredLink
VerifyAcquiredLink ==
  /\ link = Unverified
  /\ LET state == IF page = NoLink THEN "LOST" ELSE LinkState(page.rel) IN
     link' = [state |-> state, shown |-> page, history |-> <<state>>]
  /\ UNCHANGED <<day, registryVars, task, letters, budget, campaignVars, prospect, page>>

\* The state an observation finds.  A lost link leaves the anchor empty, so
\* that one which returns with an anchor is a modified one.
Observed ==
  IF page = NoLink THEN "LOST"
  ELSE IF page.anchor # link.shown.anchor THEN "MODIFIED"
  ELSE LinkState(page.rel)

\* updateLinkLifecycleObservation
UpdateLinkLifecycleObservation ==
  /\ link # Unverified /\ Len(link.history) < MaxChecks
  /\ link' = [state |-> Observed, shown |-> page, history |-> Append(link.history, Observed)]
  /\ UNCHANGED <<day, registryVars, task, letters, budget, campaignVars, prospect, page>>

-----------------------------------------------------------------------------
OutreachInit ==
  /\ day = 0 /\ suppressed = {}
  /\ engaged = [k \in Opportunities \X Recipients |-> Nobody]
  /\ contacts = [r \in Recipients |-> {}]
  /\ task = [a \in Agents |-> Idle]
  /\ letters = <<>> /\ budget = Budget
  /\ health = {} /\ breaker = "HEALTHY" /\ halted = {}
  /\ prospect = NoProspect
  /\ page = NoLink /\ link = Unverified

AgentStep(a) ==
  \/ \E o \in Opportunities, r \in Recipients : Draft(a, o, r)
  \/ Drop(a) \/ Reserve(a) \/ Authorize(a) \/ Send(a) \/ RecordContactSent(a) \/ ReleaseEngagement(a)

CampaignNext ==
  \/ \E a \in Agents : AgentStep(a)
  \/ Suppress \/ Tick
  \/ UpdateDeliverabilityMetrics \/ ReauthorizeCircuitBreaker \/ SetKillSwitch

ProspectNext ==
  \/ CreateOutreachOpportunity \/ UpdateOpportunityHypothesis
  \/ QualifyDomainAndPage \/ EvaluateLinkableAsset \/ ResolvePublicContact

LinkNext == EditPage \/ VerifyAcquiredLink \/ UpdateLinkLifecycleObservation

-----------------------------------------------------------------------------
(***************************************************************************)
(* An editor hears of an opportunity once in a cooldown, however many      *)
(* agents work on it and whenever they record what they sent               *)
(* (suppression.js:61-110, "Two agents cannot independently contact the    *)
(* same editor for the same opportunity").  Of two opportunities at once   *)
(* the registry does not say this: the cooldown is asked for when an       *)
(* engagement is reserved, not when the message goes out.                  *)
(***************************************************************************)
ContactedOnce ==
  \A i, j \in 1..Len(letters) :
    /\ i < j
    /\ letters[i].opportunity = letters[j].opportunity
    /\ letters[i].recipient = letters[j].recipient
    => letters[j].day - letters[i].day >= Cooldown

=============================================================================
