---------------------------- MODULE Monitoring ----------------------------
(***************************************************************************)
(* `monitor` (commands/monitor.js) compares the observations of two runs,  *)
(* by default the latest two that have any, sealed or not, and with a      *)
(* webhook delivers what is severe enough (monitoring/alertDelivery.js):   *)
(* one POST, no retry, and a receipt of how it ended.                      *)
(***************************************************************************)
EXTENDS Observation

CONSTANTS
  MinSeverity  \* min_severity of the command

ASSUME MonitoringAssumption == MinSeverity \in {"informational", "medium", "high", "critical"}

VARIABLES
  compared, \* the last result of monitor, monitoring/latest.json
  posting,  \* what monitorAndAlert awaits
  inbox,    \* the alerts the endpoint has got of the result
  receipt   \* the delivery receipt of the result

monitorVars == <<runs, compared, posting, inbox, receipt>>

SeverityRank == [informational |-> 1, medium |-> 2, high |-> 3, critical |-> 4]

-----------------------------------------------------------------------------
\* key: what makes two observations the same subject.  Whatever has neither
\* a URL, a prompt nor a time is told by its content; everything of a page
\* but citations, stances and representations shares the page's key, and so
\* do the rows of several engines.
ObservationKey(o) ==
  IF o.kind \in {"citation", "representation_drift", "stance"} THEN <<o.kind, o.of, o.part>>
  ELSE IF o.kind \in {"browser_journey", "crawler_probe", "regional_network", "media_image"}
          \/ o.of = "none"
       THEN <<o.kind, "content", o.value>>
       ELSE <<o.kind, o.of, "all">>

Keys(r) == {ObservationKey(r.obs[i]) : i \in DOMAIN r.obs}

Newest(S) == CHOOSE i \in S : \A j \in S : j =< i

\* The Map of a run: of the files that share a key the last one counts.
Latest(r, k) == r.obs[Newest({i \in DOMAIN r.obs : ObservationKey(r.obs[i]) = k})]

Alert(severity, type, k) == [severity |-> severity, type |-> type, key |-> k]

\* The change of one subject, whatever it is.
StateAlerts(k, old, new) ==
  IF old.state # new.state
  THEN {Alert(IF new.state \in {"failed", "not_observed"} THEN "high" ELSE "medium", "state_change", k)}
  ELSE {}

\* The changes that are regressions of their kind.
ValueAlerts(k, old, new) ==
  CASE new.kind = "index" /\ old.value = "good" /\ new.value = "bad" -> {Alert("high", "index_loss", k)}
    [] new.kind = "canonical_freshness" /\ old.value = "good" /\ new.value = "bad" ->
         {Alert("high", "canonical_regression", k)}
    [] new.kind = "citation" /\ old.value = "good" /\ new.value = "bad" ->
         {Alert("medium", "citation_presence_change", k)}
    [] new.kind = "stance" /\ old.value = "favorable" /\ new.value \in {"unfavorable", "mixed"} ->
         {Alert("high", "stance_regression", k)}
    [] new.kind = "representation_drift" /\ old.value # "divergent" /\ new.value = "divergent" ->
         {Alert("high", "representation_divergence_observed", k)}
    [] new.kind = "representation_drift" /\ old.value = "divergent" /\ new.value = "consistent" ->
         {Alert("informational", "representation_convergence_observed", k)}
    [] OTHER -> {}

\* A claim an answer distorts, old or new.
ClaimAlerts(k, new) ==
  IF new.kind = "attribution" /\ new.value = "distorted"
  THEN {Alert("high", "claim_contradiction_observed", k)} ELSE {}

\* calculateShareOfVoice: citations of the property among all.
Share(r) ==
  LET all == {k \in Keys(r) : Latest(r, k).kind = "citation"} IN
  [cited |-> Cardinality({k \in all : Latest(r, k).value = "good"}), all |-> Cardinality(all)]

\* A drop of a fifth of the share it had.
ShareAlerts(a, b) ==
  LET p == Share(a)
      c == Share(b)
      drop == p.cited * c.all - c.cited * p.all
  IN IF p.all > 0 /\ c.all > 0 /\ drop > 0 /\ 5 * drop >= p.cited * c.all
     THEN {Alert("high", "share_of_voice_drop", <<"share_of_voice", "aggregate", "all">>)} ELSE {}

ChangeAlerts(k, a, b) ==
  IF k \notin Keys(a) THEN {Alert("informational", "new_observation", k)}
  ELSE StateAlerts(k, Latest(a, k), Latest(b, k)) \cup ValueAlerts(k, Latest(a, k), Latest(b, k))

Alerts(a, b) ==
  (UNION {ChangeAlerts(k, a, b) \cup ClaimAlerts(k, Latest(b, k)) : k \in Keys(b)})
  \cup {Alert("medium", "observation_missing", k) : k \in Keys(a) \ Keys(b)}
  \cup ShareAlerts(a, b)

\* Mutant: the minimum itself does not qualify.
Qualifying_Above(alerts) == {x \in alerts : SeverityRank[x.severity] > SeverityRank[MinSeverity]}

\* filterAlerts
Qualifying(alerts) == {x \in alerts : SeverityRank[x.severity] >= SeverityRank[MinSeverity]}

-----------------------------------------------------------------------------
NotMonitored == [is |-> FALSE]

WithObservations == {i \in DOMAIN runs : runs[i].obs # <<>>}

\* monitor reads and writes without an await; the webhook, if one is given,
\* gets what qualifies.
Monitor ==
  /\ posting = "no" /\ Cardinality(WithObservations) >= 2
  /\ LET b == Newest(WithObservations)
         a == Newest(WithObservations \ {b})
         alerts == Alerts(runs[a], runs[b])
     IN \E webhook \in BOOLEAN :
          /\ compared' = [is |-> TRUE, a |-> a, b |-> b, alerts |-> alerts, webhook |-> webhook, ended |-> TRUE]
          /\ posting' = IF webhook /\ Qualifying(alerts) # {} THEN "validating" ELSE "no"
  /\ inbox' = {} /\ receipt' = "none"
  /\ UNCHANGED runs

\* validatePublicUrl of the webhook may throw.
WebhookValidated ==
  /\ posting = "validating"
  /\ \/ posting' = "posting" /\ UNCHANGED compared
     \/ posting' = "no" /\ compared' = [compared EXCEPT !.ended = FALSE]
  /\ UNCHANGED <<runs, inbox, receipt>>

\* The POST arrives or not, and is answered ok, otherwise, or not in time.
WebhookPosted ==
  /\ posting = "posting"
  /\ \E got, ok \in BOOLEAN :
       /\ ok => got
       /\ inbox' = IF got THEN Qualifying(compared.alerts) ELSE inbox
       /\ posting' = IF ok THEN "delivered" ELSE "undelivered"
  /\ UNCHANGED <<runs, compared, receipt>>

ReceiptWritten ==
  /\ posting \in {"delivered", "undelivered"}
  /\ receipt' = IF posting = "delivered" THEN "success" ELSE "failure"
  /\ posting' = "no"
  /\ UNCHANGED <<runs, compared, inbox>>

\* The command is killed.
MonitorDies ==
  /\ posting # "no" /\ posting' = "no"
  /\ compared' = [compared EXCEPT !.ended = FALSE]
  /\ UNCHANGED <<runs, inbox, receipt>>

-----------------------------------------------------------------------------
MonitoringInit ==
  /\ runs = <<>> /\ compared = NotMonitored
  /\ posting = "no" /\ inbox = {} /\ receipt = "none"

\* BOUND: nothing is observed after the first comparison, which is repeated
\* only where it did not end.
MonitoringNext ==
  \/ ObserveNext /\ posting = "no" /\ ~compared.is /\ UNCHANGED <<compared, posting, inbox, receipt>>
  \/ (compared.is => ~compared.ended) /\ Monitor
  \/ WebhookValidated \/ WebhookPosted \/ ReceiptWritten \/ MonitorDies

-----------------------------------------------------------------------------
\* What was fine in one run and is not in the other.
Worse(o, n) ==
  /\ o.kind = n.kind /\ o.of = n.of /\ o.part = n.part
  /\ \/ o.kind \in {"index", "canonical_freshness", "citation"} /\ o.value = "good" /\ n.value = "bad"
     \/ o.kind = "representation_drift" /\ o.value = "consistent" /\ n.value = "divergent"
     \/ o.kind = "stance" /\ o.value = "favorable" /\ n.value \in {"unfavorable", "mixed"}

\* No later observation of the run hides it.
LastOfItsKey(r, i) == \A j \in DOMAIN r.obs : j > i => ObservationKey(r.obs[j]) # ObservationKey(r.obs[i])

(***************************************************************************)
(* A page that fell out of an index, a canonical that came apart, a        *)
(* citation that was lost, a surface that diverged or a stance that turned *)
(* between two whole runs reaches the webhook of a `monitor` that ended,   *)
(* or its receipt says that it did not (monitor.js:54-143, 188-221,        *)
(* alertDelivery.js:14-17, 86-123), with the default severity, and with    *)
(* lost requests and answers: where both observations are the last of      *)
(* their key in their runs.  What goes before another engine's row of the  *)
(* page, an unnumbered run of the prompt or another answer is not compared *)
(* (monitor.js:15-21, 55-56).                                              *)
(***************************************************************************)
RegressionIsDelivered ==
  compared.is /\ compared.webhook /\ compared.ended /\ posting = "no" =>
    LET a == runs[compared.a]
        b == runs[compared.b]
    IN a.sealed /\ b.sealed =>
         \A i \in DOMAIN a.obs, j \in DOMAIN b.obs :
           Worse(a.obs[i], b.obs[j]) /\ LastOfItsKey(a, i) /\ LastOfItsKey(b, j) =>
             \/ receipt = "failure"
             \/ receipt = "success" /\ \E x \in inbox : x.key = ObservationKey(b.obs[j])
=============================================================================
