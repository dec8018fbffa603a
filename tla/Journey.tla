------------------------------ MODULE Journey ------------------------------
(***************************************************************************)
(* `observe render` of a browser evidence plan: the capture of a profile   *)
(* by Playwright (observations/browserJourney.js) and its three collectors *)
(* (observations/browser): network transactions, state checkpoints, and    *)
(* the events of a page's queue such as window.dataLayer.                  *)
(*                                                                         *)
(* Between two awaits of the capture the page does what it likes: it       *)
(* pushes to its queue, replaces it or its push, takes items off it,       *)
(* navigates, and sends requests, which are answered, fail, or are still   *)
(* out at the end.  One of the collectors is enabled by the policies of a  *)
(* plan; what two of them share is only the counter of the correlation     *)
(* tracker.                                                                *)
(***************************************************************************)
EXTENDS Integers, Sequences, FiniteSets

CONSTANTS
  JourneyPlans,   \* [steps, collects, checkpoints]: sequences of steps [action, required]
  Governed,       \* the kinds of state whose reading the policy allows
  JourneyRequests,\* the requests of a page
  Bodies,         \* whether response bodies or their hashes are captured
  MaxEvents,      \* max_events of a policy
  MaxObserved,    \* max_observations of the state policy
  MaxPushes,      \* BOUND: what the page pushes to its queue
  MaxTampers      \* BOUND: replacements of the queue or its push, removals from it, navigations

ASSUME JourneyAssumption ==
  /\ Governed \subseteq {"cookies", "local_storage", "session_storage", "globals", "dom_queries"}
  /\ Bodies \in BOOLEAN
  /\ {MaxEvents, MaxObserved, MaxPushes, MaxTampers} \subseteq Nat

VARIABLES
  plan,        \* the plan of the profile
  at,          \* the await the capture is in
  tracker,     \* the correlation tracker: sequence, step and phase
  done,        \* the steps that are over: "completed" or "failed"
  doc,         \* the page: its queue and __citable_events
  pushed,      \* how much has been pushed
  tampered,    \* how often the page has tampered
  runtime,     \* RuntimeEventCollector
  network,     \* NetworkCollector
  request,     \* the requests and transactionMap
  checkpoints, \* StateCollector
  profile      \* what is kept of the profile

pageVars    == <<doc, pushed, tampered, runtime>>
networkVars == <<network, request>>
journeyVars == <<plan, at, tracker, done, pageVars, networkVars, checkpoints, profile>>

-----------------------------------------------------------------------------
(***************************************************************************)
(* The queue of the page under the init script                             *)
(***************************************************************************)
\* How many of the items count as drained; whether some have been taken off
\* the array since.
FreshDoc == [items |-> <<>>, drained |-> 0, shortened |-> FALSE, hooks |-> 1, buffer |-> <<>>]

\* wrapPush: every wrapper around push copies the item, none counts it as
\* drained.
Pushes(d, e) ==
  [d EXCEPT !.items = Append(@, e), !.buffer = @ \o [i \in 1..d.hooks |-> e]]

\* Mutant: the items a new queue comes with are counted but not copied.
TakesOver_Uncopied(d, items, hooks) ==
  [items |-> items, drained |-> Len(items), shortened |-> FALSE, hooks |-> hooks, buffer |-> d.buffer]

\* The init script on a queue and the setter for a new one: all the items
\* there are copied and count as drained.
TakesOver(d, items, hooks) ==
  [items |-> items, drained |-> Len(items), shortened |-> FALSE, hooks |-> hooks, buffer |-> d.buffer \o items]

\* splice, and shift, pop and `length = n`: the count of the drained stays.
Shortened(d, from, to) ==
  [d EXCEPT !.items = SubSeq(@, 1, from - 1) \o SubSeq(@, to + 1, Len(@)), !.shortened = TRUE]

Open == at \notin {"idle", "closed"}

Collects(c) == plan.collects = c

PagePushes ==
  /\ Open /\ Collects("runtime") /\ pushed < MaxPushes
  /\ pushed' = pushed + 1
  /\ \E allowed \in BOOLEAN :
       doc' = Pushes(doc, [id |-> pushed + 1, allowed |-> allowed, wrapped |-> doc.hooks > 0])
  /\ UNCHANGED <<plan, at, tracker, done, tampered, runtime, networkVars, checkpoints, profile>>

\* The queue is set to another array or, as in `q = q || []`, to itself; its
\* push is overwritten; items are taken off it; the page navigates and the
\* script runs on a new one.
PageTampers ==
  /\ Open /\ Collects("runtime") /\ tampered < MaxTampers
  /\ tampered' = tampered + 1
  /\ \/ doc' \in {TakesOver(doc, <<>>, 1), TakesOver(doc, doc.items, doc.hooks + 1),
                  [doc EXCEPT !.hooks = 0], FreshDoc}
     \/ \E from \in 1..Len(doc.items), to \in 1..Len(doc.items) :
          from <= to /\ doc' = Shortened(doc, from, to)
  /\ UNCHANGED <<plan, at, tracker, done, pushed, runtime, networkVars, checkpoints, profile>>

-----------------------------------------------------------------------------
(***************************************************************************)
(* RuntimeEventCollector                                                   *)
(***************************************************************************)
\* What is in the buffer, and the items beyond those counted as drained.
Arrived(d) == d.buffer \o SubSeq(d.items, d.drained + 1, Len(d.items))

AllowedBefore(raw, i) == Cardinality({j \in 1..i - 1 : raw[j].allowed})

\* The loop of drainEvents looks at one more as long as there is room.
Examined(raw, room) == Cardinality({i \in 1..Len(raw) : AllowedBefore(raw, i) < room})

\* The allowed ones of the first n, in their order.
Kept(raw, n) ==
  [k \in 1..AllowedBefore(raw, n + 1) |->
     raw[CHOOSE i \in 1..n : raw[i].allowed /\ AllowedBefore(raw, i) = k - 1]]

Recorded(rt, raw, t) ==
  LET n    == Examined(raw, MaxEvents - Len(rt.events))
      kept == Kept(raw, n)
  IN [events    |-> rt.events \o [i \in 1..Len(kept) |-> [id |-> kept[i].id, step |-> t.step]],
      filtered  |-> rt.filtered + n - Len(kept),
      truncated |-> rt.truncated \/ n < Len(raw)]

\* drainEvents, at one of its five calls: the evaluation in the page may
\* fail, and is then not reported.
Drain(from, to) ==
  /\ at = from /\ at' = to
  /\ \/ /\ Collects("runtime")
        /\ LET r == Recorded(runtime, Arrived(doc), tracker) IN
           /\ runtime' = r
           /\ tracker' = [tracker EXCEPT !.seq = @ + Len(r.events) - Len(runtime.events)]
        /\ doc' = [doc EXCEPT !.buffer = <<>>, !.drained = IF Len(doc.items) > @ THEN Len(doc.items) ELSE @]
     \/ UNCHANGED <<runtime, tracker, doc>>
  /\ UNCHANGED <<plan, done, pushed, tampered, networkVars, checkpoints, profile>>

-----------------------------------------------------------------------------
(***************************************************************************)
(* NetworkCollector                                                        *)
(***************************************************************************)
Unsent == [is |-> "unsent"]

Moment == [step |-> tracker.step, phase |-> tracker.phase]

\* Mutant: the phase is not compared.
IsAsync_Step(from, to) == from.step # to.step

\* correlateCompletion: ambiguous_async
IsAsync(from, to) ==
  \/ from.step # to.step
  \/ from.phase # to.phase /\ to.phase # "during_step"

Full == Len(network.events) >= MaxEvents

\* handleRequest: outside the policy it is counted only; a tracked request
\* beyond the bound stays tracked.
RequestSent(r) ==
  /\ Open /\ Collects("network") /\ request[r] = Unsent
  /\ \/ /\ network' = [network EXCEPT !.filtered = @ + 1]
        /\ request' = [request EXCEPT ![r] = [is |-> "untracked"]]
        /\ UNCHANGED tracker
     \/ /\ request' = [request EXCEPT ![r] = [is |-> "sent", from |-> Moment]]
        /\ tracker' = [tracker EXCEPT !.seq = @ + 1]
        /\ network' = IF Full THEN [network EXCEPT !.total = @ + 1, !.truncated = TRUE]
                      ELSE [network EXCEPT !.total = @ + 1, !.events = Append(@,
                              [tx |-> r, direction |-> "request", seq |-> tracker.seq + 1,
                               async |-> FALSE, from |-> Moment, to |-> Moment])]
  /\ UNCHANGED <<plan, at, done, pageVars, checkpoints, profile>>

Completion(r) ==
  [tx |-> r, direction |-> "response", seq |-> tracker.seq + 1,
   async |-> IsAsync(request[r].from, Moment), from |-> request[r].from, to |-> Moment]

\* handleResponse up to its await of the body, when that is captured: the
\* bound has been looked at then.
ResponseArrives(r) ==
  /\ Open /\ request[r].is = "sent"
  /\ \E success \in BOOLEAN :
       LET counted == [network EXCEPT !.succeeded = IF success THEN @ + 1 ELSE @] IN
       IF Full
       THEN /\ network' = [counted EXCEPT !.truncated = TRUE]
            /\ request' = [request EXCEPT ![r] = [is |-> "over"]]
            /\ UNCHANGED tracker
       ELSE /\ tracker' = [tracker EXCEPT !.seq = @ + 1]
            /\ IF Bodies
               THEN /\ network' = counted
                    /\ request' = [request EXCEPT ![r] = [is |-> "body", event |-> Completion(r)]]
               ELSE /\ network' = [counted EXCEPT !.events = Append(@, Completion(r))]
                    /\ request' = [request EXCEPT ![r] = [is |-> "over"]]
  /\ UNCHANGED <<plan, at, done, pageVars, checkpoints, profile>>

\* The rest of handleResponse: the body is there or unavailable.
BodyArrives(r) ==
  /\ Open /\ request[r].is = "body"
  /\ network' = [network EXCEPT !.events = Append(@, request[r].event)]
  /\ request' = [request EXCEPT ![r] = [is |-> "over"]]
  /\ UNCHANGED <<plan, at, tracker, done, pageVars, checkpoints, profile>>

\* handleRequestFailed: counted whether it is tracked or not.
FailureArrives(r) ==
  /\ Open /\ request[r].is \in {"sent", "untracked"}
  /\ request' = [request EXCEPT ![r] = [is |-> "over"]]
  /\ LET counted == [network EXCEPT !.failed = @ + 1, !.truncated = @ \/ Full] IN
     IF request[r].is = "untracked" \/ Full
     THEN network' = counted /\ UNCHANGED tracker
     ELSE /\ network' = [counted EXCEPT !.events = Append(@, Completion(r))]
          /\ tracker' = [tracker EXCEPT !.seq = @ + 1]
  /\ UNCHANGED <<plan, at, done, pageVars, checkpoints, profile>>

\* toArtifact
InFlight ==
  LET n == network.total - network.succeeded - network.failed IN IF n > 0 THEN n ELSE 0

-----------------------------------------------------------------------------
(***************************************************************************)
(* StateCollector                                                          *)
(***************************************************************************)
\* What reading a governed item comes to: storage and globals are caught
\* item by item inside the page, where an error reads as an absence.
Reading(kind, outcome) ==
  CASE outcome = "there"   -> "present"
    [] outcome = "missing" -> "absent"
    [] outcome = "denied" /\ kind \in {"local_storage", "session_storage", "globals"} -> "absent"
    [] OTHER -> "unavailable"

ObservationStatus(items) ==
  IF \E k \in Governed : items[k] = "unavailable" THEN "partially_observed" ELSE "observed"

\* observeCheckpoint
Checkpoint ==
  IF ~Collects("state") THEN UNCHANGED <<checkpoints, tracker>>
  ELSE IF Len(checkpoints.records) >= MaxObserved
  THEN checkpoints' = [checkpoints EXCEPT !.truncated = TRUE] /\ UNCHANGED tracker
  ELSE /\ \E outcome \in [Governed -> {"there", "missing", "denied", "gone"}] :
            LET items == [k \in Governed |-> Reading(k, outcome[k])] IN
            checkpoints' = [checkpoints EXCEPT !.records = Append(@,
                              [step |-> tracker.step, items |-> items, status |-> ObservationStatus(items)])]
       /\ tracker' = [tracker EXCEPT !.seq = @ + 1]

CheckpointIf(type) ==
  IF type \in plan.checkpoints THEN Checkpoint ELSE UNCHANGED <<checkpoints, tracker>>

-----------------------------------------------------------------------------
(***************************************************************************)
(* playwrightCapture                                                       *)
(***************************************************************************)
NoProfile == [status |-> "none"]

\* The profile fails; whether its collectors' artifacts go with the error.
FailsWith(artifacts) ==
  profile' = [status |-> "failed", steps |-> done', artifacts |-> artifacts, inFlight |-> InFlight]

\* The browser is there for the engine and the authentication, or not.
Launch ==
  /\ at = "idle" /\ profile = NoProfile
  /\ \/ at' = "goto" /\ UNCHANGED profile
     \/ at' = "closed" /\ profile' = [status |-> "failed", steps |-> <<>>, artifacts |-> FALSE, inFlight |-> 0]
  /\ UNCHANGED <<plan, tracker, done, pageVars, networkVars, checkpoints>>

\* An adapter of the caller captures instead, as its contract says or not.
AdapterCaptures ==
  /\ at = "idle" /\ profile = NoProfile /\ at' = "closed"
  /\ \E s \in {"observed", "failed"} :
       profile' = [status |-> s, steps |-> <<>>, artifacts |-> s = "observed", inFlight |-> 0]
  /\ UNCHANGED <<plan, tracker, done, pageVars, networkVars, checkpoints>>

Goto ==
  /\ at = "goto" /\ done' = done
  /\ \/ at' = "install" /\ UNCHANGED profile
     \/ at' = "closing" /\ FailsWith(FALSE)
  /\ UNCHANGED <<plan, tracker, pageVars, networkVars, checkpoints>>

\* installOnPage: the script runs on the page once more, or fails in silence.
InstallOnPage ==
  /\ at = "install" /\ at' = "drain initial"
  /\ \/ Collects("runtime") /\ doc' = TakesOver(doc, doc.items, doc.hooks + 1)
     \/ UNCHANGED doc
  /\ UNCHANGED <<plan, tracker, done, pushed, tampered, runtime, networkVars, checkpoints, profile>>

InitialCheckpoint ==
  /\ at = "initial" /\ at' = "steps"
  /\ CheckpointIf("initial")
  /\ UNCHANGED <<plan, done, pageVars, networkVars, profile>>

StartStep ==
  /\ at = "steps" /\ Len(done) < Len(plan.steps)
  /\ at' = "acting"
  /\ tracker' = [tracker EXCEPT !.step = Len(done) + 1, !.phase = "during_step"]
  /\ UNCHANGED <<plan, done, pageVars, networkVars, checkpoints, profile>>

TheStep == plan.steps[Len(done) + 1]

\* executeStep and the screenshot; a navigation replaces the page.
StepActs ==
  /\ at = "acting" /\ at' = "drain step"
  /\ IF TheStep.action = "checkpoint" THEN Checkpoint ELSE UNCHANGED <<checkpoints, tracker>>
  /\ doc' = IF TheStep.action = "navigate" THEN FreshDoc ELSE doc
  /\ UNCHANGED <<plan, done, pushed, tampered, runtime, networkVars, profile>>

\* Its error is recorded and ends the journey when the step is required;
\* the events since the last drain stay where they are.
StepFails ==
  /\ at = "acting"
  /\ done' = Append(done, "failed")
  /\ tracker' = [tracker EXCEPT !.phase = "between_steps"]
  /\ IF TheStep.required THEN at' = "closing" /\ FailsWith(TRUE)
     ELSE at' = "steps" /\ UNCHANGED profile
  /\ UNCHANGED <<plan, pageVars, networkVars, checkpoints>>

StepCheckpoint ==
  /\ at = "step done" /\ at' = "step over"
  /\ IF TheStep.action # "checkpoint" THEN CheckpointIf("step") ELSE UNCHANGED <<checkpoints, tracker>>
  /\ UNCHANGED <<plan, done, pageVars, networkVars, profile>>

EndStep ==
  /\ at = "step over" /\ at' = "steps"
  /\ done' = Append(done, "completed")
  /\ tracker' = [tracker EXCEPT !.phase = "between_steps"]
  /\ UNCHANGED <<plan, pageVars, networkVars, checkpoints, profile>>

FinishJourney ==
  /\ at = "steps" /\ Len(done) = Len(plan.steps)
  /\ at' = "drain end"
  /\ tracker' = [tracker EXCEPT !.phase = "post_journey"]
  /\ UNCHANGED <<plan, done, pageVars, networkVars, checkpoints, profile>>

\* settling_timeout_ms, if any; an error of it is dropped.
Settle ==
  /\ at = "settling" /\ at' \in {"drain settled", "final"}
  /\ UNCHANGED <<plan, tracker, done, pageVars, networkVars, checkpoints, profile>>

FinalCheckpoint ==
  /\ at = "final" /\ at' = "content"
  /\ CheckpointIf("final")
  /\ UNCHANGED <<plan, done, pageVars, networkVars, profile>>

\* The content, the accessibility tree and the screenshot, one of which may
\* fail; then the artifacts, which are the collectors' own objects.
Content ==
  /\ at = "content" /\ at' = "closing" /\ done' = done
  /\ \/ profile' = [status |-> "observed", steps |-> done, artifacts |-> TRUE, inFlight |-> InFlight]
     \/ FailsWith(FALSE)
  /\ UNCHANGED <<plan, tracker, pageVars, networkVars, checkpoints>>

Close ==
  /\ at = "closing" /\ at' = "closed"
  /\ UNCHANGED <<plan, tracker, done, pageVars, networkVars, checkpoints, profile>>

-----------------------------------------------------------------------------
JourneyInit ==
  /\ plan \in JourneyPlans /\ at = "idle"
  /\ tracker = [seq |-> 0, step |-> 0, phase |-> "initial"]
  /\ done = <<>>
  /\ doc = FreshDoc /\ pushed = 0 /\ tampered = 0
  /\ runtime = [events |-> <<>>, filtered |-> 0, truncated |-> FALSE]
  /\ network = [events |-> <<>>, total |-> 0, succeeded |-> 0, failed |-> 0, filtered |-> 0, truncated |-> FALSE]
  /\ request = [r \in JourneyRequests |-> Unsent]
  /\ checkpoints = [records |-> <<>>, truncated |-> FALSE]
  /\ profile = NoProfile

CaptureNext ==
  \/ Launch \/ AdapterCaptures \/ Goto \/ InstallOnPage
  \/ Drain("drain initial", "initial") \/ InitialCheckpoint
  \/ StartStep \/ StepActs \/ StepFails
  \/ Drain("drain step", "step done") \/ StepCheckpoint \/ EndStep
  \/ FinishJourney \/ Drain("drain end", "settling") \/ Settle \/ Drain("drain settled", "final")
  \/ FinalCheckpoint \/ Content \/ Close

PageNext ==
  \/ PagePushes \/ PageTampers
  \/ \E r \in JourneyRequests :
       RequestSent(r) \/ ResponseArrives(r) \/ BodyArrives(r) \/ FailureArrives(r)

JourneyNext == CaptureNext \/ PageNext

-----------------------------------------------------------------------------
(***************************************************************************)
(* Of the items in the queue each one whose name is in scope is recorded   *)
(* or on its way in the buffer, or the artifact says that it is truncated  *)
(* (runtimeEventCollector.js:56-142, 157-185, 209-224): if it came by a    *)
(* wrapper, and if it came by another push, or with the queue, and counts  *)
(* as drained.  Of a queue which the page has shortened since it was taken *)
(* over, the count is wrong: what comes by another push may never be       *)
(* polled, and nothing says so.                                            *)
(***************************************************************************)
QueueIsAccounted ==
  \A i \in 1..Len(doc.items) :
    LET item == doc.items[i] IN
    /\ item.allowed
    /\ item.wrapped \/ (i <= doc.drained /\ ~doc.shortened)
    => \/ runtime.truncated
       \/ \E k \in 1..Len(doc.buffer)     : doc.buffer[k].id = item.id
       \/ \E k \in 1..Len(runtime.events) : runtime.events[k].id = item.id

(***************************************************************************)
(* A response or failure that is attributed to a step was awaited in the   *)
(* step and the phase that sent the request; whatever came later says      *)
(* ambiguous_async (correlation.js:61-82, networkCollector.js:213-340).    *)
(***************************************************************************)
CompletionIsAttributed ==
  \A i \in 1..Len(network.events) :
    LET e == network.events[i] IN
    e.direction = "response" /\ ~e.async => e.from = e.to

=============================================================================
