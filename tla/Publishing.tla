---------------------------- MODULE Publishing ----------------------------
(***************************************************************************)
(* What the connectors write on the web: `connect apply`, which changes a  *)
(* page of WordPress or Webflow as a reviewer asked (connectors/           *)
(* wordpress.js, webflow.js), and `connect indexnow`, which submits URLs   *)
(* in batches (connectors/indexnow.js).  Editors change the page meanwhile *)
(* and requests or answers are lost.                                       *)
(*                                                                         *)
(* A field of the page holds the number of the edit that wrote its text,   *)
(* Fix, or Blank.  The connectors do not see the page but what they read   *)
(* of it: the title of the page where Webflow's SEO title is blank.  The   *)
(* hash of a page is what is read of the fields it covers.                 *)
(***************************************************************************)
EXTENDS Integers, FiniteSets

CONSTANTS
  Fields,      \* the fields of a page
  Hashed,      \* those of the canonical payload: not Webflow's draft state
  Fallback,    \* the field that is read where one is blank
  Together,    \* those written as one object: WordPress' meta, Webflow's seo
  Updates,     \* the fields of the remediation
  Operators,   \* who run `connect apply` with the remediation
  Batches,     \* the chunks of a submission to IndexNow
  MaxPageEdits \* BOUND: edits of the page by others

ASSUME PublishingAssumption ==
  /\ Updates \subseteq Hashed /\ Hashed \subseteq Fields /\ Together \subseteq Fields
  /\ Fallback \in [Fields -> Fields]
  /\ Batches \in Nat \ {0} /\ MaxPageEdits \in Nat

Fix   == -1
Blank == -2

VARIABLES
  content,    \* the page of the system
  edits,      \* how often others have changed it
  spec,       \* the remediation: the content its reviewer saw
  apply,      \* what each operator's command is about
  submission, \* the `connect indexnow` that runs
  engine,     \* the batches the endpoint has got
  receipts    \* the delivery receipts

cmsVars      == <<content, edits, spec, apply>>
indexNowVars == <<submission, engine, receipts>>
publishVars  == <<cmsVars, indexNowVars>>

NotApplying == [doing |-> "idle", status |-> "none"]
NoSpec      == [on |-> FALSE]

\* readContent
AsShown(page) == [f \in Fields |-> IF page[f] = Blank THEN page[Fallback[f]] ELSE page[f]]

\* Mutant: the hash covers the title alone.
PayloadHash_NoMeta(page) == [f \in Hashed \ Together |-> AsShown(page)[f]]

\* computeCmsPayloadHash, computeWebflowPayloadHash
PayloadHash(page) == [f \in Hashed |-> AsShown(page)[f]]

-----------------------------------------------------------------------------
(***************************************************************************)
(* connect read and connect apply                                          *)
(***************************************************************************)
\* readContent: the reviewer locks the remediation to what is there.
Review ==
  /\ spec = NoSpec
  /\ spec' = [on |-> TRUE, seen |-> content]
  /\ UNCHANGED <<content, edits, apply, indexNowVars>>

\* New text, no text, or the text of the field that is its default.
Edit ==
  /\ edits < MaxPageEdits /\ edits' = edits + 1
  /\ \E f \in Fields : \E text \in {edits + 1, Blank, content[Fallback[f]]} :
       content' = [content EXCEPT ![f] = text]
  /\ UNCHANGED <<spec, apply, indexNowVars>>

\* applyRemediation reads the page and compares the hash: a refusal, the
\* proposal of a dry run, or on to the write.
ApplyReads(p) ==
  /\ spec.on /\ apply[p].doing = "idle"
  /\ \E write \in BOOLEAN :
       apply' = [apply EXCEPT ![p] =
         IF PayloadHash(content) # PayloadHash(spec.seen) THEN [doing |-> "idle", status |-> "stale"]
         ELSE IF ~write THEN [doing |-> "idle", status |-> "proposed"]
         ELSE [doing |-> "writing", status |-> "none", current |-> AsShown(content), attempt |-> 1]]
  /\ UNCHANGED <<content, edits, spec, indexNowVars>>

\* The body of the request: the updates, and all of an object of which one
\* field is updated, as it was read.
Written(page, current) ==
  [f \in Fields |->
     IF f \in Updates THEN Fix
     ELSE IF f \in Together /\ Updates \cap Together # {} THEN current[f]
     ELSE page[f]]

\* providerRequest: the write takes effect or not, the answer is ok, final,
\* or one that is tried again, three times in all.
ApplyWrites(p) ==
  LET w == apply[p] IN
  /\ w.doing = "writing"
  /\ \E effect \in BOOLEAN, answer \in {"ok", "refused", "retryable"} :
       /\ answer = "ok" => effect
       /\ content' = IF effect THEN Written(content, w.current) ELSE content
       /\ apply' = [apply EXCEPT ![p] =
            CASE answer = "ok" -> [w EXCEPT !.doing = "reading back"]
              [] answer = "retryable" /\ w.attempt < 3 -> [w EXCEPT !.attempt = @ + 1]
              [] OTHER -> [doing |-> "idle", status |-> "failed"]]
  /\ UNCHANGED <<edits, spec, indexNowVars>>

\* What is there after the write is reported, not compared.
ApplyReadsBack(p) ==
  /\ apply[p].doing = "reading back"
  /\ \E s \in {"applied", "failed"} : apply' = [apply EXCEPT ![p] = [doing |-> "idle", status |-> s]]
  /\ UNCHANGED <<content, edits, spec, indexNowVars>>

-----------------------------------------------------------------------------
(***************************************************************************)
(* connect indexnow                                                        *)
(***************************************************************************)
NoSubmission == [doing |-> "idle"]

\* submitIndexNow: URLs, host and key are there, or it ends.  `foreign` is
\* the first batch that has a URL of another host, if any: it is seen when
\* its payload is built.
SubmitStarts ==
  /\ submission = NoSubmission
  /\ \E write, skip \in BOOLEAN, foreign \in 1..Batches + 1 :
       submission' = [doing |-> IF skip THEN "posting" ELSE "verifying", write |-> write,
                      foreign |-> foreign, next |-> 1, delivered |-> {}]
  /\ UNCHANGED <<cmsVars, engine, receipts>>

\* verifyHostKey: the file of the key is there and starts with it, or else.
VerifyHostKey ==
  /\ submission.doing = "verifying"
  /\ \/ submission' = [submission EXCEPT !.doing = "posting"]
     \/ submission' = NoSubmission
  /\ UNCHANGED <<cmsVars, engine, receipts>>

\* A payload that cannot be built, or an endpoint that cannot be validated,
\* ends the command, whatever was posted before.
SubmitThrows ==
  /\ submission.doing = "posting" /\ submission.next =< Batches
  /\ submission.foreign = submission.next \/ submission.write
  /\ submission' = NoSubmission
  /\ UNCHANGED <<cmsVars, engine, receipts>>

\* A batch is accepted, rejected, or lost on the way there or back.
PostBatch ==
  /\ submission.doing = "posting" /\ submission.next =< Batches
  /\ submission.foreign # submission.next
  /\ LET b == submission.next IN
     \/ /\ ~submission.write
        /\ submission' = [submission EXCEPT !.next = @ + 1, !.delivered = @ \cup {b}]
        /\ UNCHANGED engine
     \/ /\ submission.write
        /\ \E got, accepted \in BOOLEAN :
             /\ accepted => got
             /\ engine' = IF got THEN engine \cup {b} ELSE engine
             /\ submission' = [submission EXCEPT !.next = @ + 1,
                                 !.delivered = IF accepted THEN @ \cup {b} ELSE @]
  /\ UNCHANGED <<cmsVars, receipts>>

\* Mutant: one batch that was accepted makes a success.
AllDelivered_Some(s) == s.delivered # {}

AllDelivered(s) == s.delivered = 1..Batches

WriteReceipt ==
  /\ submission.doing = "posting" /\ submission.next = Batches + 1
  /\ receipts' = receipts \cup {[success |-> AllDelivered(submission), dry |-> ~submission.write]}
  /\ submission' = NoSubmission
  /\ UNCHANGED <<cmsVars, engine>>

-----------------------------------------------------------------------------
PublishInit ==
  /\ content = [f \in Fields |-> 0] /\ edits = 0
  /\ spec = NoSpec
  /\ apply = [p \in Operators |-> NotApplying]
  /\ submission = NoSubmission /\ engine = {} /\ receipts = {}

CmsNext ==
  \/ Review \/ Edit
  \/ \E p \in Operators : ApplyReads(p) \/ ApplyWrites(p) \/ ApplyReadsBack(p)

IndexNowNext == SubmitStarts \/ VerifyHostKey \/ SubmitThrows \/ PostBatch \/ WriteReceipt

-----------------------------------------------------------------------------
(***************************************************************************)
(* A write overwrites nothing that shows another text than the reviewer    *)
(* saw, but for what was not there yet when the command looked             *)
(* (wordpress.js:234-309, webflow.js:277-353): not an edit made between    *)
(* the review and the command.  An edit that does not show, as an SEO      *)
(* title cleared that repeated the title of the page, is overwritten.      *)
(***************************************************************************)
ReviewedIsOverwritten ==
  [][\A p \in Operators : ApplyWrites(p) =>
       \A f \in Hashed : content'[f] # content[f] /\ AsShown(content)[f] # AsShown(spec.seen)[f]
                    => AsShown(content)[f] # apply[p].current[f]]_publishVars

(***************************************************************************)
(* A receipt of a submission that was not a dry run says success only when *)
(* the endpoint has every batch (indexnow.js:282-386): a timeout, a lost   *)
(* answer or a rejected batch among accepted ones shows.  The converse     *)
(* does not hold: batches may have been delivered without a receipt.       *)
(***************************************************************************)
ReceiptIsTrue ==
  \A r \in receipts : r.success /\ ~r.dry => engine = 1..Batches
=============================================================================
