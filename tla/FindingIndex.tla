---------------------------- MODULE FindingIndex ----------------------------
(***************************************************************************)
(* `citable audit` (src/commands/audit.js) and what it keeps between runs: *)
(* .citable/findings-index.json, where reconcileFindingIdentities          *)
(* (src/evidence/findingIdentity.js) records in how many runs a finding    *)
(* was observed and since when, and .citable/snapshots/pages-latest.json.  *)
(* An audit is one process; it takes no lock.  Module EvidenceRun has the  *)
(* writing and sealing of the run itself, here one step.                   *)
(*                                                                         *)
(* finding_id is a hash of detector, subject and summary, so a detector    *)
(* that reports one thing several times on a page (detectors/ans.js:130,   *)
(* two passages with a quantity lacking its baseline; geoReco.js:92, two   *)
(* comments) yields several findings of one finding_id.                    *)
(***************************************************************************)
EXTENDS Naturals, FiniteSets, FiniteSetsExt

CONSTANTS
  FindingIds, \* finding_id
  Audits,     \* audit processes, each with its run
  MaxHits,    \* BOUND: findings of one finding_id in one run
  MaxChanges  \* BOUND: changes of the site by its owner

ASSUME IndexAssumption ==
  /\ {MaxHits, MaxChanges} \subseteq Nat /\ MaxHits >= 1
  /\ IsFiniteSet(Audits) /\ {"none", "empty", "torn"} \cap Audits = {}

VARIABLES
  live,        \* what the detectors find on the site as it is now
  changes,     \* how often the owner has changed it
  clock,       \* time: the run timestamps given out
  index,       \* findings-index.json: finding_id -> entry
  latest,      \* pages-latest.json: the audit whose pages it holds, or
               \* "none", "empty" once opened for writing, or "torn"
  previous,    \* what the files pages-<run>.prev.json hold
  audit,       \* progress of each audit
  overlapped,  \* observer: two audits were between createRun and their index
               \* update at one time, or the index was lost in the middle of one
  crossed      \* observer: two audits were replacing the snapshot at one time

indexVars == <<live, changes, clock, index, latest, previous, audit, overlapped,
              crossed>>

NoFindings == [f \in {} |-> 0]

\* classifyPersistence
Persistence(n) == IF n >= 3 THEN "PERSISTENT"
                  ELSE IF n = 2 THEN "RECURRENT" ELSE "TRANSIENT"

Entry == [first : Nat, last : Nat, firstRun : Audits, lastRun : Audits,
          count : Nat \ {0}, persistence : {"TRANSIENT", "RECURRENT", "PERSISTENT"}]

Pcs == {"idle", "collected", "created", "loaded", "emptied", "indexed", "put aside",
        "opened", "snapshot", "sealed", "failed", "killed"}

\* found: how many findings of each finding_id; copy: the index it loaded;
\* counted: (observer) its findings were entered into the index.
Idle == [pc |-> "idle", time |-> 0, found |-> NoFindings, copy |-> NoFindings,
         counted |-> FALSE]

Indexes == UNION {[D -> Entry] : D \in SUBSET FindingIds}
Counts  == UNION {[D -> 1..MaxHits] : D \in SUBSET FindingIds}
Audit   == [pc : Pcs, time : Nat, found : Counts, copy : Indexes, counted : BOOLEAN]

IndexTypeOK ==
  /\ live \subseteq FindingIds
  /\ changes \in Nat
  /\ clock \in Nat
  /\ index \in Indexes
  /\ latest \in Audits \cup {"none", "empty", "torn"}
  /\ previous \subseteq Audits \cup {"empty", "torn"}
  /\ audit \in [Audits -> Audit]
  /\ {overlapped, crossed} \subseteq BOOLEAN

IndexInit ==
  /\ live \in SUBSET FindingIds
  /\ changes = 0
  /\ clock = 0
  /\ index = NoFindings
  /\ latest = "none"
  /\ previous = {}
  /\ audit = [a \in Audits |-> Idle]
  /\ overlapped = FALSE
  /\ crossed = FALSE

-----------------------------------------------------------------------------
\* The owner changes the site, between audits or during one.
ChangeSite ==
  /\ changes < MaxChanges
  /\ \E f \in FindingIds :
       live' = IF f \in live THEN live \ {f} ELSE live \cup {f}
  /\ changes' = changes + 1
  /\ UNCHANGED <<clock, index, latest, previous, audit, overlapped, crossed>>

\* Audits between createRun and the update of the index.
Updating == {a \in Audits : audit[a].pc \in {"created", "loaded", "emptied"}}

\* buildContext reads the site; the detectors see what was read.
Collect(a) ==
  /\ audit[a].pc = "idle"
  /\ \E hits \in [live -> 1..MaxHits] :
       audit' = [audit EXCEPT ![a].pc = "collected", ![a].found = hits]
  /\ UNCHANGED <<live, changes, clock, index, latest, previous, overlapped, crossed>>

\* createRun gives the run its timestamp.
Create(a) ==
  /\ audit[a].pc = "collected"
  /\ clock' = clock + 1
  /\ audit' = [audit EXCEPT ![a].pc = "created", ![a].time = clock + 1]
  /\ overlapped' = (overlapped \/ Updating # {})
  /\ UNCHANGED <<live, changes, index, latest, previous, crossed>>

\* The coverage ledger refuses the preview or the final counts: the run is
\* sealed as failed and the command throws.
RefuseCoverage(a) ==
  /\ audit[a].pc = "created"
  /\ audit' = [audit EXCEPT ![a].pc = "failed"]
  /\ UNCHANGED <<live, changes, clock, index, latest, previous, overlapped, crossed>>

\* loadFindingsIndex: a file that is missing or does not parse is an empty
\* index, without a word.
LoadIndex(a) ==
  /\ audit[a].pc = "created"
  /\ audit' = [audit EXCEPT ![a].pc = "loaded", ![a].copy = index]
  /\ UNCHANGED <<live, changes, clock, index, latest, previous, overlapped, crossed>>

\* Mutant: an entry that exists is counted from one again.
Observed_Restarts(copy, f, a, time, hits) ==
  [first |-> IF f \in DOMAIN copy THEN copy[f].first ELSE time, last |-> time,
   firstRun |-> a, lastRun |-> a, count |-> hits, persistence |-> Persistence(hits)]

\* Mutant: first_seen follows last_seen.
Observed_Moves(copy, f, a, time, hits) ==
  LET n == IF f \in DOMAIN copy THEN copy[f].count + hits ELSE hits IN
  [first |-> time, last |-> time, firstRun |-> a, lastRun |-> a,
   count |-> n, persistence |-> Persistence(n)]

\* The entry of a finding after `hits` findings with its id in the run of `a`.
Observed(copy, f, a, time, hits) ==
  LET known == f \in DOMAIN copy
      n     == IF known THEN copy[f].count + hits ELSE hits
  IN  [first    |-> IF known THEN copy[f].first ELSE time,
       last     |-> time,
       firstRun |-> IF known THEN copy[f].firstRun ELSE a,
       lastRun  |-> a,
       count    |-> n,
       persistence |-> Persistence(n)]

\* reconcileFindingIdentities over the loaded index.
Reconciled(copy, a, time, found) ==
  [f \in DOMAIN copy \cup DOMAIN found |->
     IF f \in DOMAIN found THEN Observed(copy, f, a, time, found[f]) ELSE copy[f]]

\* saveFindingsIndex opens the file for writing, which empties it ...
EmptyIndex(a) ==
  /\ audit[a].pc = "loaded"
  /\ index' = NoFindings
  /\ audit' = [audit EXCEPT ![a].pc = "emptied"]
  /\ UNCHANGED <<live, changes, clock, latest, previous, overlapped, crossed>>

\* ... and writes the index made of the copy.  Two that write in place at one
\* time may leave a file that does not parse, which is an empty index.
WriteIndex(a) ==
  /\ audit[a].pc = "emptied"
  /\ \/ index' = Reconciled(audit[a].copy, a, audit[a].time, audit[a].found)
     \/ /\ index # NoFindings \/ \E b \in Audits \ {a} : audit[b].pc = "emptied"
        /\ index' = NoFindings
  /\ audit' = [audit EXCEPT ![a].pc = "indexed", ![a].counted = TRUE]
  /\ UNCHANGED <<live, changes, clock, latest, previous, overlapped, crossed>>

\* Audits between the copying of the latest snapshot and the end of writing it.
Replacing == {a \in Audits : audit[a].pc \in {"put aside", "opened"}}

\* Mutant: the snapshot that is about to be replaced is not copied.
PutAside_Skipped(a) ==
  /\ audit[a].pc = "indexed"
  /\ audit' = [audit EXCEPT ![a].pc = "put aside"]
  /\ crossed' = (crossed \/ Replacing # {})
  /\ UNCHANGED <<live, changes, clock, index, latest, previous, overlapped>>

\* The latest page snapshot, if there is one, is copied to pages-<run>.prev.json.
PutAside(a) ==
  /\ audit[a].pc = "indexed"
  /\ previous' = previous \cup ({latest} \ {"none"})
  /\ audit' = [audit EXCEPT ![a].pc = "put aside"]
  /\ crossed' = (crossed \/ Replacing # {})
  /\ UNCHANGED <<live, changes, clock, index, latest, overlapped>>

\* writeFileSync opens the file, which empties it ...
OpenSnapshot(a) ==
  /\ audit[a].pc = "put aside"
  /\ latest' = "empty"
  /\ audit' = [audit EXCEPT ![a].pc = "opened"]
  /\ UNCHANGED <<live, changes, clock, index, previous, overlapped, crossed>>

\* ... and writes it in place, over what another audit has written since, or
\* with another that empties it in between: what is left may be of both.
Snapshot(a) ==
  /\ audit[a].pc = "opened"
  /\ \/ latest' = a
     \/ latest' = "torn" /\ (latest # "empty" \/ Replacing # {a})
  /\ audit' = [audit EXCEPT ![a].pc = "snapshot"]
  /\ UNCHANGED <<live, changes, clock, index, previous, overlapped, crossed>>

\* What an audit that ends in the middle leaves of the file it had opened.
Interrupted(a) == latest' \in {latest} \cup (IF audit[a].pc = "opened" THEN {"torn"} ELSE {})

\* A finding breaks the data contract, or an artifact or the snapshot cannot be
\* written: the audit fails although the index has its findings.
FailLate(a) ==
  /\ audit[a].pc \in {"indexed", "put aside", "opened", "snapshot"}
  /\ Interrupted(a)
  /\ audit' = [audit EXCEPT ![a].pc = "failed"]
  /\ UNCHANGED <<live, changes, clock, index, previous, overlapped, crossed>>

\* run.finalize
Seal(a) ==
  /\ audit[a].pc = "snapshot"
  /\ audit' = [audit EXCEPT ![a].pc = "sealed"]
  /\ UNCHANGED <<live, changes, clock, index, latest, previous, overlapped, crossed>>

\* The process is killed.  An index it had emptied stays empty.
Kill(a) ==
  /\ audit[a].pc \in Pcs \ {"idle", "sealed", "failed", "killed"}
  /\ Interrupted(a)
  /\ audit' = [audit EXCEPT ![a].pc = "killed"]
  /\ overlapped' = (overlapped \/ audit[a].pc = "emptied")
  /\ UNCHANGED <<live, changes, clock, index, previous, crossed>>

AuditStep(a) ==
  \/ Collect(a) \/ Create(a) \/ RefuseCoverage(a) \/ LoadIndex(a) \/ EmptyIndex(a)
  \/ WriteIndex(a) \/ PutAside(a) \/ OpenSnapshot(a) \/ Snapshot(a) \/ FailLate(a)
  \/ Seal(a) \/ Kill(a)

IndexNext == ChangeSite \/ \E a \in Audits : AuditStep(a)

IndexSpec == IndexInit /\ [][IndexNext]_indexVars

-----------------------------------------------------------------------------
\* The audits whose update of the index included f.
Observers(f) == {a \in Audits : audit[a].counted /\ f \in DOMAIN audit[a].found}

\* When they saw f, and how often each of them found it.
Times(f) == {audit[a].time : a \in Observers(f)}
Hits(f)  == [a \in Observers(f) |-> audit[a].found[f]]

SumOf(F, S) == MapThenSumSet(LAMBDA x : F[x], S)

\* An entry about f that tells of audits that did find it, no later than they
\* did and no oftener than all of them.
Attested(e, f) ==
  /\ {e.firstRun, e.lastRun} \subseteq Observers(f)
  /\ e.first = audit[e.firstRun].time
  /\ e.last = audit[e.lastRun].time
  /\ e.count <= SumOf(Hits(f), Observers(f))

\* An index with an entry for exactly the findings observed: first_seen of the
\* earliest observer, last_seen of the latest, and every hit counted, so that a
\* run with two hits of one finding counts twice (OccurrencesAreRuns).
IsHistory(x) ==
  /\ DOMAIN x = {f \in FindingIds : Observers(f) # {}}
  /\ \A f \in DOMAIN x :
       /\ x[f].first = Min(Times(f))
       /\ x[f].last = Max(Times(f))
       /\ x[f].count = SumOf(Hits(f), Observers(f))

Quiet == ~overlapped /\ Updating = {}

(***************************************************************************)
(* The index forgets but does not invent: however audits overlap, fail or  *)
(* are killed, an entry tells of runs that did observe its finding, and    *)
(* its count is never above what they reported, although one of two audits *)
(* writes over the other's index.  While audits do not overlap it is the   *)
(* whole history of those that were run (findingIdentity.js:43-50:         *)
(* "first_seen reflects the earliest run that observed the finding").      *)
(***************************************************************************)
IndexIsHistory ==
  /\ \A f \in DOMAIN index : Attested(index[f], f)
  /\ Quiet => IsHistory(index)

(***************************************************************************)
(* occurrence_count is the number of runs that observed the finding        *)
(* ("occurrence_count tracks total observed runs", findingIdentity.js:46). *)
(***************************************************************************)
OccurrencesAreRuns ==
  Quiet => \A f \in DOMAIN index : index[f].count = Cardinality(Observers(f))

(***************************************************************************)
(* Once an audit has left a page snapshot, a whole one is on disk at every *)
(* time, wherever later audits fail or are killed while they replace it,   *)
(* as long as no two of them replace it at one time: freshness and         *)
(* regression detectors have something to compare with (audit.js:184-206). *)
(***************************************************************************)
SnapshotSurvives ==
  (\E a \in Audits : audit[a].pc \in {"snapshot", "sealed"}) /\ ~crossed
     => latest \in Audits \/ previous \cap Audits # {}
=============================================================================
