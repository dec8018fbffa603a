-------------------------- MODULE ExceptionRegistry --------------------------
(***************************************************************************)
(* .citable/exceptions.yaml and the commands that change it or act on it:  *)
(* `exceptions renew --write`, `exceptions invalidate --write`             *)
(* (src/commands/exceptions.js) and `governance evaluate`                  *)
(* (src/commands/governance.js), over loadRegistries and saveRegistry      *)
(* (src/registries/index.js).  Every command is one process.  None takes a *)
(* lock: a command loads the whole file, computes a candidate in memory    *)
(* and later writes the whole candidate back.                              *)
(*                                                                         *)
(* A command that is refused throws before it changes anything, so a       *)
(* refusal is an action that is not enabled.                               *)
(***************************************************************************)
EXTENDS Naturals, Sequences, FiniteSets

CONSTANTS
  Ids,               \* exception_id
  Findings,          \* findings of the source run
  Covers,            \* the finding each exception names
  Commands,          \* invocations of the program
  MaxRunning,        \* BOUND: saves under way at one time
  Reviewers,         \* reviewer_id
  Owner,             \* owner_reviewer_id of every exception
  Assigned,          \* reviewers the exceptions are assigned to
  Evidence,          \* evidence ids a user may name
  Registered,        \* those with a record in evidence.yaml
  RenewalLimit,      \* exception.renewal_limit
  MaxRenewals,       \* policy.max_renewals
  MaxExceptionDays,  \* policy.max_exception_days, counted from created_at
  LastDay            \* BOUND: last day a user may name

ASSUME RegistryAssumption ==
  /\ Covers \in [Ids -> Findings]
  /\ Registered \subseteq Evidence
  /\ Assigned \subseteq Reviewers /\ Owner \in Reviewers
  /\ {RenewalLimit, MaxRenewals, MaxExceptionDays, LastDay, MaxRunning} \subseteq Nat

Days  == 0..LastDay
Event == [action : {"renewed", "revoked"}, by : Commands]

\* audit lists the events after the approval; linked are the evidence_ids and
\* bound those whose evidence_hashes entry is the hash of the evidence record.
Exception == [status : {"proposed", "approved", "revoked", "superseded"},
              expires : Days, renewals : Nat, linked : SUBSET Evidence,
              bound : SUBSET Evidence, audit : Seq(Event)]

\* The entries of a file, by id.
IsContents(es) == DOMAIN es \subseteq Ids /\ es \in [DOMAIN es -> Exception]
NoEntries      == [x \in {} |-> x]

\* A file that was truncated and not yet written is empty; one whose write was
\* cut short, or that two writers wrote over each other, does not parse.
IsFile(f) == /\ f \in [kind : {"whole", "empty", "torn"}, entries : {f.entries}]
             /\ IsContents(f.entries)
Whole(es) == [kind |-> "whole", entries |-> es]
Empty     == [kind |-> "empty", entries |-> NoEntries]
Torn      == [kind |-> "torn",  entries |-> NoEntries]

Pcs   == {"ready", "record", "truncate", "write", "written", "crashed", "evaluated"}
Fresh == [pc |-> "ready", action |-> "none", id |-> "none",
          candidate |-> NoEntries, accepted |-> {}, overlaps |-> FALSE]
Holding(action, x, es, o) == [pc |-> "record", action |-> action, id |-> x,
                              candidate |-> es, accepted |-> {}, overlaps |-> o]
Evaluated(accepted) == [pc |-> "evaluated", action |-> "evaluated", id |-> "none",
                        candidate |-> NoEntries, accepted |-> accepted,
                        overlaps |-> FALSE]

VARIABLES
  file,     \* .citable/exceptions.yaml
  history,  \* .citable/snapshots/registry-history
  active,   \* reviewers.yaml: reviewers whose status is active
  policy,   \* review-policies.yaml: "approved" or "changed" since the approval
  cmd       \* progress of each command; overlaps (observer): it loaded the
            \* registry while another command was saving

vars == <<file, history, active, policy, cmd>>

IsCommand(s) ==
  /\ s \in [pc : Pcs, action : {"none", "renewed", "revoked", "evaluated"},
            id : Ids \cup {"none"}, candidate : {s.candidate}, accepted : SUBSET Ids,
            overlaps : BOOLEAN]
  /\ IsContents(s.candidate)

TypeOK ==
  /\ IsFile(file)
  /\ \A f \in history : IsFile(f)
  /\ active \subseteq Reviewers
  /\ policy \in {"approved", "changed"}
  /\ cmd = [c \in Commands |-> cmd[c]]
  /\ \A c \in Commands : IsCommand(cmd[c])

\* Exceptions as a person wrote them into the file, bound to no evidence yet.
NewException == [status : {"approved", "superseded"}, expires : {0},
                 renewals : {0}, linked : {{}}, bound : {{}}, audit : {<< >>}]

Init ==
  /\ \E es \in [Ids -> NewException] : file = Whole(es)
  /\ history = {}
  /\ active = Reviewers
  /\ policy = "approved"
  /\ cmd = [c \in Commands |-> Fresh]

Running == {c \in Commands : cmd[c].pc \in {"record", "truncate", "write"}}

\* loadRegistries: an empty file loads as an empty registry without a problem;
\* a file that does not parse is a problem, and every command then throws.
Loads == file.kind # "torn"

-----------------------------------------------------------------------------
(***************************************************************************)
(* What a renewal and a revocation make of an entry.  The renewal stores   *)
(* the hash of the evidence ID, not of the record: it binds nothing.       *)
(***************************************************************************)
\* Mutant: a renewal is not counted.
Renewed_Uncounted(old, c, until, ev) ==
  [old EXCEPT !.expires = until, !.linked = @ \cup ev,
              !.audit = Append(@, [action |-> "renewed", by |-> c])]

Renewed(old, c, until, ev) ==
  [old EXCEPT !.renewals = @ + 1, !.expires = until, !.linked = @ \cup ev,
              !.audit = Append(@, [action |-> "renewed", by |-> c])]

\* Mutant: a revocation starts the audit history over.
Revoked_Rewrites(old, c) ==
  [old EXCEPT !.status = "revoked", !.audit = <<[action |-> "revoked", by |-> c]>>]

Revoked(old, c) ==
  [old EXCEPT !.status = "revoked",
              !.audit = Append(@, [action |-> "revoked", by |-> c])]

\* The command holds a candidate made of everything it loaded.
Prepare(c, action, x, entry) ==
  /\ cmd[c].pc = "ready"
  /\ Cardinality(Running) < MaxRunning
  /\ cmd' = [cmd EXCEPT ![c] =
                Holding(action, x, [file.entries EXCEPT ![x] = entry], Running # {})]
  /\ UNCHANGED <<file, history, active, policy>>

Renewable(old, ref, until) ==
  /\ old.status \notin {"revoked", "superseded"}
  /\ old.renewals < RenewalLimit
  /\ until > ref
  /\ until > old.expires
  /\ old.renewals + 1 <= MaxRenewals
  /\ until <= MaxExceptionDays

\* renewException up to saveRegistry: `ref` is --ref-date, `ev` --evidence.
Renew(c) ==
  \E x \in DOMAIN file.entries, ref \in Days, until \in Days,
     ev \in {{}} \cup {{e} : e \in Evidence} :
    /\ Loads
    /\ active # {}
    /\ Renewable(file.entries[x], ref, until)
    /\ Prepare(c, "renewed", x, Renewed(file.entries[x], c, until, ev))

\* invalidateException up to saveRegistry.
Invalidate(c) ==
  \E x \in DOMAIN file.entries :
    /\ Loads
    /\ active # {}
    /\ file.entries[x].status # "revoked"
    /\ Prepare(c, "revoked", x, Revoked(file.entries[x], c))

\* saveRegistry reads the file again and copies it into the history.
RecordPrevious(c) ==
  /\ cmd[c].pc = "record"
  /\ history' = history \cup {file}
  /\ cmd' = [cmd EXCEPT ![c].pc = "truncate"]
  /\ UNCHANGED <<file, active, policy>>

\* writeYaml opens the file for writing, which empties it ...
Truncate(c) ==
  /\ cmd[c].pc = "truncate"
  /\ file' = Empty
  /\ cmd' = [cmd EXCEPT ![c].pc = "write"]
  /\ UNCHANGED <<history, active, policy>>

\* ... and writes.  Over another command's text, the end of a longer text stays.
Write(c) ==
  /\ cmd[c].pc = "write"
  /\ \/ file' = Whole(cmd[c].candidate)
     \/ file.kind # "empty" /\ file' = Torn
  /\ cmd' = [cmd EXCEPT ![c].pc = "written"]
  /\ UNCHANGED <<history, active, policy>>

\* What a write that is cut short leaves: nothing more, a text that does not
\* parse, or, cut between two entries, a shorter list.
Restricted(es, S) == [x \in S |-> es[x]]

\* The process is killed, or a write fails (disk full, I/O error).
Crash(c) ==
  /\ cmd[c].pc \in {"record", "truncate", "write"}
  /\ \/ file' = file
     \/ /\ cmd[c].pc = "write"
        /\ \/ file' = Torn
           \/ \E S \in SUBSET DOMAIN cmd[c].candidate :
                /\ S # {}
                /\ file' = Whole(Restricted(cmd[c].candidate, S))
  /\ cmd' = [cmd EXCEPT ![c].pc = "crashed"]
  /\ UNCHANGED <<history, active, policy>>

-----------------------------------------------------------------------------
(***************************************************************************)
(* exceptionProblems finds none.  Roles and separation rules are the same  *)
(* at every evaluation but for the reviewers that are still active.        *)
(***************************************************************************)
\* Mutant: only superseded exceptions are ruled out.
InForce_AnyStatus(e, ref) ==
  /\ policy = "approved"
  /\ e.status # "superseded"
  /\ e.expires >= ref
  /\ e.renewals <= RenewalLimit /\ RenewalLimit <= MaxRenewals
  /\ e.expires <= MaxExceptionDays
  /\ {Owner} \cup Assigned \subseteq active
  /\ e.linked \subseteq Registered \cap e.bound

InForce(e, ref) ==
  /\ policy = "approved"
  /\ e.status = "approved"
  /\ e.expires >= ref
  /\ e.renewals <= RenewalLimit /\ RenewalLimit <= MaxRenewals
  /\ e.expires <= MaxExceptionDays
  /\ {Owner} \cup Assigned \subseteq active
  /\ e.linked \subseteq Registered \cap e.bound

\* evaluateDispositions: a finding with exactly one exception in force is
\* accepted; with none it is enforced, with several blocked as ambiguous.
\* An exception that names unregistered evidence makes the command throw.
Evaluate(c) ==
  /\ cmd[c].pc = "ready"
  /\ Loads
  /\ \A x \in DOMAIN file.entries : file.entries[x].linked \subseteq Registered
  /\ \E ref \in Days :
       LET valid == {x \in DOMAIN file.entries : InForce(file.entries[x], ref)}
       IN  cmd' = [cmd EXCEPT ![c] = Evaluated(
             {x \in valid : \A y \in valid : Covers[y] = Covers[x] => y = x})]
  /\ UNCHANGED <<file, history, active, policy>>

\* A person edits reviewers.yaml or review-policies.yaml.
Deactivate(r) ==
  /\ r \in active
  /\ active' = active \ {r}
  /\ UNCHANGED <<file, history, policy, cmd>>

EditPolicy ==
  /\ policy' = "changed"
  /\ UNCHANGED <<file, history, active, cmd>>

Save(c) == RecordPrevious(c) \/ Truncate(c) \/ Write(c) \/ Crash(c)

Next ==
  \/ \E c \in Commands : Renew(c) \/ Invalidate(c) \/ Save(c) \/ Evaluate(c)
  \/ \E r \in Reviewers : Deactivate(r)
  \/ EditPolicy

Spec == Init /\ [][Next]_vars

-----------------------------------------------------------------------------
(***************************************************************************)
(* An entry agrees with its own audit history: as many renewals as renewed *)
(* events and never more than the limits, no event after a revocation, and *)
(* the status revoked exactly when the last event says so.  It is what     *)
(* lets a reviewer reconstruct renewal_count and status from audit_history *)
(* (exceptions.js:141-154, 205-211).                                       *)
(***************************************************************************)
Consistent(e) ==
  LET n == Len(e.audit) IN
  /\ e.renewals <= RenewalLimit /\ e.renewals <= MaxRenewals
  /\ e.expires <= MaxExceptionDays
  /\ IF e.status = "revoked"
     THEN /\ n = e.renewals + 1
          /\ e.audit[n].action = "revoked"
          /\ \A k \in 1..(n - 1) : e.audit[k].action = "renewed"
     ELSE /\ n = e.renewals
          /\ \A k \in 1..n : e.audit[k].action = "renewed"

AllConsistent(es) == \A x \in DOMAIN es : Consistent(es[x])

\* It holds of every version on disk, whatever commands overlap or die.
RecordsConsistent ==
  /\ AllConsistent(file.entries)
  /\ \A f \in history : AllConsistent(f.entries)

\* The events in some version of the registry.
EventsIn(f) == UNION {{f.entries[x].audit[k] : k \in 1..Len(f.entries[x].audit)}
                        : x \in DOMAIN f.entries}

\* No two saves have been under way at once.
Serial == \A c \in Commands : ~cmd[c].overlaps

(***************************************************************************)
(* Once a renewal or a revocation has reported success, its audit event    *)
(* stays in the registry, or, after a save that died, in the version       *)
(* saveRegistry put aside ("Revocations and renewals append immutable      *)
(* audit history events", exceptions.js:10), as long as no saves overlap.  *)
(***************************************************************************)
EventsKept ==
  Serial => \A c \in Commands : cmd[c].pc = "written" =>
    LET event == [action |-> cmd[c].action, by |-> c] IN
    \/ event \in EventsIn(file)
    \/ /\ \E d \in Commands : cmd[d].pc \in {"write", "crashed"}
       /\ \E f \in history : event \in EventsIn(f)

\* A step that accepts an exception whose revocation has reported success.
AcceptsRevoked ==
  \E c, d \in Commands :
    /\ cmd[c].pc = "ready" /\ cmd[d].pc = "written" /\ cmd[d].action = "revoked"
    /\ cmd[d].id \in cmd'[c].accepted

(***************************************************************************)
(* While no saves overlap, an exception whose revocation reported success  *)
(* is never again accepted for its finding, whatever is renewed, killed or *)
(* written by hand in between (exceptions.js:183-241, governance.js).       *)
(***************************************************************************)
RevocationHolds == [][Serial => ~AcceptsRevoked]_vars

(***************************************************************************)
(* It is never again accepted ("Expired, revoked, ... exceptions result in *)
(* `enforce`", docs/governance/reviewer-exceptions.md:53-54).              *)
(***************************************************************************)
RevocationIsFinal == [][~AcceptsRevoked]_vars
=============================================================================
