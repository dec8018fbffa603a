---------------------- MODULE ExceptionRegistry_proofs ----------------------
(***************************************************************************)
(* Proofs about ExceptionRegistry for every set of exceptions, commands    *)
(* and reviewers, every limit and every number of overlapping saves: every *)
(* version of the registry on disk agrees with its own audit histories.    *)
(***************************************************************************)
EXTENDS ExceptionRegistry, TLAPS

\* Whatever a command holds in memory is as consistent as what it loaded.
CandidatesConsistent == \A c \in Commands : AllConsistent(cmd[c].candidate)

IInv == TypeOK /\ RecordsConsistent /\ CandidatesConsistent

-----------------------------------------------------------------------------
\* Renewing an entry that may be renewed leaves a well-typed, consistent entry.
LEMMA RenewedKeeps ==
  ASSUME NEW e \in Exception, NEW c \in Commands, NEW ref \in Days,
         NEW until \in Days, NEW ev \in SUBSET Evidence,
         Consistent(e), Renewable(e, ref, until)
  PROVE  Renewed(e, c, until, ev) \in Exception /\ Consistent(Renewed(e, c, until, ev))
<1> DEFINE event == [action |-> "renewed", by |-> c]
           new   == Renewed(e, c, until, ev)
<1>1. /\ new.status = e.status /\ new.expires = until
      /\ new.renewals = e.renewals + 1 /\ new.audit = Append(e.audit, event)
  BY DEF Renewed, Exception
<1>2. event \in Event
  BY DEF Event
<1>3. e.audit \in Seq(Event) /\ e.renewals \in Nat
  BY DEF Exception
<1>4. new \in Exception
  <2>1. Append(e.audit, event) \in Seq(Event)
    BY <1>2, <1>3
  <2>2. e.renewals + 1 \in Nat /\ e.linked \cup ev \in SUBSET Evidence
    BY DEF Exception
  <2> QED
    BY <2>1, <2>2 DEF Renewed, Exception
<1>5. e.status # "revoked" /\ Len(e.audit) = e.renewals
  BY DEF Consistent, Renewable
<1>6. \A k \in 1..Len(e.audit) : e.audit[k].action = "renewed"
  BY <1>5 DEF Consistent
<1>7. Len(new.audit) = new.renewals
  BY <1>1, <1>2, <1>3, <1>5
<1>8. \A k \in 1..Len(new.audit) : new.audit[k].action = "renewed"
  BY <1>1, <1>2, <1>3, <1>6
<1>9. /\ new.renewals <= RenewalLimit /\ new.renewals <= MaxRenewals
      /\ new.expires <= MaxExceptionDays
  BY <1>1, <1>3, RegistryAssumption DEF Renewable
<1> QED
  BY <1>1, <1>4, <1>5, <1>7, <1>8, <1>9 DEF Consistent

\* So does revoking an entry that is not revoked.
LEMMA RevokedKeeps ==
  ASSUME NEW e \in Exception, NEW c \in Commands,
         Consistent(e), e.status # "revoked"
  PROVE  Revoked(e, c) \in Exception /\ Consistent(Revoked(e, c))
<1> DEFINE event == [action |-> "revoked", by |-> c]
           new   == Revoked(e, c)
<1>1. /\ new.status = "revoked" /\ new.expires = e.expires
      /\ new.renewals = e.renewals /\ new.audit = Append(e.audit, event)
  BY DEF Revoked, Exception
<1>2. event \in Event
  BY DEF Event
<1>3. e.audit \in Seq(Event) /\ e.renewals \in Nat
  BY DEF Exception
<1>4. new \in Exception
  <2>1. Append(e.audit, event) \in Seq(Event)
    BY <1>2, <1>3
  <2> QED
    BY <1>3, <2>1 DEF Revoked, Exception
<1>5. /\ Len(e.audit) = e.renewals
      /\ \A k \in 1..Len(e.audit) : e.audit[k].action = "renewed"
  BY DEF Consistent
<1>6. /\ Len(new.audit) = new.renewals + 1
      /\ new.audit[Len(new.audit)].action = "revoked"
  BY <1>1, <1>2, <1>3, <1>5
<1>7. \A k \in 1..(Len(new.audit) - 1) : new.audit[k].action = "renewed"
  BY <1>1, <1>2, <1>3, <1>5
<1> QED
  BY <1>1, <1>4, <1>6, <1>7 DEF Consistent

\* Replacing one entry, and keeping some entries, keep a registry well formed.
LEMMA PutKeeps ==
  ASSUME NEW es, IsContents(es), AllConsistent(es), NEW x \in DOMAIN es,
         NEW e \in Exception, Consistent(e)
  PROVE  /\ IsContents([es EXCEPT ![x] = e])
         /\ AllConsistent([es EXCEPT ![x] = e])
BY DEF IsContents, AllConsistent

LEMMA CutKeeps ==
  ASSUME NEW es, IsContents(es), AllConsistent(es), NEW S \in SUBSET DOMAIN es
  PROVE  IsContents(Restricted(es, S)) /\ AllConsistent(Restricted(es, S))
BY DEF IsContents, AllConsistent, Restricted

LEMMA NoEntriesFine == IsContents(NoEntries) /\ AllConsistent(NoEntries)
BY DEF IsContents, AllConsistent, NoEntries

LEMMA FilesFine ==
  /\ IsFile(Empty) /\ AllConsistent(Empty.entries)
  /\ IsFile(Torn)  /\ AllConsistent(Torn.entries)
  /\ \A es : IsContents(es) => IsFile(Whole(es)) /\ Whole(es).entries = es
BY NoEntriesFine DEF IsFile, Empty, Torn, Whole

-----------------------------------------------------------------------------
LEMMA InitEstablishes == Init => IInv
<1> SUFFICES ASSUME Init PROVE IInv
  OBVIOUS
<1>1. PICK es \in [Ids -> NewException] : file = Whole(es)
  BY DEF Init
<1>2. \A x \in Ids : es[x] \in Exception /\ Consistent(es[x])
  <2> SUFFICES ASSUME NEW x \in Ids PROVE es[x] \in Exception /\ Consistent(es[x])
    OBVIOUS
  <2>1. es[x] \in NewException
    OBVIOUS
  <2>2. /\ es[x].status \in {"approved", "superseded"} /\ es[x].expires = 0
        /\ es[x].renewals = 0 /\ es[x].audit = << >>
    BY <2>1 DEF NewException
  <2>3. es[x] \in Exception
    <3>1. 0 \in Days /\ << >> \in Seq(Event)
      BY RegistryAssumption DEF Days
    <3>2. es[x] = [status |-> es[x].status, expires |-> 0, renewals |-> 0,
                   linked |-> {}, bound |-> {}, audit |-> << >>]
      BY <2>1 DEF NewException
    <3>3. [status |-> es[x].status, expires |-> 0, renewals |-> 0,
           linked |-> {}, bound |-> {}, audit |-> << >>] \in Exception
      BY <2>2, <3>1 DEF Exception
    <3> QED
      BY <3>2, <3>3
  <2>4. Consistent(es[x])
    BY <2>2, RegistryAssumption DEF Consistent
  <2> QED
    BY <2>3, <2>4
<1>3. IsContents(es) /\ AllConsistent(es)
  BY <1>2 DEF IsContents, AllConsistent
<1>4. IsFile(file) /\ AllConsistent(file.entries)
  BY <1>1, <1>3, FilesFine
<1>5. IsCommand(Fresh) /\ AllConsistent(Fresh.candidate)
  BY NoEntriesFine DEF IsCommand, Fresh, Pcs
<1>6. /\ cmd = [c \in Commands |-> cmd[c]]
      /\ \A c \in Commands : IsCommand(cmd[c]) /\ AllConsistent(cmd[c].candidate)
  BY <1>5 DEF Init
<1> QED
  BY <1>4, <1>6 DEF Init, IInv, TypeOK, RecordsConsistent, CandidatesConsistent

\* A command that loaded a consistent registry prepares a consistent candidate.
LEMMA PrepareKeeps ==
  ASSUME IInv, NEW c \in Commands, NEW action \in {"renewed", "revoked"},
         NEW x \in DOMAIN file.entries, NEW e \in Exception, Consistent(e),
         Prepare(c, action, x, e)
  PROVE  IInv'
<1> DEFINE new  == [file.entries EXCEPT ![x] = e]
           next == Holding(action, x, new, Running # {})
<1>1. IsContents(file.entries) /\ AllConsistent(file.entries)
  BY DEF IInv, TypeOK, IsFile, RecordsConsistent
<1>2. IsContents(new) /\ AllConsistent(new)
  BY <1>1, PutKeeps
<1>3. x \in Ids
  BY <1>1 DEF IsContents
<1>5. IsCommand(next) /\ AllConsistent(next.candidate)
  BY <1>2, <1>3 DEF Holding, IsCommand, Pcs
<1>6. cmd' = [cmd EXCEPT ![c] = next]
  BY DEF Prepare
<1>7. /\ cmd' = [d \in Commands |-> cmd'[d]]
      /\ \A d \in Commands : IsCommand(cmd'[d]) /\ AllConsistent(cmd'[d].candidate)
  BY <1>5, <1>6 DEF IInv, TypeOK, CandidatesConsistent
<1> QED
  BY <1>7 DEF Prepare, IInv, TypeOK, RecordsConsistent, CandidatesConsistent

\* A command that only moves on keeps its candidate.
LEMMA MoveKeeps ==
  ASSUME IInv, NEW c \in Commands, NEW pc \in Pcs,
         cmd' = [cmd EXCEPT ![c].pc = pc]
  PROVE  /\ cmd' = [d \in Commands |-> cmd'[d]]
         /\ \A d \in Commands : IsCommand(cmd'[d]) /\ AllConsistent(cmd'[d].candidate)
<1>1. \A d \in Commands : IsCommand(cmd[d]) /\ AllConsistent(cmd[d].candidate)
  BY DEF IInv, TypeOK, CandidatesConsistent
<1>2. cmd = [d \in Commands |-> cmd[d]]
  BY DEF IInv, TypeOK
<1>3. \A d \in Commands : cmd'[d] = IF d = c THEN [cmd[c] EXCEPT !.pc = pc] ELSE cmd[d]
  BY <1>2
<1>4. IsCommand([cmd[c] EXCEPT !.pc = pc])
      /\ [cmd[c] EXCEPT !.pc = pc].candidate = cmd[c].candidate
  BY <1>1 DEF IsCommand
<1> QED
  BY <1>1, <1>2, <1>3, <1>4

LEMMA StepKeeps == IInv /\ [Next]_vars => IInv'
<1> SUFFICES ASSUME IInv, [Next]_vars PROVE IInv'
  OBVIOUS
<1>0. IsContents(file.entries) /\ AllConsistent(file.entries)
  BY DEF IInv, TypeOK, IsFile, RecordsConsistent
<1>1. ASSUME NEW c \in Commands, Renew(c) PROVE IInv'
  <2>1. PICK x \in DOMAIN file.entries, ref \in Days, until \in Days,
             ev \in {{}} \cup {{e} : e \in Evidence} :
          /\ Renewable(file.entries[x], ref, until)
          /\ Prepare(c, "renewed", x, Renewed(file.entries[x], c, until, ev))
    BY <1>1 DEF Renew
  <2>2. file.entries[x] \in Exception /\ Consistent(file.entries[x])
    BY <1>0 DEF IsContents, AllConsistent
  <2>3. ev \in SUBSET Evidence
    OBVIOUS
  <2>4. /\ Renewed(file.entries[x], c, until, ev) \in Exception
        /\ Consistent(Renewed(file.entries[x], c, until, ev))
    BY <2>1, <2>2, <2>3, RenewedKeeps
  <2> QED
    BY <2>1, <2>4, PrepareKeeps
<1>2. ASSUME NEW c \in Commands, Invalidate(c) PROVE IInv'
  <2>1. PICK x \in DOMAIN file.entries :
          /\ file.entries[x].status # "revoked"
          /\ Prepare(c, "revoked", x, Revoked(file.entries[x], c))
    BY <1>2 DEF Invalidate
  <2>2. file.entries[x] \in Exception /\ Consistent(file.entries[x])
    BY <1>0 DEF IsContents, AllConsistent
  <2>3. /\ Revoked(file.entries[x], c) \in Exception
        /\ Consistent(Revoked(file.entries[x], c))
    BY <2>1, <2>2, RevokedKeeps
  <2> QED
    BY <2>1, <2>3, PrepareKeeps
<1>3. ASSUME NEW c \in Commands, RecordPrevious(c) PROVE IInv'
  <2>1. /\ cmd' = [d \in Commands |-> cmd'[d]]
        /\ \A d \in Commands : IsCommand(cmd'[d]) /\ AllConsistent(cmd'[d].candidate)
    BY <1>3, MoveKeeps DEF RecordPrevious, Pcs
  <2>2. \A f \in history' : IsFile(f) /\ AllConsistent(f.entries)
    BY <1>3 DEF RecordPrevious, IInv, TypeOK, RecordsConsistent
  <2> QED
    BY <1>3, <2>1, <2>2
    DEF RecordPrevious, IInv, TypeOK, RecordsConsistent, CandidatesConsistent
<1>4. ASSUME NEW c \in Commands, Truncate(c) PROVE IInv'
  <2>1. /\ cmd' = [d \in Commands |-> cmd'[d]]
        /\ \A d \in Commands : IsCommand(cmd'[d]) /\ AllConsistent(cmd'[d].candidate)
    BY <1>4, MoveKeeps DEF Truncate, Pcs
  <2> QED
    BY <1>4, <2>1, FilesFine
    DEF Truncate, IInv, TypeOK, RecordsConsistent, CandidatesConsistent
<1>5. ASSUME NEW c \in Commands, Write(c) PROVE IInv'
  <2>1. /\ cmd' = [d \in Commands |-> cmd'[d]]
        /\ \A d \in Commands : IsCommand(cmd'[d]) /\ AllConsistent(cmd'[d].candidate)
    BY <1>5, MoveKeeps DEF Write, Pcs
  <2>2. IsContents(cmd[c].candidate) /\ AllConsistent(cmd[c].candidate)
    BY DEF IInv, TypeOK, IsCommand, CandidatesConsistent
  <2>3. IsFile(file') /\ AllConsistent(file'.entries)
    BY <1>5, <2>2, FilesFine DEF Write
  <2> QED
    BY <1>5, <2>1, <2>3
    DEF Write, IInv, TypeOK, RecordsConsistent, CandidatesConsistent
<1>6. ASSUME NEW c \in Commands, Crash(c) PROVE IInv'
  <2>1. /\ cmd' = [d \in Commands |-> cmd'[d]]
        /\ \A d \in Commands : IsCommand(cmd'[d]) /\ AllConsistent(cmd'[d].candidate)
    BY <1>6, MoveKeeps DEF Crash, Pcs
  <2>2. IsContents(cmd[c].candidate) /\ AllConsistent(cmd[c].candidate)
    BY DEF IInv, TypeOK, IsCommand, CandidatesConsistent
  <2>3. IsFile(file') /\ AllConsistent(file'.entries)
    <3>1. CASE file' = file
      BY <3>1 DEF IInv, TypeOK, RecordsConsistent
    <3>2. CASE file' = Torn
      BY <3>2, FilesFine
    <3>3. ASSUME NEW S \in SUBSET DOMAIN cmd[c].candidate,
                 file' = Whole(Restricted(cmd[c].candidate, S))
          PROVE  IsFile(file') /\ AllConsistent(file'.entries)
      BY <3>3, <2>2, CutKeeps, FilesFine
    <3> QED
      BY <1>6, <3>1, <3>2, <3>3 DEF Crash
  <2> QED
    BY <1>6, <2>1, <2>3
    DEF Crash, IInv, TypeOK, RecordsConsistent, CandidatesConsistent
<1>7. ASSUME NEW c \in Commands, Evaluate(c) PROVE IInv'
  <2>1. PICK A \in SUBSET Ids : cmd' = [cmd EXCEPT ![c] = Evaluated(A)]
    <3>1. \A ref : LET valid == {x \in DOMAIN file.entries : InForce(file.entries[x], ref)}
                   IN  {x \in valid : \A y \in valid : Covers[y] = Covers[x] => y = x}
                         \in SUBSET Ids
      BY <1>0 DEF IsContents
    <3> QED
      BY <1>7, <3>1 DEF Evaluate
  <2>3. IsCommand(Evaluated(A)) /\ AllConsistent(Evaluated(A).candidate)
    BY NoEntriesFine DEF Evaluated, IsCommand, Pcs
  <2>4. /\ cmd' = [d \in Commands |-> cmd'[d]]
        /\ \A d \in Commands : IsCommand(cmd'[d]) /\ AllConsistent(cmd'[d].candidate)
    BY <2>1, <2>3 DEF IInv, TypeOK, CandidatesConsistent
  <2> QED
    BY <1>7, <2>4 DEF Evaluate, IInv, TypeOK, RecordsConsistent, CandidatesConsistent
<1>8. ASSUME NEW r \in Reviewers, Deactivate(r) PROVE IInv'
  BY <1>8 DEF Deactivate, IInv, TypeOK, RecordsConsistent, CandidatesConsistent
<1>9. CASE EditPolicy
  BY <1>9 DEF EditPolicy, IInv, TypeOK, RecordsConsistent, CandidatesConsistent
<1>10. CASE UNCHANGED vars
  BY <1>10 DEF vars, IInv, TypeOK, RecordsConsistent, CandidatesConsistent
<1> QED
  BY <1>1, <1>2, <1>3, <1>4, <1>5, <1>6, <1>7, <1>8, <1>9, <1>10 DEF Next, Save

-----------------------------------------------------------------------------
(***************************************************************************)
(* The variables keep their types, so every file the commands leave, even  *)
(* a crashed one, is whole, empty or unreadable.                           *)
(***************************************************************************)
THEOREM TypeCorrect == Spec => []TypeOK
<1>1. IInv => TypeOK
  BY DEF IInv
<1> QED
  BY <1>1, InitEstablishes, StepKeeps, PTL DEF Spec

(***************************************************************************)
(* Every version of exceptions.yaml and of its history agrees with its own *)
(* audit events and limits, for any number of commands that load, save,    *)
(* overlap and die in any order.                                           *)
(***************************************************************************)
THEOREM AuditAgrees == Spec => []RecordsConsistent
<1>1. IInv => RecordsConsistent
  BY DEF IInv
<1> QED
  BY <1>1, InitEstablishes, StepKeeps, PTL DEF Spec
-----------------------------------------------------------------------------
(* What saves that do not overlap keep.                                    *)

EventOf(c)   == [action |-> cmd[c].action, by |-> c]
EventsOf(es) == UNION {{es[x].audit[k] : k \in 1..Len(es[x].audit)} : x \in DOMAIN es}
Reported     == {c \in Commands : cmd[c].pc = "written"}

\* The event is in the version saveRegistry put aside.
Aside(d)   == \E f \in history : EventOf(d) \in EventsIn(f)
SaveDied   == \E c \in Commands : cmd[c].pc = "crashed"
SaveHalfway == \E c \in Commands : cmd[c].pc = "write"

\* Saves that do not overlap come one at a time, and until a save begins to
\* write, the file is the one it loaded.
OneSave ==
  /\ \A c, d \in Running : c = d
  /\ \A c \in Running : /\ cmd[c].pc = "truncate" => file \in history
                        /\ cmd[c].pc = "write" => file = Empty

\* An event reported is in the file, in the candidate of the save under way,
\* or, once a save died, in a version put aside.
EventInv ==
  /\ \A d \in Reported : \/ EventOf(d) \in EventsIn(file)
                         \/ (SaveHalfway \/ SaveDied) /\ Aside(d)
  /\ \A c \in Running :
       /\ EventOf(c) \in EventsOf(cmd[c].candidate)
       /\ \A d \in Reported : \/ EventOf(d) \in EventsOf(cmd[c].candidate)
                              \/ SaveDied /\ Aside(d)

\* What was revoked is revoked wherever it still stands.
RevokedIn(es, x) == x \in DOMAIN es => es[x].status = "revoked"
RevokedInv ==
  /\ \A d \in Reported : cmd[d].action = "revoked" => RevokedIn(file.entries, cmd[d].id)
  /\ \A c \in Running :
       /\ cmd[c].action = "revoked" => RevokedIn(cmd[c].candidate, cmd[c].id)
       /\ \A d \in Reported :
            cmd[d].action = "revoked" => RevokedIn(cmd[c].candidate, cmd[d].id)

SaveInv ==
  /\ \A c \in Commands : cmd[c].pc = "ready" => cmd[c].accepted = {} /\ ~cmd[c].overlaps
  /\ Serial => OneSave /\ EventInv /\ RevokedInv

-----------------------------------------------------------------------------
\* A renewed or a revoked entry keeps its events and adds one.
LEMMA AuditGrows ==
  ASSUME NEW es, IsContents(es), NEW x \in DOMAIN es, NEW e \in Exception,
         NEW event \in Event, e.audit = Append(es[x].audit, event)
  PROVE  /\ EventsOf(es) \subseteq EventsOf([es EXCEPT ![x] = e])
         /\ event \in EventsOf([es EXCEPT ![x] = e])
<1> DEFINE new == [es EXCEPT ![x] = e]
           n   == Len(es[x].audit)
<1>1. es[x].audit \in Seq(Event) /\ DOMAIN new = DOMAIN es /\ new[x] = e
  BY DEF IsContents, Exception
<1>2. /\ n \in Nat /\ Len(e.audit) = n + 1 /\ e.audit[n + 1] = event
      /\ \A k \in 1..n : k \in 1..(n + 1) /\ e.audit[k] = es[x].audit[k]
  BY <1>1
<1>3. event \in EventsOf(new)
  <2>1. n + 1 \in 1..Len(new[x].audit) /\ new[x].audit[n + 1] = event
    BY <1>1, <1>2
  <2> QED
    BY <1>1, <2>1 DEF EventsOf
<1>4. ASSUME NEW y \in DOMAIN es, NEW k \in 1..Len(es[y].audit)
      PROVE  es[y].audit[k] \in EventsOf(new)
  <2>1. CASE y = x
    <3>1. k \in 1..Len(new[x].audit) /\ new[x].audit[k] = es[y].audit[k]
      BY <1>1, <1>2, <2>1
    <3> QED
      BY <1>1, <3>1 DEF EventsOf
  <2>2. CASE y # x
    <3>1. new[y] = es[y]
      BY <2>2
    <3> QED
      BY <1>1, <3>1 DEF EventsOf
  <2> QED
    BY <2>1, <2>2
<1> QED
  BY <1>3, <1>4 DEF EventsOf

LEMMA EventsAre == \A f : EventsIn(f) = EventsOf(f.entries)
BY DEF EventsIn, EventsOf

\* What a command does to its own progress.
LEMMA Moved ==
  ASSUME TypeOK, NEW c \in Commands, NEW pc, cmd' = [cmd EXCEPT ![c].pc = pc]
  PROVE  /\ \A d \in Commands \ {c} : cmd'[d] = cmd[d]
         /\ cmd'[c].pc = pc /\ cmd'[c].candidate = cmd[c].candidate
         /\ cmd'[c].action = cmd[c].action /\ cmd'[c].id = cmd[c].id
         /\ cmd'[c].accepted = cmd[c].accepted /\ cmd'[c].overlaps = cmd[c].overlaps
<1>1. cmd = [d \in Commands |-> cmd[d]] /\ IsCommand(cmd[c])
  BY DEF TypeOK
<1>2. cmd'[c] = [cmd[c] EXCEPT !.pc = pc] /\ \A d \in Commands \ {c} : cmd'[d] = cmd[d]
  BY <1>1
<1> QED
  BY <1>1, <1>2 DEF IsCommand

LEMMA MovedSaves ==
  ASSUME TypeOK, SaveInv, Serial', NEW c \in Running, NEW pc, pc # "ready",
         cmd' = [cmd EXCEPT ![c].pc = pc]
  PROVE  /\ \A d \in Commands : cmd'[d].pc = "ready" => cmd'[d].accepted = {} /\ ~cmd'[d].overlaps
         /\ OneSave /\ EventInv /\ RevokedInv /\ Running = {c} /\ c \in Commands
         /\ Running' = (IF pc \in {"record", "truncate", "write"} THEN {c} ELSE {})
         /\ Reported' = (IF pc = "written" THEN Reported \cup {c} ELSE Reported)
         /\ c \notin Reported /\ EventOf(c)' = EventOf(c)
         /\ \A d \in Commands : EventOf(d)' = EventOf(d) /\ cmd'[d].id = cmd[d].id
                                /\ cmd'[d].action = cmd[d].action
                                /\ cmd'[d].candidate = cmd[d].candidate
         /\ (SaveHalfway' <=> pc = "write")
         /\ (SaveDied' <=> SaveDied \/ pc = "crashed")
<1>1. c \in Commands /\ cmd[c].pc \in {"record", "truncate", "write"}
  BY DEF Running
<1>2. /\ \A d \in Commands \ {c} : cmd'[d] = cmd[d]
      /\ cmd'[c].pc = pc /\ cmd'[c].candidate = cmd[c].candidate
      /\ cmd'[c].action = cmd[c].action /\ cmd'[c].id = cmd[c].id
      /\ cmd'[c].accepted = cmd[c].accepted /\ cmd'[c].overlaps = cmd[c].overlaps
  BY <1>1, Moved
<1>3. Serial
  BY <1>1, <1>2 DEF Serial
<1>4. OneSave /\ EventInv /\ RevokedInv /\ Running = {c}
  BY <1>3 DEF SaveInv, OneSave
<1>5. \A d \in Commands : /\ EventOf(d)' = EventOf(d) /\ cmd'[d].id = cmd[d].id
                          /\ cmd'[d].action = cmd[d].action
                          /\ cmd'[d].candidate = cmd[d].candidate
  BY <1>2 DEF EventOf
<1>6. \A d \in Commands : cmd'[d].pc = IF d = c THEN pc ELSE cmd[d].pc
  BY <1>2
<1>7. \A d \in Commands \ {c} : cmd[d].pc \notin {"record", "truncate", "write"}
  BY <1>4 DEF Running
<1>8. /\ Running' = (IF pc \in {"record", "truncate", "write"} THEN {c} ELSE {})
      /\ Reported' = (IF pc = "written" THEN Reported \cup {c} ELSE Reported)
      /\ c \notin Reported
  BY <1>1, <1>6, <1>7 DEF Running, Reported
<1>9. (SaveHalfway' <=> pc = "write") /\ (SaveDied' <=> SaveDied \/ pc = "crashed")
  BY <1>1, <1>6, <1>7 DEF SaveHalfway, SaveDied
<1>10. \A d \in Commands : cmd'[d].pc = "ready" => cmd'[d].accepted = {} /\ ~cmd'[d].overlaps
  BY <1>2, <1>6 DEF SaveInv
<1> QED
  BY <1>1, <1>4, <1>5, <1>8, <1>9, <1>10

\* A command that loads the registry while none is saving.
LEMMA PrepareSaves ==
  ASSUME IInv, SaveInv, NEW c \in Commands, NEW action \in {"renewed", "revoked"},
         NEW x \in DOMAIN file.entries, NEW e \in Exception,
         e.audit = Append(file.entries[x].audit, [action |-> action, by |-> c]),
         file.entries[x].status # "revoked", action = "revoked" => e.status = "revoked",
         Prepare(c, action, x, e)
  PROVE  SaveInv'
<1> DEFINE new  == [file.entries EXCEPT ![x] = e]
           next == Holding(action, x, new, Running # {})
<1>1. /\ cmd'[c] = next /\ \A d \in Commands \ {c} : cmd'[d] = cmd[d]
      /\ cmd[c].pc = "ready" /\ UNCHANGED <<file, history>>
  BY DEF Prepare, IInv, TypeOK
<1>2. /\ next.pc = "record" /\ next.action = action /\ next.id = x
      /\ next.candidate = new /\ next.accepted = {} /\ next.overlaps = (Running # {})
  BY DEF Holding
<1> HIDE DEF next
<1>3. \A d \in Commands : cmd'[d].pc = "ready" => cmd'[d].accepted = {} /\ ~cmd'[d].overlaps
  BY <1>1, <1>2 DEF SaveInv
<1> SUFFICES ASSUME Serial' PROVE OneSave' /\ EventInv' /\ RevokedInv'
  BY <1>3 DEF SaveInv
<1>4. Running = {} /\ Serial
  <2>1. ~cmd'[c].overlaps /\ \A d \in Commands : ~cmd'[d].overlaps
    BY DEF Serial
  <2>2. ~cmd[c].overlaps
    BY <1>1 DEF SaveInv
  <2> QED
    BY <1>1, <1>2, <2>1, <2>2 DEF Serial
<1>5. OneSave /\ EventInv /\ RevokedInv
  BY <1>4 DEF SaveInv
<1>6. /\ Running' = {c} /\ Reported' = Reported /\ c \notin Reported
      /\ (SaveHalfway' <=> SaveHalfway) /\ (SaveDied' <=> SaveDied) /\ ~SaveHalfway
  BY <1>1, <1>2, <1>4 DEF Running, Reported, SaveHalfway, SaveDied
<1>7. /\ \A d \in Reported : EventOf(d)' = EventOf(d) /\ cmd'[d] = cmd[d] /\ (Aside(d)' <=> Aside(d))
      /\ EventOf(c)' = [action |-> action, by |-> c]
  BY <1>1, <1>2, <1>6 DEF EventOf, Reported, Aside, EventsIn
<1>8. /\ EventsIn(file) \subseteq EventsOf(new)
      /\ [action |-> action, by |-> c] \in EventsOf(new)
  <2>1. IsContents(file.entries) /\ [action |-> action, by |-> c] \in Event
    BY DEF IInv, TypeOK, IsFile, Event
  <2> QED
    BY <2>1, AuditGrows, EventsAre
<1>9. OneSave'
  BY <1>1, <1>2, <1>6 DEF OneSave
<1>10. EventInv'
  <2>1. \A d \in Reported : \/ EventOf(d) \in EventsIn(file)
                            \/ SaveDied /\ Aside(d)
    BY <1>5, <1>6 DEF EventInv
  <2>2. EventsIn(file)' = EventsIn(file)
    BY <1>1 DEF EventsIn
  <2> QED
    BY <1>1, <1>2, <1>6, <1>7, <1>8, <2>1, <2>2 DEF EventInv
<1>11. RevokedInv'
  <2>1. \A y : y # x => (RevokedIn(file.entries, y) => RevokedIn(new, y))
    BY DEF RevokedIn
  <2>2. \A d \in Reported : cmd[d].action = "revoked" => cmd[d].id # x
    BY <1>5 DEF RevokedInv, RevokedIn
  <2>3. action = "revoked" => RevokedIn(new, x)
    BY DEF RevokedIn
  <2> QED
    BY <1>1, <1>2, <1>5, <1>6, <1>7, <2>1, <2>2, <2>3 DEF RevokedInv
<1> QED
  BY <1>9, <1>10, <1>11

\* A save that goes on: it puts the file aside, empties it, writes it or dies.
LEMMA RecordSaves ==
  ASSUME IInv, SaveInv, NEW c \in Commands, RecordPrevious(c)
  PROVE  SaveInv'
<1>1. c \in Running /\ TypeOK
  BY DEF RecordPrevious, Running, IInv
<1>0. cmd' = [cmd EXCEPT ![c].pc = "truncate"]
  BY DEF RecordPrevious
<1>a. cmd'[c].pc = "truncate"
  BY <1>0, <1>1, Moved DEF Running
<1>2. SUFFICES ASSUME Serial' PROVE OneSave' /\ EventInv' /\ RevokedInv'
  BY <1>0, <1>1, Moved DEF SaveInv, Running
<1>3. /\ OneSave /\ EventInv /\ RevokedInv /\ Running = {c} /\ Running' = {c}
      /\ Reported' = Reported /\ (SaveDied' <=> SaveDied) /\ ~SaveHalfway'
      /\ \A d \in Commands : EventOf(d)' = EventOf(d) /\ cmd'[d].id = cmd[d].id
                             /\ cmd'[d].action = cmd[d].action
                             /\ cmd'[d].candidate = cmd[d].candidate
  BY <1>0, <1>1, <1>2, MovedSaves
<1>4. ~SaveHalfway
  BY <1>3 DEF SaveHalfway, Running, RecordPrevious
<1>5. /\ file' = file /\ file \in history' /\ history \subseteq history'
      /\ EventsIn(file)' = EventsIn(file) /\ cmd'[c].pc = "truncate"
  BY <1>a DEF RecordPrevious, EventsIn
<1>6. \A d \in Commands : Aside(d) => Aside(d)'
  BY <1>3, <1>5 DEF Aside, EventsIn
<1>7. Reported \subseteq Commands
  BY DEF Reported
<1>8. OneSave'
  BY <1>3, <1>5 DEF OneSave
<1>9. EventInv'
  BY <1>3, <1>4, <1>5, <1>6, <1>7 DEF EventInv
<1> QED
  BY <1>3, <1>5, <1>7, <1>8, <1>9 DEF RevokedInv

LEMMA TruncateSaves ==
  ASSUME IInv, SaveInv, NEW c \in Commands, Truncate(c)
  PROVE  SaveInv'
<1>1. c \in Running /\ TypeOK
  BY DEF Truncate, Running, IInv
<1>0. cmd' = [cmd EXCEPT ![c].pc = "write"]
  BY DEF Truncate
<1>a. cmd'[c].pc = "write"
  BY <1>0, <1>1, Moved DEF Running
<1>2. SUFFICES ASSUME Serial' PROVE OneSave' /\ EventInv' /\ RevokedInv'
  BY <1>0, <1>1, Moved DEF SaveInv, Running
<1>3. /\ OneSave /\ EventInv /\ RevokedInv /\ Running = {c} /\ Running' = {c}
      /\ Reported' = Reported /\ (SaveDied' <=> SaveDied) /\ SaveHalfway'
      /\ \A d \in Commands : EventOf(d)' = EventOf(d) /\ cmd'[d].id = cmd[d].id
                             /\ cmd'[d].action = cmd[d].action
                             /\ cmd'[d].candidate = cmd[d].candidate
  BY <1>0, <1>1, <1>2, MovedSaves
<1>5. file' = Empty /\ file \in history /\ history' = history /\ cmd'[c].pc = "write"
  BY <1>1, <1>3, <1>a DEF Truncate, OneSave
<1>6. \A d \in Commands : (Aside(d)' <=> Aside(d))
  BY <1>3, <1>5 DEF Aside, EventsIn
<1>7. Reported \subseteq Commands
  BY DEF Reported
<1>8. \A d \in Reported : Aside(d)
  BY <1>3, <1>5 DEF EventInv, Aside
<1>9. EventInv'
  BY <1>3, <1>6, <1>7, <1>8 DEF EventInv
<1>10. OneSave'
  BY <1>3, <1>5 DEF OneSave
<1>11. \A x : RevokedIn(file'.entries, x)
  BY <1>5 DEF RevokedIn, Empty, NoEntries
<1> QED
  BY <1>3, <1>7, <1>9, <1>10, <1>11 DEF RevokedInv

LEMMA WriteSaves ==
  ASSUME IInv, SaveInv, NEW c \in Commands, Write(c)
  PROVE  SaveInv'
<1>1. c \in Running /\ TypeOK
  BY DEF Write, Running, IInv
<1>0. cmd' = [cmd EXCEPT ![c].pc = "written"]
  BY DEF Write
<1>a. cmd'[c].pc = "written"
  BY <1>0, <1>1, Moved DEF Running
<1>2. SUFFICES ASSUME Serial' PROVE OneSave' /\ EventInv' /\ RevokedInv'
  BY <1>0, <1>1, Moved DEF SaveInv, Running
<1>3. /\ OneSave /\ EventInv /\ RevokedInv /\ Running = {c} /\ Running' = {}
      /\ Reported' = Reported \cup {c} /\ (SaveDied' <=> SaveDied)
      /\ \A d \in Commands : EventOf(d)' = EventOf(d) /\ cmd'[d].id = cmd[d].id
                             /\ cmd'[d].action = cmd[d].action
  BY <1>0, <1>1, <1>2, MovedSaves
<1>5. file' = Whole(cmd[c].candidate) /\ history' = history
  BY <1>1, <1>3 DEF Write, OneSave, Empty
<1>6. file'.entries = cmd[c].candidate /\ EventsIn(file)' = EventsOf(cmd[c].candidate)
  BY <1>5, EventsAre DEF Whole, EventsIn, EventsOf
<1>7. Reported \subseteq Commands /\ \A d \in Commands : (Aside(d)' <=> Aside(d))
  BY <1>3, <1>5 DEF Reported, Aside, EventsIn
<1>8. EventInv'
  BY <1>3, <1>6, <1>7 DEF EventInv
<1>9. RevokedInv'
  BY <1>3, <1>6, <1>7 DEF RevokedInv
<1> QED
  BY <1>3, <1>8, <1>9 DEF OneSave

LEMMA CrashSaves ==
  ASSUME IInv, SaveInv, NEW c \in Commands, Crash(c)
  PROVE  SaveInv'
<1>1. c \in Running /\ TypeOK
  BY DEF Crash, Running, IInv
<1>0. cmd' = [cmd EXCEPT ![c].pc = "crashed"]
  BY DEF Crash
<1>a. cmd'[c].pc = "crashed"
  BY <1>0, <1>1, Moved DEF Running
<1>2. SUFFICES ASSUME Serial' PROVE OneSave' /\ EventInv' /\ RevokedInv'
  BY <1>0, <1>1, Moved DEF SaveInv, Running
<1>c. /\ OneSave /\ EventInv /\ RevokedInv /\ Running = {c} /\ c \notin Reported
      /\ \A d \in Commands : EventOf(d)' = EventOf(d) /\ cmd'[d].id = cmd[d].id
                             /\ cmd'[d].action = cmd[d].action
  BY <1>0, <1>1, <1>2, MovedSaves
<1>d. \A d \in Commands \ {c} : cmd'[d] = cmd[d]
  BY <1>0, <1>1, Moved
<1>3. /\ OneSave /\ EventInv /\ RevokedInv /\ Running = {c} /\ Running' = {}
      /\ Reported' = Reported
      /\ \A d \in Commands : EventOf(d)' = EventOf(d) /\ cmd'[d].id = cmd[d].id
                             /\ cmd'[d].action = cmd[d].action
  BY <1>a, <1>c, <1>d DEF Running, Reported
<1>b. SaveDied'
  BY <1>a DEF SaveDied
<1>4. Reported \subseteq Commands /\ \A d \in Commands : (Aside(d)' <=> Aside(d))
  BY <1>3 DEF Reported, Aside, EventsIn, Crash
<1>5. CASE file' = file
  <2>1. EventsIn(file)' = EventsIn(file)
    BY <1>5 DEF EventsIn
  <2> QED
    BY <1>3, <1>b, <1>4, <1>5, <2>1 DEF EventInv, RevokedInv, OneSave
<1>6. CASE cmd[c].pc = "write" /\ file' # file
  <2>1. file = Empty
    BY <1>3, <1>6 DEF OneSave
  <2>2. EventsIn(file) = {}
    BY <2>1 DEF EventsIn, Empty, NoEntries
  <2>3. EventInv'
    BY <1>3, <1>b, <1>4, <2>2 DEF EventInv
  <2>4. \A x : RevokedIn(cmd[c].candidate, x) => RevokedIn(file'.entries, x)
    <3>1. CASE file' = Torn
      BY <3>1 DEF RevokedIn, Torn, NoEntries
    <3>2. ASSUME NEW S \in SUBSET DOMAIN cmd[c].candidate,
                 file' = Whole(Restricted(cmd[c].candidate, S))
          PROVE  \A x : RevokedIn(cmd[c].candidate, x) => RevokedIn(file'.entries, x)
      BY <3>2 DEF RevokedIn, Whole, Restricted
    <3> QED
      BY <1>6, <3>1, <3>2 DEF Crash
  <2> QED
    BY <1>3, <1>4, <2>3, <2>4 DEF RevokedInv, OneSave
<1> QED
  BY <1>5, <1>6 DEF Crash

\* A step that neither saves nor loads.
LEMMA EvaluateSaves ==
  ASSUME IInv, SaveInv, NEW c \in Commands, Evaluate(c)
  PROVE  SaveInv'
<1>1. PICK A : cmd' = [cmd EXCEPT ![c] = Evaluated(A)]
  BY DEF Evaluate
<1>2. /\ \A d \in Commands \ {c} : cmd'[d] = cmd[d]
      /\ cmd'[c] = Evaluated(A) /\ cmd[c].pc = "ready" /\ UNCHANGED <<file, history>>
      /\ Evaluated(A).pc = "evaluated" /\ ~Evaluated(A).overlaps
  BY <1>1 DEF Evaluate, Evaluated, IInv, TypeOK
<1>3. /\ Running' = Running /\ Reported' = Reported /\ (SaveDied' <=> SaveDied)
      /\ (SaveHalfway' <=> SaveHalfway) /\ c \notin Running \cup Reported
      /\ Running \cup Reported \subseteq Commands
  BY <1>2 DEF Running, Reported, SaveDied, SaveHalfway
<1>4. \A d \in Running \cup Reported : /\ cmd'[d] = cmd[d] /\ EventOf(d)' = EventOf(d)
                                       /\ (Aside(d)' <=> Aside(d))
  BY <1>2, <1>3 DEF EventOf, Aside, EventsIn
<1>5. EventsIn(file)' = EventsIn(file)
  BY <1>2 DEF EventsIn
<1>6. OneSave => OneSave'
  BY <1>2, <1>3, <1>4 DEF OneSave
<1>7. EventInv => EventInv'
  BY <1>2, <1>3, <1>4, <1>5 DEF EventInv
<1>8. RevokedInv => RevokedInv'
  BY <1>2, <1>3, <1>4 DEF RevokedInv
<1>9. Serial' => Serial
  <2>1. ~cmd[c].overlaps
    BY <1>2 DEF SaveInv
  <2> QED
    BY <1>2, <2>1 DEF Serial
<1> QED
  BY <1>2, <1>6, <1>7, <1>8, <1>9 DEF SaveInv

LEMMA InitSaves == Init => SaveInv
<1> SUFFICES ASSUME Init PROVE SaveInv
  OBVIOUS
<1>1. \A c \in Commands : cmd[c].pc = "ready" /\ cmd[c].accepted = {} /\ ~cmd[c].overlaps
  BY DEF Init, Fresh
<1>2. Running = {} /\ Reported = {}
  BY <1>1 DEF Running, Reported
<1> QED
  BY <1>1, <1>2 DEF SaveInv, OneSave, EventInv, RevokedInv

LEMMA StepSaves == IInv /\ SaveInv /\ [Next]_vars => SaveInv'
<1> SUFFICES ASSUME IInv, SaveInv, [Next]_vars PROVE SaveInv'
  OBVIOUS
<1>0. \A x \in DOMAIN file.entries : file.entries[x] \in Exception /\ Consistent(file.entries[x])
  BY DEF IInv, TypeOK, IsFile, IsContents, RecordsConsistent, AllConsistent
<1>1. ASSUME NEW c \in Commands, Renew(c) PROVE SaveInv'
  <2>1. PICK x \in DOMAIN file.entries, ref \in Days, until \in Days,
             ev \in {{}} \cup {{e} : e \in Evidence} :
          /\ Renewable(file.entries[x], ref, until)
          /\ Prepare(c, "renewed", x, Renewed(file.entries[x], c, until, ev))
    BY <1>1 DEF Renew
  <2>2. Renewed(file.entries[x], c, until, ev) \in Exception
    <3>1. ev \in SUBSET Evidence
      OBVIOUS
    <3> QED
      BY <1>0, <2>1, <3>1, RenewedKeeps
  <2>3. /\ Renewed(file.entries[x], c, until, ev).audit =
             Append(file.entries[x].audit, [action |-> "renewed", by |-> c])
        /\ file.entries[x].status # "revoked"
    BY <1>0, <2>1 DEF Renewed, Renewable, Exception
  <2> QED
    BY <2>1, <2>2, <2>3, PrepareSaves
<1>2. ASSUME NEW c \in Commands, Invalidate(c) PROVE SaveInv'
  <2>1. PICK x \in DOMAIN file.entries :
          /\ file.entries[x].status # "revoked"
          /\ Prepare(c, "revoked", x, Revoked(file.entries[x], c))
    BY <1>2 DEF Invalidate
  <2>2. Revoked(file.entries[x], c) \in Exception
    BY <1>0, <2>1, RevokedKeeps
  <2>3. /\ Revoked(file.entries[x], c).audit =
             Append(file.entries[x].audit, [action |-> "revoked", by |-> c])
        /\ Revoked(file.entries[x], c).status = "revoked"
    BY <1>0 DEF Revoked, Exception
  <2> QED
    BY <2>1, <2>2, <2>3, PrepareSaves
<1>3. ASSUME UNCHANGED <<file, history, cmd>> PROVE SaveInv'
  <2>1. /\ Running' = Running /\ Reported' = Reported /\ (SaveDied' <=> SaveDied)
        /\ (SaveHalfway' <=> SaveHalfway) /\ (Serial' <=> Serial)
        /\ EventsIn(file)' = EventsIn(file)
        /\ \A c : EventOf(c)' = EventOf(c) /\ (Aside(c)' <=> Aside(c))
    BY <1>3 DEF Running, Reported, SaveDied, SaveHalfway, Serial, EventsIn, EventOf, Aside
  <2>2. (OneSave => OneSave') /\ (RevokedInv => RevokedInv')
    BY <1>3, <2>1 DEF OneSave, RevokedInv
  <2>3. EventInv => EventInv'
    BY <1>3, <2>1 DEF EventInv
  <2> QED
    BY <1>3, <2>1, <2>2, <2>3 DEF SaveInv
<1>4. CASE EditPolicy \/ UNCHANGED vars \/ \E r \in Reviewers : Deactivate(r)
  BY <1>3, <1>4 DEF EditPolicy, Deactivate, vars
<1> QED
  BY <1>1, <1>2, <1>4, RecordSaves, TruncateSaves, WriteSaves, CrashSaves, EvaluateSaves
     DEF Next, Save

(***************************************************************************)
(* For any number of commands and any interleaving in which no save        *)
(* overlaps another: the event of a renewal or revocation that reported    *)
(* success is in the registry or, after a save that died, put aside.       *)
(***************************************************************************)
THEOREM EventsStay == Spec => []EventsKept
<1>1. SaveInv => EventsKept
  <2> SUFFICES ASSUME SaveInv, Serial, NEW c \in Commands, cmd[c].pc = "written"
               PROVE  \/ EventOf(c) \in EventsIn(file)
                      \/ (SaveHalfway \/ SaveDied) /\ Aside(c)
    BY DEF EventsKept, EventOf, SaveHalfway, SaveDied, Aside
  <2> QED
    BY DEF SaveInv, EventInv, Reported
<1> QED
  BY <1>1, InitSaves, StepSaves, InitEstablishes, StepKeeps, PTL DEF Spec

(***************************************************************************)
(* While no saves overlap, no evaluation accepts an exception whose        *)
(* revocation has reported success.                                        *)
(***************************************************************************)
THEOREM RevocationsHold == Spec => RevocationHolds
<1>1. IInv /\ SaveInv /\ [Next]_vars => (Serial => ~AcceptsRevoked)
  <2> SUFFICES ASSUME IInv, SaveInv, [Next]_vars, Serial,
                      NEW c \in Commands, NEW d \in Commands, cmd[c].pc = "ready",
                      cmd[d].pc = "written", cmd[d].action = "revoked",
                      cmd[d].id \in cmd'[c].accepted
               PROVE  FALSE
    BY DEF AcceptsRevoked
  <2>0. cmd = [e \in Commands |-> cmd[e]] /\ cmd[c].accepted = {}
    BY DEF SaveInv, IInv, TypeOK
  <2>1. cmd'[c] # cmd[c]
    BY <2>0
  <2>2. ASSUME NEW e \in Commands, Renew(e) \/ Invalidate(e) PROVE FALSE
    <3>1. PICK action, x, entry : Prepare(e, action, x, entry)
      BY <2>2 DEF Renew, Invalidate
    <3> QED
      BY <2>0, <2>1, <3>1 DEF Prepare, Holding
  <2>3. ASSUME NEW e \in Commands, Save(e) PROVE FALSE
    <3>1. cmd[e].pc # "ready" /\ \A q \in Commands \ {e} : cmd'[q] = cmd[q]
      BY <2>0, <2>3 DEF Save, RecordPrevious, Truncate, Write, Crash
    <3> QED
      BY <2>1, <3>1
  <2>4. ASSUME NEW e \in Commands, Evaluate(e) PROVE FALSE
    <3> DEFINE valid(ref) == {x \in DOMAIN file.entries : InForce(file.entries[x], ref)}
               sole(ref)  == {x \in valid(ref) : \A y \in valid(ref) : Covers[y] = Covers[x] => y = x}
    <3>1. PICK ref \in Days : cmd' = [cmd EXCEPT ![e] = Evaluated(sole(ref))]
      BY <2>4 DEF Evaluate
    <3>4. sole(ref) \subseteq valid(ref)
      OBVIOUS
    <3>5. cmd[d].id \in sole(ref)
      <4> HIDE DEF sole
      <4> QED
        BY <2>0, <2>1, <3>1 DEF Evaluated
    <3>2. cmd[d].id \in DOMAIN file.entries /\ InForce(file.entries[cmd[d].id], ref)
      BY <3>4, <3>5
    <3>3. file.entries[cmd[d].id].status = "revoked"
      BY <3>2 DEF SaveInv, RevokedInv, RevokedIn, Reported
    <3> QED
      BY <3>2, <3>3 DEF InForce
  <2>5. CASE EditPolicy \/ UNCHANGED vars \/ \E r \in Reviewers : Deactivate(r)
    BY <2>1, <2>5 DEF EditPolicy, Deactivate, vars
  <2> QED
    BY <2>2, <2>3, <2>4, <2>5 DEF Next
<1> QED
  BY <1>1, InitSaves, StepSaves, InitEstablishes, StepKeeps, PTL DEF Spec, RevocationHolds
=============================================================================
