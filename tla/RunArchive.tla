------------------------------ MODULE RunArchive ------------------------------
(***************************************************************************)
(* What a run evidence package promises to the commands that load it: it   *)
(* is sealed once, whole and with everything that was recorded; from the   *)
(* moment the producer is told so, nothing takes it back; a strict load    *)
(* is refused or returns the sealed package.  A run that failed before it  *)
(* had findings may be sealed with a coverage file that was not recorded;  *)
(* no strict load returns that one.                                        *)
(***************************************************************************)
CONSTANTS Artifacts, Findings, Coverage, Values, Statuses, Clients

VARIABLES
  evidence,      \* what the producer has recorded
  sealed,        \* the set of sealed packages: empty or a singleton
  acknowledged,  \* finalize() has returned
  reply          \* what each client was told

avars == <<evidence, sealed, acknowledged, reply>>

Unanswered == [kind |-> "none", manifest |-> "absent", findings |-> "absent",
               coverage |-> "absent"]
Refused    == [Unanswered EXCEPT !.kind = "refused"]

AInit ==
  /\ evidence = [a \in Artifacts |-> "absent"]
  /\ sealed = {}
  /\ acknowledged = FALSE
  /\ reply = [c \in Clients |-> Unanswered]

Record(a, v) ==
  /\ sealed = {}
  /\ evidence' = [evidence EXCEPT ![a] = v]
  /\ UNCHANGED <<sealed, acknowledged, reply>>

Sealable(s) ==
  {evidence} \cup
  {[evidence EXCEPT ![Coverage] = c] :
     c \in IF s = "failed" /\ evidence[Findings] = "absent"
             THEN Values \cup {"torn"} ELSE {}}

Seal(s) ==
  /\ sealed = {}
  /\ \E art \in Sealable(s) : sealed' = {[art |-> art, manifest |-> s]}
  /\ UNCHANGED <<evidence, acknowledged, reply>>

Acknowledge ==
  /\ sealed # {}
  /\ acknowledged' = TRUE
  /\ UNCHANGED <<evidence, sealed, reply>>

\* A power loss may undo a seal nobody was told of.
Undo ==
  /\ ~acknowledged
  /\ sealed' = {}
  /\ UNCHANGED <<evidence, acknowledged, reply>>

\* What a strict load may say: it is refused, or it returns the package that
\* was sealed as completed.
Answers ==
  {Refused} \cup
  {[kind |-> "sealed", manifest |-> p.manifest, findings |-> p.art[Findings],
    coverage |-> p.art[Coverage]] : p \in {q \in sealed : q.manifest = "completed"}}

Answer(c) ==
  /\ reply[c] = Unanswered
  /\ \E answer \in Answers : reply' = [reply EXCEPT ![c] = answer]
  /\ UNCHANGED <<evidence, sealed, acknowledged>>

ANext ==
  \/ \E a \in Artifacts, v \in Values : Record(a, v)
  \/ \E s \in Statuses : Seal(s)
  \/ Acknowledge
  \/ Undo
  \/ \E c \in Clients : Answer(c)

ASpec == AInit /\ [][ANext]_avars

===============================================================================
