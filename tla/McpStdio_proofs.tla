--------------------------- MODULE McpStdio_proofs ---------------------------
(***************************************************************************)
(* Proofs about McpStdio for any number of requests, any limit and a child *)
(* that writes any lines: every wait has a deadline, a closed transport    *)
(* answers nothing, failures of the child reach all requests, and a        *)
(* settled request never changes.                                          *)
(***************************************************************************)
EXTENDS McpStdio, TLAPS

\* A request that is not sent yet has left no trace; lines only answer what the
\* child received; and a handler whose request does not wait is one that close()
\* overtook, which the child never hears of.
Traces ==
  /\ \A r \in Requests : req[r] \in {"unsent", "starting"} =>
       r \notin pending \cup writing \cup received
  /\ \A i \in 1..Len(stdout) : stdout[i].kind # "noise" => stdout[i].id \in received
  /\ \A r \in pending : req[r] = "waiting" \/ r \notin writing \cup received

Shutdown ==
  /\ attached => ~closed
  /\ child \in {"none", "running"} => ~exitSeen
  /\ ~attached /\ ~closed => child = "none"

IInv == TypeOK /\ WaitsAreBounded /\ ClosedIsFinal /\ FailureReachesAll
          /\ Traces /\ Shutdown

USE DEF Settled

-----------------------------------------------------------------------------
\* What a step must keep of the request variables and the pipes alone.
Books ==
  /\ req \in [Requests -> {"unsent", "starting", "waiting"} \cup Settled]
  /\ pending \subseteq Requests /\ armed \subseteq Requests
  /\ WaitsAreBounded
  /\ \A r \in Requests : req[r] \in {"unsent", "starting"} =>
       r \notin pending \cup writing \cup received
  /\ \A r \in pending : req[r] = "waiting" \/ r \notin writing \cup received

LEMMA IInvBooks == IInv => Books
BY DEF IInv, TypeOK, Traces, Books

\* Rejecting every handler leaves nothing that waits.
LEMMA RejectAllSettles ==
  ASSUME Books, RejectAll, UNCHANGED <<writing, received>>
  PROVE  /\ Books'
         /\ \A r \in Requests : req'[r] # "waiting"
         /\ \A r \in Requests : req[r] \in Settled => req'[r] = req[r]
<1>1. \A r \in Requests : req[r] = "waiting" => r \in pending
  BY DEF Books, WaitsAreBounded
<1>2. \A r \in Requests : req'[r] = IF req[r] = "waiting" THEN "failed" ELSE req[r]
  BY <1>1 DEF RejectAll
<1>3. req' \in [Requests -> {"unsent", "starting", "waiting"} \cup Settled]
  BY DEF RejectAll, Books
<1>4. pending' = {} /\ armed' \subseteq Requests
  BY DEF RejectAll, Books
<1>5. \A r \in Requests : req'[r] \in {"unsent", "starting"} =>
        r \notin pending' \cup writing' \cup received'
  BY <1>2, <1>4 DEF Books
<1> QED
  BY <1>2, <1>3, <1>4, <1>5 DEF Books, WaitsAreBounded

\* Registering a request gives it a handler and a timer, or fails it.
LEMMA RegisterKeeps ==
  ASSUME Books, NEW r \in Requests, req[r] \in {"unsent", "starting"},
         Register(r), received' = received
  PROVE  Books'
<1>1. /\ pending' = pending \cup {r} /\ armed' = armed \cup {r}
      /\ req' = [req EXCEPT ![r] = IF attached THEN "waiting" ELSE "failed"]
      /\ writing' = IF attached THEN writing \cup {r} ELSE writing
  BY DEF Register
<1>2. \A s \in Requests :
        req'[s] = IF s = r THEN IF attached THEN "waiting" ELSE "failed" ELSE req[s]
  BY <1>1 DEF Books
<1>3. req' \in [Requests -> {"unsent", "starting", "waiting"} \cup Settled]
  BY <1>1 DEF Books
<1>4. r \notin pending \cup writing \cup received
  BY DEF Books
<1> QED
  BY <1>1, <1>2, <1>3, <1>4 DEF Books, WaitsAreBounded

\* A line settles the request whose handler it finds, and no settled one.
LEMMA HandleKeeps ==
  ASSUME Books, NEW line \in Lines, line.kind # "noise" => line.id \in received,
         Handle(line), UNCHANGED <<writing, received>>
  PROVE  /\ Books'
         /\ \A r \in Requests : req'[r] = req[r] \/ (req[r] = "waiting" /\ req'[r] \in Settled)
<1>1. CASE line.id \notin pending
  BY <1>1 DEF Handle, requests, Books, WaitsAreBounded
<1>2. CASE line.id \in pending
  <2>1. line.id \in Requests /\ line.id \in received
    <3>1. line.id \in Requests
      BY <1>2 DEF Books
    <3>2. line.kind # "noise"
      BY <3>1, LimitAssumption DEF Lines
    <3> QED
      BY <3>1, <3>2
  <2>2. req[line.id] = "waiting"
    BY <1>2, <2>1 DEF Books
  <2>3. /\ pending' = pending \ {line.id} /\ armed' = armed \ {line.id}
        /\ req' = [req EXCEPT ![line.id] =
                     IF line.kind = "result" THEN "resolved" ELSE "failed"]
    BY <1>2 DEF Handle
  <2>4. \A r \in Requests : req'[r] =
          IF r = line.id THEN IF line.kind = "result" THEN "resolved" ELSE "failed"
          ELSE req[r]
    BY <2>1, <2>3 DEF Books
  <2>5. req' \in [Requests -> {"unsent", "starting", "waiting"} \cup Settled]
    BY <2>3 DEF Books
  <2> QED
    BY <2>1, <2>2, <2>3, <2>4, <2>5 DEF Books, WaitsAreBounded
<1> QED
  BY <1>1, <1>2

-----------------------------------------------------------------------------
LEMMA InitEstablishes == Init => IInv
<1> SUFFICES ASSUME Init PROVE IInv
  OBVIOUS
<1>1. TypeOK
  <2>1. stdout \in Seq(Lines) /\ Len(stdout) = 0
    BY DEF Init
  <2>2. said \in 0..MaxLines /\ total \in Nat /\ total + Len(stdout) = said
    BY <2>1, LimitAssumption DEF Init
  <2>3. req \in [Requests -> {"unsent", "starting", "waiting"} \cup Settled]
    BY DEF Init
  <2> QED
    BY <2>1, <2>2, <2>3 DEF Init, TypeOK
<1>2. WaitsAreBounded /\ ClosedIsFinal /\ FailureReachesAll
  BY LimitAssumption DEF Init, WaitsAreBounded, ClosedIsFinal, FailureReachesAll
<1> QED
  BY <1>1, <1>2 DEF Init, IInv, Traces, Shutdown

\* The parts of the invariant about the pipes, which only Say and OnLine change.
PipesOK ==
  /\ stdout \in Seq(Lines)
  /\ said \in 0..MaxLines /\ total \in Nat
  /\ total + Len(stdout) = said
  /\ \A i \in 1..Len(stdout) : stdout[i].kind # "noise" => stdout[i].id \in received

StateOK ==
  /\ writing \subseteq Requests /\ received \subseteq Requests
  /\ attached \in BOOLEAN /\ closed \in BOOLEAN
  /\ closing \in {"no", "waiting", "done"}
  /\ child \in {"none", "running", "unspawned", "ended", "aborted"}
  /\ exitSeen \in BOOLEAN /\ died \in BOOLEAN
  /\ ClosedIsFinal /\ FailureReachesAll /\ Shutdown

LEMMA Parts == IInv <=> Books /\ PipesOK /\ StateOK
BY DEF IInv, Books, PipesOK, StateOK, TypeOK, Traces

LEMMA StepKeeps == IInv /\ [Next]_vars => IInv'
<1> SUFFICES ASSUME Books, PipesOK, StateOK, [Next]_vars
             PROVE  Books' /\ PipesOK' /\ StateOK'
  BY Parts, PTL
<1> USE DEF requests, pipes
<1>1. ASSUME NEW r \in Requests, Send(r) PROVE Books' /\ PipesOK' /\ StateOK'
  <2>1. CASE closed /\ req' = [req EXCEPT ![r] = "failed"]
             /\ UNCHANGED <<pending, armed, writing, attached, child>>
    <3>1. \A s \in Requests : req'[s] = IF s = r THEN "failed" ELSE req[s]
      BY <2>1 DEF Books
    <3>2. Books'
      BY <1>1, <2>1, <3>1 DEF Send, Books, WaitsAreBounded
    <3> QED
      BY <1>1, <2>1, <3>1, <3>2 DEF Send, PipesOK, StateOK, ClosedIsFinal,
                                    FailureReachesAll, Shutdown
  <2>2. CASE ~closed /\ ~attached /\ Spawn(r)
    <3>1. \A s \in Requests : req'[s] = IF s = r THEN "starting" ELSE req[s]
      BY <2>2 DEF Spawn, Books
    <3>2. Books'
      BY <1>1, <2>2, <3>1 DEF Send, Spawn, Books, WaitsAreBounded
    <3> QED
      BY <1>1, <2>2, <3>1, <3>2 DEF Send, Spawn, PipesOK, StateOK, ClosedIsFinal,
                                    FailureReachesAll, Shutdown
  <2>3. CASE ~closed /\ attached /\ Register(r) /\ UNCHANGED <<attached, child>>
    <3>1. Books'
      BY <1>1, <2>3, RegisterKeeps DEF Send
    <3>2. \A s \in Requests : req'[s] = IF s = r THEN "waiting" ELSE req[s]
      BY <2>3 DEF Register, Books
    <3> QED
      BY <1>1, <2>3, <3>1, <3>2 DEF Send, Register, PipesOK, StateOK, ClosedIsFinal,
                                    FailureReachesAll, Shutdown
  <2> QED
    BY <1>1, <2>1, <2>2, <2>3 DEF Send
<1>2. ASSUME NEW r \in Requests, Resume(r) PROVE Books' /\ PipesOK' /\ StateOK'
  <2>1. Books'
    BY <1>2, RegisterKeeps DEF Resume
  <2>2. \A s \in Requests : req'[s] =
          IF s = r THEN IF attached THEN "waiting" ELSE "failed" ELSE req[s]
    BY <1>2 DEF Resume, Register, Books
  <2> QED
    BY <1>2, <2>1, <2>2 DEF Resume, Register, PipesOK, StateOK, ClosedIsFinal,
                            FailureReachesAll, Shutdown
<1>3. ASSUME NEW r \in Requests, WriteDone(r) PROVE Books' /\ PipesOK' /\ StateOK'
  <2>1. Books'
    BY <1>3 DEF WriteDone, Books, WaitsAreBounded
  <2> QED
    BY <1>3, <2>1 DEF WriteDone, PipesOK, StateOK, ClosedIsFinal, FailureReachesAll,
                      Shutdown
<1>4. ASSUME NEW r \in Requests, WriteFailed(r) PROVE Books' /\ PipesOK' /\ StateOK'
  <2>1. \A s \in Requests : req'[s] =
          IF s = r /\ req[r] = "waiting" THEN "failed" ELSE req[s]
    BY <1>4 DEF WriteFailed, Books
  <2>2. Books'
    BY <1>4, <2>1 DEF WriteFailed, Books, WaitsAreBounded
  <2> QED
    BY <1>4, <2>1, <2>2 DEF WriteFailed, PipesOK, StateOK, ClosedIsFinal,
                            FailureReachesAll, Shutdown
<1>5. ASSUME NEW r \in Requests, Timeout(r) PROVE Books' /\ PipesOK' /\ StateOK'
  <2>1. \A s \in Requests : req'[s] =
          IF s = r /\ r \in pending /\ req[r] = "waiting" THEN "failed" ELSE req[s]
    BY <1>5 DEF Timeout, Books
  <2>2. Books'
    BY <1>5, <2>1 DEF Timeout, Books, WaitsAreBounded
  <2> QED
    BY <1>5, <2>1, <2>2 DEF Timeout, PipesOK, StateOK, ClosedIsFinal,
                            FailureReachesAll, Shutdown
<1>6. CASE OnLine
  <2>1. /\ Head(stdout) \in Lines
        /\ Head(stdout).kind # "noise" => Head(stdout).id \in received
    BY <1>6 DEF OnLine, PipesOK
  <2>2. PipesOK'
    <3>1. Tail(stdout) \in Seq(Lines) /\ Len(Tail(stdout)) = Len(stdout) - 1
      BY <1>6 DEF OnLine, PipesOK
    <3>2. \A i \in 1..Len(Tail(stdout)) : Tail(stdout)[i] = stdout[i + 1]
      BY <1>6 DEF OnLine, PipesOK
    <3>3. \A i \in 1..Len(Tail(stdout)) : i + 1 \in 1..Len(stdout)
      BY <3>1, <1>6 DEF OnLine, PipesOK
    <3>4. \A i \in 1..Len(Tail(stdout)) :
            Tail(stdout)[i].kind # "noise" => Tail(stdout)[i].id \in received
      BY <3>2, <3>3 DEF PipesOK
    <3> QED
      BY <1>6, <3>1, <3>4 DEF OnLine, PipesOK
  <2>3. CASE total' > MaxBuffer /\ RejectAll /\ Shut
    <3>1. Books' /\ \A r \in Requests : req'[r] # "waiting"
      BY <1>6, <2>3, RejectAllSettles DEF OnLine
    <3> QED
      BY <1>6, <2>2, <2>3, <3>1 DEF OnLine, Shut, StateOK, ClosedIsFinal,
                                    FailureReachesAll, Shutdown
  <2>4. CASE /\ total' <= MaxBuffer
             /\ Handle(Head(stdout))
             /\ UNCHANGED <<attached, closed, closing>>
    <3>1. /\ Books'
          /\ \A r \in Requests : req'[r] = req[r] \/ (req[r] = "waiting" /\ req'[r] \in Settled)
      BY <1>6, <2>1, <2>4, HandleKeeps DEF OnLine
    <3>2. ~(total' > MaxBuffer)
      BY <1>6, <2>4, LimitAssumption DEF OnLine, PipesOK
    <3> QED
      BY <1>6, <2>2, <2>4, <3>1, <3>2 DEF OnLine, StateOK, ClosedIsFinal,
                                          FailureReachesAll, Shutdown
  <2> QED
    BY <1>6, <2>3, <2>4 DEF OnLine
<1>7. CASE OnExit
  <2>1. CASE ~closed /\ child = "aborted" /\ RejectAll
    <3>1. Books' /\ \A r \in Requests : req'[r] # "waiting"
      BY <1>7, <2>1, RejectAllSettles DEF OnExit
    <3> QED
      BY <1>7, <2>1, <3>1 DEF OnExit, PipesOK, StateOK, ClosedIsFinal,
                              FailureReachesAll, Shutdown
  <2>2. CASE (closed \/ child = "ended") /\ UNCHANGED requests
    <3>1. Books'
      BY <1>7, <2>2 DEF OnExit, Books, WaitsAreBounded
    <3> QED
      BY <1>7, <2>2, <3>1 DEF OnExit, PipesOK, StateOK, ClosedIsFinal,
                              FailureReachesAll, Shutdown
  <2> QED
    BY <1>7, <2>1, <2>2 DEF OnExit
<1>8. CASE OnSpawnError
  <2>1. Books' /\ \A r \in Requests : req'[r] # "waiting"
    BY <1>8, RejectAllSettles DEF OnSpawnError
  <2> QED
    BY <1>8, <2>1 DEF OnSpawnError, PipesOK, StateOK, ClosedIsFinal,
                      FailureReachesAll, Shutdown
<1>9. CASE Close
  <2>1. Books' /\ \A r \in Requests : req'[r] # "waiting"
    BY <1>9, RejectAllSettles DEF Close
  <2> QED
    BY <1>9, <2>1 DEF Close, Shut, PipesOK, StateOK, ClosedIsFinal,
                      FailureReachesAll, Shutdown
<1>10. CASE Kill
  <2>1. Books'
    BY <1>10 DEF Kill, Books, WaitsAreBounded
  <2> QED
    BY <1>10, <2>1 DEF Kill, PipesOK, StateOK, ClosedIsFinal, FailureReachesAll,
                       Shutdown
<1>11. ASSUME NEW line \in Lines, Say(line) PROVE Books' /\ PipesOK' /\ StateOK'
  <2>1. Books'
    BY <1>11 DEF Say, Books, WaitsAreBounded
  <2>2. PipesOK'
    <3>1. Append(stdout, line) \in Seq(Lines)
          /\ Len(Append(stdout, line)) = Len(stdout) + 1
      BY DEF PipesOK
    <3>2. \A i \in 1..Len(Append(stdout, line)) :
            Append(stdout, line)[i].kind # "noise" => Append(stdout, line)[i].id \in received
      BY <1>11 DEF Say, PipesOK
    <3>3. said + 1 \in 0..MaxLines /\ total + (Len(stdout) + 1) = said + 1
      BY <1>11, LimitAssumption DEF Say, PipesOK
    <3> QED
      BY <1>11, <3>1, <3>2, <3>3 DEF Say, PipesOK
  <2> QED
    BY <1>11, <2>1, <2>2 DEF Say, StateOK, ClosedIsFinal, FailureReachesAll, Shutdown
<1>12. CASE End
  <2>1. Books'
    BY <1>12 DEF End, Books, WaitsAreBounded
  <2> QED
    BY <1>12, <2>1 DEF End, PipesOK, StateOK, ClosedIsFinal, FailureReachesAll, Shutdown
<1>13. CASE UNCHANGED vars
  BY <1>13 DEF vars, Books, PipesOK, StateOK, WaitsAreBounded, ClosedIsFinal,
               FailureReachesAll, Shutdown
<1> QED
  BY <1>1, <1>2, <1>3, <1>4, <1>5, <1>6, <1>7, <1>8, <1>9, <1>10, <1>11, <1>12, <1>13
  DEF Next, Loop
-----------------------------------------------------------------------------
LEMMA Inductive == Spec => []IInv
BY InitEstablishes, StepKeeps, PTL DEF Spec

\* The variables keep their types, and no line is lost or read twice.
THEOREM TypeCorrect == Spec => []TypeOK
<1>1. IInv => TypeOK
  BY DEF IInv
<1> QED
  BY <1>1, Inductive, PTL

\* "Bounded timeouts on every RPC call" (stdio.js:5), whatever happens.
THEOREM Bounded == Spec => []WaitsAreBounded
<1>1. IInv => WaitsAreBounded
  BY DEF IInv
<1> QED
  BY <1>1, Inductive, PTL

\* A closed transport, by the caller or by the size limit, answers nothing.
THEOREM Closed == Spec => []ClosedIsFinal
<1>1. IInv => ClosedIsFinal
  BY DEF IInv
<1> QED
  BY <1>1, Inductive, PTL

\* The failure of the child reaches every request that was written to it.
THEOREM Reaches == Spec => []FailureReachesAll
<1>1. IInv => FailureReachesAll
  BY DEF IInv
<1> QED
  BY <1>1, Inductive, PTL

\* A settled request never changes again: late and repeated answers are dropped.
LEMMA StepLeavesSettled ==
  IInv /\ [Next]_vars => \A r \in Requests : req[r] \in Settled => req'[r] = req[r]
<1> SUFFICES ASSUME Books, PipesOK, [Next]_vars, NEW s \in Requests, req[s] \in Settled
             PROVE  req'[s] = req[s]
  BY Parts
<1> USE DEF requests, pipes
<1>1. ASSUME NEW r \in Requests, Send(r) PROVE req'[s] = req[s]
  BY <1>1 DEF Send, Spawn, Register, Books
<1>2. ASSUME NEW r \in Requests, Loop(r) PROVE req'[s] = req[s]
  BY <1>2 DEF Loop, Resume, Register, WriteDone, WriteFailed, Timeout, Books
<1>3. CASE OnLine
  <2>1. /\ Head(stdout) \in Lines
        /\ Head(stdout).kind # "noise" => Head(stdout).id \in received
    BY <1>3 DEF OnLine, PipesOK
  <2>2. CASE RejectAll
    BY <1>3, <2>2, RejectAllSettles DEF OnLine
  <2>3. CASE Handle(Head(stdout))
    BY <1>3, <2>1, <2>3, HandleKeeps DEF OnLine
  <2> QED
    BY <1>3, <2>2, <2>3 DEF OnLine
<1>4. CASE OnExit \/ OnSpawnError \/ Close
  BY <1>4, RejectAllSettles DEF OnExit, OnSpawnError, Close
<1>5. CASE Kill \/ End \/ (\E line \in Lines : Say(line)) \/ UNCHANGED vars
  BY <1>5 DEF Kill, End, Say, vars
<1> QED
  BY <1>1, <1>2, <1>3, <1>4, <1>5 DEF Next

THEOREM Settles == Spec => SettledStays
<1>1. IInv /\ [Next]_vars =>
        [\A r \in Requests : req[r] \in Settled => req'[r] = req[r]]_vars
  BY StepLeavesSettled
<1> QED
  BY <1>1, Inductive, PTL DEF Spec, SettledStays
=============================================================================
