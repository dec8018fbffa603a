------------------------------- MODULE McpStdio -------------------------------
(***************************************************************************)
(* McpStdioTransport (src/connectors/mcp/stdio.js): requests sent to a     *)
(* child process over its stdin, answers read line by line from its        *)
(* stdout, a deadline per request, a limit on what is read in all, and the *)
(* shutdown of the child.  Every action of the program is one callback of  *)
(* Node's event loop; the child runs by itself and may do anything.        *)
(*                                                                         *)
(* A request stands for its own JSON-RPC id: each takes nextId once.       *)
(***************************************************************************)
EXTENDS Naturals, Sequences

CONSTANTS
  Requests,   \* calls of sendRequest
  MaxBuffer,  \* maxBufferBytes, in lines
  MaxLines    \* BOUND: lines the child writes

ASSUME LimitAssumption == /\ MaxBuffer \in Nat /\ MaxLines \in Nat
                          /\ "none" \notin Requests

\* A line answers a request, with a result or an error, or is not JSON.
Lines == [id : Requests, kind : {"result", "error"}] \cup
         [id : {"none"}, kind : {"noise"}]
Settled == {"resolved", "failed"}

VARIABLES
  req,       \* each request's promise, from its sendRequest on
  pending,   \* this.pending: requests with a handler
  armed,     \* requests whose timer runs
  writing,   \* requests whose stdin.write has not called back
  received,  \* requests the child has read
  stdout,    \* lines on their way from the child
  said,      \* lines the child has written
  total,     \* this.totalBytes, in lines
  attached,  \* this.process is not null
  closed,    \* this.closed
  closing,   \* the promise of close()
  child,     \* the child process
  exitSeen,  \* its exit or error event was delivered
  died       \* an uncaught error ended the program

requests == <<req, pending, armed>>
pipes    == <<writing, received, stdout, said>>
vars     == <<req, pending, armed, writing, received, stdout, said, total,
              attached, closed, closing, child, exitSeen, died>>

TypeOK ==
  /\ req \in [Requests -> {"unsent", "starting", "waiting"} \cup Settled]
  /\ pending \subseteq Requests /\ armed \subseteq Requests
  /\ writing \subseteq Requests /\ received \subseteq Requests
  /\ stdout \in Seq(Lines)
  /\ said \in 0..MaxLines /\ total \in Nat
  /\ total + Len(stdout) = said
  /\ attached \in BOOLEAN /\ closed \in BOOLEAN
  /\ closing \in {"no", "waiting", "done"}
  /\ child \in {"none", "running", "unspawned", "ended", "aborted"}
  /\ exitSeen \in BOOLEAN /\ died \in BOOLEAN

Init ==
  /\ req = [r \in Requests |-> "unsent"]
  /\ pending = {} /\ armed = {} /\ writing = {} /\ received = {}
  /\ stdout = << >> /\ said = 0 /\ total = 0
  /\ attached = FALSE /\ closed = FALSE /\ closing = "no"
  /\ child = "none" /\ exitSeen = FALSE /\ died = FALSE

-----------------------------------------------------------------------------
\* The handlers of the map are rejected and their timers cleared.
RejectAll ==
  /\ req' = [r \in Requests |->
       IF r \in pending /\ req[r] = "waiting" THEN "failed" ELSE req[r]]
  /\ pending' = {}
  /\ armed' = armed \ pending

\* close(): the process is let go, and told to stop.
Shut ==
  /\ closed' = TRUE
  /\ attached' = FALSE
  /\ closing' = IF attached THEN "waiting" ELSE closing

\* The rest of sendRequest: handler, timer and write.  When close() ran while
\* start() was awaited there is no process to write to: the executor throws,
\* and the handler and its timer stay behind.
Register(r) ==
  /\ pending' = pending \cup {r}
  /\ armed' = armed \cup {r}
  /\ req' = [req EXCEPT ![r] = IF attached THEN "waiting" ELSE "failed"]
  /\ writing' = IF attached THEN writing \cup {r} ELSE writing

\* The first request spawns the child, which may fail, and awaits start().
Spawn(r) ==
  /\ req' = [req EXCEPT ![r] = "starting"]
  /\ attached' = TRUE
  /\ child' \in {"running", "unspawned"}
  /\ UNCHANGED <<pending, armed, writing>>

Send(r) ==
  /\ ~died
  /\ req[r] = "unsent"
  /\ \/ /\ closed
        /\ req' = [req EXCEPT ![r] = "failed"]
        /\ UNCHANGED <<pending, armed, writing, attached, child>>
     \/ ~closed /\ ~attached /\ Spawn(r)
     \/ ~closed /\ attached /\ Register(r) /\ UNCHANGED <<attached, child>>
  /\ UNCHANGED <<received, stdout, said, total, closed, closing, exitSeen, died>>

Resume(r) ==
  /\ ~died
  /\ req[r] = "starting"
  /\ Register(r)
  /\ UNCHANGED <<received, stdout, said, total, attached, closed, closing,
                 child, exitSeen, died>>

WriteDone(r) ==
  /\ ~died
  /\ r \in writing /\ child = "running"
  /\ writing' = writing \ {r}
  /\ received' = received \cup {r}
  /\ UNCHANGED <<requests, stdout, said, total, attached, closed, closing,
                 child, exitSeen, died>>

\* The callback of a failed write.  Before Node has seen the exit the pipe is
\* broken, and stdin emits an error event that nothing listens to.
WriteFailed(r) ==
  /\ ~died
  /\ r \in writing /\ child \in {"unspawned", "ended", "aborted"}
  /\ writing' = writing \ {r}
  /\ req' = [req EXCEPT ![r] = IF @ = "waiting" THEN "failed" ELSE @]
  /\ pending' = pending \ {r}
  /\ armed' = armed \ {r}
  /\ died' = (child # "unspawned" /\ ~exitSeen)
  /\ UNCHANGED <<received, stdout, said, total, attached, closed, closing,
                 child, exitSeen>>

\* Mutant: the deadline neither rejects nor forgets the request.
Timeout_KeepsHandler(r) ==
  /\ ~died
  /\ r \in armed
  /\ armed' = armed \ {r}
  /\ UNCHANGED <<req, pending, pipes, total, attached, closed, closing, child,
                 exitSeen, died>>

Timeout(r) ==
  /\ ~died
  /\ r \in armed
  /\ armed' = armed \ {r}
  /\ pending' = pending \ {r}
  /\ req' = [req EXCEPT ![r] = IF r \in pending /\ @ = "waiting" THEN "failed" ELSE @]
  /\ UNCHANGED <<pipes, total, attached, closed, closing, child, exitSeen, died>>

\* _handleLine: an answer to a request that has a handler settles it; anything
\* else, a line that is not JSON too, is ignored.
Handle(line) ==
  \/ /\ line.id \in pending
     /\ pending' = pending \ {line.id}
     /\ armed' = armed \ {line.id}
     /\ req' = [req EXCEPT ![line.id] =
                  IF line.kind = "result" THEN "resolved" ELSE "failed"]
  \/ line.id \notin pending /\ UNCHANGED requests

OnLine ==
  /\ ~died
  /\ stdout # << >>
  /\ stdout' = Tail(stdout)
  /\ total' = total + 1
  /\ \/ total' > MaxBuffer /\ RejectAll /\ Shut
     \/ /\ total' <= MaxBuffer
        /\ Handle(Head(stdout))
        /\ UNCHANGED <<attached, closed, closing>>
  /\ UNCHANGED <<writing, received, said, child, exitSeen, died>>

\* Mutant: a non-zero exit code rejects nothing.
OnExit_NeverRejects ==
  /\ ~died
  /\ child \in {"ended", "aborted"} /\ ~exitSeen
  /\ exitSeen' = TRUE
  /\ closing' = IF closing = "waiting" THEN "done" ELSE closing
  /\ UNCHANGED <<requests, pipes, total, attached, closed, child, died>>

\* The exit event: a non-zero code rejects what waits, a zero code does not.
\* An exit during close() resolves its promise.
OnExit ==
  /\ ~died
  /\ child \in {"ended", "aborted"} /\ ~exitSeen
  /\ exitSeen' = TRUE
  /\ \/ ~closed /\ child = "aborted" /\ RejectAll
     \/ (closed \/ child = "ended") /\ UNCHANGED requests
  /\ closing' = IF closing = "waiting" THEN "done" ELSE closing
  /\ UNCHANGED <<pipes, total, attached, closed, child, died>>

\* The error event of a child that could not be spawned.
OnSpawnError ==
  /\ ~died
  /\ child = "unspawned" /\ ~exitSeen
  /\ exitSeen' = TRUE
  /\ RejectAll
  /\ UNCHANGED <<pipes, total, attached, closed, closing, child, died>>

\* Mutant: close() returns without waiting for the child or killing it.
Close_Abandons ==
  /\ ~died
  /\ RejectAll
  /\ closed' = TRUE /\ attached' = FALSE /\ closing' = closing
  /\ UNCHANGED <<pipes, total, child, exitSeen, died>>

\* The caller closes the transport.
Close ==
  /\ ~died
  /\ RejectAll
  /\ Shut
  /\ UNCHANGED <<pipes, total, child, exitSeen, died>>

\* 500 ms after SIGTERM.
Kill ==
  /\ ~died
  /\ closing = "waiting"
  /\ closing' = "done"
  /\ child' = IF child = "running" THEN "aborted" ELSE child
  /\ UNCHANGED <<requests, pipes, total, attached, closed, exitSeen, died>>

-----------------------------------------------------------------------------
\* The child: it may answer what it read, more than once, write anything else,
\* and end at any time, with code 0 or otherwise.
Say(line) ==
  /\ child = "running" /\ said < MaxLines
  /\ line.kind # "noise" => line.id \in received
  /\ said' = said + 1
  /\ stdout' = Append(stdout, line)
  /\ UNCHANGED <<requests, writing, received, total, attached, closed, closing,
                 child, exitSeen, died>>

End ==
  /\ child = "running"
  /\ child' \in {"ended", "aborted"}
  /\ UNCHANGED <<requests, pipes, total, attached, closed, closing, exitSeen, died>>

-----------------------------------------------------------------------------
Loop(r) == Resume(r) \/ WriteDone(r) \/ WriteFailed(r) \/ Timeout(r)

Next ==
  \/ \E r \in Requests : Send(r) \/ Loop(r)
  \/ OnLine \/ OnExit \/ OnSpawnError \/ Close \/ Kill
  \/ \E line \in Lines : Say(line)
  \/ End

Spec == Init /\ [][Next]_vars

\* The event loop runs every callback that is due; the caller and the child
\* owe nothing.
Fairness ==
  /\ \A r \in Requests : WF_vars(Resume(r)) /\ WF_vars(Timeout(r))
  /\ WF_vars(OnExit)
  /\ WF_vars(Kill)

FairSpec == Spec /\ Fairness

-----------------------------------------------------------------------------
(***************************************************************************)
(* No request waits without a handler an answer can find and a timer that  *)
(* will end it ("Bounded timeouts on every RPC call", stdio.js:5).         *)
(***************************************************************************)
WaitsAreBounded ==
  \A r \in Requests : req[r] = "waiting" => r \in pending \cap armed

(***************************************************************************)
(* A settled request stays as it settled: an answer that is late, repeated *)
(* or for a request that timed out changes nothing (_handleLine).          *)
(***************************************************************************)
SettledStays ==
  [][\A r \in Requests : req[r] \in Settled => req'[r] = req[r]]_vars

(***************************************************************************)
(* Once closed, by the caller or by the size limit, nothing waits and      *)
(* nothing is answered any more; beyond the limit the transport is closed. *)
(***************************************************************************)
ClosedIsFinal ==
  /\ closed => \A r \in Requests : req[r] # "waiting"
  /\ total > MaxBuffer => closed

(***************************************************************************)
(* The rejections of a child that failed reach every request it can no     *)
(* longer answer: after its exit event only a request whose write has not  *)
(* called back yet waits for it (exit handler, write callback).            *)
(***************************************************************************)
FailureReachesAll ==
  child \in {"aborted", "unspawned"} /\ exitSeen =>
    \A r \in Requests : req[r] = "waiting" => r \in writing

(***************************************************************************)
(* Every request settles, whatever the child does.                         *)
(***************************************************************************)
RequestsSettle ==
  \A r \in Requests :
    req[r] \in {"starting", "waiting"} ~> req[r] \in Settled \/ died

(***************************************************************************)
(* A closed transport leaves no child behind ("Graceful process cleanup    *)
(* and SIGKILL fallback", stdio.js:7), and close() returns.                *)
(***************************************************************************)
CloseReaps == closed ~> (child # "running" /\ closing # "waiting") \/ died
=============================================================================
