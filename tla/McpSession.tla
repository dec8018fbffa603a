----------------------------- MODULE McpSession -----------------------------
(***************************************************************************)
(* McpClient (src/connectors/mcp/client.js) over McpHttpTransport          *)
(* (src/connectors/mcp/http.js): several callers share a client, whose     *)
(* handshake is made by whoever finds it not made.  Every request awaits   *)
(* the check of the endpoint and the answer; the server may be another     *)
(* process that answers each handshake differently, or leaves things out,  *)
(* and close() may come at any time.                                       *)
(*                                                                         *)
(* Left out: hashing, the removal of secrets from arguments and contents,  *)
(* and the timing of a call.  What makes a request throw (the endpoint, an *)
(* error status, a time limit, a body over the bound or no JSON-RPC, an    *)
(* RPC error) is one outcome.                                              *)
(***************************************************************************)
EXTENDS Integers, Sequences, FiniteSets

CONSTANTS
  Callers,       \* who call tools of the client
  ServerAnswers, \* what the server may answer a handshake with: [version, capabilities]
  Contracted,    \* the versions the schema of the envelope lets through
  Tools,         \* tool -> [listed, readOnly]: the allowlist entry
  MaxCalls       \* BOUND: calls of a behaviour

ASSUME SessionAssumption == MaxCalls \in Nat

VARIABLES
  client,     \* [initialized, version, capabilities, closed]
  handshakes, \* the answers of the server to handshakes, in their order
  caller,     \* what each caller awaits
  served,     \* what each call was answered: "no" | "result" | "nothing" (no result) | "tool_error"
  envelopes,  \* the envelopes that were made
  calls       \* calls that were begun

sessionVars == <<client, handshakes, caller, served, envelopes, calls>>

DefaultVersion == "2024-11-05"
Unstated       == "unstated"  \* an answer without a version, or without any result
NoCapabilities == "none"      \* {}, which null becomes in an envelope

AtRest == [at |-> "idle", tool |-> "none"]

SessionInit ==
  /\ client = [initialized |-> FALSE, version |-> DefaultVersion,
               capabilities |-> NoCapabilities, closed |-> FALSE]
  /\ handshakes = <<>>
  /\ caller = [c \in Callers |-> AtRest]
  /\ served = [c \in Callers |-> "no"]
  /\ envelopes = {}
  /\ calls = 0

Goes(c, at) == caller' = [caller EXCEPT ![c].at = at]
Throws(c)   == caller' = [caller EXCEPT ![c] = AtRest]

\* assertToolAllowed
Allowed(tool) == Tools[tool].listed /\ Tools[tool].readOnly

-----------------------------------------------------------------------------
\* Mutant: a caller that finds the handshake under way does not wait for it.
Ready_Underway(state) == state.initialized \/ \E c \in Callers : caller[c].at = "initialize"

\* What callTool and listTools look at: a handshake under way is made again.
Ready(state) == state.initialized

\* sendRequest throws at once after close(): nothing is sent.
Sent == IF client.closed THEN "refused" ELSE "ask"

\* callTool up to its first await; "list" is listTools, which asks for no
\* tool.  A tool that is not allowed is refused before the server is asked,
\* and a handshake that cannot be sent is the end of the call.
Begin(c, tool) ==
  /\ caller[c].at = "idle" /\ calls < MaxCalls
  /\ calls' = calls + 1
  /\ served' = [served EXCEPT ![c] = "no"]
  /\ caller' = IF (tool # "list" /\ ~Allowed(tool)) \/ (~Ready(client) /\ client.closed) THEN caller
               ELSE [caller EXCEPT ![c] = [at |-> IF Ready(client) THEN Sent ELSE "initialize", tool |-> tool]]
  /\ UNCHANGED <<client, handshakes, envelopes>>

\* The request of the handshake throws.
HandshakeFails(c) ==
  /\ caller[c].at = "initialize"
  /\ Throws(c)
  /\ UNCHANGED <<client, handshakes, served, envelopes, calls>>

\* initialize, from the answer of the server to its notification: a version
\* that is not stated leaves the one there is, capabilities become empty.
Handshaken(state, answer) ==
  [state EXCEPT !.version = IF answer.version = Unstated THEN @ ELSE answer.version,
                !.capabilities = answer.capabilities]

\* A request that is out is not aborted by close().
HandshakeAnswered(c) ==
  /\ caller[c].at = "initialize"
  /\ \E answer \in ServerAnswers :
       /\ handshakes' = Append(handshakes, answer)
       /\ client' = Handshaken(client, answer)
  /\ Goes(c, "notify")
  /\ UNCHANGED <<served, envelopes, calls>>

\* sendNotification ends well whatever happens to the notification; only
\* then is the client initialized, and the request of the call sent.
Notified(c) ==
  /\ caller[c].at = "notify"
  /\ client' = [client EXCEPT !.initialized = TRUE]
  /\ Goes(c, Sent)
  /\ UNCHANGED <<handshakes, served, envelopes, calls>>

\* The server works on the call: the answer may still be lost.
Serve(c) ==
  /\ caller[c].at = "ask" /\ caller[c].tool # "list"
  /\ \E answer \in {"result", "nothing", "tool_error"} : served' = [served EXCEPT ![c] = answer]
  /\ Goes(c, "answer")
  /\ UNCHANGED <<client, handshakes, envelopes, calls>>

\* The record of a call: status, and what the client knows of the server then.
Envelope(c, status) ==
  [caller |-> c, served |-> served[c], status |-> status,
   version |-> client.version, capabilities |-> client.capabilities]

\* The end of callTool: the envelope is validated, and is an error of the
\* call where the server's version is none the schema knows.
Return(c, status) ==
  /\ envelopes' = IF client.version \in Contracted THEN envelopes \cup {Envelope(c, status)} ELSE envelopes
  /\ Throws(c)
  /\ UNCHANGED <<client, handshakes, served, calls>>

\* JSON without a result is an answer without content.
Verdict(answer) == IF answer \in {"result", "nothing"} THEN "success" ELSE "failed"

CallAnswered(c) ==
  /\ caller[c].at = "answer"
  /\ Return(c, Verdict(served[c]))

CallFails(c) ==
  /\ caller[c].at \in {"ask", "answer", "refused"} /\ caller[c].tool # "list"
  /\ Return(c, "failed")

\* listTools: its answer is marked with the allowlist; it may throw.
ListEnds(c) ==
  /\ caller[c].at \in {"ask", "refused"} /\ caller[c].tool = "list"
  /\ Throws(c)
  /\ UNCHANGED <<client, handshakes, served, envelopes, calls>>

\* close(): requests that are out are not aborted.
CloseSession ==
  /\ ~client.closed
  /\ client' = [client EXCEPT !.closed = TRUE]
  /\ UNCHANGED <<handshakes, caller, served, envelopes, calls>>

SessionNext ==
  \/ \E c \in Callers : \/ \E tool \in DOMAIN Tools \cup {"list"} : Begin(c, tool)
                        \/ HandshakeFails(c) \/ HandshakeAnswered(c) \/ Notified(c)
                        \/ Serve(c) \/ CallAnswered(c) \/ CallFails(c) \/ ListEnds(c)
  \/ CloseSession

\* The version of a client after its first i handshakes: the last that one of
\* them stated, or what the client asks with where none did.
VersionAfter(i, version) ==
  \/ version = DefaultVersion /\ \A j \in 1..i : handshakes[j].version = Unstated
  \/ /\ version # Unstated
     /\ \E j \in 1..i : /\ handshakes[j].version = version
                        /\ \A k \in 1..i : k > j => handshakes[k].version = Unstated

\* An envelope says "success" only of a call the server has answered without
\* an error, and what it says of the server is what the client knew after one
\* of its handshakes, whichever caller made it and whatever other handshakes,
\* failures and close() came in between: the capabilities of that answer, and
\* the version stated last up to it.  Where an answer states no version, the
\* version is an earlier handshake's or the client's own beside the
\* capabilities of this one; and an answer without a result is a success
\* (src/connectors/mcp/client.js:80, :149 and :205; http.js:98-102).
EnvelopesAreTrue ==
  \A e \in envelopes :
    /\ e.status = "success" => e.served \in {"result", "nothing"}
    /\ \E i \in DOMAIN handshakes : /\ e.capabilities = handshakes[i].capabilities
                                    /\ VersionAfter(i, e.version)
=============================================================================
