----------------------------- MODULE Retrieval ------------------------------
(***************************************************************************)
(* fetchUrl (src/crawler/fetch.js): one retrieval with its redirects, and  *)
(* for every hop its attempts, each of which may be refused before it is   *)
(* made, fail, time out or be answered; and the body that is read last.    *)
(*                                                                         *)
(* What the server has at a URL is fixed for a behaviour: a document, a    *)
(* redirect or nothing; whether an attempt reaches it is not.  The log   *)
(* of the attempts is kept: it is evidence of the run.  Waiting between    *)
(* attempts is left out, and so is the check of addresses, whose refusal   *)
(* is one of the outcomes.                                                 *)
(***************************************************************************)
EXTENDS Integers, Sequences

CONSTANTS
  Origins,     \* BOUND: what the server may have: sequence of functions from URL to answer
  Foreign,     \* URLs of another origin
  Malformed,   \* what no URL can be made of
  MaxAttempts, \* maxRetries, at least 1
  MaxHops,     \* maxRedirects
  MaxBodyBytes \* maxBodyBytes

ASSUME RetrievalAssumption == MaxAttempts \in Nat \ {0} /\ MaxHops \in Nat /\ MaxBodyBytes \in Nat

VARIABLES
  origin, \* which of them it has
  fetch   \* the retrieval under way, or the last one

retrievalVars == <<origin, fetch>>

\* URL -> [status, ...]: 200 with a document, 301 with `to`, 404
web == Origins[origin]
Served(url) == IF url \in DOMAIN web THEN web[url] ELSE [status |-> 404]

NoFetch == [is |-> "idle"]
Fetching == fetch.is \in {"trying", "answered"}

Asked(url) ==
  [is |-> "trying", requested |-> url, at |-> url, hop |-> 0, attempt |-> 1, number |-> 1,
   attempts |-> << >>, chain |-> << >>, status |-> 0, code |-> ""]

Record(outcome, decision) ==
  [number |-> fetch.number, url |-> fetch.at, outcome |-> outcome, decision |-> decision]

Logged(outcome, decision) == Append(fetch.attempts, Record(outcome, decision))

Failed(code, attempts) == [fetch EXCEPT !.is = "failed", !.code = code, !.attempts = attempts]
TryAgain(attempts) ==
  [fetch EXCEPT !.attempt = @ + 1, !.number = @ + 1, !.attempts = attempts]

LastAttempt == fetch.attempt = MaxAttempts

-----------------------------------------------------------------------------
\* validatePublicUrl throws: the name does not resolve, or not to an address
\* that may be asked.  There is no second attempt.
Refused ==
  /\ fetch.is = "trying"
  /\ fetch' = Failed("FETCH_ERROR", Logged("error", "stop"))
  /\ UNCHANGED origin

\* The request fails, or its timer aborts it before the headers are there.
AttemptFails(code) ==
  /\ fetch.is = "trying"
  /\ fetch' = IF LastAttempt THEN Failed(code, Logged("error", "stop"))
                             ELSE TryAgain(Logged("error", "retry"))
  /\ UNCHANGED origin

\* 500, 502, 503 or 504: tried again while attempts are left.  The body that
\* is given up may fail to cancel, which logs the attempt a second time.
MomentaryError ==
  /\ fetch.is = "trying" /\ ~LastAttempt
  /\ \E cancelled \in BOOLEAN :
       LET told == Logged("response", "retry") IN
       fetch' = TryAgain(IF cancelled THEN told ELSE Append(told, Record("error", "retry")))
  /\ UNCHANGED origin

\* Any other answer, and such a status at the last attempt.
Responds ==
  /\ fetch.is = "trying"
  /\ \E status \in {Served(fetch.at).status} \cup (IF LastAttempt THEN {503} ELSE {}) :
       fetch' = [fetch EXCEPT !.is = "answered", !.status = status]
  /\ UNCHANGED origin

\* A redirect with a location: the log says "redirect" also where the
\* location is then refused.  When the body of the redirect fails to cancel,
\* the error is thrown without the attempts.
FollowRedirect ==
  /\ fetch.is = "answered" /\ fetch.status = 301
  /\ LET to == web[fetch.at].to
         told == Logged("response", IF fetch.hop = MaxHops THEN "stop" ELSE "redirect")
         next == [fetch EXCEPT !.is = "trying", !.at = to, !.hop = @ + 1, !.attempt = 1, !.number = @ + 1,
                               !.attempts = told, !.chain = Append(@, fetch.at)]
         problem == CASE fetch.hop = MaxHops -> "FETCH_REDIRECT_LIMIT"
                      [] fetch.hop < MaxHops /\ to \in Malformed -> "FETCH_REDIRECT_INVALID"
                      [] fetch.hop < MaxHops /\ to \in Foreign   -> "FETCH_REDIRECT_ORIGIN"
                      [] OTHER -> ""
     IN IF problem # "" THEN fetch' = Failed(problem, told)
        ELSE \/ fetch' = next
             \/ fetch' = [next EXCEPT !.is = "failed", !.code = "FETCH_ERROR", !.attempts = << >>]
  /\ UNCHANGED origin

\* readBodyLimited: whole, broken off, or more than maxBodyBytes.
ReadBody ==
  /\ fetch.is = "answered" /\ fetch.status # 301
  /\ IF fetch.status = 200 /\ web[fetch.at].size > MaxBodyBytes
     THEN fetch' = Failed("FETCH_BODY_LIMIT", Logged("error", "stop"))
     ELSE \/ fetch' = [fetch EXCEPT !.is = "returned",
                          !.attempts = Logged("response", IF fetch.status >= 500 THEN "stop" ELSE "complete")]
          \/ fetch' = Failed("FETCH_ERROR", Logged("error", "stop"))
  /\ UNCHANGED origin

RetrievalNext ==
  \/ Refused \/ AttemptFails("FETCH_ERROR") \/ AttemptFails("FETCH_TIMEOUT") \/ MomentaryError
  \/ Responds \/ FollowRedirect \/ ReadBody
=============================================================================
