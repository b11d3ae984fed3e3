------------------------------ MODULE LlmClient -------------------------------
(***************************************************************************)
(* AiClient::complete (os-agent/src/ai_client.rs): a completion is tried   *)
(* up to retry_count times, with growing pauses between the attempts, and  *)
(* ends with the first good answer or the last error.  Each attempt is a   *)
(* request of its own with a timeout; the endpoint may go on working on    *)
(* one the client has given up on.  Time is counted in pauses of half a    *)
(* second; what was said is left out.                                      *)
(***************************************************************************)
EXTENDS Integers, FiniteSets

CONSTANTS RetryCount,  \* network.retry_count
          Timeout      \* network.timeout_ms, in units of 500 ms

ASSUME ClientAssumption == RetryCount \in Nat /\ Timeout \in Nat \ {0}

VARIABLES call,     \* idle, asked (an attempt is out), pause, answer or error
          attempt,  \* the attempt complete is at
          elapsed,  \* time since complete was called
          working   \* attempts of this completion the endpoint is working on

clientVars == <<call, attempt, elapsed, working>>

\* retry_count of 0 still makes one attempt.
MaxAttempts == IF RetryCount = 0 THEN 1 ELSE RetryCount

ClientInit == call = "idle" /\ attempt = 0 /\ elapsed = 0 /\ working = {}

\* A request leaves for the endpoint, which may be out of reach.
Ask(n) ==
  /\ call' = "asked"
  /\ attempt' = n
  /\ working' \in {working, working \cup {n}}

Complete == call = "idle" /\ elapsed' = 0 /\ Ask(1)

\* What each dialect reads of a response: the first choice of one, the first
\* part of type text of the other, which may lack its text ("blank").
Answers(dialect, reply) ==
  IF dialect = "anthropic"
  THEN \E i \in DOMAIN reply : reply[i] = "text" /\ \A j \in 1..(i - 1) : reply[j] # "blank"
  ELSE reply # <<>>

Replies == {<<>>, <<"text">>, <<"tool", "text">>, <<"blank", "text">>}

\* Fault: a failed last attempt leaves the loop waiting.
NeverGivesUp == IF attempt = MaxAttempts THEN "stuck" ELSE "pause"

\* Fault: one attempt more than configured.
OnceMore == IF attempt <= MaxAttempts THEN "pause" ELSE "error"

\* After an attempt that failed, there is a pause unless it was the last.
AfterFailure == IF attempt < MaxAttempts THEN "pause" ELSE "error"

\* try_complete got a response in time; one that says nothing is an error.
Replied(dialect) ==
  /\ call = "asked" /\ attempt \in working
  /\ working' = working \ {attempt}
  /\ \E t \in 0..(Timeout - 1) : elapsed' = elapsed + t
  /\ \E reply \in Replies : call' = IF Answers(dialect, reply) THEN "answer" ELSE AfterFailure
  /\ UNCHANGED attempt

\* It did not: no connection, the status of an error, a body that is no JSON,
\* or the timeout, after which the endpoint may still be at work.
Failed ==
  /\ call = "asked"
  /\ working' \in {working, working \ {attempt}}
  /\ \E t \in 0..Timeout : elapsed' = elapsed + t
  /\ call' = AfterFailure
  /\ UNCHANGED attempt

\* The pause before the next attempt: 500 ms times the attempt that failed.
Retry ==
  /\ call = "pause"
  /\ elapsed' = elapsed + attempt
  /\ Ask(attempt + 1)

\* The caller takes the result.
Return ==
  /\ call \in {"answer", "error"}
  /\ call' = "idle" /\ attempt' = 0 /\ elapsed' = 0 /\ working' = {}

\* The endpoint finishes what nobody waits for.
FinishLate ==
  /\ \E n \in working \ {attempt} : working' = working \ {n}
  /\ UNCHANGED <<call, attempt, elapsed>>

\* A step of complete, for either dialect, or of its caller.
ClientStep ==
  \/ \E dialect \in {"openai", "anthropic"} : Replied(dialect)
  \/ Failed \/ Retry \/ Return

-------------------------------------------------------------------------------

ClientTypeOK ==
  /\ call \in {"idle", "asked", "pause", "answer", "error"}
  /\ attempt \in 0..MaxAttempts /\ elapsed \in Nat
  /\ working \in SUBSET (1..MaxAttempts)

\* Twice the time of n timeouts and of the pauses between them.
TwiceTimeOf(n) == n * (2 * Timeout + n - 1)

(***************************************************************************)
(* A completion takes no longer than all of its timeouts and the pauses    *)
(* between them, 31.5 s as the wizard configures it; while an attempt is   *)
(* out, only those before it have been spent (complete, lines 109-131).    *)
(***************************************************************************)
CompletionIsTimely ==
  /\ 2 * elapsed <= TwiceTimeOf(MaxAttempts)
  /\ call = "asked" => 2 * elapsed <= TwiceTimeOf(attempt) - 2 * Timeout

(***************************************************************************)
(* Every completion ends, with an answer or an error, whatever the endpoint*)
(* does, since each attempt has a timeout (complete, try_complete_openai,  *)
(* try_complete_anthropic).                                                *)
(***************************************************************************)
CompletionsEnd == call # "idle" ~> call = "idle"
===============================================================================
