----------------------------- MODULE ModelCalls -----------------------------
(* One request to the model, as the two adapters (adapters/job_evaluation_plan   *)
(* and adapters/screening_evaluation) turn it into a content or an error.        *)
EXTENDS Naturals

\* What becomes of a request: refused before it is sent, an exception of the client, a
\* status, or a response.  Only the adapter for plans reads the content, and refuses one
\* that is no JSON object with keys of its own.
Replies ==
  {"not sent", "answer", "timeout", "authentication", "rate limit", "server error",
   "connection", "401", "402", "404", "429", "500", "unrecognised", "no choices", "cut", "blank",
   "no JSON"}

\* The class of error the adapter raises, or "none".
ErrorOf(reply) ==
  CASE reply = "answer" -> "none"
    [] reply = "not sent" -> "INPUT"
    [] reply = "timeout" -> "TIMEOUT"
    [] reply \in {"authentication", "401"} -> "AUTHENTICATION"
    [] reply = "402" -> "QUOTA"
    [] reply \in {"rate limit", "429"} -> "RATE_LIMITED"
    [] reply \in {"server error", "connection", "500"} -> "UNAVAILABLE"
    [] reply \in {"no choices", "blank"} -> "EMPTY"
    [] reply = "cut" -> "INTERRUPTED"
    [] reply = "no JSON" -> "INVALID_RESPONSE"
    [] OTHER -> "UPSTREAM"

\* What a bug would do: asking again after a response that was cut.
BugRetryable(error) == error \in {"TIMEOUT", "RATE_LIMITED", "UNAVAILABLE", "INTERRUPTED"}

Retryable(error) == error \in {"TIMEOUT", "RATE_LIMITED", "UNAVAILABLE"}

\* A response reached the service, whatever it holds.
ModelAnswered(reply) == reply \in {"answer", "no choices", "cut", "blank", "no JSON"}
=============================================================================
