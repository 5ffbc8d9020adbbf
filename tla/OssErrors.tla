----------------------------- MODULE OssErrors -----------------------------
(***************************************************************************)
(* The error taxonomy of pkg/ossx (errors.go) and the two questions the    *)
(* resilience layer asks of an error: may withRetry try again, and does    *)
(* the circuit breaker count it.  An error is its kind; "ok" is nil.       *)
(***************************************************************************)

ErrorKinds == {"config", "validation", "connection", "unavailable",
               "timeout", "auth", "conflict", "rate_limit", "canceled",
               "not_found", "already_exists", "internal", "checksum",
               "closed", "not_implemented"}

OK == "ok"

Answers == ErrorKinds \cup {OK}

\* Error.Retryable, set by newError / wrapError and read by isRetryable.
IsRetryable(e) == e \in {"connection", "unavailable", "timeout", "rate_limit"}

\* classifyError: what withRetry does with a non-nil error.
KindToClass(k) ==
    CASE k = "canceled" -> "fatal"
      [] k \in {"connection", "unavailable", "timeout", "rate_limit"} -> "retryable"
      [] OTHER -> "non_retryable"

\* A context is live, cancelled by its owner, or past its deadline.
Contexts == {"live", "canceled", "deadline"}

\* ctxErrCheck: the early return at the head of every public operation.
CtxErr(ctx) ==
    CASE ctx = "live" -> OK
      [] ctx = "canceled" -> "canceled"
      [] ctx = "deadline" -> "timeout"
=============================================================================
