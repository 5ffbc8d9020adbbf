---------------------------- MODULE RunContract ----------------------------
(***************************************************************************)
(* What Store.run promises to one caller, whatever the other callers and   *)
(* the breaker do: the adapter function is invoked one attempt at a time,  *)
(* at most MaxAttempts times, never again after an answer that is final    *)
(* and never once the context has ended; the call returns the last answer  *)
(* if it is final or the attempts are used up, "canceled" only if the      *)
(* context ended, and "unavailable" with no attempt at all when the        *)
(* breaker rejects it.  RetryBreaker implements this contract; Multipart   *)
(* and BlobStore are built on it.                                          *)
(***************************************************************************)
EXTENDS OssErrors, Naturals

CONSTANTS Calls,        \* concurrent callers
          MaxAttempts   \* retryPolicy.MaxAttempts after defaults, at least 1

VARIABLES phase,    \* "idle", "ready" (between attempts), "calling" (in fn)
          tries,    \* attempts made by the current call
          last,     \* answer of the latest attempt, "none" before it
          ended,    \* the context has ended
          result    \* what the latest finished call returned

vars == <<phase, tries, last, ended, result>>

Final(c) == tries[c] > 0 /\ (~IsRetryable(last[c]) \/ tries[c] = MaxAttempts)

MayInvoke(c) == tries[c] = 0 \/ (IsRetryable(last[c]) /\ tries[c] < MaxAttempts)

Init == /\ phase = [c \in Calls |-> "idle"]
        /\ tries = [c \in Calls |-> 0]
        /\ last = [c \in Calls |-> "none"]
        /\ ended = [c \in Calls |-> FALSE]
        /\ result = [c \in Calls |-> "none"]

Start(c) == /\ phase[c] = "idle"
            /\ phase' = [phase EXCEPT ![c] = "ready"]
            /\ result' = [result EXCEPT ![c] = "none"]
            /\ UNCHANGED <<tries, last, ended>>

CtxEnds(c) == /\ phase[c] # "idle"
              /\ ended' = [ended EXCEPT ![c] = TRUE]
              /\ UNCHANGED <<phase, tries, last, result>>

Invoke(c) == /\ phase[c] = "ready"
             /\ MayInvoke(c)
             /\ ~ended[c]
             /\ phase' = [phase EXCEPT ![c] = "calling"]
             /\ tries' = [tries EXCEPT ![c] = @ + 1]
             /\ UNCHANGED <<last, ended, result>>

Answer(c, k) == /\ phase[c] = "calling"
                /\ phase' = [phase EXCEPT ![c] = "ready"]
                /\ last' = [last EXCEPT ![c] = k]
                /\ UNCHANGED <<tries, ended, result>>

\* The value a call in phase "ready" may return.
MayReturn(c, r) == \/ Final(c) /\ r = last[c]
                   \/ ~Final(c) /\ ended[c] /\ r = "canceled"
                   \/ tries[c] = 0 /\ r = "unavailable"

\* The caller gets r, and the call's locals go.
Leave(c, r) == /\ phase' = [phase EXCEPT ![c] = "idle"]
               /\ tries' = [tries EXCEPT ![c] = 0]
               /\ last' = [last EXCEPT ![c] = "none"]
               /\ ended' = [ended EXCEPT ![c] = FALSE]
               /\ result' = [result EXCEPT ![c] = r]

Finish(c, r) == phase[c] = "ready" /\ MayReturn(c, r) /\ Leave(c, r)

Next == \E c \in Calls : \/ Start(c) \/ CtxEnds(c) \/ Invoke(c)
                         \/ \E k \in Answers : Answer(c, k)
                         \/ \E r \in Answers : Finish(c, r)

Spec == Init /\ [][Next]_vars
=============================================================================
