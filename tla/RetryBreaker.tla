---------------------------- MODULE RetryBreaker ----------------------------
(***************************************************************************)
(* retry.go and Store.run: the callers of one operation name share one     *)
(* circuit breaker (breakerFor), and each of them runs its adapter call    *)
(* through withRetry under it.  The breaker's three methods are atomic     *)
(* (cb.mu); everything between them interleaves with the other callers,    *)
(* with time and with the end of each caller's context.                    *)
(*                                                                         *)
(* Time is the age of the breaker's opening: 0 when recordFailure stamps   *)
(* openedAt, saturating at Cooldown, the only value allow() compares it    *)
(* with.  It runs while the breaker is open, the only state that reads it. *)
(* A backoff timer may fire at any moment.                                 *)
(***************************************************************************)
EXTENDS OssErrors, Naturals

CONSTANTS Calls,       \* concurrent callers of the operation
          MaxAttempts, \* retryPolicy.MaxAttempts after defaults
          Threshold,   \* circuitBreaker.threshold after defaults
          Cooldown,    \* circuitBreaker.cooldown, in ticks
          FailureCap,  \* bound: where the model's failure counter saturates
          OutageKinds, \* how the adapter reports an unreachable provider
          FinalKinds   \* what a reachable provider may answer instead of OK

ASSUME BreakerAssumption ==
    /\ MaxAttempts \in Nat \ {0}
    /\ Threshold \in Nat \ {0}
    /\ Cooldown \in Nat \ {0}
    /\ FailureCap \in Nat /\ FailureCap >= Threshold
    /\ OutageKinds # {}
    /\ OutageKinds \subseteq {k \in ErrorKinds : IsRetryable(k)}
    /\ FinalKinds \subseteq {k \in ErrorKinds : ~IsRetryable(k)}

VARIABLES failures,  \* circuitBreaker.failures
          state,     \* circuitBreaker.state
          age,       \* time.Since(openedAt), at most Cooldown
          up,        \* the provider is reachable
          pc,        \* where each call is in do / withRetry
          tries,     \* how many times withRetry has called fn
          last,      \* err of the latest attempt
          ended,     \* the call's context
          result     \* what withRetry, and then do, returns

breaker == <<failures, state, age>>
locals == <<pc, tries, last, ended, result>>
vars == <<failures, state, age, up, pc, tries, last, ended, result>>

PCs == {"idle", "enter", "loop", "inflight", "backoff", "settle"}

TypeOK == /\ failures \in 0..FailureCap
          /\ state \in {"closed", "open", "halfopen"}
          /\ age \in 0..Cooldown
          /\ up \in BOOLEAN
          /\ pc \in [Calls -> PCs]
          /\ tries \in [Calls -> 0..MaxAttempts]
          /\ last \in [Calls -> Answers \cup {"none"}]
          /\ ended \in [Calls -> Contexts]
          /\ result \in [Calls -> Answers \cup {"none"}]

Init == /\ failures = 0
        /\ state = "closed"
        /\ age = Cooldown
        /\ up = TRUE
        /\ pc = [c \in Calls |-> "idle"]
        /\ tries = [c \in Calls |-> 0]
        /\ last = [c \in Calls |-> "none"]
        /\ ended = [c \in Calls |-> "live"]
        /\ result = [c \in Calls |-> "none"]

\* do() returns, and the call's locals with it.
LocalsGone(c) == /\ pc' = [pc EXCEPT ![c] = "idle"]
                 /\ tries' = [tries EXCEPT ![c] = 0]
                 /\ last' = [last EXCEPT ![c] = "none"]
                 /\ ended' = [ended EXCEPT ![c] = "live"]

-----------------------------------------------------------------------------
(* Mutants: retry.go with a plausible mistake.                            *)

\* recordSuccess() without failures = 0.
RecordSuccessKeepsFailures == /\ state' = "closed"
                              /\ UNCHANGED <<failures, age>>

\* do() recording every error, not only the retryable ones.
RecordEveryError(r) ==
    \/ r = OK /\ failures' = 0 /\ state' = "closed" /\ UNCHANGED age
    \/ /\ r # OK
       /\ failures' = IF failures < FailureCap THEN failures + 1 ELSE failures
       /\ IF failures' >= Threshold THEN state' = "open" /\ age' = 0
                                    ELSE UNCHANGED <<state, age>>

\* A rejected call recorded as one more failure.
RejectRecorded(c) == /\ pc[c] = "enter"
                     /\ state = "open" /\ age < Cooldown
                     /\ LocalsGone(c)
                     /\ result' = [result EXCEPT ![c] = "unavailable"]
                     /\ age' = 0
                     /\ UNCHANGED <<failures, state, up>>

\* allow() starting the trial with a fresh count.
AdmitResetsFailures(c) ==
    /\ pc[c] = "enter"
    /\ state # "open" \/ age >= Cooldown
    /\ state' = IF state = "open" THEN "halfopen" ELSE state
    /\ failures' = IF state = "open" THEN 0 ELSE failures
    /\ pc' = [pc EXCEPT ![c] = "loop"]
    /\ UNCHANGED <<age, up, tries, last, ended, result>>

\* The loop without its ctx.Err() check.
AttemptIgnoresContext(c) == /\ pc[c] = "loop"
                            /\ pc' = [pc EXCEPT ![c] = "inflight"]
                            /\ tries' = [tries EXCEPT ![c] = @ + 1]
                            /\ UNCHANGED <<failures, state, age, up, last, ended, result>>

\* The loop without attempt++.
AttemptNotCounted(c) == /\ pc[c] = "loop"
                        /\ ended[c] = "live"
                        /\ pc' = [pc EXCEPT ![c] = "inflight"]
                        /\ tries' = [tries EXCEPT ![c] = IF @ = 0 THEN 1 ELSE @]
                        /\ UNCHANGED <<failures, state, age, up, last, ended, result>>

\* attempt <= MaxAttempts tested before the last attempt is excluded.
FnReturnsOffByOne(c, k) ==
    /\ pc[c] = "inflight"
    /\ last' = [last EXCEPT ![c] = k]
    /\ IF IsRetryable(k) /\ tries[c] <= MaxAttempts
         THEN pc' = [pc EXCEPT ![c] = "backoff"] /\ UNCHANGED result
         ELSE pc' = [pc EXCEPT ![c] = "settle"] /\ result' = [result EXCEPT ![c] = k]
    /\ UNCHANGED <<failures, state, age, up, tries, ended>>

-----------------------------------------------------------------------------
(* The environment: callers, their contexts, the clock, the provider.      *)

Call(c) == /\ pc[c] = "idle"
           /\ pc' = [pc EXCEPT ![c] = "enter"]
           /\ result' = [result EXCEPT ![c] = "none"]
           /\ UNCHANGED <<failures, state, age, up, tries, last, ended>>

CtxEnds(c) == /\ pc[c] # "idle"
              /\ ended[c] = "live"
              /\ \E how \in {"canceled", "deadline"} : ended' = [ended EXCEPT ![c] = how]
              /\ UNCHANGED <<failures, state, age, up, pc, tries, last, result>>

Tick == /\ state = "open"
        /\ age < Cooldown
        /\ age' = age + 1
        /\ UNCHANGED <<failures, state, up, locals>>

ProviderFlips == /\ up' = ~up
                 /\ UNCHANGED <<breaker, locals>>

-----------------------------------------------------------------------------
(* The breaker's methods.                                                  *)

\* allow(): may the call proceed, and the state it leaves.
Admits == state # "open" \/ age >= Cooldown
StateAfterAllow == IF state = "open" /\ age >= Cooldown THEN "halfopen" ELSE state

RecordSuccess == /\ failures' = 0
                 /\ state' = "closed"
                 /\ UNCHANGED age

\* failures++ on an int; the model's counter stops at FailureCap.
Incremented == IF failures < FailureCap THEN failures + 1 ELSE failures

RecordFailure == /\ failures' = Incremented
                 /\ IF Incremented >= Threshold
                      THEN state' = "open" /\ age' = 0
                      ELSE UNCHANGED <<state, age>>

\* do() after withRetry: what the breaker learns from the result r.
Record(r) == \/ r = OK /\ RecordSuccess
             \/ IsRetryable(r) /\ RecordFailure
             \/ r # OK /\ ~IsRetryable(r) /\ UNCHANGED breaker

-----------------------------------------------------------------------------
(* The steps of one call.                                                  *)

\* do(): allow() refuses, the call fails without touching the provider.
Reject(c) == /\ pc[c] = "enter"
             /\ ~Admits
             /\ LocalsGone(c)
             /\ result' = [result EXCEPT ![c] = "unavailable"]
             /\ UNCHANGED <<failures, state, age, up>>

Admit(c) == /\ pc[c] = "enter"
            /\ Admits
            /\ state' = StateAfterAllow
            /\ pc' = [pc EXCEPT ![c] = "loop"]
            /\ UNCHANGED <<failures, age, up, tries, last, ended, result>>

\* withRetry returns r; do() has yet to record it.
ReturnFromRetry(c, r) == /\ pc' = [pc EXCEPT ![c] = "settle"]
                         /\ result' = [result EXCEPT ![c] = r]

\* The head of the loop: ctx.Err(), then fn(ctx).
Attempt(c) == /\ pc[c] = "loop"
              /\ ended[c] = "live"
              /\ pc' = [pc EXCEPT ![c] = "inflight"]
              /\ tries' = [tries EXCEPT ![c] = @ + 1]
              /\ UNCHANGED <<failures, state, age, up, last, ended, result>>

AttemptCancelled(c) == /\ pc[c] = "loop"
                       /\ ended[c] # "live"
                       /\ ReturnFromRetry(c, "canceled")
                       /\ UNCHANGED <<failures, state, age, up, tries, last, ended>>

\* What fn may answer: the provider's answer, or the end of the context as
\* translateError reports it.
FnAnswers(c) == (IF up THEN {OK} \cup FinalKinds ELSE OutageKinds)
                \cup (IF ended[c] = "live" THEN {} ELSE {CtxErr(ended[c])})

\* fn returns k; withRetry classifies it and returns or backs off.
FnReturns(c, k) ==
    /\ pc[c] = "inflight"
    /\ last' = [last EXCEPT ![c] = k]
    /\ IF k # OK /\ KindToClass(k) = "retryable" /\ tries[c] < MaxAttempts
         THEN pc' = [pc EXCEPT ![c] = "backoff"] /\ UNCHANGED result
         ELSE ReturnFromRetry(c, k)
    /\ UNCHANGED <<failures, state, age, up, tries, ended>>

BackoffElapses(c) == /\ pc[c] = "backoff"
                     /\ pc' = [pc EXCEPT ![c] = "loop"]
                     /\ UNCHANGED <<failures, state, age, up, tries, last, ended, result>>

BackoffCancelled(c) == /\ pc[c] = "backoff"
                       /\ ended[c] # "live"
                       /\ ReturnFromRetry(c, "canceled")
                       /\ UNCHANGED <<failures, state, age, up, tries, last, ended>>

\* do() records the outcome in the breaker and returns it.
Settle(c) == /\ pc[c] = "settle"
             /\ Record(result[c])
             /\ LocalsGone(c)
             /\ UNCHANGED <<up, result>>

-----------------------------------------------------------------------------
CallStep(c) == \/ Reject(c) \/ Admit(c)
               \/ Attempt(c) \/ AttemptCancelled(c)
               \/ \E k \in FnAnswers(c) : FnReturns(c, k)
               \/ BackoffElapses(c) \/ BackoffCancelled(c)
               \/ Settle(c)

Next == \/ Tick
        \/ ProviderFlips
        \/ \E c \in Calls : Call(c) \/ CtxEnds(c) \/ CallStep(c)

Spec == Init /\ [][Next]_vars

\* A call in progress is scheduled, the adapter answers (the SDK bounds every
\* request) and time passes.  Nothing obliges callers to call, contexts to end
\* or the provider to change.
Fairness == /\ WF_vars(Tick)
            /\ \A c \in Calls : WF_vars(CallStep(c))

FairSpec == Spec /\ Fairness

-----------------------------------------------------------------------------
(* Properties.                                                             *)

\* The breaker is closed exactly while fewer than Threshold retryable failures
\* have been recorded since the last success: a half-open trial still carries
\* the count that opened the breaker (recordFailure and recordSuccess against
\* allow's transition, which leaves failures alone).
ClosedIffBelowThreshold == (state = "closed") <=> (failures < Threshold)

\* One failed trial is enough: whichever call records a retryable failure while
\* the breaker is half-open reopens it, with a full cooldown ahead.
HalfOpenFailureReopens ==
    [][\A c \in Calls :
          (pc[c] = "settle" /\ pc'[c] = "idle" /\ IsRetryable(result[c])
             /\ state = "halfopen")
          => (state' = "open" /\ age' = 0)]_vars

\* Another attempt is due only to a call whose latest answer can be retried and
\* whose attempts are not used up; a value leaves withRetry only if it is the
\* final answer, or "canceled" after the context ended.
AttemptDue(c) == tries[c] < MaxAttempts /\ (tries[c] = 0 \/ IsRetryable(last[c]))

AnswerFinal(c) == tries[c] > 0 /\ (~IsRetryable(last[c]) \/ tries[c] = MaxAttempts)

ReturnsJustified ==
    \A c \in Calls :
        /\ pc[c] \in {"idle", "enter"} => tries[c] = 0
        /\ pc[c] = "loop" => AttemptDue(c)
        /\ pc[c] = "inflight" => tries[c] > 0
        /\ pc[c] = "backoff" => AttemptDue(c) /\ tries[c] > 0
        /\ pc[c] = "settle" => result[c] \in Answers
        /\ pc[c] = "settle" =>
              \/ AnswerFinal(c) /\ result[c] = last[c]
              \/ ~AnswerFinal(c) /\ ended[c] # "live" /\ result[c] = "canceled"

\* What one caller may rely on whatever the others do: RunContract.
PhaseOf(p) == IF p = "idle" THEN "idle" ELSE IF p = "inflight" THEN "calling" ELSE "ready"

Contract == INSTANCE RunContract WITH
    phase <- [c \in Calls |-> PhaseOf(pc[c])],
    ended <- [c \in Calls |-> ended[c] # "live"],
    result <- [c \in Calls |-> IF pc[c] = "idle" THEN result[c] ELSE "none"]

ImplementsContract == Contract!Spec

\* An upper bound on the steps a call still takes, at each point of do and withRetry.
StepsLeft(c) ==
    LET budget == 3 * (MaxAttempts - tries[c])
    IN  CASE pc[c] = "enter" -> budget + 2
          [] pc[c] = "loop" -> budget + 1
          [] pc[c] = "inflight" -> budget + 3
          [] pc[c] = "backoff" -> budget + 2
          [] pc[c] = "settle" -> 1
          [] OTHER -> 0

\* retry.go: a call runs down.  Whatever the breaker, the clock, the provider and
\* the other callers do between its steps, each of its own brings it closer to its
\* return, so that it returns after at most 3 * MaxAttempts + 2 of them.
CallsRunDown ==
    [][\A c \in Calls :
          pc[c] # "idle" => /\ StepsLeft(c)' \in 0..StepsLeft(c)
                            /\ pc'[c] # pc[c] => StepsLeft(c)' < StepsLeft(c)]_vars

\* Every call returns: no call is stuck between attempts or behind the breaker.
EveryCallReturns == \A c \in Calls : pc[c] # "idle" ~> pc[c] = "idle"

CallersKeepCalling == []<>(\E c \in Calls : pc[c] = "enter")

\* While callers keep calling the breaker cannot stay open: calls admitted
\* earlier may re-stamp openedAt, and rejected ones may not, so a cooldown
\* elapses and a trial is let through.
OpenIsLeft == CallersKeepCalling => (state = "open" ~> state # "open")

\* Once the provider is reachable for good and contexts no longer end, the
\* breaker stops rejecting: it leaves "open" and never returns to it.
Healthy == up /\ \A c \in Calls : ended[c] = "live"

RecoversAfterOutage ==
    (CallersKeepCalling /\ <>[]Healthy) => <>[](state # "open")

-----------------------------------------------------------------------------
(* Claims of the repository that the code does not keep.                   *)

\* config.go, CircuitCooldown: "breaker open duration".  The breaker would
\* leave "open" only after the cooldown.
OpenForCooldown == [][state = "open" /\ state' # "open" => age = Cooldown]_vars

\* TestAcceptanceErrorWrappersAndContext: "deadline context should be timeout kind".  A call
\* whose deadline passed would not be reported as cancelled by its owner.
DeadlineIsTimeout ==
    [][\A c \in Calls :
          pc[c] = "settle" /\ pc'[c] = "idle" /\ ended[c] = "deadline"
          => result[c] # "canceled"]_vars
=============================================================================
