------------------------- MODULE RetryBreakerProofs -------------------------
(***************************************************************************)
(* Theorems about RetryBreaker, for any number of callers and any          *)
(* thresholds: type correctness, what the failure counter says of the      *)
(* breaker's state, and that the code of do / withRetry keeps the contract *)
(* its callers rely on.                                                    *)
(***************************************************************************)
EXTENDS RetryBreaker, TLAPS

\* withRetry classifies an error by kindToClass, the breaker by Error.Retryable:
\* the two agree on every error kind.
LEMMA ClassesAgree ==
    \A k \in Answers : (KindToClass(k) = "retryable") <=> IsRetryable(k)
  BY DEF KindToClass, IsRetryable, Answers, ErrorKinds, OK

\* Every answer fn may give is an error kind or OK.
LEMMA AnswersTyped ==
    ASSUME TypeOK, NEW c \in Calls
    PROVE  FnAnswers(c) \subseteq Answers
  BY BreakerAssumption
     DEF TypeOK, FnAnswers, Answers, ErrorKinds, OK, CtxErr, Contexts

-----------------------------------------------------------------------------
(* The inductive invariant: the types, the counter's meaning and the       *)
(* justification of every attempt and return.  TypeOK needs the third: it  *)
(* is AttemptDue that keeps tries within MaxAttempts.                      *)

IInv == TypeOK /\ ClosedIffBelowThreshold /\ ReturnsJustified

LEMMA InitIInv == Init => IInv
  BY BreakerAssumption
     DEF Init, IInv, TypeOK, PCs, Contexts, ClosedIffBelowThreshold, ReturnsJustified

LEMMA NextTypeOK == IInv /\ [Next]_vars => TypeOK'
<1> SUFFICES ASSUME IInv, [Next]_vars PROVE TypeOK'
  OBVIOUS
<1> USE DEF IInv
<1>1. CASE UNCHANGED vars
  BY <1>1 DEF vars, TypeOK
<1>2. CASE Tick
  BY <1>2, BreakerAssumption DEF Tick, TypeOK, locals
<1>3. CASE ProviderFlips
  BY <1>3 DEF ProviderFlips, TypeOK, breaker, locals
<1>4. ASSUME NEW c \in Calls, Call(c) PROVE TypeOK'
  BY <1>4, BreakerAssumption DEF Call, TypeOK, PCs, Contexts
<1>5. ASSUME NEW c \in Calls, CtxEnds(c) PROVE TypeOK'
  BY <1>5 DEF CtxEnds, TypeOK, Contexts
<1>6. ASSUME NEW c \in Calls, Reject(c) PROVE TypeOK'
  BY <1>6, BreakerAssumption DEF Reject, LocalsGone, TypeOK, PCs, Contexts, Answers, ErrorKinds
<1>7. ASSUME NEW c \in Calls, Admit(c) PROVE TypeOK'
  BY <1>7 DEF Admit, StateAfterAllow, TypeOK, PCs
<1>8. ASSUME NEW c \in Calls, AttemptCancelled(c) PROVE TypeOK'
  BY <1>8 DEF AttemptCancelled, ReturnFromRetry, TypeOK, PCs, Answers, ErrorKinds
<1>9. ASSUME NEW c \in Calls, Attempt(c) PROVE TypeOK'
  <2>1. tries[c] + 1 \in 0..MaxAttempts
    BY <1>9, BreakerAssumption DEF Attempt, TypeOK, ReturnsJustified, AttemptDue
  <2> QED BY <1>9, <2>1 DEF Attempt, TypeOK, PCs
<1>10. ASSUME NEW c \in Calls, NEW k \in FnAnswers(c), FnReturns(c, k) PROVE TypeOK'
  <2>1. k \in Answers
    BY AnswersTyped
  <2> QED BY <1>10, <2>1 DEF FnReturns, ReturnFromRetry, TypeOK, PCs
<1>11. ASSUME NEW c \in Calls, BackoffElapses(c) PROVE TypeOK'
  BY <1>11 DEF BackoffElapses, TypeOK, PCs
<1>12. ASSUME NEW c \in Calls, BackoffCancelled(c) PROVE TypeOK'
  BY <1>12 DEF BackoffCancelled, ReturnFromRetry, TypeOK, PCs, Answers, ErrorKinds
<1>13. ASSUME NEW c \in Calls, Settle(c) PROVE TypeOK'
  <2>1. /\ failures' \in 0..FailureCap
        /\ state' \in {"closed", "open", "halfopen"}
        /\ age' \in 0..Cooldown
    BY <1>13, BreakerAssumption
       DEF Settle, Record, RecordSuccess, RecordFailure, Incremented, breaker, TypeOK
  <2> QED BY <1>13, <2>1, BreakerAssumption DEF Settle, LocalsGone, TypeOK, PCs, Contexts
<1> QED
  BY <1>1, <1>2, <1>3, <1>4, <1>5, <1>6, <1>7, <1>8, <1>9, <1>10, <1>11, <1>12, <1>13
     DEF Next, CallStep

\* Only allow() and the recording of a result move the breaker.
LEMMA BreakerMoves ==
    ASSUME [Next]_vars
    PROVE  \/ UNCHANGED <<failures, state>>
           \/ \E c \in Calls : Admit(c) \/ Settle(c)
  BY DEF Next, CallStep, vars, Tick, ProviderFlips, Call, CtxEnds, Reject, Attempt,
         AttemptCancelled, FnReturns, BackoffElapses, BackoffCancelled, breaker

LEMMA NextClosedIff == IInv /\ [Next]_vars => ClosedIffBelowThreshold'
<1> SUFFICES ASSUME IInv, [Next]_vars PROVE ClosedIffBelowThreshold'
  OBVIOUS
<1>1. CASE UNCHANGED <<failures, state>>
  BY <1>1 DEF IInv, ClosedIffBelowThreshold
<1>2. ASSUME NEW c \in Calls, Admit(c) PROVE ClosedIffBelowThreshold'
  BY <1>2 DEF Admit, StateAfterAllow, IInv, ClosedIffBelowThreshold
<1>3. ASSUME NEW c \in Calls, Settle(c) PROVE ClosedIffBelowThreshold'
  BY <1>3, BreakerAssumption
     DEF Settle, Record, RecordSuccess, RecordFailure, Incremented, breaker, IInv,
         TypeOK, ClosedIffBelowThreshold
<1> QED BY <1>1, <1>2, <1>3, BreakerMoves

\* A step of c leaves the locals of every other call alone.
LEMMA NextReturnsJustified == IInv /\ [Next]_vars => ReturnsJustified'
<1> SUFFICES ASSUME IInv, [Next]_vars PROVE ReturnsJustified'
  OBVIOUS
<1> USE DEF IInv, ReturnsJustified, AttemptDue, AnswerFinal
<1>1. CASE UNCHANGED locals
  BY <1>1 DEF locals
<1>2. ASSUME NEW c \in Calls, Call(c) PROVE ReturnsJustified'
  BY <1>2 DEF Call, TypeOK
<1>3. ASSUME NEW c \in Calls, CtxEnds(c) PROVE ReturnsJustified'
  BY <1>3 DEF CtxEnds, TypeOK
<1>4. ASSUME NEW c \in Calls, Reject(c) PROVE ReturnsJustified'
  BY <1>4 DEF Reject, LocalsGone, TypeOK
<1>5. ASSUME NEW c \in Calls, Admit(c) PROVE ReturnsJustified'
  BY <1>5, BreakerAssumption DEF Admit, TypeOK
<1>6. ASSUME NEW c \in Calls, Attempt(c) PROVE ReturnsJustified'
  BY <1>6, BreakerAssumption DEF Attempt, TypeOK
<1>7. ASSUME NEW c \in Calls, AttemptCancelled(c) PROVE ReturnsJustified'
  BY <1>7, BreakerAssumption DEF AttemptCancelled, ReturnFromRetry, TypeOK, Answers, ErrorKinds
<1>8. ASSUME NEW c \in Calls, NEW k \in FnAnswers(c), FnReturns(c, k)
      PROVE  ReturnsJustified'
  <2>1. k \in Answers /\ (KindToClass(k) = "retryable" <=> IsRetryable(k))
    BY AnswersTyped, ClassesAgree
  <2>2. tries[c] > 0 /\ tries[c] \in 0..MaxAttempts
    BY <1>8 DEF FnReturns, TypeOK
  <2>3. k = OK => ~IsRetryable(k)
    BY DEF IsRetryable, OK
  <2>4. CASE k # OK /\ IsRetryable(k) /\ tries[c] < MaxAttempts
    BY <1>8, <2>1, <2>2, <2>4, BreakerAssumption DEF FnReturns, TypeOK
  <2>5. CASE ~(k # OK /\ IsRetryable(k) /\ tries[c] < MaxAttempts)
    <3>1. ~IsRetryable(k) \/ tries[c] = MaxAttempts
      BY <2>2, <2>3, <2>5, BreakerAssumption
    <3> QED BY <1>8, <2>1, <2>2, <2>5, <3>1 DEF FnReturns, ReturnFromRetry, TypeOK
  <2> QED BY <2>4, <2>5
<1>9. ASSUME NEW c \in Calls, BackoffElapses(c) PROVE ReturnsJustified'
  BY <1>9 DEF BackoffElapses, TypeOK
<1>10. ASSUME NEW c \in Calls, BackoffCancelled(c) PROVE ReturnsJustified'
  BY <1>10, BreakerAssumption DEF BackoffCancelled, ReturnFromRetry, TypeOK, Answers, ErrorKinds
<1>11. ASSUME NEW c \in Calls, Settle(c) PROVE ReturnsJustified'
  BY <1>11 DEF Settle, LocalsGone, TypeOK
<1>12. UNCHANGED vars \/ Tick \/ ProviderFlips => UNCHANGED locals
  BY DEF vars, locals, Tick, ProviderFlips
<1> QED
  BY <1>1, <1>2, <1>3, <1>4, <1>5, <1>6, <1>7, <1>8, <1>9, <1>10, <1>11, <1>12
     DEF Next, CallStep

LEMMA Invariance == Spec => []IInv
<1>1. IInv /\ [Next]_vars => IInv'
  BY NextTypeOK, NextClosedIff, NextReturnsJustified DEF IInv
<1> QED BY InitIInv, <1>1, PTL DEF Spec

-----------------------------------------------------------------------------
\* Every variable keeps its type: no counter passes its bound, however many
\* callers share the breaker.
THEOREM TypeCorrect == Spec => []TypeOK
<1>1. IInv => TypeOK
  BY DEF IInv
<1> QED BY Invariance, <1>1, PTL

\* The breaker is closed exactly while fewer than Threshold retryable failures
\* have been recorded since the last success.
THEOREM CounterTellsState == Spec => []ClosedIffBelowThreshold
<1>1. IInv => ClosedIffBelowThreshold
  BY DEF IInv
<1> QED BY Invariance, <1>1, PTL

\* Attempts and returned values are justified by the answers before them.
THEOREM AttemptsAndReturns == Spec => []ReturnsJustified
<1>1. IInv => ReturnsJustified
  BY DEF IInv
<1> QED BY Invariance, <1>1, PTL

\* Only Settle(c) takes call c from "settle" to "idle".
LEMMA ReturnsOnlyBySettling ==
    ASSUME TypeOK, Next, NEW c \in Calls, pc[c] = "settle", pc'[c] = "idle"
    PROVE  Settle(c)
<1>1. ASSUME Tick \/ ProviderFlips PROVE pc' = pc
  BY <1>1 DEF Tick, ProviderFlips, locals
<1>2. ASSUME NEW d \in Calls, Call(d) \/ CtxEnds(d) PROVE pc'[c] # "idle"
  BY <1>2 DEF Call, CtxEnds, TypeOK
<1>3. ASSUME NEW d \in Calls, Reject(d) \/ Admit(d) \/ Attempt(d) \/ AttemptCancelled(d)
      PROVE  pc'[c] # "idle"
  BY <1>3 DEF Reject, LocalsGone, Admit, Attempt, AttemptCancelled, ReturnFromRetry, TypeOK
<1>4. ASSUME NEW d \in Calls, NEW k, FnReturns(d, k) PROVE pc'[c] # "idle"
  BY <1>4 DEF FnReturns, ReturnFromRetry, TypeOK
<1>5. ASSUME NEW d \in Calls, BackoffElapses(d) \/ BackoffCancelled(d) PROVE pc'[c] # "idle"
  BY <1>5 DEF BackoffElapses, BackoffCancelled, ReturnFromRetry, TypeOK
<1>6. ASSUME NEW d \in Calls, Settle(d), d # c PROVE pc'[c] # "idle"
  BY <1>6 DEF Settle, LocalsGone, TypeOK
<1> QED BY <1>1, <1>2, <1>3, <1>4, <1>5, <1>6 DEF Next, CallStep

\* One retryable failure recorded while half-open reopens the breaker, because
\* a breaker that is not closed still holds Threshold failures.
THEOREM TrialFailureReopens == Spec => HalfOpenFailureReopens
<1> DEFINE Failed(c) == /\ pc[c] = "settle" /\ pc'[c] = "idle"
                        /\ IsRetryable(result[c]) /\ state = "halfopen"
<1>1. IInv /\ [Next]_vars =>
        [\A c \in Calls :
            (pc[c] = "settle" /\ pc'[c] = "idle" /\ IsRetryable(result[c])
               /\ state = "halfopen")
            => (state' = "open" /\ age' = 0)]_vars
  <2> SUFFICES ASSUME IInv, Next, NEW c \in Calls, Failed(c)
               PROVE  state' = "open" /\ age' = 0
    OBVIOUS
  <2>1. Settle(c)
    BY ReturnsOnlyBySettling DEF IInv
  <2>2. failures \in Nat /\ failures >= Threshold
    BY BreakerAssumption DEF IInv, TypeOK, ClosedIffBelowThreshold
  <2>3. IsRetryable(result[c]) /\ result[c] # OK
    BY DEF IsRetryable, OK
  <2> QED BY <2>1, <2>2, <2>3, BreakerAssumption
          DEF Settle, Record, RecordFailure, Incremented
<1> QED BY Invariance, <1>1, PTL DEF Spec, HalfOpenFailureReopens

-----------------------------------------------------------------------------
(* Termination: every step of a call costs it some of StepsLeft.           *)

\* StepsLeft where the calls are, by its cases.
LEMMA StepsLeftValues ==
    ASSUME TypeOK, NEW c \in Calls
    PROVE  LET budget == 3 * (MaxAttempts - tries[c])
           IN  /\ budget \in Nat
               /\ pc[c] = "idle" => StepsLeft(c) = 0
               /\ pc[c] = "enter" => StepsLeft(c) = budget + 2
               /\ pc[c] = "loop" => StepsLeft(c) = budget + 1
               /\ pc[c] = "inflight" => StepsLeft(c) = budget + 3
               /\ pc[c] = "backoff" => StepsLeft(c) = budget + 2
               /\ pc[c] = "settle" => StepsLeft(c) = 1
               /\ StepsLeft(c) \in Nat
<1>1. tries[c] \in 0..MaxAttempts /\ MaxAttempts \in Nat /\ pc[c] \in PCs
  BY BreakerAssumption DEF TypeOK
<1> QED BY <1>1 DEF StepsLeft, PCs

\* A step that moves c leaves it less to do.
LEMMA OwnStepsCost ==
    ASSUME IInv, TypeOK', NEW c \in Calls, CallStep(c)
    PROVE  StepsLeft(c)' < StepsLeft(c)
<1> DEFINE b == MaxAttempts - tries[c]
           a == MaxAttempts - tries'[c]
           here == StepsLeft(c)
           there == StepsLeft(c)'
<1>1. /\ 3 * b \in Nat /\ here \in Nat
      /\ pc[c] = "idle" => here = 0
      /\ pc[c] = "enter" => here = 3 * b + 2
      /\ pc[c] = "loop" => here = 3 * b + 1
      /\ pc[c] = "inflight" => here = 3 * b + 3
      /\ pc[c] = "backoff" => here = 3 * b + 2
      /\ pc[c] = "settle" => here = 1
  BY StepsLeftValues DEF IInv
<1>2. /\ 3 * a \in Nat /\ there \in Nat
      /\ pc'[c] = "idle" => there = 0
      /\ pc'[c] = "loop" => there = 3 * a + 1
      /\ pc'[c] = "inflight" => there = 3 * a + 3
      /\ pc'[c] = "backoff" => there = 3 * a + 2
      /\ pc'[c] = "settle" => there = 1
  <2>1. tries'[c] \in 0..MaxAttempts /\ MaxAttempts \in Nat /\ pc'[c] \in PCs
    BY BreakerAssumption DEF TypeOK
  <2> QED BY <2>1 DEF StepsLeft, PCs
<1>3. /\ tries[c] \in 0..MaxAttempts /\ MaxAttempts \in Nat
      /\ pc \in [Calls -> PCs] /\ tries \in [Calls -> 0..MaxAttempts]
  BY BreakerAssumption DEF IInv, TypeOK
<1>4. pc[c] \in {"loop", "backoff"} => tries[c] < MaxAttempts
  BY DEF IInv, ReturnsJustified, AttemptDue
<1> HIDE DEF here, there
<1>5. CASE Reject(c) \/ Settle(c)
  <2>1. pc[c] \in {"enter", "settle"} /\ pc'[c] = "idle"
    BY <1>3, <1>5 DEF Reject, Settle, LocalsGone
  <2> QED BY <1>1, <1>2, <2>1 DEF here, there
<1>6. CASE Admit(c) \/ BackoffElapses(c)
  <2>1. pc[c] \in {"enter", "backoff"} /\ pc'[c] = "loop" /\ tries' = tries
    BY <1>3, <1>6 DEF Admit, BackoffElapses
  <2> QED BY <1>1, <1>2, <2>1 DEF here, there
<1>7. CASE Attempt(c)
  <2>1. pc[c] = "loop" /\ pc'[c] = "inflight" /\ tries'[c] = tries[c] + 1
    BY <1>3, <1>7 DEF Attempt
  <2> QED BY <1>1, <1>2, <1>3, <2>1 DEF here, there
<1>8. CASE AttemptCancelled(c) \/ BackoffCancelled(c)
  <2>1. pc[c] \in {"loop", "backoff"} /\ pc'[c] = "settle"
    BY <1>3, <1>8 DEF AttemptCancelled, BackoffCancelled, ReturnFromRetry
  <2> QED BY <1>1, <1>2, <1>3, <1>4, <2>1 DEF here, there
<1>9. ASSUME NEW k, FnReturns(c, k) PROVE there < here
  <2>1. pc[c] = "inflight" /\ pc'[c] \in {"backoff", "settle"} /\ tries' = tries
    BY <1>3, <1>9 DEF FnReturns, ReturnFromRetry
  <2> QED BY <1>1, <1>2, <2>1
<1> QED BY <1>5, <1>6, <1>7, <1>8, <1>9 DEF CallStep, here, there

\* Whatever else happens does not touch a call in progress.
LEMMA OthersCostNothing ==
    ASSUME TypeOK, [Next]_vars, NEW c \in Calls, pc[c] # "idle", ~CallStep(c)
    PROVE  pc'[c] = pc[c] /\ tries'[c] = tries[c]
<1>1. CASE UNCHANGED vars
  BY <1>1 DEF vars
<1>2. CASE Tick \/ ProviderFlips
  BY <1>2 DEF Tick, ProviderFlips, locals
<1>3. ASSUME NEW d \in Calls, Call(d) \/ CtxEnds(d)
      PROVE  pc'[c] = pc[c] /\ tries'[c] = tries[c]
  BY <1>3 DEF Call, CtxEnds, TypeOK
<1>4. ASSUME NEW d \in Calls, CallStep(d)
      PROVE  pc'[c] = pc[c] /\ tries'[c] = tries[c]
  <2>1. d # c /\ pc \in [Calls -> PCs] /\ tries \in [Calls -> 0..MaxAttempts]
    BY <1>4 DEF TypeOK
  <2>2. \E at : pc' = [pc EXCEPT ![d] = at]
    BY <1>4 DEF CallStep, Reject, Admit, Attempt, AttemptCancelled, FnReturns, BackoffElapses,
                BackoffCancelled, Settle, LocalsGone, ReturnFromRetry
  <2>3. \E n : tries' = [tries EXCEPT ![d] = n] \/ tries' = tries
    BY <1>4 DEF CallStep, Reject, Admit, Attempt, AttemptCancelled, FnReturns, BackoffElapses,
                BackoffCancelled, Settle, LocalsGone, ReturnFromRetry
  <2> QED BY <2>1, <2>2, <2>3
<1> QED BY <1>1, <1>2, <1>3, <1>4 DEF Next

\* retry.go: a call of any number of callers under any thresholds returns after at most
\* 3 * MaxAttempts + 2 of its own steps.
THEOREM CallsTerminate == Spec => CallsRunDown
<1>1. IInv /\ [Next]_vars =>
        [\A c \in Calls :
          pc[c] # "idle" => /\ StepsLeft(c)' \in 0..StepsLeft(c)
                            /\ pc'[c] # pc[c] => StepsLeft(c)' < StepsLeft(c)]_vars
  <2> SUFFICES ASSUME IInv, [Next]_vars, NEW c \in Calls, pc[c] # "idle"
               PROVE  /\ StepsLeft(c)' \in 0..StepsLeft(c)
                      /\ pc'[c] # pc[c] => StepsLeft(c)' < StepsLeft(c)
    OBVIOUS
  <2>1. TypeOK'
    BY NextTypeOK
  <2>2. StepsLeft(c) \in Nat /\ StepsLeft(c)' \in Nat
    <3>1. StepsLeft(c) \in Nat
      BY StepsLeftValues DEF IInv
    <3>2. tries'[c] \in 0..MaxAttempts /\ MaxAttempts \in Nat /\ pc'[c] \in PCs
      BY <2>1, BreakerAssumption DEF TypeOK
    <3> QED BY <3>1, <3>2 DEF StepsLeft, PCs
  <2>3. CASE CallStep(c)
    BY <2>1, <2>2, <2>3, OwnStepsCost
  <2>4. CASE ~CallStep(c)
    <3>1. pc'[c] = pc[c] /\ tries'[c] = tries[c]
      BY <2>4, OthersCostNothing DEF IInv
    <3>2. StepsLeft(c)' = StepsLeft(c)
      BY <3>1 DEF StepsLeft
    <3> QED BY <2>2, <3>1, <3>2
  <2> QED BY <2>3, <2>4
<1> QED BY Invariance, <1>1, PTL DEF Spec, CallsRunDown

-----------------------------------------------------------------------------
(* Refinement: do and withRetry implement RunContract.                     *)

Phase == [c \in Calls |-> PhaseOf(pc[c])]
Ended == [c \in Calls |-> ended[c] # "live"]
Returned == [c \in Calls |-> IF pc[c] = "idle" THEN result[c] ELSE "none"]

\* RunContract's copy of the error taxonomy is this module's.
LEMMA SameTaxonomy ==
    /\ Contract!Answers = Answers
    /\ Contract!Contexts = Contexts
    /\ \A k : Contract!IsRetryable(k) = IsRetryable(k)
  BY DEF Contract!Answers, Contract!ErrorKinds, Contract!OK, Contract!Contexts,
         Contract!IsRetryable, Answers, ErrorKinds, OK, Contexts, IsRetryable

\* A call starts in the contract when it enters do().
LEMMA CallMaps ==
    ASSUME IInv, NEW c \in Calls, Call(c)
    PROVE  Contract!Start(c)
<1>1. Phase[c] = "idle" /\ Phase' = [Phase EXCEPT ![c] = "ready"]
  BY DEF Call, IInv, TypeOK, PCs, Phase, PhaseOf
<1>2. Returned' = [Returned EXCEPT ![c] = "none"]
  BY DEF Call, IInv, TypeOK, PCs, Returned
<1> QED BY <1>1, <1>2 DEF Call, Contract!Start, Phase, Returned

LEMMA CtxEndsMaps ==
    ASSUME IInv, NEW c \in Calls, CtxEnds(c)
    PROVE  Contract!CtxEnds(c)
<1>1. Phase[c] # "idle"
  BY DEF CtxEnds, IInv, TypeOK, PCs, Phase, PhaseOf
<1>2. Ended' = [Ended EXCEPT ![c] = TRUE]
  BY DEF CtxEnds, IInv, TypeOK, Ended
<1> QED BY <1>1, <1>2 DEF CtxEnds, Contract!CtxEnds, Phase, Ended

LEMMA AttemptMaps ==
    ASSUME IInv, NEW c \in Calls, Attempt(c)
    PROVE  Contract!Invoke(c)
<1>1. Phase[c] = "ready" /\ Phase' = [Phase EXCEPT ![c] = "calling"]
  BY DEF Attempt, IInv, TypeOK, PCs, Phase, PhaseOf
<1>2. Returned' = Returned
  BY DEF Attempt, IInv, TypeOK, PCs, Returned
<1>3. Contract!MayInvoke(c)
  BY SameTaxonomy DEF Attempt, IInv, ReturnsJustified, AttemptDue, Contract!MayInvoke
<1> QED BY <1>1, <1>2, <1>3 DEF Attempt, Contract!Invoke, Phase, Returned

LEMMA FnReturnsMaps ==
    ASSUME IInv, NEW c \in Calls, NEW k \in FnAnswers(c), FnReturns(c, k)
    PROVE  Contract!Answer(c, k) /\ k \in Answers
<1>1. Phase[c] = "calling" /\ Phase' = [Phase EXCEPT ![c] = "ready"]
  BY DEF FnReturns, ReturnFromRetry, IInv, TypeOK, PCs, Phase, PhaseOf
<1>2. Returned' = Returned
  BY DEF FnReturns, ReturnFromRetry, IInv, TypeOK, PCs, Returned
<1>3. k \in Answers
  BY AnswersTyped DEF IInv
<1> QED BY <1>1, <1>2, <1>3 DEF FnReturns, Contract!Answer, Phase, Returned

LEMMA RejectMaps ==
    ASSUME IInv, NEW c \in Calls, Reject(c)
    PROVE  Contract!Finish(c, "unavailable")
<1>1. Phase[c] = "ready" /\ Phase' = [Phase EXCEPT ![c] = "idle"]
  BY DEF Reject, LocalsGone, IInv, TypeOK, PCs, Phase, PhaseOf
<1>2. Returned' = [Returned EXCEPT ![c] = "unavailable"]
  BY DEF Reject, LocalsGone, IInv, TypeOK, PCs, Returned
<1>3. Contract!MayReturn(c, "unavailable")
  BY DEF Reject, IInv, ReturnsJustified, Contract!MayReturn
<1> QED BY <1>1, <1>2, <1>3
       DEF Reject, LocalsGone, Contract!Finish, Contract!Leave, Ended, Phase, Returned, IInv, TypeOK

LEMMA SettleMaps ==
    ASSUME IInv, NEW c \in Calls, Settle(c), NEW r, r = result[c]
    PROVE  Contract!Finish(c, r) /\ r \in Answers
<1>1. Phase[c] = "ready" /\ Phase' = [Phase EXCEPT ![c] = "idle"]
  BY DEF Settle, LocalsGone, IInv, TypeOK, PCs, Phase, PhaseOf
<1>2. Returned' = [Returned EXCEPT ![c] = r]
  BY DEF Settle, LocalsGone, IInv, TypeOK, PCs, Returned
<1>3. Contract!MayReturn(c, r)
  BY SameTaxonomy
     DEF Settle, IInv, ReturnsJustified, AnswerFinal, Contract!MayReturn, Contract!Final
<1>4. r \in Answers
  BY DEF Settle, IInv, ReturnsJustified
<1> QED BY <1>1, <1>2, <1>3, <1>4
       DEF Settle, LocalsGone, Contract!Finish, Contract!Leave, Ended, Phase, Returned, IInv, TypeOK

\* The steps the contract does not see: the breaker's and the clock's, and the
\* moves between attempts.
LEMMA HiddenSteps ==
    ASSUME IInv,
           \/ UNCHANGED vars
           \/ Tick
           \/ ProviderFlips
           \/ \E c \in Calls : \/ Admit(c) \/ AttemptCancelled(c)
                              \/ BackoffElapses(c) \/ BackoffCancelled(c)
    PROVE  UNCHANGED Contract!vars
<1>1. UNCHANGED <<tries, last, ended>> /\ Phase' = Phase /\ Returned' = Returned
  BY DEF vars, Tick, ProviderFlips, Admit, AttemptCancelled, BackoffElapses,
         BackoffCancelled, ReturnFromRetry, locals, IInv, TypeOK, PCs, Phase, PhaseOf,
         Returned
<1> QED BY <1>1 DEF Contract!vars, Phase, Returned

\* Every behaviour of the retry loop under the breaker is one RunContract
\* allows: what the callers of Store.run may rely on.
THEOREM Refinement == Spec => ImplementsContract
<1>1. Init => Contract!Init
  BY DEF Init, Contract!Init, PhaseOf
<1>2. IInv /\ [Next]_vars => [Contract!Next]_Contract!vars
  <2> SUFFICES ASSUME IInv, [Next]_vars PROVE [Contract!Next]_Contract!vars
    OBVIOUS
  <2>1. ASSUME NEW c \in Calls, Call(c) \/ CtxEnds(c) \/ Attempt(c)
        PROVE  Contract!Next
    BY <2>1, CallMaps, CtxEndsMaps, AttemptMaps DEF Contract!Next
  <2>4. ASSUME NEW c \in Calls, Reject(c) PROVE Contract!Next
    <3>1. "unavailable" \in Contract!Answers
      BY SameTaxonomy DEF Answers, ErrorKinds
    <3> QED BY <2>4, <3>1, RejectMaps DEF Contract!Next
  <2>2. ASSUME NEW c \in Calls, NEW k \in FnAnswers(c), FnReturns(c, k)
        PROVE  Contract!Next
    BY <2>2, FnReturnsMaps, SameTaxonomy DEF Contract!Next
  <2>3. ASSUME NEW c \in Calls, Settle(c) PROVE Contract!Next
    <3>1. PICK r : r = result[c]
      OBVIOUS
    <3>2. Contract!Finish(c, r) /\ r \in Contract!Answers
      BY <2>3, <3>1, SettleMaps, SameTaxonomy
    <3> QED BY <3>2 DEF Contract!Next
  <2> QED BY <2>1, <2>2, <2>3, <2>4, HiddenSteps DEF Next, CallStep
<1> QED BY Invariance, <1>1, <1>2, PTL DEF Spec, ImplementsContract, Contract!Spec
=============================================================================
