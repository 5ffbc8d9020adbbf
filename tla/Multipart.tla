----------------------------- MODULE Multipart -----------------------------
(***************************************************************************)
(* Multipart uploads end to end: multipartSession (multipart.go) on top of *)
(* Store.run, the aliyun adapter's table of upload handles (oss.go), and   *)
(* the object store behind it, reached by requests that can be lost, whose *)
(* answers can be lost, and that can take effect after the client gave up. *)
(*                                                                         *)
(* Each process makes one call at a time on the session SessionOf gives    *)
(* it.  A call is its request record; Store.run is RunContract, which      *)
(* RetryBreaker implements.  Within an attempt (phase "calling") step says *)
(* where the adapter method is.                                            *)
(***************************************************************************)
EXTENDS OssErrors, Naturals, Sequences, FiniteSets

CONSTANTS Procs,       \* callers
          Sessions,    \* multipartSession values
          SessionOf,   \* the session each caller uses
          Ids,         \* upload ids the store may hand out (bound)
          NoId,        \* not an upload id
          ETags,       \* contents a part may have
          MaxParts,    \* Config.Multipart.MaxParts
          PartLists,   \* arguments of Complete: sequences of [n, etag]
          Operations,  \* the operations callers make
          MaxAttempts, \* retryPolicy.MaxAttempts
          MaxLate,     \* bound on requests outliving their client's patience
          MaxRestarts, \* bound on restarts of the process
          MaxCloses    \* bound on Closes of the store between restarts: 0 or 1

ASSUME MultipartAssumption ==
    /\ MaxAttempts \in Nat \ {0}
    /\ MaxParts \in Nat
    /\ MaxLate \in Nat /\ MaxRestarts \in Nat /\ MaxCloses \in {0, 1}
    /\ SessionOf \in [Procs -> Sessions]
    /\ NoId \notin Ids
    /\ PartLists \subseteq Seq([n : Nat, etag : ETags \cup {"none"}])

VARIABLES
    phase, tries, last, ended, result,  \* Store.run's, one call per process
    stage,      \* "free", "run" (in Store.run), "unmark" (Complete after it)
    req,        \* the call's arguments
    step,       \* adapter method: "none", "entry", "lookup", "handle" (it has the
                \* upload's handle), "sent", "replied"
    reply,      \* what the adapter method is about to return
    newId,      \* the id InitiateMultipartUpload answered
    done,       \* multipartSession.done, as a set per session
    handles,    \* Adapter.uploads, as the set of its keys
    known,      \* ids an Initiate has returned to a caller
    storeClosed, adapterClosed, restarts,
    upload,     \* the object store: state of each upload
    staged,     \* ... its staged parts
    published,  \* ... the parts of the object it became
    late,       \* requests still on their way, given up by their client
    aborted     \* history: ids for which an Abort has returned nil

runVars == <<phase, tries, last, ended, result>>
callVars == <<stage, req, step, reply, newId>>
clientVars == <<done, handles, known, storeClosed, adapterClosed, restarts, aborted>>
providerVars == <<upload, staged, published>>
vars == <<runVars, callVars, clientVars, providerVars, late>>

Run == INSTANCE RunContract WITH Calls <- Procs

Requests ==
    [op : {"initiate"}, id : {NoId}, n : {0}, etag : {"none"}, parts : {<<>>}] \cup
    [op : {"upload"}, id : Ids, n : 0..(MaxParts + 1), etag : ETags, parts : {<<>>}] \cup
    [op : {"complete"}, id : Ids, n : {0}, etag : {"none"}, parts : PartLists] \cup
    [op : {"abort"}, id : Ids, n : {0}, etag : {"none"}, parts : {<<>>}]

NoRequest == [op |-> "none", id |-> NoId, n |-> 0, etag |-> "none", parts |-> <<>>]

TypeOK ==
    /\ phase \in [Procs -> {"idle", "ready", "calling"}]
    /\ tries \in [Procs -> 0..MaxAttempts]
    /\ last \in [Procs -> Answers \cup {"none"}]
    /\ ended \in [Procs -> BOOLEAN]
    /\ result \in [Procs -> Answers \cup {"none"}]
    /\ stage \in [Procs -> {"free", "run", "unmark"}]
    /\ req \in [Procs -> Requests \cup {NoRequest}]
    /\ step \in [Procs -> {"none", "entry", "lookup", "handle", "sent", "replied"}]
    /\ reply \in [Procs -> Answers \cup {"none"}]
    /\ newId \in [Procs -> Ids \cup {NoId}]
    /\ done \in [Sessions -> SUBSET Ids]
    /\ handles \subseteq Ids
    /\ known \subseteq Ids
    /\ storeClosed \in BOOLEAN
    /\ adapterClosed \in BOOLEAN
    /\ restarts \in 0..MaxRestarts
    /\ upload \in [Ids -> {"none", "open", "completed", "aborted"}]
    /\ late \subseteq Requests
    /\ aborted \subseteq Ids

Init ==
    /\ Run!Init
    /\ stage = [p \in Procs |-> "free"]
    /\ req = [p \in Procs |-> NoRequest]
    /\ step = [p \in Procs |-> "none"]
    /\ reply = [p \in Procs |-> "none"]
    /\ newId = [p \in Procs |-> NoId]
    /\ done = [s \in Sessions |-> {}]
    /\ handles = {} /\ known = {}
    /\ storeClosed = FALSE /\ adapterClosed = FALSE /\ restarts = 0
    /\ upload = [i \in Ids |-> "none"]
    /\ staged = [i \in Ids |-> {}]
    /\ published = [i \in Ids |-> <<>>]
    /\ late = {}
    /\ aborted = {}

-----------------------------------------------------------------------------
(* The object store (external): each request is served at once.            *)

\* A request takes effect and is answered k; i is the id an initiate opens.
Served(r, k, i) ==
    \/ /\ r.op = "initiate" /\ k = OK
       /\ i \in Ids /\ upload[i] = "none"
       /\ upload' = [upload EXCEPT ![i] = "open"]
       /\ UNCHANGED <<staged, published>>
    \/ /\ r.op = "upload" /\ upload[r.id] = "open" /\ k = OK /\ i = NoId
       /\ staged' = [staged EXCEPT ![r.id] =
                        {q \in @ : q.n # r.n} \cup {[n |-> r.n, etag |-> r.etag]}]
       /\ UNCHANGED <<upload, published>>
    \/ /\ r.op = "complete" /\ upload[r.id] = "open" /\ k = OK /\ i = NoId
       /\ \A j \in DOMAIN r.parts : r.parts[j] \in staged[r.id]
       /\ upload' = [upload EXCEPT ![r.id] = "completed"]
       /\ published' = [published EXCEPT ![r.id] = r.parts]
       /\ UNCHANGED staged
    \/ /\ r.op = "abort" /\ upload[r.id] = "open" /\ k = OK /\ i = NoId
       /\ upload' = [upload EXCEPT ![r.id] = "aborted"]
       /\ UNCHANGED <<staged, published>>

\* A request is refused: access denied, NoSuchUpload, or a part that is not staged
\* as listed (InvalidPart, a code mapServiceError does not know).
Refused(r, k) ==
    \/ k = "auth"
    \/ r.op # "initiate" /\ upload[r.id] # "open" /\ k = "not_found"
    \/ /\ r.op = "complete" /\ upload[r.id] = "open" /\ k = "internal"
       /\ \E j \in DOMAIN r.parts : r.parts[j] \notin staged[r.id]

-----------------------------------------------------------------------------
(* Calls on a session.                                                     *)

\* Mutant: Complete without the test that part numbers are contiguous.
AnyPartNumbers(r) ==
    /\ r.op = "upload" => r.n >= 1 /\ (MaxParts > 0 => r.n <= MaxParts)
    /\ r.op = "complete" => r.parts # <<>> /\ (MaxParts > 0 => Len(r.parts) <= MaxParts)

\* The checks of UploadPart and Complete on their arguments.
ValidArguments(r) ==
    /\ r.op = "upload" => r.n >= 1 /\ (MaxParts > 0 => r.n <= MaxParts)
    /\ r.op = "complete" =>
         /\ r.parts # <<>>
         /\ \A j \in DOMAIN r.parts : r.parts[j].n = j /\ r.parts[j].etag # "none"
         /\ MaxParts > 0 => Len(r.parts) <= MaxParts

\* Mutant: every failing return of Complete unmarks, the conflict one too.
ReturnEarlyUnmarks(p, r, k) ==
    /\ result' = [result EXCEPT ![p] = k]
    /\ done' = IF k = "conflict" THEN [done EXCEPT ![SessionOf[p]] = @ \ {r.id}] ELSE done
    /\ UNCHANGED <<phase, tries, last, ended, stage, req>>

\* A call returns k before it reaches Store.run.
ReturnEarly(p, r, k) == /\ result' = [result EXCEPT ![p] = k]
                        /\ UNCHANGED <<phase, tries, last, ended, stage, req, done>>

\* checkClosed, ctxErrCheck (the call starts with a live context), the argument
\* checks, markDone, and into Store.run.
Begin(p, r) ==
    /\ stage[p] = "free"
    /\ r.op \in Operations
    /\ r.op # "initiate" => r.id \in known
    /\ LET marked == r.id \in done[SessionOf[p]]
       IN  IF storeClosed THEN ReturnEarly(p, r, "closed")
           ELSE IF ~ValidArguments(r) THEN ReturnEarly(p, r, "validation")
           ELSE IF r.op = "complete" /\ marked THEN ReturnEarly(p, r, "conflict")
           ELSE /\ Run!Start(p)
                /\ req' = [req EXCEPT ![p] = r]
                /\ stage' = [stage EXCEPT ![p] = "run"]
                /\ done' = IF r.op \in {"complete", "abort"}
                              THEN [done EXCEPT ![SessionOf[p]] = @ \cup {r.id}]
                              ELSE done
    /\ UNCHANGED <<step, reply, newId, handles, known, storeClosed, adapterClosed,
                   restarts, aborted, providerVars, late>>

CtxEnds(p) == /\ Run!CtxEnds(p)
              /\ UNCHANGED <<callVars, clientVars, providerVars, late>>

\* Store.run calls the adapter.
Invoke(p) == /\ stage[p] = "run"
             /\ Run!Invoke(p)
             /\ step' = [step EXCEPT ![p] = "entry"]
             /\ UNCHANGED <<stage, req, reply, newId, clientVars, providerVars, late>>

\* The adapter method answers k without a request.
AnswerLocally(p, k) == /\ step' = [step EXCEPT ![p] = "replied"]
                       /\ reply' = [reply EXCEPT ![p] = k]
                       /\ UNCHANGED handles

\* The head of the adapter's method: is the adapter closed?
AdapterEntry(p) ==
    /\ step[p] = "entry"
    /\ IF adapterClosed THEN AnswerLocally(p, IF req[p].op = "abort" THEN OK ELSE "closed")
       ELSE /\ step' = [step EXCEPT ![p] = IF req[p].op = "initiate" THEN "sent" ELSE "lookup"]
            /\ UNCHANGED <<handles, reply>>
    /\ UNCHANGED <<runVars, stage, req, newId, done, known, storeClosed, adapterClosed,
                   restarts, aborted, providerVars, late>>

\* Mutant: Abort that leaves the handle in the table.
AdapterLookupKeepsHandle(p) ==
    /\ step[p] = "lookup"
    /\ IF req[p].id \notin handles
         THEN AnswerLocally(p, IF req[p].op = "abort" THEN OK ELSE "not_found")
         ELSE step' = [step EXCEPT ![p] = "handle"] /\ UNCHANGED <<handles, reply>>
    /\ UNCHANGED <<runVars, stage, req, newId, done, known, storeClosed, adapterClosed,
                   restarts, aborted, providerVars, late>>

\* ... then, under a.mu, the handle of the upload, which Abort takes out of the
\* table before its request.  The mutex is released before any request is sent.
AdapterLookup(p) ==
    /\ step[p] = "lookup"
    /\ LET r == req[p]
       IN  IF r.id \notin handles
             THEN AnswerLocally(p, IF r.op = "abort" THEN OK ELSE "not_found")
             ELSE /\ step' = [step EXCEPT ![p] = "handle"]
                  /\ handles' = IF r.op = "abort" THEN handles \ {r.id} ELSE handles
                  /\ UNCHANGED reply
    /\ UNCHANGED <<runVars, stage, req, newId, done, known, storeClosed, adapterClosed,
                   restarts, aborted, providerVars, late>>

\* The SDK sends the request, outside a.mu, whatever has become of the table.
Send(p) ==
    /\ step[p] = "handle"
    /\ step' = [step EXCEPT ![p] = "sent"]
    /\ UNCHANGED <<runVars, stage, req, reply, newId, clientVars, providerVars, late>>

\* The answer k reaches the adapter.
Replied(p, k) == /\ step' = [step EXCEPT ![p] = "replied"]
                 /\ reply' = [reply EXCEPT ![p] = k]
                 /\ UNCHANGED <<runVars, stage, req, clientVars>>

Serve(p) == /\ step[p] = "sent"
            /\ \/ \E i \in Ids \cup {NoId} :
                    /\ Served(req[p], OK, i)
                    /\ newId' = [newId EXCEPT ![p] = i]
                    /\ Replied(p, OK)
               \/ \E k \in {"auth", "not_found", "internal"} :
                    Refused(req[p], k) /\ Replied(p, k) /\ UNCHANGED <<newId, providerVars>>
            /\ UNCHANGED late

\* The request never arrives.
LoseRequest(p) == /\ step[p] = "sent"
                  /\ Replied(p, "timeout")
                  /\ UNCHANGED <<newId, providerVars, late>>

\* It took effect, but the answer never arrives.
LoseAnswer(p) == /\ step[p] = "sent"
                 /\ \E i \in Ids \cup {NoId} : Served(req[p], OK, i)
                 /\ Replied(p, "timeout")
                 /\ UNCHANGED <<newId, late>>

\* The client stops waiting while the request is on its way.
GiveUp(p) == /\ step[p] = "sent"
             /\ Cardinality(late) < MaxLate
             /\ late' = late \cup {req[p]}
             /\ Replied(p, "timeout")
             /\ UNCHANGED <<newId, providerVars>>

\* ... and it is served, or dropped, later.
LateRequest(r) == /\ r \in late
                  /\ late' = late \ {r}
                  /\ \/ \E i \in Ids \cup {NoId} : Served(r, OK, i)
                     \/ UNCHANGED providerVars
                  /\ UNCHANGED <<runVars, callVars, clientVars>>

\* Mutant: Complete's fn, like Abort's, turning not_found into nil.
FnReturnsTolerant(p) ==
    /\ step[p] = "replied"
    /\ Run!Answer(p, IF req[p].op \in {"abort", "complete"} /\ reply[p] = "not_found"
                       THEN OK ELSE reply[p])
    /\ handles' = IF req[p].op = "initiate" /\ reply[p] = OK
                    THEN handles \cup {newId[p]} ELSE handles
    /\ step' = [step EXCEPT ![p] = "none"]
    /\ reply' = [reply EXCEPT ![p] = "none"]
    /\ UNCHANGED <<stage, req, newId, done, known, storeClosed, adapterClosed, restarts,
                   aborted, providerVars, late>>

\* Mutant: InitiateMultipart recording the handle before it looks at the error.
FnReturnsUnchecked(p) ==
    /\ step[p] = "replied"
    /\ Run!Answer(p, IF req[p].op = "abort" /\ reply[p] = "not_found" THEN OK ELSE reply[p])
    /\ handles' = CASE req[p].op = "initiate" -> handles \cup {newId[p]}
                     [] req[p].op = "complete" /\ reply[p] = OK -> handles \ {req[p].id}
                     [] OTHER -> handles
    /\ step' = [step EXCEPT ![p] = "none"]
    /\ reply' = [reply EXCEPT ![p] = "none"]
    /\ UNCHANGED <<stage, req, newId, done, known, storeClosed, adapterClosed, restarts,
                   aborted, providerVars, late>>

\* The adapter method finishes, and fn returns to withRetry: Abort's fn turns
\* not_found into nil.
FnReturns(p) ==
    /\ step[p] = "replied"
    /\ LET r == req[p]
           k == reply[p]
       IN  /\ Run!Answer(p, IF r.op = "abort" /\ k = "not_found" THEN OK ELSE k)
           /\ handles' = CASE r.op = "initiate" /\ k = OK -> handles \cup {newId[p]}
                           [] r.op = "complete" /\ k = OK -> handles \ {r.id}
                           [] OTHER -> handles
    /\ step' = [step EXCEPT ![p] = "none"]
    /\ reply' = [reply EXCEPT ![p] = "none"]
    /\ UNCHANGED <<stage, req, newId, done, known, storeClosed, adapterClosed, restarts,
                   aborted, providerVars, late>>

\* The call is over, and its arguments with it.
Frees(p) == /\ stage' = [stage EXCEPT ![p] = "free"]
            /\ req' = [req EXCEPT ![p] = NoRequest]

\* What a call returns when Store.run returned k: UploadPart looks at the staged
\* part, which may have come without an ETag.
Reported(p, k) == IF req[p].op = "upload" /\ k = OK THEN {OK, "validation"} ELSE {k}

\* Store.run returns k; Complete has yet to unmark if it failed.
Finish(p, k) ==
    /\ stage[p] = "run"
    /\ phase[p] = "ready" /\ Run!MayReturn(p, k)
    /\ \E j \in Reported(p, k) : Run!Leave(p, j)
    /\ IF req[p].op = "complete" /\ k # OK
         THEN stage' = [stage EXCEPT ![p] = "unmark"] /\ UNCHANGED req
         ELSE Frees(p)
    /\ known' = IF req[p].op = "initiate" /\ k = OK THEN known \cup {newId[p]} ELSE known
    /\ aborted' = IF req[p].op = "abort" /\ k = OK THEN aborted \cup {req[p].id} ELSE aborted
    /\ newId' = [newId EXCEPT ![p] = NoId]
    /\ UNCHANGED <<step, reply, done, handles, storeClosed, adapterClosed,
                   restarts, providerVars, late>>

Unmark(p) == /\ stage[p] = "unmark"
             /\ done' = [done EXCEPT ![SessionOf[p]] = @ \ {req[p].id}]
             /\ Frees(p)
             /\ UNCHANGED <<runVars, step, reply, newId, handles, known, storeClosed,
                            adapterClosed, restarts, aborted, providerVars, late>>

-----------------------------------------------------------------------------
(* Store.Close: the flag, then the adapter.  A restart forgets everything   *)
(* but the object store and what is on its way to it.                      *)

CloseStore == /\ ~storeClosed /\ MaxCloses = 1
              /\ storeClosed' = TRUE
              /\ UNCHANGED <<runVars, callVars, done, handles, known, adapterClosed,
                             restarts, aborted, providerVars, late>>

CloseAdapter == /\ storeClosed /\ ~adapterClosed
                /\ adapterClosed' = TRUE
                /\ UNCHANGED <<runVars, callVars, done, handles, known, storeClosed,
                               restarts, aborted, providerVars, late>>

Restart ==
    /\ restarts < MaxRestarts
    /\ restarts' = restarts + 1
    /\ phase' = [p \in Procs |-> "idle"]
    /\ tries' = [p \in Procs |-> 0]
    /\ last' = [p \in Procs |-> "none"]
    /\ ended' = [p \in Procs |-> FALSE]
    /\ result' = [p \in Procs |-> "none"]
    /\ stage' = [p \in Procs |-> "free"]
    /\ req' = [p \in Procs |-> NoRequest]
    /\ step' = [p \in Procs |-> "none"]
    /\ reply' = [p \in Procs |-> "none"]
    /\ newId' = [p \in Procs |-> NoId]
    /\ done' = [s \in Sessions |-> {}]
    /\ handles' = {}
    /\ storeClosed' = FALSE /\ adapterClosed' = FALSE
    /\ \E sent \in SUBSET {req[p] : p \in {q \in Procs : step[q] = "sent"}} :
         /\ Cardinality(late \cup sent) <= MaxLate
         /\ late' = late \cup sent
    /\ UNCHANGED <<known, aborted, providerVars>>

-----------------------------------------------------------------------------
Next == \/ \E p \in Procs :
              \/ \E r \in Requests : Begin(p, r)
              \/ CtxEnds(p) \/ Invoke(p) \/ AdapterEntry(p) \/ AdapterLookup(p) \/ Send(p)
              \/ Serve(p) \/ LoseRequest(p) \/ LoseAnswer(p) \/ GiveUp(p)
              \/ FnReturns(p) \/ Unmark(p)
              \/ \E k \in Answers : Finish(p, k)
        \/ \E r \in late : LateRequest(r)
        \/ CloseStore \/ CloseAdapter \/ Restart

Spec == Init /\ [][Next]_vars

-----------------------------------------------------------------------------
(* Properties.                                                             *)

Completing(p) == req[p].op = "complete" /\ stage[p] \in {"run", "unmark"}

\* A Complete of p returns k: an OK one now, a failed one has yet to unmark.
CompleteReturns(p, k) == /\ req[p].op = "complete" /\ stage[p] = "run"
                         /\ stage'[p] # "run" /\ result'[p] = k

\* multipart.go: the done map lets at most one Complete of an upload id through
\* a session at a time, from markDone to the return or to the unmarking after a
\* failure, whatever aborts and failed Completes do to the map meanwhile.
OneCompleter ==
    \A p, q \in Procs :
        /\ Completing(p) /\ Completing(q)
        /\ SessionOf[p] = SessionOf[q] /\ req[p].id = req[q].id
        => p = q

\* multipart.go: a Complete that returned nil published exactly the parts it was
\* given, in whatever order its retries, other sessions' Completes and late
\* requests reached the store.
CompleteOkPublishes ==
    [][\A p \in Procs :
          CompleteReturns(p, OK) => published[req[p].id] = req[p].parts]_vars

\* multipart.go: whatever was published is parts 1..k in order, k <= MaxParts.
PublishedContiguous ==
    \A i \in Ids :
        /\ \A j \in DOMAIN published[i] : published[i][j].n = j
        /\ MaxParts > 0 => Len(published[i]) <= MaxParts

\* oss.go: once an Abort has returned nil, no attempt at an open adapter obtains the
\* handle of that upload, across a restart and after retries that hid a failure too,
\* so that only a method that had the handle before may still send a request for the
\* upload.  (A closed adapter answers Abort nil and keeps the handle, and an attempt
\* past the closed test may still obtain it.)
NoUseAfterAbort ==
    [][\A p \in Procs :
          step[p] = "lookup" /\ step'[p] = "handle"
          => req[p].id \notin aborted \/ adapterClosed]_vars

-----------------------------------------------------------------------------
(* Claims of the repository that the code does not keep.                   *)

\* multipart.go: "Abort cancels the upload and frees staged parts. Idempotent
\* and safe after partial failure".
AbortFrees == \A i \in aborted : upload[i] # "open"

\* multipart.go: "Complete/Abort are idempotent".  A Complete that reports there
\* is no such upload would not have published it.
NotFoundMeansUnpublished ==
    [][\A p \in Procs :
          CompleteReturns(p, "not_found") => published[req[p].id] # req[p].parts]_vars

\* multipart.go: "parts must be the full ordered set; missing or inconsistent
\* parts are rejected".
PublishedIsFullSet ==
    \A i \in Ids :
        published[i] # <<>> => staged[i] = {published[i][j] : j \in DOMAIN published[i]}
=============================================================================
