---------------------------- MODULE MemoryStore ----------------------------
(***************************************************************************)
(* A Store (blobstore.go, multipart.go) over the in-memory adapter.  Every *)
(* method of the adapter is one critical section under a.mu; PutObject and *)
(* UploadPart read the caller's reader inside of theirs, which may fail,   *)
(* and which may itself wait for another call on the same store.  Around   *)
(* the adapter: Store.run (RunContract) with its attempts, Delete's own    *)
(* head, Health and Close.  Each multipart call has a session of its own.  *)
(***************************************************************************)
EXTENDS MemoryTables, FiniteSets

CONSTANTS Procs,        \* callers, one call at a time each
          Requests,     \* the calls they make
          Workloads,    \* bound: which of them an instance makes
          Faults,       \* what Health of an adapter around this one may report
          MaxAttempts,  \* retryPolicy.MaxAttempts
          Nobody

ASSUME MemoryAssumption ==
    /\ MaxAttempts \in Nat \ {0} /\ MaxUploads \in Nat
    /\ Nobody \notin Procs /\ IsFiniteSet(Procs)
    /\ Faults \subseteq ErrorKinds
    /\ Workloads \subseteq SUBSET Requests
    /\ Requests \subseteq
         [op : {"put", "get", "head", "delete", "copy", "initiate", "upload", "list",
                "complete", "abort", "health", "close"},
          key : Keys, target : Keys, strict : BOOLEAN, data : Data, summed : BOOLEAN,
          fed : BOOLEAN, id : 1..MaxUploads, part : PartNumbers]

VARIABLES
    phase, tries, last, ended, result,  \* Store.run's, one call per process
    work,     \* the calls of this instance
    stage,    \* "free", "check" (Delete's head), "run", "probe", "close"
    req,      \* the call's arguments
    rest,     \* what is left of the call's reader
    owed,     \* the reader waits for another call: its feeder's Get
    value,    \* what the adapter method returned besides its error
    holder,   \* who reads a body under a.mu, or Nobody
    tables,   \* the adapter's objects, uploads, inMemoryUploadSeq and closed
    closed,   \* Store.closed
    gauge     \* the health gauge

runVars == <<phase, tries, last, ended, result>>
callVars == <<stage, req, rest, owed, value>>
vars == <<runVars, work, callVars, holder, tables, closed, gauge>>

Run == INSTANCE RunContract WITH Calls <- Procs

NoRequest == [op |-> "none"]

TypeOK ==
    /\ phase \in [Procs -> {"idle", "ready", "calling"}]
    /\ tries \in [Procs -> 0..MaxAttempts]
    /\ last \in [Procs -> Answers \cup {"none"}]
    /\ ended \in [Procs -> BOOLEAN]
    /\ result \in [Procs -> Answers \cup {"none"}]
    /\ stage \in [Procs -> {"free", "check", "run", "probe", "close"}]
    /\ req \in [Procs -> Requests \cup {NoRequest}]
    /\ rest \in [Procs -> Rests]
    /\ owed \in [Procs -> BOOLEAN]
    /\ holder \in Procs \cup {Nobody}
    /\ holder # Nobody => phase[holder] = "calling" /\ ReadsBody(req[holder])
    /\ tables \in Tables
    /\ value \in [Procs -> Values]
    /\ closed \in BOOLEAN
    /\ gauge \in {"unset", "0", "0.5", "1"}

Init == /\ Run!Init
        /\ work \in Workloads
        /\ stage = [p \in Procs |-> "free"]
        /\ req = [p \in Procs |-> NoRequest]
        /\ rest = [p \in Procs |-> "whole"]
        /\ owed = [p \in Procs |-> FALSE]
        /\ value = [p \in Procs |-> Nothing]
        /\ holder = Nobody
        /\ tables = NewTables
        /\ closed = FALSE
        /\ gauge = "unset"

-----------------------------------------------------------------------------
(* The head of an operation: checkClosed, then the call.                   *)

StageOf(r) == CASE r.op = "health" -> "probe"
                [] r.op = "close" -> "close"
                [] r.op = "delete" /\ r.strict -> "check"
                [] OTHER -> "run"

Initiates == {q \in Procs : req[q].op = "initiate"}

\* Store.closed turns the call away; a second Close returns nil at once.
TurnAway(p, r) ==
    /\ stage[p] = "free"
    /\ closed
    /\ result' = [result EXCEPT ![p] = IF r.op = "close" THEN OK ELSE "closed"]
    /\ UNCHANGED <<phase, tries, last, ended, work, callVars, holder, tables, closed, gauge>>

Begin(p, r) ==
    /\ stage[p] = "free"
    /\ ~closed
    /\ r.op = "initiate" => tables.seq + Cardinality(Initiates) < MaxUploads
    /\ stage' = [stage EXCEPT ![p] = StageOf(r)]
    /\ req' = [req EXCEPT ![p] = r]
    /\ owed' = [owed EXCEPT ![p] = r.fed]
    /\ closed' = (r.op = "close")
    /\ IF StageOf(r) \in {"check", "run"}
         THEN Run!Start(p)
         ELSE /\ result' = [result EXCEPT ![p] = "none"]
              /\ UNCHANGED <<phase, tries, last, ended>>
    /\ UNCHANGED <<work, rest, value, holder, tables, gauge>>

CtxEnds(p) == /\ Run!CtxEnds(p)
              /\ ~ended[p]
              /\ UNCHANGED <<work, callVars, holder, tables, closed, gauge>>

\* An attempt: fn calls the adapter's method, which waits for a.mu.
Invoke(p) == /\ Run!Invoke(p)
             /\ UNCHANGED <<work, callVars, holder, tables, closed, gauge>>

-----------------------------------------------------------------------------
(* The adapter's critical sections.                                        *)

\* The method called in an attempt: Delete's head first, for a strict Delete.
Method(p) == IF stage[p] = "check" THEN [req[p] EXCEPT !.op = "head"] ELSE req[p]

\* Mutant: the method looks at its context after it has taken effect.
MethodReturnsCanceled(p, e) ==
    /\ Run!Answer(p, IF ended[p] THEN "canceled" ELSE e.answer)
    /\ tables' = e.tables
    /\ value' = IF stage[p] = "check" THEN value ELSE [value EXCEPT ![p] = e.value]
    /\ holder' = Nobody
    /\ UNCHANGED <<work, stage, req, owed, closed, gauge>>

\* The method returns the outcome e, and unlocks.
MethodReturns(p, e) ==
    /\ Run!Answer(p, e.answer)
    /\ tables' = e.tables
    /\ value' = IF stage[p] = "check" THEN value ELSE [value EXCEPT ![p] = e.value]
    /\ holder' = Nobody
    /\ UNCHANGED <<work, stage, req, owed, closed, gauge>>

\* PutObject and UploadPart read the body if the adapter is open and, for a part,
\* knows the upload.
WaitsForReader(p) == /\ ReadsBody(Method(p))
                     /\ ~tables.closed
                     /\ Method(p).op = "upload" => Known(tables, Method(p))

\* A method that reads no body, or does not get so far.
Section(p) == /\ phase[p] = "calling"
              /\ holder = Nobody
              /\ ~WaitsForReader(p)
              /\ MethodReturns(p, Effect(tables, Method(p), Empty))
              /\ UNCHANGED rest

Lock(p) == /\ phase[p] = "calling"
           /\ holder = Nobody
           /\ WaitsForReader(p)
           /\ holder' = p
           /\ UNCHANGED <<runVars, work, callVars, tables, closed, gauge>>

\* io.ReadAll comes to the end of the reader.
ReadEnds(p) == /\ holder = p
               /\ ~owed[p]
               /\ MethodReturns(p, Effect(tables, req[p], Content(req[p], rest[p])))
               /\ rest' = [rest EXCEPT ![p] = "empty"]

\* Mutant: an error return without the unlock.
ReadFailsLocked(p) ==
    /\ holder = p
    /\ ~owed[p]
    /\ Run!Answer(p, "unavailable")
    /\ rest' \in {[rest EXCEPT ![p] = left] : left \in Rests}
    /\ UNCHANGED <<work, stage, req, owed, value, holder, tables, closed, gauge>>

\* The reader fails, some of it read.
Left(p) == CASE rest[p] = "whole" -> Rests
             [] rest[p] = "tail" -> {"tail", "empty"}
             [] rest[p] = "empty" -> {"empty"}

ReadFails(p) == /\ holder = p
                /\ ~owed[p]
                /\ \E left \in Left(p) : rest' = [rest EXCEPT ![p] = left]
                /\ MethodReturns(p, Failed(tables, "unavailable"))

-----------------------------------------------------------------------------
(* The end of a call.                                                      *)

\* A Get that has returned feeds the readers that wait for it.
Fed(p) == owed' = [q \in Procs |-> owed[q] /\ q # p /\ req[p].op # "get"]

Ends(p) == /\ stage' = [stage EXCEPT ![p] = "free"]
           /\ req' = [req EXCEPT ![p] = NoRequest]
           /\ rest' = [rest EXCEPT ![p] = "whole"]
           /\ value' = [value EXCEPT ![p] = Nothing]
           /\ Fed(p)
           /\ UNCHANGED <<work, holder>>

Finish(p, k) == /\ stage[p] = "run"
                /\ Run!Finish(p, k)
                /\ Ends(p)
                /\ UNCHANGED <<tables, closed, gauge>>

\* Delete's head has returned k: an error ends the call, or the delete is next in
\* the same context.
FinishCheck(p, k) ==
    /\ stage[p] = "check"
    /\ IF k = OK
         THEN /\ phase[p] = "ready" /\ Run!MayReturn(p, k)
              /\ tries' = [tries EXCEPT ![p] = 0]
              /\ last' = [last EXCEPT ![p] = "none"]
              /\ stage' = [stage EXCEPT ![p] = "run"]
              /\ UNCHANGED <<phase, ended, result, work, req, rest, owed, value, holder>>
         ELSE Run!Finish(p, k) /\ Ends(p)
    /\ UNCHANGED <<tables, closed, gauge>>

-----------------------------------------------------------------------------
(* Lifecycle.                                                              *)

\* HealthReport.ProviderStatus for an error, and the gauge for a status.
StatusOf(k) == CASE k \in {"connection", "unavailable", "timeout"} -> "unreachable"
                 [] k \in {"auth", "config"} -> "config_error"
                 [] OTHER -> "degraded"
gaugeForStatus(status) == CASE status \in {"ready", "ok"} -> "1"
                            [] status = "degraded" -> "0.5"
                            [] OTHER -> "0"

\* Health: the adapter's answer k, the gauge and the report.
Report(p, k) ==
    /\ stage[p] = "probe"
    /\ holder = Nobody
    /\ IF tables.closed THEN k = "closed" ELSE k \in {OK} \cup Faults
    /\ gauge' = IF k = OK THEN gauge ELSE gaugeForStatus(StatusOf(k))
    /\ result' = [result EXCEPT ![p] = k]
    /\ Ends(p)
    /\ UNCHANGED <<phase, tries, last, ended, tables, closed>>

CloseAdapter(p) == /\ stage[p] = "close"
                   /\ holder = Nobody
                   /\ tables' = Cleared(tables)
                   /\ result' = [result EXCEPT ![p] = OK]
                   /\ Ends(p)
                   /\ UNCHANGED <<phase, tries, last, ended, closed, gauge>>

-----------------------------------------------------------------------------
\* Steps that wait for a.mu, and the others of a call in progress.
Enter(p) == \/ Section(p) \/ Lock(p) \/ CloseAdapter(p)
            \/ \E k \in {OK, "closed"} \cup Faults : Report(p, k)
Proceed(p) == \/ Invoke(p) \/ ReadEnds(p) \/ ReadFails(p)
              \/ \E k \in {last[p], "canceled", "unavailable"} : Finish(p, k) \/ FinishCheck(p, k)

Next == \E p \in Procs :
            \/ \E r \in work : Begin(p, r) \/ TurnAway(p, r)
            \/ CtxEnds(p)
            \/ Enter(p) \/ Proceed(p)

Spec == Init /\ [][Next]_vars

\* A goroutine that can run is scheduled, a reader that waits for no call of this
\* store ends or fails, and a sync.Mutex in starvation mode goes to its waiters
\* in turn.
FairSpec == Spec /\ \A p \in Procs : WF_vars(Proceed(p)) /\ SF_vars(Enter(p))

-----------------------------------------------------------------------------
(* Properties.                                                             *)

\* inmemory.go: an object's checksum, if it has one, is that of its own body (what
\* ChecksumReader assumes of this adapter) and an open upload has an id that was
\* handed out, through puts, copies, publications and failed attempts; a Close leaves
\* nothing, and no call that was on its way, a retry or a body being read, brings
\* anything back.
SumsMatchBodies ==
    /\ \A k \in Keys : tables.objects[k].sums \subseteq {tables.objects[k].body}
    /\ \A i \in 1..MaxUploads : tables.uploads[i].open => i <= tables.seq /\ ~tables.closed
    /\ tables.closed => \A k \in Keys : ~tables.objects[k].here

\* The call has taken effect, or has learned that it cannot.
Decided(p) == /\ phase[p] = "ready"
              /\ tries[p] > 0
              /\ ~IsRetryable(last[p])
              /\ stage[p] = "check" => last[p] # OK

\* blobstore.go: with its attempts, its readers and Delete's separate head, every
\* call takes effect at one moment or not at all.
CallOf(p) == CASE stage[p] = "free" -> "none"
               [] stage[p] = "probe" -> "probing"
               [] stage[p] = "close" -> "closing"
               [] OTHER -> IF Decided(p) THEN "done" ELSE "pending"

\* The call as its caller could see it.
CallSeen == [p \in Procs |-> CallOf(p)]
RequestSeen == [p \in Procs |-> IF stage[p] \in {"check", "run"} THEN req[p] ELSE NoRequest]
OutcomeSeen == [p \in Procs |-> IF Decided(p) THEN [answer |-> last[p], value |-> value[p]]
                                ELSE [answer |-> "none", value |-> Nothing]]
ResultSeen == [p \in Procs |-> IF stage[p] = "free" THEN result[p] ELSE "none"]

Atomic == INSTANCE AtomicStore WITH
    closing <- closed,
    call <- CallSeen,
    req <- RequestSeen,
    outcome <- OutcomeSeen,
    result <- ResultSeen

ImplementsAtomicStore == Atomic!Spec

\* The mutex is held by a call whose reader waits for another call of the store.
Frozen == holder # Nobody /\ owed[holder]

\* Every call returns, a Close and a Health included, unless the store freezes for
\* good: readers that fail, retries and a Close in between leave nobody waiting.
EveryCallReturns ==
    []<>~Frozen => \A p \in Procs : stage[p] # "free" ~> stage[p] = "free"

-----------------------------------------------------------------------------
(* Claims of the repository that the code does not keep.                   *)

\* inmemory.go: "CompleteMultipart concatenates staged parts into the final object".
PublishesParts ==
    [][\A p \in Procs, i \in 1..MaxUploads :
         phase[p] = "calling" /\ req[p].op = "complete" /\ req[p].id = i /\ last'[p] = OK
         /\ tables.uploads[i].parts # {}
         => tables'.objects[tables.uploads[i].key].body # Empty]_vars

\* blobstore.go: "Close releases resources": they would be released when it returns.
CloseReleases ==
    [][\A p \in Procs : result[p] # OK /\ result'[p] = OK /\ closed => tables'.closed]_vars

\* CHANGELOG.md, HealthReport: the gauge tells the health that was reported last.
GaugeTellsHealth ==
    [][\A p \in Procs : stage[p] = "probe" /\ stage'[p] = "free" /\ result'[p] = OK
         => gauge' \in {"unset", "1"}]_vars
=============================================================================
