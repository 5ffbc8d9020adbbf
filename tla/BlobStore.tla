----------------------------- MODULE BlobStore -----------------------------
(***************************************************************************)
(* Put, Get, Head (and Exists), Delete and Copy of Store (blobstore.go) on *)
(* the aliyun adapter (oss.go) and the object store behind it.  One        *)
(* attempt of an operation is one or two requests (Wire); an attempt may   *)
(* fail anywhere and Store.run (RunContract) starts it again; Delete may   *)
(* run a "head" of its own first.  The body of a Put is a reader: what an  *)
(* attempt has read is gone for the next one.                              *)
(***************************************************************************)
EXTENDS OssErrors, Naturals, FiniteSets

CONSTANTS Procs,        \* callers, one call at a time each
          Keys,
          Workloads,    \* which calls each caller makes: the sets of an instance
          Retention,    \* Policy.Retention has a mode and MaxDays > 0
          Closable,     \* whether the store may be closed
          MaxAttempts,  \* retryPolicy.MaxAttempts
          MaxVersions,  \* bound on the objects written
          MaxLate       \* bound on requests outliving their client's patience

Bodies == {"whole", "tail", "empty"}

\* What can be left of a reader holding b after some of it was read.
Rests(b) == CASE b = "whole" -> Bodies [] b = "tail" -> {"tail", "empty"} [] OTHER -> {"empty"}

Absent == [v |-> 0, body |-> "none"]
Objects == {Absent} \cup [v : 1..MaxVersions, body : Bodies]
\* A call: body is what the reader given to a Put holds.
Requests == [op : {"put", "get", "head", "delete", "copy"}, key : Keys, target : Keys,
             strict : BOOLEAN, body : Bodies]
NoRequest == [op |-> "none"]

ASSUME BlobStoreAssumption ==
    /\ MaxAttempts \in Nat \ {0} /\ MaxVersions \in Nat /\ MaxLate \in Nat
    /\ Retention \in BOOLEAN /\ Closable \in BOOLEAN
    /\ Workloads \subseteq [Procs -> SUBSET Requests]

VARIABLES
    phase, tries, last, ended, result,  \* Store.run's, one call per process
    work,    \* the workload of this instance
    stage,   \* "free", "check" (Delete's own head), "run"
    req,     \* the call's arguments
    step,    \* adapter method: "none", "entry", "first", "second", "replied"
    reply,   \* what the adapter method is about to return
    rest,    \* what is left of a Put's reader
    got,     \* the object whose body a Get returns
    seen,    \* version the ObjectInfo read by the call describes, 0 if none
    closed,  \* "no", "store" (Store.closed), "adapter" (and Adapter.closed)
    object,  \* the object store
    young,   \* versions younger than the retention period
    made,    \* number of versions written
    late,    \* requests on their way that their client gave up
    held,    \* history: what the call's key has held since the call began
    effect   \* history: body the call stored last, "removed", or "none"

runVars == <<phase, tries, last, ended, result>>
readVars == <<got, seen>>
storeVars == <<object, young, made, late>>
vars == <<runVars, work, stage, req, step, reply, rest, readVars, closed, storeVars, held, effect>>

Run == INSTANCE RunContract WITH Calls <- Procs

TypeOK ==
    /\ phase \in [Procs -> {"idle", "ready", "calling"}]
    /\ tries \in [Procs -> 0..MaxAttempts]
    /\ last \in [Procs -> Answers \cup {"none"}]
    /\ ended \in [Procs -> BOOLEAN]
    /\ result \in [Procs -> Answers \cup {"none"}]
    /\ work \in [Procs -> SUBSET Requests]
    /\ stage \in [Procs -> {"free", "check", "run"}]
    /\ req \in [Procs -> Requests \cup {NoRequest}]
    /\ step \in [Procs -> {"none", "entry", "first", "second", "replied"}]
    /\ reply \in [Procs -> Answers \cup {"none"}]
    /\ rest \in [Procs -> Bodies]
    /\ got \in [Procs -> Objects]
    /\ seen \in [Procs -> 0..MaxVersions]
    /\ closed \in {"no", "store", "adapter"}
    /\ object \in [Keys -> Objects]
    /\ young \subseteq 1..made
    /\ made \in 0..MaxVersions
    /\ Cardinality(late) <= MaxLate
    /\ held \in [Procs -> SUBSET Objects]
    /\ effect \in [Procs -> Bodies \cup {"removed", "none"}]

Init ==
    /\ Run!Init
    /\ work \in Workloads
    /\ stage = [p \in Procs |-> "free"]
    /\ req = [p \in Procs |-> NoRequest]
    /\ step = [p \in Procs |-> "none"]
    /\ reply = [p \in Procs |-> "none"]
    /\ rest = [p \in Procs |-> "empty"]
    /\ got = [p \in Procs |-> Absent]
    /\ seen = [p \in Procs |-> 0]
    /\ closed = "no"
    /\ object = [k \in Keys |-> Absent]
    /\ young = {} /\ made = 0 /\ late = {}
    /\ held = [p \in Procs |-> {}]
    /\ effect = [p \in Procs |-> "none"]

-----------------------------------------------------------------------------
(* The object store (external).  A request is what, on which key, with      *)
(* which body.                                                             *)

\* The request the adapter has to send at its present step.
Wire(p) ==
    LET r == req[p]
    IN  CASE stage[p] = "check" -> "HEAD"
          [] r.op = "put" -> IF step[p] = "first" THEN "PUT" ELSE "HEAD"
          [] r.op = "get" -> IF step[p] = "first" THEN "GET" ELSE "HEAD"
          [] r.op = "head" -> "HEAD"
          [] r.op = "copy" -> "COPY"
          [] OTHER -> IF r.strict /\ step[p] = "first" THEN "HEAD" ELSE "DELETE"

Request(p) == [what |-> Wire(p), key |-> req[p].key, target |-> req[p].target, body |-> rest[p]]

\* key gets a new, young object with this body.
Stores(key, body) ==
    /\ made < MaxVersions
    /\ made' = made + 1
    /\ young' = young \cup {made + 1}
    /\ object' = [object EXCEPT ![key] = [v |-> made + 1, body |-> body]]

\* The request w takes effect.
Applied(w) ==
    \/ w.what = "PUT" /\ Stores(w.key, w.body)
    \/ w.what = "COPY" /\ object[w.key] # Absent /\ Stores(w.target, object[w.key].body)
    \/ /\ w.what = "DELETE" /\ object' = [object EXCEPT ![w.key] = Absent]
       /\ UNCHANGED <<young, made>>
    \/ w.what \in {"GET", "HEAD"} /\ object[w.key] # Absent /\ UNCHANGED <<object, young, made>>

EffectOf(p) == LET w == Wire(p)
                   there == object[req[p].key]
               IN  CASE w = "PUT" -> rest[p]
                     [] w = "COPY" -> there.body
                     [] w = "DELETE" /\ there # Absent -> "removed"
                     [] OTHER -> effect[p]

\* An object outlives the retention period, if there is one.
Ages(v) == /\ Retention
           /\ v \in young
           /\ young' = young \ {v}
           /\ UNCHANGED <<runVars, work, stage, req, step, reply, rest, readVars, closed,
                          object, made, late, held, effect>>

\* The histories of the running calls follow the object store.
Watch == held' = [p \in Procs |-> IF stage[p] = "free" THEN {}
                                  ELSE held[p] \cup {object'[req[p].key]}]

-----------------------------------------------------------------------------
(* Calls.                                                                  *)

\* checkClosed, ctxErrCheck (the call starts with a live context), the checks
\* on the arguments (passed), and into the first Store.run of the call.
Begin(p, r) ==
    /\ stage[p] = "free"
    /\ IF closed # "no"
         THEN /\ result' = [result EXCEPT ![p] = "closed"]
              /\ UNCHANGED <<phase, tries, last, ended, stage, req, rest, held>>
         ELSE /\ Run!Start(p)
              /\ req' = [req EXCEPT ![p] = r]
              /\ stage' = [stage EXCEPT ![p] =
                    IF r.op = "delete" /\ (r.strict \/ Retention) THEN "check" ELSE "run"]
              /\ rest' = [rest EXCEPT ![p] = r.body]
              /\ held' = [held EXCEPT ![p] = {object[r.key]}]
    /\ UNCHANGED <<work, step, reply, readVars, closed, storeVars, effect>>

CtxEnds(p) ==
    /\ Run!CtxEnds(p)
    /\ UNCHANGED <<work, stage, req, step, reply, rest, readVars, closed, storeVars, held,
                   effect>>

\* Mutant: withRetry's loop runs once too often.
InvokeOnceMore(p) ==
    /\ phase[p] = "ready" /\ ~ended[p]
    /\ tries[p] = 0 \/ (IsRetryable(last[p]) /\ tries[p] <= MaxAttempts)
    /\ phase' = [phase EXCEPT ![p] = "calling"]
    /\ tries' = [tries EXCEPT ![p] = @ + 1]
    /\ step' = [step EXCEPT ![p] = "entry"]
    /\ UNCHANGED <<last, ended, result, work, stage, req, reply, rest, readVars, closed,
                   storeVars, held, effect>>

\* Store.run calls the adapter.
Invoke(p) ==
    /\ Run!Invoke(p)
    /\ step' = [step EXCEPT ![p] = "entry"]
    /\ UNCHANGED <<work, stage, req, reply, rest, readVars, closed, storeVars, held, effect>>

AdapterEntry(p) ==
    /\ step[p] = "entry"
    /\ step' = [step EXCEPT ![p] = IF closed = "adapter" THEN "replied" ELSE "first"]
    /\ reply' = [reply EXCEPT ![p] = IF closed = "adapter" THEN "closed" ELSE @]
    /\ UNCHANGED <<runVars, work, stage, req, rest, readVars, closed, storeVars, held, effect>>

\* Mutant: HeadObject, like PutObject and GetObject, ignores a failing headInfo.
ContinueAnyway(p, k) ==
    LET op == req[p].op
        more == /\ stage[p] = "run" /\ step[p] = "first" /\ k = OK
                /\ op \in {"put", "get"} \/ (op = "delete" /\ req[p].strict)
    IN  /\ step' = [step EXCEPT ![p] = IF more THEN "second" ELSE "replied"]
        /\ reply' = [reply EXCEPT ![p] =
              IF more THEN @
              ELSE IF op = "head" \/ (step[p] = "second" /\ op \in {"put", "get"}) THEN OK ELSE k]
        /\ UNCHANGED <<runVars, work, stage, req, closed>>

\* The adapter has the answer k of its request.  The second request of PutObject
\* and of GetObject is a headInfo whose failure they ignore; the first one of a
\* strict DeleteObject is a headInfo whose failure they return.
Continue(p, k) ==
    LET op == req[p].op
        more == /\ stage[p] = "run" /\ step[p] = "first" /\ k = OK
                /\ op \in {"put", "get"} \/ (op = "delete" /\ req[p].strict)
    IN  /\ step' = [step EXCEPT ![p] = IF more THEN "second" ELSE "replied"]
        /\ reply' = [reply EXCEPT ![p] =
              IF more THEN @
              ELSE IF step[p] = "second" /\ op \in {"put", "get"} THEN OK ELSE k]
        /\ UNCHANGED <<runVars, work, stage, req, closed>>

\* What the call keeps of an answer with content.
Reads(p) ==
    LET there == object[req[p].key]
    IN  /\ got' = IF Wire(p) = "GET" THEN [got EXCEPT ![p] = there] ELSE got
        /\ seen' = IF /\ Wire(p) = "HEAD"
                      /\ stage[p] = "check" \/ req[p].op \in {"get", "head", "put"}
                     THEN [seen EXCEPT ![p] = there.v] ELSE seen

\* The reader of a Put is read to the end, or to anywhere.
Drained(p) == rest' = IF Wire(p) = "PUT" THEN [rest EXCEPT ![p] = "empty"] ELSE rest
PartlyRead(p) == IF Wire(p) = "PUT" THEN \E b \in Rests(rest[p]) : rest' = [rest EXCEPT ![p] = b]
                                    ELSE rest' = rest

Sending(p) == step[p] \in {"first", "second"}

Serve(p) == /\ Sending(p)
            /\ Applied(Request(p))
            /\ effect' = [effect EXCEPT ![p] = EffectOf(p)]
            /\ Reads(p) /\ Drained(p) /\ Watch
            /\ Continue(p, OK)
            /\ UNCHANGED late

\* Refused: no such key, or access denied.
Refuse(p, k) == /\ Sending(p)
                /\ k = "not_found" => /\ object[req[p].key] = Absent
                                      /\ Wire(p) \notin {"PUT", "DELETE"}
                /\ PartlyRead(p)
                /\ Continue(p, k)
                /\ UNCHANGED <<readVars, storeVars, held, effect>>

\* The request never arrives, or in part.
LoseRequest(p) == /\ Sending(p)
                  /\ PartlyRead(p)
                  /\ Continue(p, "timeout")
                  /\ UNCHANGED <<readVars, storeVars, held, effect>>

\* It took effect, but the answer never arrives.
LoseAnswer(p) == /\ Sending(p)
                 /\ Applied(Request(p))
                 /\ effect' = [effect EXCEPT ![p] = EffectOf(p)]
                 /\ Drained(p) /\ Watch
                 /\ Continue(p, "timeout")
                 /\ UNCHANGED <<readVars, late>>

\* The client stops waiting while the request is on its way ...
GiveUp(p) == /\ Sending(p) /\ Wire(p) \in {"PUT", "DELETE", "COPY"}
             /\ Cardinality(late) < MaxLate
             /\ late' = late \cup {Request(p)}
             /\ Drained(p)
             /\ Continue(p, "timeout")
             /\ UNCHANGED <<readVars, object, young, made, held, effect>>

\* ... and it takes effect, or is dropped, later.
LateRequest(w) ==
    /\ w \in late
    /\ late' = late \ {w}
    /\ Applied(w) \/ UNCHANGED <<object, young, made>>
    /\ Watch
    /\ UNCHANGED <<runVars, work, stage, req, step, reply, rest, readVars, closed, effect>>

\* The adapter method, and fn with it, returns to withRetry.
FnReturns(p) ==
    /\ step[p] = "replied"
    /\ Run!Answer(p, reply[p])
    /\ step' = [step EXCEPT ![p] = "none"]
    /\ reply' = [reply EXCEPT ![p] = "none"]
    /\ UNCHANGED <<work, stage, req, rest, readVars, closed, storeVars, held, effect>>

-----------------------------------------------------------------------------
(* How the calls end.                                                      *)

\* Mutant: a strict Delete whose head succeeded skips the retention policy.
VerdictStrictExempt(p, k) ==
    IF req[p].strict THEN k
    ELSE IF k = OK /\ Retention /\ seen[p] \in young THEN "validation"
    ELSE OK

\* What Delete makes of its head: the error it returns, or ok to go on.
Verdict(p, k) ==
    IF k # OK THEN IF req[p].strict THEN k ELSE OK
    ELSE IF Retention /\ seen[p] \in young THEN "validation"
    ELSE OK

\* The call returns k, and its locals go with it.
Ends(p, k) ==
    /\ stage' = [stage EXCEPT ![p] = "free"]
    /\ phase' = [phase EXCEPT ![p] = "idle"]
    /\ ended' = [ended EXCEPT ![p] = FALSE]
    /\ result' = [result EXCEPT ![p] = k]
    /\ req' = [req EXCEPT ![p] = NoRequest]
    /\ rest' = [rest EXCEPT ![p] = "empty"]
    /\ got' = [got EXCEPT ![p] = Absent]
    /\ seen' = [seen EXCEPT ![p] = 0]
    /\ held' = [held EXCEPT ![p] = {}]
    /\ effect' = [effect EXCEPT ![p] = "none"]

\* The end of a Store.run, which has returned k.
RunReturns(p, k) ==
    /\ phase[p] = "ready" /\ Run!MayReturn(p, k)
    /\ tries' = [tries EXCEPT ![p] = 0]
    /\ last' = [last EXCEPT ![p] = "none"]
    /\ UNCHANGED <<work, step, reply, closed, storeVars>>

\* Delete's head is over: the delete is next, in the same context, or the call
\* ends.
FinishCheck(p, k) ==
    /\ stage[p] = "check"
    /\ RunReturns(p, k)
    /\ IF Verdict(p, k) = OK
         THEN /\ stage' = [stage EXCEPT ![p] = "run"]
              /\ UNCHANGED <<phase, ended, result, req, rest, readVars, held, effect>>
         ELSE Ends(p, Verdict(p, k))

\* Mutant: a non-strict Delete swallows every error that is not retryable.
ReturnedTolerant(p, k) ==
    IF req[p].op = "delete" /\ ~req[p].strict /\ ~IsRetryable(k) THEN OK ELSE k

\* A Delete that is not strict returns nil for a missing object.
Returned(p, k) ==
    IF req[p].op = "delete" /\ k = "not_found" /\ ~req[p].strict THEN OK ELSE k

Finish(p, k) == stage[p] = "run" /\ RunReturns(p, k) /\ Ends(p, Returned(p, k))

\* Close: the store's flag, then the adapter's.
Close == /\ Closable
         /\ \/ closed = "no" /\ closed' = "store"
            \/ closed = "store" /\ closed' = "adapter"
         /\ UNCHANGED <<runVars, work, stage, req, step, reply, rest, readVars, storeVars, held,
                        effect>>

Next == \/ \E p \in Procs :
              \/ \E r \in work[p] : Begin(p, r)
              \/ CtxEnds(p) \/ Invoke(p) \/ AdapterEntry(p)
              \/ Serve(p) \/ LoseRequest(p) \/ LoseAnswer(p) \/ GiveUp(p)
              \/ \E k \in {"not_found", "auth"} : Refuse(p, k)
              \/ FnReturns(p)
              \/ \E k \in Answers : FinishCheck(p, k) \/ Finish(p, k)
        \/ \E w \in late : LateRequest(w)
        \/ \E v \in young : Ages(v)
        \/ Close

Spec == Init /\ [][Next]_vars

-----------------------------------------------------------------------------
(* Properties.                                                             *)

Over(p) == stage[p] # "free" /\ stage'[p] = "free"

\* blobstore.go: what an operation returns was true of its key at some moment of
\* the call, whatever the retries, lost answers and other callers: a body or an
\* ObjectInfo belonged to an object the key held (Get and Put may have none),
\* not_found and a Delete's nil mean it held none, a strict Delete's nil also that
\* it held one, a Copy's nil that the target got a body the source had, and a Put's
\* that the key held the body the call stored, the whole of it at the first attempt.
AnswersWereTrue ==
    [][\A p \in Procs : Over(p) =>
         LET op == req[p].op
             k == result'[p]
             there == held[p] \ {Absent}
         IN  /\ op = "get" /\ k = OK => got[p] \in there
             /\ op \in {"get", "put"} /\ k = OK => seen[p] \in {o.v : o \in there} \cup {0}
             /\ op = "head" /\ k = OK => seen[p] \in {o.v : o \in there}
             /\ k = "not_found" \/ (op = "delete" /\ k = OK) => Absent \in held[p]
             /\ op = "delete" /\ req[p].strict /\ k = OK => there # {}
             /\ op \in {"copy", "put"} /\ k = OK => effect[p] \in {o.body : o \in there}
             /\ op = "put" /\ k = OK /\ tries[p] = 1 => effect[p] = req[p].body]_vars

\* blobstore.go, policy.go: a Delete never removes the very version its own head
\* found too young, through whatever retries, failures and writes in between.
CheckedVersionKept ==
    [][\A p \in Procs :
         Sending(p) /\ Wire(p) = "DELETE" /\ Retention /\ step'[p] = "replied"
         /\ object[req[p].key] # Absent /\ object'[req[p].key] = Absent
         => object[req[p].key].v # seen[p] \/ seen[p] \notin young]_vars

\* A bound on the steps that a call has left: Invoke, AdapterEntry, two requests and
\* FnReturns in an attempt, and the end of each Store.run.
StepsLeft(p) ==
    LET again == 5 * (MaxAttempts - tries[p])
        run == again + CASE step[p] = "entry" -> 5
                         [] step[p] = "first" -> 4
                         [] step[p] = "second" -> 3
                         [] step[p] = "replied" -> 2
                         [] OTHER -> 1
    IN  CASE stage[p] = "free" -> 0
          [] stage[p] = "check" -> run + 5 * MaxAttempts + 1
          [] OTHER -> run

\* blobstore.go, retry.go: a call runs down.  Whatever the object store, Close and the
\* other callers do, each of its own steps, Delete's head and every retry included,
\* brings it closer to its return, after 10 * MaxAttempts + 2 of them at most.
CallsRunDown ==
    [][\A p \in Procs :
         stage[p] # "free" =>
            \/ <<stage[p], phase[p], step[p], tries[p]>>' =
                  <<stage[p], phase[p], step[p], tries[p]>>
            \/ StepsLeft(p)' \in 0..(StepsLeft(p) - 1)]_vars

-----------------------------------------------------------------------------
(* Claims of the repository that the code does not keep.                   *)

\* blobstore.go: "Put streams body to key": a Put that returns nil stored it.
PutStoresBody ==
    [][\A p \in Procs :
         Over(p) /\ req[p].op = "put" /\ result'[p] = OK => effect[p] = req[p].body]_vars

\* policy.go: "A non-none retention mode forbids deleting objects younger than
\* MaxDays".
RetentionHonored ==
    [][Retention => \A k \in Keys : object[k].v \in young => object'[k] # Absent]_vars

\* object.go: with StrictNotFound "missing objects produce ErrNotFound".
StrictDeleteRemoves ==
    [][\A p \in Procs :
         Over(p) /\ req[p].op = "delete" /\ req[p].strict /\ result'[p] = OK
         => effect[p] = "removed"]_vars

\* object.go: "ObjectReader is an io.ReadCloser plus metadata".
InfoDescribesBody ==
    [][\A p \in Procs :
         Over(p) /\ req[p].op = "get" /\ result'[p] = OK => seen[p] = got[p].v]_vars
=============================================================================
