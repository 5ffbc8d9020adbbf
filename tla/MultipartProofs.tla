-------------------------- MODULE MultipartProofs --------------------------
(***************************************************************************)
(* Theorems about Multipart, for any number of callers, sessions, uploads, *)
(* lost and late requests and restarts: type correctness, one Complete of  *)
(* an upload at a time through a session, no handle for an attempt at an   *)
(* upload whose Abort returned nil, and what a Complete publishes.         *)
(***************************************************************************)
EXTENDS Multipart, TLAPS

-----------------------------------------------------------------------------
(* The inductive invariant.  A Complete is alone because it holds its mark *)
(* (Marks); an aborted upload has no handle (HandlesGone), and none comes  *)
(* back, because the id of an Initiate that is under way is nobody's yet   *)
(* (Fresh, Opened) while an Abort is of an id somebody has got (Started).  *)

\* Where a call is: Store.run's phase, the adapter's step and the stage agree.
Control ==
    \A p \in Procs :
        /\ stage[p] # "run" => phase[p] = "idle"
        /\ stage[p] # "free" => req[p] \in Requests
        /\ phase[p] = "idle" => last[p] = "none" /\ newId[p] = NoId
        /\ phase[p] # "calling" => step[p] = "none"
        /\ stage[p] = "unmark" => req[p].op = "complete"

\* A Complete in progress holds the mark of its upload, and nobody else does.
Marks == /\ \A p \in Procs : Completing(p) => req[p].id \in done[SessionOf[p]]
         /\ OneCompleter

\* The id an Initiate has got and not yet returned is nobody else's.
Fresh ==
    /\ \A i \in known : upload[i] # "none"
    /\ \A p \in Procs : newId[p] # NoId => upload[newId[p]] # "none" /\ newId[p] \notin known
    /\ \A p, q \in Procs : newId[p] = newId[q] /\ newId[p] # NoId => p = q

\* An Initiate answered OK has an id.
Opened ==
    \A p \in Procs :
        /\ req[p].op = "initiate" /\ stage[p] = "run"
        /\ (step[p] = "replied" /\ reply[p] = OK) \/ last[p] = OK
        => newId[p] # NoId

\* Calls other than Initiate are about uploads an Initiate has returned.
Started ==
    \A p \in Procs : stage[p] = "run" /\ req[p].op # "initiate" => req[p].id \in known

Gone(i) == i \notin handles \/ adapterClosed

\* An Abort past its lookup, and one that has returned nil, left no handle.
HandlesGone ==
    /\ \A p \in Procs :
          /\ stage[p] = "run" /\ req[p].op = "abort"
          /\ step[p] \in {"handle", "sent", "replied"} \/ last[p] # "none"
          => Gone(req[p].id)
    /\ \A i \in aborted : i \in known /\ Gone(i)

IInv == TypeOK /\ Control /\ Marks /\ Fresh /\ Opened /\ Started /\ HandlesGone

LEMMA InitIInv == Init => IInv
<1> SUFFICES ASSUME Init PROVE IInv
  OBVIOUS
<1>1. TypeOK
  <2>1. 0 \in 0..MaxAttempts /\ 0 \in 0..MaxRestarts
    BY MultipartAssumption
  <2>2. done \in [Sessions -> SUBSET Ids] /\ late \subseteq Requests
    BY DEF Init
  <2> QED BY <2>1, <2>2 DEF Init, Run!Init, TypeOK
<1>2. Control /\ Opened /\ Started
  BY DEF Init, Run!Init, Control, NoRequest, Opened, OK, Started
<1>3. Marks /\ Fresh /\ HandlesGone
  BY DEF Init, Run!Init, Marks, OneCompleter, Completing, Fresh, HandlesGone, Gone
<1> QED BY <1>1, <1>2, <1>3 DEF IInv

-----------------------------------------------------------------------------
(* Calls begin: the mark is taken, or found taken.                         *)

LEMMA BeginKeeps ==
    ASSUME IInv, NEW p \in Procs, NEW r \in Requests, Begin(p, r)
    PROVE  IInv'
<1> USE DEF IInv
<1>1. UNCHANGED <<step, reply, newId, handles, known, storeClosed, adapterClosed,
                  restarts, aborted, providerVars, late>>
  BY DEF Begin
<1>2. CASE \E k \in {"closed", "validation", "conflict"} : ReturnEarly(p, r, k)
  <2>1. PICK k \in {"closed", "validation", "conflict"} : ReturnEarly(p, r, k)
    BY <1>2
  <2>2. UNCHANGED <<phase, tries, last, ended, stage, req, done>>
    BY <2>1 DEF ReturnEarly
  <2>3. TypeOK'
    BY <1>1, <2>1, <2>2 DEF ReturnEarly, TypeOK, Answers, ErrorKinds, providerVars
  <2>4. Control' /\ Marks' /\ Opened' /\ Started' /\ Fresh' /\ HandlesGone'
    BY <1>1, <2>2 DEF Control, Marks, OneCompleter, Completing, Opened, Started,
                      Fresh, HandlesGone, Gone, providerVars
  <2> QED BY <2>3, <2>4
<1>3. CASE Run!Start(p) /\ stage' = [stage EXCEPT ![p] = "run"]
  <2>1. /\ stage[p] = "free" /\ phase[p] = "idle" /\ req' = [req EXCEPT ![p] = r]
        /\ r.op # "initiate" => r.id \in known
        /\ r.op = "complete" => r.id \notin done[SessionOf[p]]
        /\ done' = IF r.op \in {"complete", "abort"}
                     THEN [done EXCEPT ![SessionOf[p]] = @ \cup {r.id}] ELSE done
        /\ phase' = [phase EXCEPT ![p] = "ready"]
        /\ result' = [result EXCEPT ![p] = "none"]
        /\ UNCHANGED <<tries, last, ended>>
    BY <1>3 DEF Begin, ReturnEarly, Run!Start, TypeOK
  <2>2. SessionOf[p] \in Sessions /\ r.op \in {"initiate", "upload", "complete", "abort"}
        /\ (r.op # "initiate" => r.id \in Ids)
    BY MultipartAssumption DEF Requests
  <2>3. done' \in [Sessions -> SUBSET Ids]
    BY <2>1, <2>2 DEF TypeOK
  <2>4. TypeOK'
    BY <1>1, <1>3, <2>1, <2>3 DEF TypeOK, providerVars
  <2>5. Control' /\ Opened' /\ Started'
    BY <1>1, <1>3, <2>1 DEF TypeOK, Control, Opened, Started, OK
  <2>6. /\ Completing(p)' => r.op = "complete"
        /\ req'[p] = r
        /\ \A q \in Procs \ {p} : /\ req'[q] = req[q]
                                  /\ Completing(q)' => Completing(q)
    <3>1. /\ req'[p] = r
          /\ \A q \in Procs \ {p} : req'[q] = req[q] /\ stage'[q] = stage[q]
      BY <1>3, <2>1 DEF TypeOK
    <3> QED BY <3>1 DEF Completing
  <2>7. Marks'
    <3>1. ASSUME NEW q \in Procs, Completing(q)' PROVE req'[q].id \in done'[SessionOf[q]]
      BY <2>1, <2>2, <2>6, <3>1, MultipartAssumption DEF TypeOK, Marks
    <3>2. ASSUME NEW q \in Procs, q # p, Completing(q)', Completing(p)',
                 SessionOf[q] = SessionOf[p]
          PROVE  req'[q].id # req'[p].id
      BY <2>1, <2>6, <3>2 DEF TypeOK, Marks
    <3>3. OneCompleter'
      BY <2>6, <3>2 DEF Marks, OneCompleter
    <3> QED BY <3>1, <3>3 DEF Marks
  <2>8. Fresh' /\ HandlesGone'
    BY <1>1, <1>3, <2>1 DEF TypeOK, Control, Fresh, HandlesGone, Gone, providerVars
  <2> QED BY <2>4, <2>5, <2>7, <2>8
<1> QED BY <1>2, <1>3 DEF Begin

-----------------------------------------------------------------------------
(* Attempts: the adapter's steps and the ways a request ends.              *)

LEMMA CtxEndsKeeps ==
    ASSUME IInv, NEW p \in Procs, CtxEnds(p)
    PROVE  IInv'
  BY DEF IInv, CtxEnds, Run!CtxEnds, TypeOK, Control, Opened, callVars, clientVars,
         providerVars, Marks, OneCompleter, Completing, Started, Fresh,
         HandlesGone, Gone

LEMMA InvokeKeeps ==
    ASSUME IInv, NEW p \in Procs, Invoke(p)
    PROVE  IInv'
  BY MultipartAssumption
     DEF IInv, Invoke, Run!Invoke, Run!MayInvoke, TypeOK, Control, NoRequest, Opened,
         clientVars, providerVars, Marks, OneCompleter, Completing, Started,
         Fresh, HandlesGone, Gone

\* An Abort that finds the adapter closed answers with its handle in place.
LEMMA AdapterEntryKeeps ==
    ASSUME IInv, NEW p \in Procs, AdapterEntry(p)
    PROVE  IInv'
<1> USE DEF IInv
<1>1. TypeOK'
  <2>1. /\ step' \in [Procs -> {"none", "entry", "lookup", "handle", "sent", "replied"}]
        /\ reply' \in [Procs -> Answers \cup {"none"}]
    BY DEF AdapterEntry, AnswerLocally, TypeOK, Answers, ErrorKinds, OK
  <2> QED BY <2>1 DEF AdapterEntry, AnswerLocally, TypeOK, runVars, callVars, clientVars,
                      providerVars
<1>2. Control' /\ Marks' /\ Opened' /\ Started' /\ Fresh'
  BY DEF AdapterEntry, AnswerLocally, TypeOK, Control, runVars, providerVars,
         Opened, OK, Started, Marks, OneCompleter, Completing, Fresh
<1>3. HandlesGone'
  BY DEF AdapterEntry, TypeOK, HandlesGone, Gone, runVars
<1> QED BY <1>1, <1>2, <1>3

\* Past the lookup of an Abort there is no handle, whether it found one or not.
LEMMA AdapterLookupKeeps ==
    ASSUME IInv, NEW p \in Procs, AdapterLookup(p)
    PROVE  IInv'
<1> USE DEF IInv
<1>1. TypeOK'
  <2>1. /\ step' \in [Procs -> {"none", "entry", "lookup", "handle", "sent", "replied"}]
        /\ reply' \in [Procs -> Answers \cup {"none"}]
        /\ handles' \subseteq Ids
    BY DEF AdapterLookup, AnswerLocally, TypeOK, Answers, ErrorKinds, OK
  <2> QED BY <2>1 DEF AdapterLookup, AnswerLocally, TypeOK, runVars, callVars, clientVars,
                      providerVars
<1>2. Control' /\ Marks' /\ Opened' /\ Started' /\ Fresh'
  BY DEF AdapterLookup, AnswerLocally, TypeOK, Control, runVars, providerVars,
         Opened, OK, Started, Marks, OneCompleter, Completing, Fresh
<1>3. HandlesGone'
  BY DEF AdapterLookup, AnswerLocally, TypeOK, HandlesGone, Gone, runVars
<1> QED BY <1>1, <1>2, <1>3

LEMMA SendKeeps ==
    ASSUME IInv, NEW p \in Procs, Send(p)
    PROVE  IInv'
  BY DEF IInv, Send, TypeOK, Control, runVars, clientVars, providerVars, Opened, Started,
         Marks, OneCompleter, Completing, Fresh, HandlesGone, Gone

\* A request that is served opens the upload of a fresh id or changes one that
\* was opened before.
LEMMA ServedMoves ==
    ASSUME TypeOK, NEW r \in Requests, NEW i \in Ids \cup {NoId}, Served(r, OK, i)
    PROVE  /\ upload' \in [Ids -> {"none", "open", "completed", "aborted"}]
           /\ \A j \in Ids : upload[j] # "none" => upload'[j] # "none"
           /\ IF r.op = "initiate" THEN i \in Ids /\ upload[i] = "none" /\ upload'[i] # "none"
                                   ELSE i = NoId
<1>1. CASE r.op = "initiate"
  <2>1. i \in Ids /\ upload[i] = "none" /\ upload' = [upload EXCEPT ![i] = "open"]
    BY <1>1 DEF Served
  <2> QED BY <1>1, <2>1 DEF TypeOK
<1>2. CASE r.op # "initiate"
  <2>1. r.id \in Ids
    BY <1>2 DEF Requests
  <2>2. i = NoId
    BY <1>2 DEF Served
  <2>3. \/ UNCHANGED upload
        \/ upload' = [upload EXCEPT ![r.id] = "completed"]
        \/ upload' = [upload EXCEPT ![r.id] = "aborted"]
    BY <1>2 DEF Served
  <2> QED BY <1>2, <2>1, <2>2, <2>3 DEF TypeOK
<1> QED BY <1>1, <1>2

LEMMA ServeKeeps ==
    ASSUME IInv, NEW p \in Procs, Serve(p)
    PROVE  IInv'
<1> USE DEF IInv
<1>1. TypeOK'
  <2>1. CASE UNCHANGED providerVars
    BY <2>1 DEF Serve, Served, Refused, Replied, TypeOK, Answers, ErrorKinds, OK, runVars,
                callVars, clientVars, providerVars
  <2>2. ASSUME NEW i \in Ids \cup {NoId}, Served(req[p], OK, i),
               newId' = [newId EXCEPT ![p] = i], Replied(p, OK)
        PROVE  TypeOK'
    BY <2>2, ServedMoves DEF Serve, Replied, TypeOK, Control, Answers, OK, runVars,
                             callVars, clientVars, providerVars
  <2> QED BY <2>1, <2>2 DEF Serve
<1>2. Control' /\ Started'
  BY DEF Serve, Replied, TypeOK, Control, Started, runVars, clientVars
<1>3. Marks'
  BY DEF Serve, Replied, Marks, OneCompleter, Completing, clientVars
<1>4. Opened'
  <2>1. ASSUME NEW k \in {"auth", "not_found", "internal"}, Refused(req[p], k), Replied(p, k),
               UNCHANGED <<newId, providerVars>>
        PROVE  Opened'
    BY <2>1 DEF Replied, Refused, TypeOK, Control, Opened, OK, runVars, callVars,
                clientVars, providerVars
  <2>2. ASSUME NEW i \in Ids \cup {NoId}, Served(req[p], OK, i),
               newId' = [newId EXCEPT ![p] = i], Replied(p, OK)
        PROVE  Opened'
    <3>1. req[p] \in Requests
      BY DEF Serve, Control
    <3>2. req[p].op = "initiate" => i # NoId
      BY <2>2, <3>1, ServedMoves, MultipartAssumption
    <3> QED BY <2>2, <3>2 DEF Replied, TypeOK, Control, Opened, runVars, callVars,
                              clientVars, providerVars
  <2> QED BY <2>1, <2>2 DEF Serve
<1>5. Fresh' /\ HandlesGone'
  BY DEF Serve, Served, Replied, TypeOK, Fresh, HandlesGone, Gone, runVars,
         clientVars, providerVars
<1> QED BY <1>1, <1>2, <1>3, <1>4, <1>5

LEMMA LoseRequestKeeps ==
    ASSUME IInv, NEW p \in Procs, LoseRequest(p)
    PROVE  IInv'
  BY DEF IInv, LoseRequest, Replied, TypeOK, Control, Answers, ErrorKinds, OK, Opened,
         runVars, clientVars, providerVars, Marks, OneCompleter, Completing,
         Started, Fresh, HandlesGone, Gone

LEMMA LoseAnswerKeeps ==
    ASSUME IInv, NEW p \in Procs, LoseAnswer(p)
    PROVE  IInv'
<1> USE DEF IInv
<1>1. TypeOK'
  <2>1. PICK i \in Ids \cup {NoId} : Served(req[p], OK, i)
    BY DEF LoseAnswer
  <2> QED BY <2>1, ServedMoves
          DEF LoseAnswer, Replied, TypeOK, Control, Answers, ErrorKinds, runVars,
              callVars, clientVars, providerVars
<1>2. Control' /\ Marks' /\ Opened' /\ Started' /\ HandlesGone'
  BY DEF LoseAnswer, Replied, TypeOK, Control, runVars, clientVars, Marks,
         OneCompleter, Completing, Opened, OK, Started, HandlesGone, Gone
<1>3. Fresh'
  BY DEF LoseAnswer, Served, Replied, TypeOK, Fresh, clientVars
<1> QED BY <1>1, <1>2, <1>3

LEMMA GiveUpKeeps ==
    ASSUME IInv, NEW p \in Procs, GiveUp(p)
    PROVE  IInv'
  BY DEF IInv, GiveUp, Replied, TypeOK, Control, Requests, NoRequest, Answers,
         ErrorKinds, OK, Opened, runVars, clientVars, providerVars, Marks,
         OneCompleter, Completing, Started, Fresh, HandlesGone, Gone

LEMMA LateRequestKeeps ==
    ASSUME IInv, NEW r \in late, LateRequest(r)
    PROVE  IInv'
<1> USE DEF IInv
<1>1. TypeOK'
  <2>1. CASE UNCHANGED providerVars
    BY <2>1 DEF LateRequest, TypeOK, runVars, callVars, clientVars, providerVars
  <2>2. ASSUME NEW i \in Ids \cup {NoId}, Served(r, OK, i) PROVE TypeOK'
    BY <2>2, ServedMoves DEF LateRequest, TypeOK, runVars, callVars, clientVars,
                             providerVars
  <2> QED BY <2>1, <2>2 DEF LateRequest
<1>2. Control' /\ Marks' /\ Opened' /\ Started' /\ HandlesGone'
  BY DEF LateRequest, Control, runVars, callVars, clientVars, Marks,
         OneCompleter, Completing, Opened, Started, HandlesGone, Gone
<1>3. Fresh'
  BY DEF LateRequest, Served, TypeOK, Fresh, callVars, clientVars, providerVars
<1> QED BY <1>1, <1>2, <1>3

-----------------------------------------------------------------------------
(* Returns: handles come and go, ids and aborts become known.              *)

\* The handle an Initiate adds is of a fresh id, which no Abort is about.
LEMMA FnReturnsKeeps ==
    ASSUME IInv, NEW p \in Procs, FnReturns(p)
    PROVE  IInv'
<1> USE DEF IInv
<1>1. TypeOK'
  BY DEF FnReturns, Run!Answer, TypeOK, Control, Answers, Opened, providerVars
<1>2. Control' /\ Opened' /\ Started'
  BY DEF FnReturns, Run!Answer, TypeOK, Control, Opened, Started
<1>3. Marks' /\ Fresh'
  BY DEF FnReturns, Marks, OneCompleter, Completing, Fresh, providerVars
<1>4. HandlesGone'
  BY MultipartAssumption
     DEF FnReturns, Run!Answer, TypeOK, Fresh, Started, HandlesGone, Gone
<1> QED BY <1>1, <1>2, <1>3, <1>4

\* An Abort returns nil only after an attempt, hence past its lookup.
LEMMA FinishKeeps ==
    ASSUME IInv, NEW p \in Procs, NEW k \in Answers, Finish(p, k)
    PROVE  IInv'
<1> USE DEF IInv
<1>1. \A q \in Procs :
        IF q = p THEN /\ stage'[q] \in {"free", "unmark"}
                      /\ stage'[q] = "unmark" => req'[q] = req[q] /\ req[q].op = "complete"
                 ELSE stage'[q] = stage[q] /\ req'[q] = req[q]
  BY DEF Finish, Frees, TypeOK
<1>2. TypeOK'
  <2>1. /\ stage' \in [Procs -> {"free", "run", "unmark"}]
        /\ req' \in [Procs -> Requests \cup {NoRequest}]
    BY DEF Finish, Frees, TypeOK
  <2>2. known' \subseteq Ids /\ aborted' \subseteq Ids
    <3>1. k = OK => last[p] = OK
      BY DEF Finish, Run!MayReturn, OK
    <3>2. req[p] \in Requests /\ (req[p].op = "abort" => req[p].id \in Ids)
      BY DEF Finish, Control, Requests
    <3>3. req[p].op = "initiate" /\ k = OK => newId[p] \in Ids
      BY <3>1 DEF Finish, TypeOK, Opened
    <3> QED BY <3>2, <3>3 DEF Finish, TypeOK
  <2>3. newId' \in [Procs -> Ids \cup {NoId}]
    BY DEF Finish, TypeOK
  <2> QED BY <2>1, <2>2, <2>3, MultipartAssumption
          DEF Finish, Reported, Run!Leave, TypeOK, Answers, ErrorKinds, OK, providerVars
<1>3. Control' /\ Opened' /\ Started'
  BY <1>1 DEF Finish, Run!Leave, TypeOK, Control, Opened, Started
<1>4. Marks'
  <2>1. \A q \in Procs : Completing(q)' => Completing(q) /\ req'[q] = req[q]
    BY <1>1 DEF Finish, Completing
  <2> QED BY <2>1 DEF Finish, Marks, OneCompleter
<1>5. Fresh'
  <2>1. \A q \in Procs : newId'[q] = IF q = p THEN NoId ELSE newId[q]
    BY DEF Finish, TypeOK
  <2>2. known' \subseteq known \cup {newId[p]} /\ known' \subseteq Ids /\ UNCHANGED upload
    BY <1>2 DEF Finish, TypeOK, providerVars
  <2> QED BY <2>1, <2>2, MultipartAssumption DEF Fresh
<1>6. HandlesGone'
  <2>1. UNCHANGED <<handles, adapterClosed, step>> /\ known \subseteq known'
    BY DEF Finish
  <2>2. k = OK => last[p] # "none"
    BY DEF Finish, Run!MayReturn, Run!Final, OK
  <2>3. \A i \in aborted' : i \in known' /\ Gone(i)
    BY <2>1, <2>2 DEF Finish, Started, HandlesGone
  <2>4. ASSUME NEW q \in Procs, stage'[q] = "run", req'[q].op = "abort",
               step'[q] \in {"handle", "sent", "replied"} \/ last'[q] # "none"
        PROVE  Gone(req'[q].id)
    <3>1. stage[q] = "run" /\ req'[q] = req[q] /\ last'[q] = last[q]
      BY <1>1, <2>4 DEF Finish, Run!Leave, TypeOK
    <3> QED BY <2>1, <2>4, <3>1 DEF HandlesGone
  <2> QED BY <2>1, <2>3, <2>4 DEF HandlesGone, Gone
<1> QED BY <1>2, <1>3, <1>4, <1>5, <1>6

\* The mark that is cleared is nobody else's: its holder is the only Complete.
LEMMA UnmarkKeeps ==
    ASSUME IInv, NEW p \in Procs, Unmark(p)
    PROVE  IInv'
<1> USE DEF IInv
<1>1. \A q \in Procs :
        IF q = p THEN stage'[q] = "free"
                 ELSE stage'[q] = stage[q] /\ req'[q] = req[q]
  BY DEF Unmark, Frees, TypeOK
<1>2. TypeOK'
  <2>1. done' \in [Sessions -> SUBSET Ids]
    BY DEF Unmark, TypeOK
  <2> QED BY <2>1 DEF Unmark, Frees, TypeOK, runVars, providerVars
<1>3. Control' /\ Opened' /\ Started' /\ Fresh' /\ HandlesGone'
  BY <1>1 DEF Unmark, Control, Opened, Started, Fresh, HandlesGone, Gone, runVars,
              providerVars
<1>4. Marks'
  <2>1. Completing(p)
    BY DEF Unmark, Control, Completing
  <2>2. ASSUME NEW q \in Procs, Completing(q)'
        PROVE  q # p /\ Completing(q) /\ req'[q] = req[q]
    BY <1>1, <2>2 DEF Completing
  <2>3. ASSUME NEW q \in Procs, Completing(q)' PROVE req'[q].id \in done'[SessionOf[q]]
    <3>1. q # p /\ Completing(q) /\ req'[q] = req[q]
      BY <2>2, <2>3
    <3>2. req[q].id # req[p].id \/ SessionOf[q] # SessionOf[p]
      BY <2>1, <2>3, <3>1 DEF Marks, OneCompleter
    <3>3. req[q].id \in done[SessionOf[q]]
      BY <2>3, <3>1 DEF Marks
    <3>4. SessionOf[q] \in Sessions /\ SessionOf[p] \in Sessions
      BY <2>3, MultipartAssumption
    <3> QED BY <3>1, <3>2, <3>3, <3>4 DEF Unmark, TypeOK
  <2>4. OneCompleter'
    BY <2>2 DEF Marks, OneCompleter
  <2> QED BY <2>3, <2>4 DEF Marks
<1> QED BY <1>2, <1>3, <1>4

-----------------------------------------------------------------------------
(* Closing and restarting.                                                 *)

LEMMA CloseStoreKeeps ==
    ASSUME IInv, CloseStore
    PROVE  IInv'
  BY DEF IInv, CloseStore, TypeOK, Control, Opened, runVars, callVars, providerVars,
         Marks, OneCompleter, Completing, Started, Fresh, HandlesGone, Gone

LEMMA CloseAdapterKeeps ==
    ASSUME IInv, CloseAdapter
    PROVE  IInv'
  BY DEF IInv, CloseAdapter, TypeOK, Control, Opened, runVars, callVars, providerVars,
         Marks, OneCompleter, Completing, Started, Fresh, HandlesGone, Gone

\* A restart empties the marks and the handles together with the calls.
LEMMA RestartKeeps ==
    ASSUME IInv, Restart
    PROVE  IInv'
<1> USE DEF IInv
<1>1. TypeOK'
  <2>1. late' \subseteq Requests
    BY DEF Restart, TypeOK, Control
  <2>2. 0 \in 0..MaxAttempts /\ restarts' \in 0..MaxRestarts
    BY MultipartAssumption DEF Restart, TypeOK
  <2> QED BY <2>1, <2>2 DEF Restart, TypeOK, runVars, callVars, clientVars, providerVars
<1>2. Control' /\ Marks' /\ Opened' /\ Started' /\ Fresh' /\ HandlesGone'
  BY DEF Restart, Control, Marks, OneCompleter, Completing, Opened, Started,
         Fresh, HandlesGone, Gone, providerVars
<1> QED BY <1>1, <1>2

-----------------------------------------------------------------------------
LEMMA Invariance == Spec => []IInv
<1>1. IInv /\ Next => IInv'
  BY CtxEndsKeeps, InvokeKeeps, AdapterEntryKeeps, AdapterLookupKeeps, SendKeeps,
     ServeKeeps, LoseRequestKeeps, LoseAnswerKeeps, GiveUpKeeps, FnReturnsKeeps, UnmarkKeeps,
     BeginKeeps, FinishKeeps, LateRequestKeeps, CloseStoreKeeps, CloseAdapterKeeps,
     RestartKeeps
     DEF Next
<1>2. IInv /\ UNCHANGED vars => IInv'
  BY DEF IInv, vars, runVars, callVars, clientVars, providerVars, TypeOK, Control, Marks,
         OneCompleter, Completing, Fresh, Opened, Started, HandlesGone, Gone
<1> QED BY InitIInv, <1>1, <1>2, PTL DEF Spec

\* Every variable of the session, the adapter and the provider keeps its type:
\* in particular an Initiate never records the handle of an id it did not get.
THEOREM TypeCorrect == Spec => []TypeOK
<1>1. IInv => TypeOK
  BY DEF IInv
<1> QED BY Invariance, <1>1, PTL

\* The done map admits one Complete of an upload at a time through a session.
THEOREM SingleCompleter == Spec => []OneCompleter
<1>1. IInv => OneCompleter
  BY DEF IInv, Marks
<1> QED BY Invariance, <1>1, PTL

\* Only AdapterLookup(p) gives an adapter method of p a handle, and one of the table.
LEMMA HandlesAreLookedUp ==
    ASSUME TypeOK, Next, NEW p \in Procs, step[p] = "lookup", step'[p] = "handle"
    PROVE  req[p].id \in handles
<1>1. PICK q \in Procs :
         \/ AdapterEntry(q) \/ AdapterLookup(q) \/ Send(q) \/ Invoke(q) \/ FnReturns(q)
         \/ \E k : step' = [step EXCEPT ![q] = "replied"]
         \/ step' = step \/ Restart
  BY DEF Next, Begin, CtxEnds, Serve, LoseRequest, LoseAnswer, GiveUp, Replied, Unmark,
         Finish, LateRequest, CloseStore, CloseAdapter, callVars
<1>2. CASE q # p \/ step' = step \/ Restart
  BY <1>1, <1>2 DEF TypeOK, AdapterEntry, AdapterLookup, AnswerLocally, Send, Invoke,
                    FnReturns, Restart
<1>3. CASE q = p /\ AdapterLookup(p)
  BY <1>3 DEF TypeOK, AdapterLookup, AnswerLocally
<1>4. CASE q = p /\ ~AdapterLookup(p)
  BY <1>1, <1>4 DEF TypeOK, AdapterEntry, AnswerLocally, Send, Invoke, FnReturns, Restart
<1> QED BY <1>2, <1>3, <1>4

\* oss.go: after an Abort has returned nil no attempt at an open adapter obtains the
\* upload's handle, for any number of callers, attempts, late requests and restarts: a
\* request for it can only come from a method that already had the handle.
THEOREM AbortIsFinal == Spec => NoUseAfterAbort
<1>1. IInv /\ [Next]_vars =>
        [\A p \in Procs :
            step[p] = "lookup" /\ step'[p] = "handle"
            => req[p].id \notin aborted \/ adapterClosed]_vars
  BY HandlesAreLookedUp DEF IInv, HandlesGone, Gone
<1> QED BY Invariance, <1>1, PTL DEF Spec, NoUseAfterAbort
-----------------------------------------------------------------------------
(* What is published.  A request for a Complete, in a call or on its way   *)
(* alone, has passed the argument checks (Checked); a Complete that has    *)
(* been answered OK is the one that closed the upload, and a completed     *)
(* upload is never touched again (Answered).                               *)

Checked ==
    /\ \A p \in Procs : req[p].op = "complete" => ValidArguments(req[p])
    /\ \A r \in late : r.op = "complete" => ValidArguments(r)

AnsweredOK(p) == /\ req[p].op = "complete" /\ stage[p] = "run"
                 /\ (step[p] = "replied" /\ reply[p] = OK) \/ last[p] = OK

Answered ==
    \A p \in Procs : AnsweredOK(p) => /\ upload[req[p].id] = "completed"
                                     /\ published[req[p].id] = req[p].parts

Tables == published = [i \in Ids |-> published[i]]

PInv == Tables /\ Checked /\ PublishedContiguous /\ Answered

LEMMA InitPInv == Init => PInv
<1> SUFFICES ASSUME Init PROVE PInv
  OBVIOUS
<1>1. Tables /\ Checked /\ Answered
  BY DEF Init, Tables, Checked, Answered, AnsweredOK, NoRequest
<1>2. PublishedContiguous
  BY MultipartAssumption DEF Init, PublishedContiguous
<1> QED BY <1>1, <1>2 DEF PInv

\* What serving a request does to the tables: a Complete that has passed the checks
\* publishes a contiguous list, and a completed upload stays as it is.
LEMMA ServedKeeps ==
    ASSUME TypeOK, Tables, PublishedContiguous, NEW r \in Requests, NEW k, NEW j,
           Served(r, k, j), r.op = "complete" => ValidArguments(r)
    PROVE  /\ Tables' /\ PublishedContiguous'
           /\ \A i \in Ids : upload[i] = "completed" =>
                 upload'[i] = "completed" /\ published'[i] = published[i]
           /\ r.op = "complete" =>
                 upload'[r.id] = "completed" /\ published'[r.id] = r.parts
<1>1. CASE r.op = "complete"
  <2>1. /\ r.id \in Ids /\ upload[r.id] = "open"
        /\ upload' = [upload EXCEPT ![r.id] = "completed"]
        /\ published' = [published EXCEPT ![r.id] = r.parts]
    BY <1>1 DEF Served, Requests
  <2>2. /\ \A n \in DOMAIN r.parts : r.parts[n].n = n
        /\ MaxParts > 0 => Len(r.parts) <= MaxParts
    BY <1>1 DEF ValidArguments
  <2>3. Tables'
    BY <2>1 DEF Tables
  <2>4. /\ upload'[r.id] = "completed" /\ published'[r.id] = r.parts
        /\ \A i \in Ids \ {r.id} : upload'[i] = upload[i] /\ published'[i] = published[i]
    BY <2>1 DEF TypeOK, Tables
  <2>5. PublishedContiguous'
    BY <2>2, <2>4 DEF PublishedContiguous
  <2> QED BY <1>1, <2>1, <2>3, <2>4, <2>5
<1>2. CASE r.op # "complete"
  <2>1. /\ published' = published
        /\ \/ \E i \in Ids : upload[i] # "completed" /\ upload' = [upload EXCEPT ![i] = "open"]
           \/ \E i \in Ids : upload[i] # "completed" /\ upload' = [upload EXCEPT ![i] = "aborted"]
           \/ upload' = upload
    BY <1>2 DEF Served, Requests
  <2> QED BY <1>2, <2>1 DEF TypeOK, Tables, PublishedContiguous
<1> QED BY <1>1, <1>2

\* The steps of a call that reach the object store.
LEMMA RequestKeepsPublished ==
    ASSUME IInv, PInv, NEW p \in Procs, Serve(p) \/ LoseAnswer(p)
    PROVE  PInv'
<1>1. req[p] \in Requests /\ stage[p] = "run" /\ step[p] = "sent"
  BY DEF IInv, TypeOK, Control, Serve, LoseAnswer
<1>2. PICK k \in Answers : Replied(p, k)
  BY DEF Serve, LoseAnswer, Answers, ErrorKinds, OK
<1>3. /\ UNCHANGED <<phase, tries, last, ended, result, stage, req, late>>
      /\ step' = [step EXCEPT ![p] = "replied"] /\ reply' = [reply EXCEPT ![p] = k]
  BY <1>2 DEF Replied, runVars, Serve, LoseAnswer
<1>4. Checked'
  BY <1>3 DEF PInv, Checked, ValidArguments
<1>5. CASE \E i \in Ids \cup {NoId} : Served(req[p], OK, i)
  <2>1. /\ Tables' /\ PublishedContiguous'
        /\ \A i \in Ids : upload[i] = "completed" =>
              upload'[i] = "completed" /\ published'[i] = published[i]
        /\ req[p].op = "complete" =>
              upload'[req[p].id] = "completed" /\ published'[req[p].id] = req[p].parts
    <3>1. PICK i \in Ids \cup {NoId} : Served(req[p], OK, i)
      BY <1>5
    <3>2. req[p].op = "complete" => ValidArguments(req[p])
      BY DEF PInv, Checked
    <3> QED BY <1>1, <3>1, <3>2, ServedKeeps DEF PInv, IInv
  <2>2. ASSUME NEW q \in Procs, AnsweredOK(q)'
        PROVE  upload'[req[q].id] = "completed" /\ published'[req[q].id] = req[q].parts
    <3>1. CASE q = p
      BY <1>3, <2>1, <2>2, <3>1 DEF AnsweredOK
    <3>2. CASE q # p
      <4>1. AnsweredOK(q)
        BY <1>3, <2>2, <3>2 DEF AnsweredOK, IInv, TypeOK
      <4>2. req[q].id \in Ids
        BY <4>1 DEF AnsweredOK, IInv, Control, Requests
      <4> QED BY <1>3, <2>1, <4>1, <4>2 DEF PInv, Answered
    <3> QED BY <3>1, <3>2
  <2> QED BY <1>3, <1>4, <2>1, <2>2 DEF PInv, Answered
<1>6. CASE UNCHANGED providerVars /\ k # OK
  BY <1>3, <1>4, <1>6
     DEF providerVars, PInv, Tables, PublishedContiguous, Answered, AnsweredOK, IInv, TypeOK
<1>7. \/ \E i \in Ids \cup {NoId} : Served(req[p], OK, i)
      \/ UNCHANGED providerVars /\ k # OK
  BY <1>1, <1>2 DEF Serve, LoseAnswer, Replied, IInv, TypeOK, OK
<1> QED BY <1>5, <1>6, <1>7

LEMMA LateRequestKeepsPublished ==
    ASSUME IInv, PInv, NEW r \in late, LateRequest(r)
    PROVE  PInv'
<1>1. r \in Requests /\ UNCHANGED <<runVars, callVars>> /\ late' = late \ {r}
  BY DEF LateRequest, IInv, TypeOK
<1>2. Checked'
  BY <1>1 DEF callVars, PInv, Checked, ValidArguments
<1>3. CASE UNCHANGED providerVars
  BY <1>1, <1>2, <1>3 DEF providerVars, runVars, callVars, PInv, Tables,
     PublishedContiguous, Answered, AnsweredOK
<1>4. CASE \E i \in Ids \cup {NoId} : Served(r, OK, i)
  <2>1. /\ Tables' /\ PublishedContiguous'
        /\ \A i \in Ids : upload[i] = "completed" =>
              upload'[i] = "completed" /\ published'[i] = published[i]
    <3>1. PICK i \in Ids \cup {NoId} : Served(r, OK, i)
      BY <1>4
    <3>2. r.op = "complete" => ValidArguments(r)
      BY DEF PInv, Checked
    <3> QED BY <1>1, <3>1, <3>2, ServedKeeps DEF PInv, IInv
  <2>2. \A q \in Procs : AnsweredOK(q)' => AnsweredOK(q) /\ req[q].id \in Ids
    BY <1>1 DEF runVars, callVars, AnsweredOK, IInv, TypeOK, Control, Requests
  <2> QED BY <1>1, <1>2, <2>1, <2>2 DEF callVars, PInv, Answered
<1> QED BY <1>3, <1>4 DEF LateRequest

\* The others leave the object store alone; none makes an answer OK.
LEMMA LocalKeepsPublished ==
    ASSUME IInv, PInv, UNCHANGED providerVars, Checked',
           \A p \in Procs : AnsweredOK(p)' => AnsweredOK(p) /\ req'[p] = req[p]
    PROVE  PInv'
  BY DEF providerVars, PInv, Tables, PublishedContiguous, Answered

LEMMA CallKeepsPublished ==
    ASSUME IInv, PInv, NEW p \in Procs,
           \/ \E r \in Requests : Begin(p, r)
           \/ CtxEnds(p) \/ Invoke(p) \/ AdapterEntry(p) \/ AdapterLookup(p) \/ Send(p)
           \/ LoseRequest(p) \/ GiveUp(p) \/ FnReturns(p) \/ Unmark(p)
           \/ \E k \in Answers : Finish(p, k)
    PROVE  PInv'
<1> USE DEF PInv, AnsweredOK
<1>1. CASE \E r \in Requests : Begin(p, r)
  <2>1. PICK r \in Requests : Begin(p, r)
    BY <1>1
  <2>2. UNCHANGED providerVars /\ UNCHANGED <<late, step, reply, last>>
    BY <2>1 DEF Begin, ReturnEarly, Run!Start
  <2>3. \/ UNCHANGED <<req, stage>>
        \/ /\ stage' = [stage EXCEPT ![p] = "run"] /\ req' = [req EXCEPT ![p] = r]
           /\ ValidArguments(r) /\ phase[p] = "idle"
    BY <2>1 DEF Begin, ReturnEarly, Run!Start
  <2>4. Checked'
    BY <2>2, <2>3 DEF Checked, ValidArguments, IInv, TypeOK
  <2>5. ASSUME NEW q \in Procs, AnsweredOK(q)' PROVE AnsweredOK(q) /\ req'[q] = req[q]
    BY <2>2, <2>3, <2>5 DEF IInv, TypeOK, Control, OK
  <2> QED BY <2>2, <2>4, <2>5, LocalKeepsPublished
<1>2. CASE CtxEnds(p)
  BY <1>2, LocalKeepsPublished DEF CtxEnds, Run!CtxEnds, callVars, Checked, ValidArguments
<1>3. CASE Invoke(p)
  BY <1>3, LocalKeepsPublished DEF Invoke, Run!Invoke, Checked, ValidArguments, IInv, TypeOK
<1>4. CASE AdapterEntry(p) \/ AdapterLookup(p) \/ Send(p) \/ LoseRequest(p) \/ GiveUp(p)
  <2>1. /\ UNCHANGED providerVars /\ UNCHANGED <<last, stage, req>>
        /\ late' \subseteq late \cup {req[p]}
    BY <1>4 DEF AdapterEntry, AdapterLookup, Send, LoseRequest, GiveUp, Replied, runVars
  <2>2. Checked'
    BY <2>1 DEF Checked, ValidArguments
  <2>3. /\ \A q \in Procs \ {p} : step'[q] = step[q] /\ reply'[q] = reply[q]
        /\ step'[p] = "replied" /\ reply'[p] = OK => req[p].op = "abort"
    BY <1>4 DEF AdapterEntry, AdapterLookup, AnswerLocally, Send, LoseRequest, GiveUp, Replied,
                IInv, TypeOK, OK
  <2> QED BY <2>1, <2>2, <2>3, LocalKeepsPublished
<1>5. CASE FnReturns(p)
  <2>1. /\ UNCHANGED providerVars /\ UNCHANGED <<late, stage, req>>
        /\ step[p] = "replied" /\ step' = [step EXCEPT ![p] = "none"]
        /\ last' = [last EXCEPT ![p] = IF req[p].op = "abort" /\ reply[p] = "not_found"
                                          THEN OK ELSE reply[p]]
    BY <1>5 DEF FnReturns, Run!Answer
  <2>2. Checked'
    BY <2>1 DEF Checked, ValidArguments
  <2>3. \A q \in Procs \ {p} : step'[q] = step[q] /\ reply'[q] = reply[q]
    BY <1>5 DEF FnReturns, IInv, TypeOK
  <2> QED BY <2>1, <2>2, <2>3, LocalKeepsPublished DEF IInv, TypeOK
<1>6. CASE Unmark(p) \/ \E k \in Answers : Finish(p, k)
  <2>1. /\ UNCHANGED providerVars /\ UNCHANGED <<late, step, reply>>
        /\ stage'[p] # "run"
        /\ \A q \in Procs \ {p} : stage'[q] = stage[q] /\ last'[q] = last[q]
        /\ req' = req \/ req' = [req EXCEPT ![p] = NoRequest]
    BY <1>6 DEF Unmark, Finish, Frees, Run!Leave, runVars, IInv, TypeOK
  <2>2. Checked'
    <3>1. \A q \in Procs : req'[q] = req[q] \/ req'[q].op = "none"
      BY <2>1 DEF NoRequest, IInv, TypeOK
    <3> QED BY <2>1, <3>1 DEF Checked, ValidArguments
  <2>3. \A q \in Procs : AnsweredOK(q)' => AnsweredOK(q) /\ req'[q] = req[q]
    BY <2>1 DEF IInv, TypeOK
  <2> QED BY <2>1, <2>2, <2>3, LocalKeepsPublished
<1> QED BY <1>1, <1>2, <1>3, <1>4, <1>5, <1>6

LEMMA SystemKeepsPublished ==
    ASSUME IInv, PInv, CloseStore \/ CloseAdapter \/ Restart
    PROVE  PInv'
<1>1. CASE CloseStore \/ CloseAdapter
  BY <1>1 DEF CloseStore, CloseAdapter, runVars, callVars, providerVars, PInv, Tables,
     Checked, ValidArguments, PublishedContiguous, Answered, AnsweredOK
<1>2. CASE Restart
  <2>1. UNCHANGED providerVars /\ late' \subseteq late \cup {req[p] : p \in Procs}
    BY <1>2 DEF Restart
  <2>2. Checked'
    BY <1>2, <2>1 DEF Restart, PInv, Checked, ValidArguments, NoRequest
  <2>3. \A p \in Procs : ~AnsweredOK(p)'
    BY <1>2 DEF Restart, AnsweredOK
  <2> QED BY <2>1, <2>2, <2>3, LocalKeepsPublished
<1> QED BY <1>1, <1>2

LEMMA PublishedInvariance == Spec => [](IInv /\ PInv)
<1>1. IInv /\ PInv /\ Next => PInv'
  BY RequestKeepsPublished, LateRequestKeepsPublished, CallKeepsPublished,
     SystemKeepsPublished DEF Next
<1>2. PInv /\ UNCHANGED vars => PInv'
  BY DEF vars, runVars, callVars, providerVars, PInv, Tables, Checked, ValidArguments,
         PublishedContiguous, Answered, AnsweredOK
<1> QED BY InitPInv, Invariance, <1>1, <1>2, PTL DEF Spec

\* Whatever was published is the parts 1..k in order, at most MaxParts of them, late
\* requests of another life of the process included.
THEOREM PublishedIsContiguous == Spec => []PublishedContiguous
<1>1. PInv => PublishedContiguous
  BY DEF PInv
<1> QED BY PublishedInvariance, <1>1, PTL

\* A Complete that returns nil has published its parts, and nobody has published
\* others since.
THEOREM OkIsPublished == Spec => CompleteOkPublishes
<1>1. ASSUME IInv, PInv, Next, NEW p \in Procs, CompleteReturns(p, OK)
      PROVE  AnsweredOK(p)
  <2>1. CASE \E k \in Answers : Finish(p, k)
    BY <1>1, <2>1 DEF CompleteReturns, Finish, Reported, Run!Leave, Run!MayReturn, IInv, TypeOK, OK,
                      AnsweredOK
  <2>2. ASSUME ~ \E k \in Answers : Finish(p, k) PROVE FALSE
    <3>1. CASE Restart
      BY <1>1, <3>1 DEF Restart, CompleteReturns, OK
    <3>2. CASE \E q \in Procs : Unmark(q) \/ \E k \in Answers : Finish(q, k)
      BY <1>1, <2>2, <3>2 DEF CompleteReturns, Unmark, Finish, Frees, Run!Leave, runVars,
                              IInv, TypeOK
    <3>3. CASE \E q \in Procs, r \in Requests : Begin(q, r)
      BY <1>1, <3>3 DEF CompleteReturns, Begin, ReturnEarly, Run!Start, IInv, TypeOK
    <3>4. CASE stage' = stage
      BY <1>1, <3>4 DEF CompleteReturns
    <3> QED BY <1>1, <2>2, <3>1, <3>2, <3>3, <3>4
            DEF Next, CtxEnds, Invoke, AdapterEntry, AdapterLookup, Send, Serve, LoseRequest,
                LoseAnswer, GiveUp, Replied, FnReturns, LateRequest, CloseStore,
                CloseAdapter, callVars
  <2> QED BY <2>1, <2>2
<1>2. IInv /\ PInv /\ [Next]_vars =>
        [\A p \in Procs : CompleteReturns(p, OK) => published[req[p].id] = req[p].parts]_vars
  BY <1>1 DEF PInv, Answered
<1> QED BY PublishedInvariance, <1>2, PTL DEF Spec, CompleteOkPublishes
=============================================================================
