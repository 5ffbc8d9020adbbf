---------------------------- MODULE AtomicStore ----------------------------
(***************************************************************************)
(* What a Store over the in-memory adapter promises its concurrent         *)
(* callers: a call takes effect at most once, all at once, at a moment     *)
(* between its begin and its return, and returns what it did at that       *)
(* moment; a call that did nothing returns "canceled" or "unavailable".    *)
(* A Close leaves nothing, and nothing comes back.                         *)
(***************************************************************************)
EXTENDS MemoryTables

CONSTANTS Procs,
          Requests,   \* the calls they make
          Faults      \* what a health probe may report of an open adapter

VARIABLES tables,
          closing,   \* a Close has begun
          call,      \* "none", "pending", "done", "probing", "closing"
          req,       \* the call's arguments
          outcome,   \* what a call that is done did
          result     \* what the latest call returned

vars == <<tables, closing, call, req, outcome, result>>

NoRequest == [op |-> "none"]
NoOutcome == [answer |-> "none", value |-> Nothing]

Init == /\ tables = NewTables
        /\ closing = FALSE
        /\ call = [p \in Procs |-> "none"]
        /\ req = [p \in Procs |-> NoRequest]
        /\ outcome = [p \in Procs |-> NoOutcome]
        /\ result = [p \in Procs |-> "none"]

Begins(p, as) == /\ call[p] = "none"
                 /\ call' = [call EXCEPT ![p] = as]
                 /\ result' = [result EXCEPT ![p] = "none"]

Returns(p, k) == /\ call' = [call EXCEPT ![p] = "none"]
                 /\ req' = [req EXCEPT ![p] = NoRequest]
                 /\ outcome' = [outcome EXCEPT ![p] = NoOutcome]
                 /\ result' = [result EXCEPT ![p] = k]

Invoke(p, r) == /\ ~closing
                /\ Begins(p, "pending")
                /\ req' = [req EXCEPT ![p] = r]
                /\ UNCHANGED <<tables, closing, outcome>>

\* The call takes effect, with what its reader had yet to yield.
Perform(p) == \E rest \in Rests :
    LET e == Effect(tables, req[p], Content(req[p], rest))
    IN  /\ call[p] = "pending"
        /\ call' = [call EXCEPT ![p] = "done"]
        /\ tables' = e.tables
        /\ outcome' = [outcome EXCEPT ![p] = [answer |-> e.answer, value |-> e.value]]
        /\ UNCHANGED <<closing, req, result>>

Return(p) == /\ call[p] = "done"
             /\ Returns(p, outcome[p].answer)
             /\ UNCHANGED <<tables, closing>>

GiveUp(p, k) == /\ call[p] = "pending"
                /\ Returns(p, k)
                /\ UNCHANGED <<tables, closing>>

\* A call after a Close has begun is turned away at the door.
TurnAway(p) == /\ closing
               /\ call[p] = "none"
               /\ result' = [result EXCEPT ![p] = "closed"]
               /\ UNCHANGED <<tables, closing, call, req, outcome>>

Probe(p) == ~closing /\ Begins(p, "probing") /\ UNCHANGED <<tables, closing, req, outcome>>

Report(p, k) == /\ call[p] = "probing"
                /\ IF tables.closed THEN k = "closed" ELSE k \in {OK} \cup Faults
                /\ Returns(p, k)
                /\ UNCHANGED <<tables, closing>>

Close(p) == /\ ~closing
            /\ Begins(p, "closing")
            /\ closing' = TRUE
            /\ UNCHANGED <<tables, req, outcome>>

CloseReturns(p) == /\ call[p] = "closing"
                   /\ tables' = Cleared(tables)
                   /\ Returns(p, OK)
                   /\ UNCHANGED closing

\* A Close after the first finds nothing to do, and does not wait for it.
CloseAgain(p) == /\ closing
                 /\ call[p] = "none"
                 /\ result' = [result EXCEPT ![p] = OK]
                 /\ UNCHANGED <<tables, closing, call, req, outcome>>

Next == \E p \in Procs :
            \/ \E r \in Requests : Invoke(p, r)
            \/ Perform(p) \/ Return(p)
            \/ \E k \in {"canceled", "unavailable"} : GiveUp(p, k)
            \/ TurnAway(p) \/ Probe(p)
            \/ \E k \in {OK, "closed"} \cup Faults : Report(p, k)
            \/ Close(p) \/ CloseReturns(p) \/ CloseAgain(p)

Spec == Init /\ [][Next]_vars
=============================================================================
