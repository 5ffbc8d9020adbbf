--------------------------- MODULE MCMemoryStore ---------------------------
(* An instance of MemoryStore for TLC.  Its workloads are the calls that   *)
(* meet in one table or one lock.                                          *)
EXTENDS MemoryStore

CONSTANTS p1, p2, k1, k2

Call(op) == [op |-> op, key |-> k1, target |-> k1, strict |-> FALSE, data |-> "x",
             summed |-> FALSE, fed |-> FALSE, id |-> 1, part |-> 1]

OtherPut == [Call("put") EXCEPT !.data = "y"]
SummedPut == [Call("put") EXCEPT !.summed = TRUE]
StrictDelete == [Call("delete") EXCEPT !.strict = TRUE]
CopyAway == [Call("copy") EXCEPT !.target = k2]
FedPut == [Call("put") EXCEPT !.fed = TRUE]

Writing == {Call("put"), OtherPut, Call("get")}
Deleting == {Call("put"), StrictDelete, Call("delete")}
Copying == {SummedPut, CopyAway}
Uploading == {Call("initiate"), Call("upload"), Call("list"), Call("complete"), Call("abort")}
Feeding == {FedPut, Call("get"), Call("close"), Call("health")}
Closing == {Call("upload"), Call("initiate"), Call("abort"), Call("head"), Call("close")}

SomeWorkloads == {Writing, Deleting, Copying, Uploading, Feeding, Closing}
SomeRequests == UNION SomeWorkloads
=============================================================================
