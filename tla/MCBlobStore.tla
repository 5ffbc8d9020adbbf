---------------------------- MODULE MCBlobStore ----------------------------
(* Instances of BlobStore for TLC. *)
EXTENDS BlobStore, TLC

CONSTANTS p1, p2, k1, k2

On(op, strict, body) ==
    [op |-> op, key |-> k1, target |-> k1, strict |-> strict, body |-> body]

Put == On("put", FALSE, "whole")
PutNothing == On("put", FALSE, "empty")
Get == On("get", FALSE, "empty")
Head == On("head", FALSE, "empty")
Copy == [On("copy", FALSE, "empty") EXCEPT !.target = k2]
Delete == On("delete", FALSE, "empty")
StrictDelete == On("delete", TRUE, "empty")

\* A writer and readers of its body, a writer and calls that look at the object or
\* remove it, two writers.
Reading == {(p1 :> {Put}) @@ (p2 :> {Get, Copy}),
            (p1 :> {PutNothing}) @@ (p2 :> {Head, Delete, StrictDelete}),
            (p1 :> {Put}) @@ (p2 :> {PutNothing})}

\* Two strict deletes and a writer; a caller who does it all alone, against late
\* requests.
Deleting == {(p1 :> {PutNothing, StrictDelete}) @@ (p2 :> {StrictDelete}),
             (p1 :> {PutNothing, Get, Delete, StrictDelete}) @@ (p2 :> {})}

\* One caller.
PutAlone == {p1 :> {Put}}
DeleteAlone == {p1 :> {PutNothing, Delete}}
=============================================================================
