---------------------------- MODULE MCMultipart ----------------------------
(* Instances of Multipart for TLC. *)
EXTENDS Multipart, TLC

CONSTANTS p1, p2, s1, s2, u1, a

OneSession == [p \in Procs |-> s1]
OwnSessions == [p \in Procs |-> IF p = p1 THEN s1 ELSE s2]

Part(number, tag) == [n |-> number, etag |-> tag]

\* A valid list; then valid lists of one and two parts, one that skips a number and
\* one whose part has no ETag.
OneList == {<<Part(1, a)>>}
SomeLists == {<<Part(1, a)>>, <<Part(1, a), Part(2, a)>>, <<Part(2, a)>>, <<Part(1, "none")>>}

\* Callers of one session, or of a session each, change places.
Swap == (p1 :> p2) @@ (p2 :> p1) @@ (s1 :> s2) @@ (s2 :> s1)
Callers == Permutations({p1, p2})
Pairs == {Swap, [x \in {p1, p2, s1, s2} |-> x]}
=============================================================================
