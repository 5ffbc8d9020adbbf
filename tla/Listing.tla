------------------------------ MODULE Listing ------------------------------
(***************************************************************************)
(* A caller walks the pages of List (blobstore.go) by continuation token,  *)
(* on either adapter, while others write and delete objects.  Keys are     *)
(* numbers in the order of their names; every page is one atomic read of   *)
(* the store (a.mu, or one request), and an attempt that fails leaves the  *)
(* walk where it is.                                                       *)
(***************************************************************************)
EXTENDS Integers, FiniteSets

CONSTANTS Keys,         \* keys of objects
          Matching,     \* those that have the prefix
          Adapters,     \* adapters of the store: "in-memory", "aliyun-oss"
          Sizes,        \* values of ListOptions.MaxKeys
          PageCap,      \* 1000 in the code
          MaxChanges    \* bound on the writes and deletes during a walk

ASSUME ListingAssumption ==
    /\ Keys \subseteq Nat \ {0} /\ IsFiniteSet(Keys)
    /\ Matching \subseteq Keys
    /\ Adapters \subseteq {"in-memory", "aliyun-oss"}
    /\ Sizes \subseteq Int /\ Sizes # {}
    /\ PageCap \in Nat \ {0} /\ MaxChanges \in Nat

NoToken == 0

VARIABLES adapter,   \* the store's
          objects,   \* keys that have an object
          walk,      \* "idle", "more" (pages to fetch), "over"
          token,     \* ContinuationToken of the next request
          page,      \* keys of the latest page
          listed,    \* keys of all pages of the walk
          stayed,    \* history: keys that had an object throughout the walk
          changes    \* writes and deletes so far

vars == <<adapter, objects, walk, token, page, listed, stayed, changes>>

TypeOK == /\ adapter \in Adapters
          /\ objects \subseteq Keys
          /\ walk \in {"idle", "more", "over"}
          /\ token \in Matching \cup {NoToken}
          /\ page \subseteq listed
          /\ listed \subseteq Matching
          /\ stayed \subseteq objects
          /\ changes \in 0..MaxChanges

Init == /\ adapter \in Adapters
        /\ objects \in SUBSET Keys
        /\ walk = "idle" /\ token = NoToken
        /\ page = {} /\ listed = {} /\ stayed = {}
        /\ changes = 0

-----------------------------------------------------------------------------
(* ListObjects.                                                            *)

\* Store.List on the page size it is asked for.
Bounded(size) == IF size <= 0 \/ size > PageCap THEN PageCap ELSE size

\* The n smallest keys of S.
Smallest(n, S) == {k \in S : Cardinality({j \in S : j < k}) < n}

Greatest(S) == CHOOSE k \in S : \A j \in S : j <= k

\* Mutant: the marker is part of the next page.
RemainingInclusive(t) ==
    {k \in objects \cap Matching : t = NoToken \/ k >= t}

\* Mutant: the prefix is not looked at.
RemainingAnyPrefix(t) == {k \in objects : t = NoToken \/ k > t}

\* The keys a request with token t still has to list.  The object store lists
\* from the first key after the marker; the in-memory adapter looks the token up
\* among its keys and lists from the beginning when it is not there.
Remaining(t) ==
    LET all == objects \cap Matching
    IN  IF t = NoToken \/ (adapter = "in-memory" /\ t \notin all) THEN all
        ELSE {k \in all : k > t}

\* Mutant: the token is the first key of the next page.
NextTokenAfter(n, S) == IF Smallest(n, S) # S THEN Greatest(Smallest(n + 1, S)) ELSE NoToken

\* Mutant: a page counts as full when it has PageCap keys, not when it has n.
NextTokenOfCap(n, S) ==
    IF Smallest(n, S) # S /\ n = PageCap THEN Greatest(Smallest(n, S)) ELSE NoToken

\* NextContinuation: the last key of a truncated page.
NextToken(n, S) == IF Smallest(n, S) # S THEN Greatest(Smallest(n, S)) ELSE NoToken

-----------------------------------------------------------------------------
(* The caller of List, and everybody else (external).                      *)

StartWalk == /\ walk # "more"
             /\ walk' = "more" /\ token' = NoToken
             /\ page' = {} /\ listed' = {} /\ stayed' = objects
             /\ UNCHANGED <<adapter, objects, changes>>

FetchPage(size) ==
    LET n == Bounded(size)
        S == Remaining(token)
    IN  /\ walk = "more"
        /\ page' = Smallest(n, S)
        /\ listed' = listed \cup Smallest(n, S)
        /\ token' = NextToken(n, S)
        /\ walk' = IF Smallest(n, S) # S THEN "more" ELSE "over"
        /\ UNCHANGED <<adapter, objects, stayed, changes>>

Write(k) == /\ changes < MaxChanges
            /\ objects' = objects \cup {k}
            /\ changes' = changes + 1
            /\ UNCHANGED <<adapter, walk, token, page, listed, stayed>>

Remove(k) == /\ changes < MaxChanges
             /\ objects' = objects \ {k}
             /\ stayed' = stayed \ {k}
             /\ changes' = changes + 1
             /\ UNCHANGED <<adapter, walk, token, page, listed>>

Next == \/ StartWalk
        \/ \E size \in Sizes : FetchPage(size)
        \/ \E k \in Keys : Write(k) \/ Remove(k)

Spec == Init /\ [][Next]_vars

\* A caller that has begun a walk goes on with it.
FairSpec == Spec /\ WF_vars(\E size \in Sizes : FetchPage(size))

-----------------------------------------------------------------------------
(* Properties.                                                             *)

\* blobstore.go, inmemory.go, oss.go: a walk that is over has listed every
\* matching key that had an object all along, whatever was written or deleted
\* between its pages, the object the token names included.
NothingSkipped == walk = "over" => stayed \cap Matching \subseteq listed

\* inmemory.go, oss.go: no key is on two pages of a walk over the object store,
\* and each page that is not the last moves the token past every key listed; over
\* the in-memory adapter, while every listed object is still the one it was when
\* the walk began.
NoKeyTwice ==
    [][walk = "more" /\ changes' = changes /\ (adapter = "aliyun-oss" \/ listed \subseteq stayed)
       => /\ page' \cap listed = {}
          /\ walk' = "more" => \A k \in listed \cup {token} : token' > k]_vars

\* inmemory.go, oss.go: once the keys stop changing a walk comes to its end, even when
\* a deleted token sends it back to the beginning.  (MaxChanges is what makes them stop:
\* a caller that deleted the object of every token would send a walk over the in-memory
\* adapter back for ever.)
WalkEnds == walk = "more" ~> walk = "over"

-----------------------------------------------------------------------------
(* A claim of the repository that the code does not keep.                  *)

\* blobstore.go: "produce stable List output (BR-006)".
StableList == [][walk = "more" /\ changes' = changes => page' \cap listed = {}]_vars
=============================================================================
