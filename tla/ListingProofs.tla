--------------------------- MODULE ListingProofs ---------------------------
(***************************************************************************)
(* Theorems about Listing, for any number of keys, pages, page sizes and   *)
(* concurrent writes and deletes.  They rest on what a page is: the        *)
(* smallest keys of what remains, so that the keys it leaves out are above *)
(* its last one, the token.                                                *)
(***************************************************************************)
EXTENDS Listing, FiniteSetTheorems, InductionLemmas

-----------------------------------------------------------------------------
(* Pages.                                                                  *)

Below(k, S) == {j \in S : j < k}

\* There are fewer keys below a smaller key.
LEMMA BelowCounts ==
    ASSUME NEW S \in SUBSET Keys
    PROVE  /\ \A k \in S : Cardinality(Below(k, S)) \in Nat
           /\ \A j, k \in S : j < k => Cardinality(Below(j, S)) < Cardinality(Below(k, S))
           /\ \A k \in S : Cardinality(Below(k, S)) <= Cardinality(S)
           /\ Cardinality(S) \in Nat
<1>1. IsFiniteSet(S) /\ S \subseteq Nat
  BY FS_Subset, ListingAssumption
<1>2. \A k \in S : IsFiniteSet(Below(k, S)) /\ Below(k, S) \subseteq S
  BY <1>1, FS_Subset DEF Below
<1>3. \A k \in S : Cardinality(Below(k, S)) \in Nat
  BY <1>2, FS_CardinalityType
<1>4. ASSUME NEW j \in S, NEW k \in S, j < k
      PROVE  Cardinality(Below(j, S)) < Cardinality(Below(k, S))
  <2>1. Below(j, S) \subseteq Below(k, S) /\ j \in Below(k, S) /\ j \notin Below(j, S)
    <3>1. \A i \in S : i < j => i < k
      BY <1>1, <1>4
    <3>2. ~(j < j)
      BY <1>1
    <3> QED BY <1>4, <3>1, <3>2 DEF Below
  <2>2. Below(j, S) # Below(k, S)
    BY <2>1
  <2> QED BY <1>2, <1>3, <2>1, <2>2, FS_Subset
<1>5. \A k \in S : Cardinality(Below(k, S)) <= Cardinality(S)
  BY <1>1, <1>2, FS_Subset
<1> QED BY <1>1, <1>3, <1>4, <1>5, FS_CardinalityType

\* The greatest key has the most keys below it.
LEMMA HasGreatest ==
    ASSUME NEW S \in SUBSET Keys, S # {}
    PROVE  Greatest(S) \in S /\ \A j \in S : j <= Greatest(S)
<1> DEFINE above(k) == Cardinality(S) - Cardinality(Below(k, S))
<1>1. \A k \in S : above(k) \in Nat
  BY BelowCounts
<1>2. PICK n \in {above(k) : k \in S} : \A m \in {above(k) : k \in S} : n <= m
  <2>1. {above(k) : k \in S} \in SUBSET Nat /\ {above(k) : k \in S} # {}
    BY <1>1
  <2> HIDE DEF above
  <2> QED BY <2>1, Least
<1>3. PICK k \in S : n = above(k)
  BY <1>2
<1>4. ASSUME NEW j \in S PROVE j <= k
  <2>1. above(k) <= above(j)
    BY <1>2, <1>3
  <2>2. ~(k < j)
    BY <2>1, BelowCounts
  <2> QED BY <2>2, ListingAssumption
<1> QED BY <1>4 DEF Greatest

\* A page is the smallest keys.
LEMMA PageFacts ==
    ASSUME NEW S \in SUBSET Keys, NEW n \in Nat \ {0}
    PROVE  /\ Smallest(n, S) \subseteq S
           /\ S # {} => Smallest(n, S) # {}
           /\ \A j \in Smallest(n, S), k \in S : k \notin Smallest(n, S) => j < k
<1>1. Smallest(n, S) = {k \in S : Cardinality(Below(k, S)) < n}
  BY DEF Smallest, Below
<1>2. ASSUME S # {} PROVE Smallest(n, S) # {}
  <2>1. S \in SUBSET Nat
    BY ListingAssumption
  <2>2. PICK k \in S : \A j \in S : k <= j
    BY <1>2, <2>1, Least
  <2>3. Below(k, S) = {}
    <3>1. \A j \in S : ~(j < k)
      BY <2>1, <2>2
    <3> QED BY <3>1 DEF Below
  <2>4. Cardinality(Below(k, S)) < n
    BY <2>3, FS_EmptySet
  <2> QED BY <1>1, <2>4
<1>3. ASSUME NEW j \in Smallest(n, S), NEW k \in S, k \notin Smallest(n, S)
      PROVE  j < k
  <2>1. j \in S /\ Cardinality(Below(j, S)) < n /\ ~(Cardinality(Below(k, S)) < n)
    BY <1>1, <1>3
  <2>2. j # k /\ ~(k < j)
    BY <2>1, BelowCounts
  <2> QED BY <2>1, <2>2, ListingAssumption
<1> QED BY <1>1, <1>2, <1>3

\* What a request returns.
LEMMA FetchFacts ==
    ASSUME NEW size \in Sizes, FetchPage(size), TypeOK
    PROVE  LET S == Remaining(token)
           IN  /\ page' \subseteq S /\ S \subseteq objects \cap Matching
               /\ listed' = listed \cup page'
               /\ walk' = "over" => page' = S
               /\ walk' \in {"more", "over"}
               /\ walk' = "over" => token' = NoToken
               /\ walk' = "more" => /\ token' \in page' /\ \A j \in page' : j <= token'
                                    /\ \A k \in S : k \notin page' => k > token'
<1> DEFINE S == Remaining(token)
           n == Bounded(size)
<1>1. n \in Nat \ {0}
  BY ListingAssumption DEF Bounded
<1>2. S \subseteq objects \cap Matching /\ S \in SUBSET Keys
  BY DEF Remaining, TypeOK
<1>3. /\ page' = Smallest(n, S) /\ listed' = listed \cup Smallest(n, S)
      /\ token' = NextToken(n, S)
      /\ walk' = IF Smallest(n, S) # S THEN "more" ELSE "over"
  BY DEF FetchPage
<1> HIDE DEF S, n
<1>4. page' \subseteq S
  BY <1>1, <1>2, <1>3, PageFacts
<1>5. ASSUME walk' = "more"
      PROVE  /\ token' \in page' /\ \A j \in page' : j <= token'
             /\ \A k \in S : k \notin page' => k > token'
  <2>1. Smallest(n, S) # S
    BY <1>3, <1>5
  <2>2. Smallest(n, S) # {} /\ Smallest(n, S) \in SUBSET Keys
    BY <1>1, <1>2, <2>1, PageFacts
  <2>3. token' = Greatest(Smallest(n, S))
    BY <1>3, <2>1 DEF NextToken
  <2>4. token' \in page' /\ \A j \in page' : j <= token'
    BY <1>3, <2>2, <2>3, HasGreatest
  <2>5. \A k \in S : k \notin page' => token' < k
    BY <1>1, <1>2, <1>3, <2>4, PageFacts
  <2>6. token' \in Nat /\ S \subseteq Nat
    BY <1>2, <2>2, <2>4, <1>3, ListingAssumption
  <2> QED BY <2>4, <2>5, <2>6
<1>6. walk' = "over" => page' = S /\ token' = NoToken
  BY <1>3 DEF NextToken
<1> QED BY <1>2, <1>3, <1>4, <1>5, <1>6 DEF S

-----------------------------------------------------------------------------
(* The invariant.                                                          *)

\* What has not been listed is still to come.
Covered == \A k \in stayed \cap Matching : k \in listed \/ token = NoToken \/ k > token

\* The token is the last key that was listed, unless the walk was sent back.
Ordered ==
    /\ token = NoToken => listed = {}
    /\ token # NoToken => token \in listed
    /\ adapter = "aliyun-oss" \/ listed \subseteq stayed => \A k \in listed : k <= token

Inv == /\ TypeOK
       /\ walk = "more" => Covered /\ Ordered
       /\ NothingSkipped

\* A request goes on after the token, if the token is still there.
LEMMA GoesOn ==
    ASSUME Inv, walk = "more", adapter = "aliyun-oss" \/ listed \subseteq stayed
    PROVE  \A j \in listed, k \in Remaining(token) : j < k
<1> SUFFICES ASSUME NEW j \in listed, NEW k \in Remaining(token) PROVE j < k
  OBVIOUS
<1>1. token # NoToken /\ token \in listed /\ j <= token
  BY DEF Inv, Ordered
<1>2. adapter = "in-memory" => token \in objects \cap Matching
  BY <1>1, ListingAssumption DEF Inv, TypeOK
<1>3. k > token
  BY <1>1, <1>2 DEF Remaining
<1>4. j \in Nat /\ k \in Nat /\ token \in Nat
  BY <1>1, ListingAssumption DEF Inv, TypeOK, Remaining
<1> QED BY <1>1, <1>3, <1>4

LEMMA FetchKeeps ==
    ASSUME Inv, NEW size \in Sizes, FetchPage(size)
    PROVE  Inv'
<1> DEFINE S == Remaining(token)
<1>1. /\ page' \subseteq S /\ S \subseteq objects \cap Matching
      /\ listed' = listed \cup page'
      /\ walk' = "over" => page' = S
      /\ walk' \in {"more", "over"}
      /\ walk' = "over" => token' = NoToken
      /\ walk' = "more" => /\ token' \in page' /\ \A j \in page' : j <= token'
                           /\ \A k \in S : k \notin page' => k > token'
  BY FetchFacts DEF Inv
<1>2. walk = "more" /\ UNCHANGED <<adapter, objects, stayed, changes>>
  BY DEF FetchPage
<1>3. TypeOK'
  BY <1>1, <1>2 DEF Inv, TypeOK
<1>4. \A k \in stayed \cap Matching : k \in listed \/ k \in S
  BY <1>2 DEF Inv, TypeOK, Covered, Remaining
<1>5. NothingSkipped'
  BY <1>1, <1>2, <1>4 DEF NothingSkipped
<1>6. walk' = "more" => Covered'
  BY <1>1, <1>2, <1>4 DEF Covered
<1>7. ASSUME walk' = "more" PROVE Ordered'
  <2>1. token' \in listed' /\ token' # NoToken
    BY <1>1, <1>7, ListingAssumption DEF NoToken
  <2>2. ASSUME adapter' = "aliyun-oss" \/ listed' \subseteq stayed', NEW k \in listed'
        PROVE  k <= token'
    <3>1. adapter = "aliyun-oss" \/ listed \subseteq stayed
      BY <1>1, <1>2, <2>2
    <3>2. CASE k \in page'
      BY <1>1, <1>7, <3>2
    <3>3. CASE k \in listed
      <4>1. k < token'
        BY <1>1, <1>2, <1>7, <3>1, <3>3, GoesOn
      <4>2. k \in Nat /\ token' \in Nat
        BY <1>1, <1>7, <3>3, ListingAssumption DEF Inv, TypeOK
      <4> QED BY <4>1, <4>2
    <3> QED BY <1>1, <2>2, <3>2, <3>3
  <2> QED BY <2>1, <2>2 DEF Ordered
<1> QED BY <1>3, <1>5, <1>6, <1>7 DEF Inv

\* The invariant: tokens, pages and keys listed, ordered as the walk lists them.
THEOREM Invariance == Spec => []Inv
<1>1. Init => Inv
  BY ListingAssumption DEF Init, Inv, TypeOK, NothingSkipped, NoToken
<1>2. Inv /\ [Next]_vars => Inv'
  <2> SUFFICES ASSUME Inv, [Next]_vars PROVE Inv'
    OBVIOUS
  <2>1. CASE UNCHANGED vars
    BY <2>1 DEF vars, Inv, TypeOK, NothingSkipped, Covered, Ordered
  <2>2. CASE StartWalk
    BY <2>2 DEF StartWalk, Inv, TypeOK, NothingSkipped, Covered, Ordered, NoToken
  <2>3. ASSUME NEW k \in Keys, Write(k) PROVE Inv'
    BY <2>3, ListingAssumption DEF Write, Inv, TypeOK, NothingSkipped, Covered, Ordered
  <2>4. ASSUME NEW k \in Keys, Remove(k) PROVE Inv'
    BY <2>4, ListingAssumption DEF Remove, Inv, TypeOK, NothingSkipped, Covered, Ordered
  <2> QED BY <2>1, <2>2, <2>3, <2>4, FetchKeeps DEF Next
<1> QED BY <1>1, <1>2, PTL DEF Spec

\* Tokens, pages and what was listed are matching keys.
THEOREM TypeCorrect == Spec => []TypeOK
<1>1. Inv => TypeOK
  BY DEF Inv
<1> QED BY Invariance, <1>1, PTL

\* blobstore.go, inmemory.go, oss.go: whatever is written or deleted between the
\* pages of a walk, on either adapter, the walk lists every key that stayed.
THEOREM WalkIsComplete == Spec => []NothingSkipped
<1>1. Inv => NothingSkipped
  BY DEF Inv
<1> QED BY Invariance, <1>1, PTL

\* inmemory.go, oss.go: no key is on two pages, and the token moves past every key
\* listed, unless a deleted token sends a walk over the in-memory adapter back.
THEOREM PagesAreDisjoint == Spec => NoKeyTwice
<1> DEFINE A == walk = "more" /\ changes' = changes
                /\ (adapter = "aliyun-oss" \/ listed \subseteq stayed)
                => /\ page' \cap listed = {}
                   /\ walk' = "more" => \A k \in listed \cup {token} : token' > k
<1>1. Inv /\ [Next]_vars => [A]_vars
  <2> SUFFICES ASSUME Inv, Next, walk = "more", changes' = changes,
                      adapter = "aliyun-oss" \/ listed \subseteq stayed
               PROVE  /\ page' \cap listed = {}
                      /\ walk' = "more" => \A k \in listed \cup {token} : token' > k
    OBVIOUS
  <2>1. PICK size \in Sizes : FetchPage(size)
    <3>1. \A k \in Keys : ~Write(k) /\ ~Remove(k)
      BY DEF Write, Remove, Inv, TypeOK
    <3> QED BY <3>1 DEF Next, StartWalk
  <2>2. page' \subseteq Remaining(token)
    BY <2>1, FetchFacts DEF Inv
  <2>3. \A j \in listed, k \in page' : j < k
    BY <2>2, GoesOn
  <2>4. listed \subseteq Nat
    BY ListingAssumption DEF Inv, TypeOK
  <2>5. \A k \in listed : ~(k < k)
    BY <2>4
  <2>6. ASSUME walk' = "more", NEW k \in listed \cup {token} PROVE token' > k
    <3>1. token' \in page' /\ token' \in Nat \ {0}
      BY <2>1, <2>2, <2>6, FetchFacts, ListingAssumption DEF Inv, TypeOK, Remaining
    <3>2. CASE k \in listed
      BY <2>3, <2>4, <3>1, <3>2
    <3>3. CASE k = token
      <4>1. token = NoToken \/ token \in listed
        BY DEF Inv, Ordered
      <4> QED BY <2>3, <2>4, <3>1, <3>3, <4>1 DEF NoToken
    <3> QED BY <2>6, <3>2, <3>3
  <2> QED BY <2>3, <2>5, <2>6
<1> QED BY Invariance, <1>1, PTL DEF Spec, NoKeyTwice
=============================================================================
