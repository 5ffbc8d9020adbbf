-------------------------- MODULE InductionLemmas --------------------------
(***************************************************************************)
(* Induction over the numbers in a form every prover takes: about sets of  *)
(* numbers, never about predicates.  The proofs about recursive functions  *)
(* (what a key is split into, the powers in a delay) and those about the   *)
(* pages of a listing rest on it.                                          *)
(***************************************************************************)
EXTENDS Integers, WellFoundedInduction, TLAPS

\* A set of numbers that is not empty has a least one.
LEMMA Least ==
    ASSUME NEW T, T \subseteq Nat, T # {}
    PROVE  \E m \in T : \A k \in T : m <= k
<1> DEFINE R == OpToRel(<, Nat)
<1>1. \A x, y \in Nat : x < y => <<x, y>> \in R
  BY DEF OpToRel
<1>2. IsWellFoundedOn(R, Nat)
  BY NatLessThanWellFounded
<1> HIDE DEF R
<1>3. PICK m \in T : \A k \in T : ~(<<k, m>> \in R)
  BY <1>2, WFMin
<1>4. \A k \in T : ~(k < m)
  BY <1>1, <1>3
<1>5. \A k \in T : m <= k
  BY <1>4
<1> QED BY <1>5

\* Induction up to N, on membership in T.
LEMMA UpTo ==
    ASSUME NEW N \in Nat, NEW T, 0 \in T,
           \A n \in 0..(N - 1) : n \in T => n + 1 \in T
    PROVE  0..N \subseteq T
<1> DEFINE Out == {n \in 0..N : n \notin T}
<1> SUFFICES ASSUME Out # {} PROVE FALSE
  OBVIOUS
<1>1. Out \subseteq Nat
  OBVIOUS
<1> HIDE DEF Out
<1>2. PICK m \in Out : \A k \in Out : m <= k
  BY <1>1, Least
<1> USE DEF Out
<1>3. m \in 1..N /\ m - 1 \in 0..(N - 1) /\ m - 1 \notin Out
  BY <1>2
<1>4. m - 1 \in T
  BY <1>3
<1>5. (m - 1) + 1 = m
  BY <1>3
<1>6. m \in T
  BY <1>3, <1>4, <1>5
<1> QED BY <1>6

\* g is defined on 0..N by recursion: it starts with a and goes on with F.
Recursive(g, N, S, a, F) ==
    /\ g \in [0..N -> S] /\ g[0] = a
    /\ \A i \in 1..N : g[i] = F[<<g[i - 1], i>>]

\* There is such a function.
LEMMA Recursion ==
    ASSUME NEW N \in Nat, NEW S, NEW a \in S, NEW F \in [S \X (1..N) -> S]
    PROVE  \E g : Recursive(g, N, S, a, F)
<1> DEFINE Good(n, g) == g[0] = a /\ \A i \in 1..n : g[i] = F[<<g[i - 1], i>>]
           T == {n \in 0..N : \E g \in [0..n -> S] : Good(n, g)}
<1>1. 0 \in T
  <2> DEFINE g == [i \in 0..0 |-> a]
  <2>1. g \in [0..0 -> S] /\ Good(0, g)
    OBVIOUS
  <2> HIDE DEF g, Good
  <2>2. \E f \in [0..0 -> S] : Good(0, f)
    BY <2>1
  <2> QED BY <2>2
<1>2. ASSUME NEW n \in 0..(N - 1), n \in T PROVE n + 1 \in T
  <2>1. PICK g \in [0..n -> S] : Good(n, g)
    BY <1>2
  <2>2. n + 1 \in 1..N /\ n \in 0..n /\ g[n] \in S
    OBVIOUS
  <2> DEFINE next == F[<<g[n], n + 1>>]
             h == [i \in 0..(n + 1) |-> IF i <= n THEN g[i] ELSE next]
  <2>3. next \in S
    BY <2>2
  <2> HIDE DEF next
  <2>4. h \in [0..(n + 1) -> S]
    BY <2>3
  <2>5. \A i \in 0..n : h[i] = g[i]
    OBVIOUS
  <2>6. h[n + 1] = next
    OBVIOUS
  <2> HIDE DEF h
  <2>7. h[0] = a
    BY <2>1, <2>5
  <2>8. ASSUME NEW i \in 1..(n + 1) PROVE h[i] = F[<<h[i - 1], i>>]
    <3>1. CASE i \in 1..n
      <4>1. h[i] = g[i] /\ h[i - 1] = g[i - 1]
        BY <2>5, <3>1
      <4>2. g[i] = F[<<g[i - 1], i>>]
        BY <2>1, <3>1
      <4> QED BY <4>1, <4>2
    <3>2. CASE i = n + 1
      <4>1. i - 1 = n /\ h[n] = g[n]
        BY <2>5, <3>2
      <4>2. h[i] = F[<<h[i - 1], i>>]
        BY <2>6, <3>2, <4>1 DEF next
      <4> QED BY <4>2
    <3> QED BY <3>1, <3>2
  <2>9. Good(n + 1, h)
    BY <2>7, <2>8
  <2> HIDE DEF Good
  <2>10. \E f \in [0..(n + 1) -> S] : Good(n + 1, f)
    BY <2>4, <2>9
  <2> QED BY <2>2, <2>10
<1> HIDE DEF T
<1>3. 0..N \subseteq T
  BY <1>1, <1>2, UpTo
<1>4. N \in T
  BY <1>3
<1>5. \E g \in [0..N -> S] : Good(N, g)
  BY <1>4 DEF T
<1> QED BY <1>5 DEF Recursive
=============================================================================
