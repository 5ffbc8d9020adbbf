------------------------- MODULE StorePolicyProofs -------------------------
(***************************************************************************)
(* Theorems about StorePolicy, for every config, environment, key and TTL: *)
(* what a store that was built lets through is within the policy its       *)
(* caller gave, its keys name the paths they spell, its delays are         *)
(* bounded, and a config from the environment is taken as it is.           *)
(***************************************************************************)
EXTENDS StorePolicy, InductionLemmas, SequenceTheorems

-----------------------------------------------------------------------------
(* withDefaults.                                                           *)

\* It leaves the policies alone.
LEMMA FilledPolicies ==
    ASSUME NEW c \in Config
    PROVE  /\ Filled(c).operations = c.operations /\ Filled(c).algorithms = c.algorithms
           /\ Filled(c).allowed = c.allowed /\ Filled(c).denied = c.denied
           /\ Filled(c).complete = c.complete /\ Filled(c).timeout = c.timeout
           /\ Filled(c).lifecycle = c.lifecycle /\ Filled(c).retention = c.retention
           /\ Filled(c).retry = IF c.retry.attempts = 0 /\ c.retry.wait = 0
                                  THEN DefaultRetry ELSE c.retry
           /\ Filled(c).maxParts = IF c.maxParts = 0 THEN DefaultMaxParts ELSE c.maxParts
           /\ Filled(c).maxTTL = IF c.maxTTL = 0 THEN CapSeconds * TicksPerSecond ELSE c.maxTTL
  BY DEF Filled, Config

LEMMA FilledTyped ==
    ASSUME NEW c \in Config
    PROVE  Filled(c) \in Config
<1> DEFINE top == CapSeconds * TicksPerSecond
<1>1. DefaultMaxParts \in Int /\ top \in Int /\ DefaultRetry \in RetryConfig
  BY StorePolicyAssumption
<1> HIDE DEF top
<1> QED BY <1>1 DEF Filled, Config, top

\* Doing it again changes nothing.
LEMMA FilledTwice ==
    ASSUME NEW c \in Config
    PROVE  Filled(Filled(c)) = Filled(c)
<1> DEFINE f == Filled(c)
           g == Filled(f)
<1>1. f \in Config /\ g \in Config
  BY FilledTyped
<1>2. /\ g.operations = f.operations /\ g.algorithms = f.algorithms
      /\ g.allowed = f.allowed /\ g.denied = f.denied
      /\ g.complete = f.complete /\ g.timeout = f.timeout
      /\ g.lifecycle = f.lifecycle /\ g.retention = f.retention
      /\ g.retry = f.retry /\ g.maxParts = f.maxParts /\ g.maxTTL = f.maxTTL
  BY <1>1, FilledPolicies
<1> HIDE DEF f, g
<1>3. g = f
  BY <1>1, <1>2 DEF Config
<1> QED BY <1>3 DEF f, g

LEMMA ParsedTyped ==
    ASSUME NEW v \in SUBSET Int, NEW d \in Int
    PROVE  Parsed(v, d) \in Int
  BY DEF Parsed

\* A config from the environment is one, and has its defaults already.
LEMMA FromEnvStands ==
    ASSUME NEW e \in Environment
    PROVE  FromEnv(e) \in Config /\ Filled(FromEnv(e)) = FromEnv(e)
<1> DEFINE top == CapSeconds * TicksPerSecond
           t == Parsed(e.timeout, DefaultTimeout)
           m == Parsed(e.maxTTL, top)
           n == Parsed(e.maxParts, DefaultMaxParts)
           c == [Unset EXCEPT !.complete = TRUE, !.timeout = t, !.maxTTL = m,
                              !.operations = {"GET", "PUT"}, !.maxParts = n,
                              !.retry = DefaultRetry, !.algorithms = {"sha256"}]
<1>1. DefaultTimeout \in Int /\ DefaultMaxParts \in Int /\ top \in Int
  BY StorePolicyAssumption
<1>2. t \in Int /\ m \in Int /\ n \in Int
  BY <1>1, ParsedTyped DEF Environment
<1>3. Unset \in Config /\ DefaultRetry \in RetryConfig
  BY StorePolicyAssumption
<1>4. FromEnv(e) = Filled(c)
  BY DEF FromEnv
<1> HIDE DEF top, t, m, n
<1>5. c \in Config
  <2> DEFINE c1 == [Unset EXCEPT !.complete = TRUE]
             c2 == [c1 EXCEPT !.timeout = t]
             c3 == [c2 EXCEPT !.maxTTL = m]
             c4 == [c3 EXCEPT !.operations = {"GET", "PUT"}]
             c5 == [c4 EXCEPT !.maxParts = n]
             c6 == [c5 EXCEPT !.retry = DefaultRetry]
             c7 == [c6 EXCEPT !.algorithms = {"sha256"}]
  <2>1. c = c7
    OBVIOUS
  <2> HIDE DEF c
  <2>2. c1 \in Config
    BY <1>3 DEF Config
  <2> HIDE DEF c1
  <2>3. c2 \in Config
    BY <1>2, <2>2 DEF Config
  <2> HIDE DEF c2
  <2>4. c3 \in Config
    BY <1>2, <2>3 DEF Config
  <2> HIDE DEF c3
  <2>5. c4 \in Config
    BY <2>4 DEF Config, PresignOperations
  <2> HIDE DEF c4
  <2>6. c5 \in Config
    BY <1>2, <2>5 DEF Config
  <2> HIDE DEF c5
  <2>7. c6 \in Config
    BY <1>3, <2>6 DEF Config
  <2> HIDE DEF c6
  <2>8. c7 \in Config
    BY <2>7 DEF Config, Algorithms, Supported
  <2> QED BY <2>1, <2>8
<1> HIDE DEF c
<1> QED BY <1>4, <1>5, FilledTyped, FilledTwice

-----------------------------------------------------------------------------
(* The TTL of a URL.                                                       *)

LEMMA Quotient ==
    ASSUME NEW t \in Nat, NEW k \in Nat \ {0}, NEW n \in Nat, t <= n * k
    PROVE  t \div k \in 0..n /\ (t \div k) * k <= t /\ (t >= k => t \div k # 0)
<1>1. t \div k \in Nat /\ (t \div k) * k <= t
  BY Z3
<1>2. CASE t \div k >= n + 1
  <2>1. (t \div k) * k >= (n + 1) * k
    BY <1>1, <1>2, Z3
  <2>2. (n + 1) * k = n * k + k
    BY Z3
  <2> QED BY <1>1, <2>1, <2>2, Z3
<1>3. t < (t \div k) * k + k
  BY Z3
<1> QED BY <1>1, <1>2, <1>3

LEMMA Product ==
    ASSUME NEW m \in Int, NEW n \in Int, NEW k \in Nat, m <= n
    PROVE  m * k <= n * k
<1>1. (n - m) * k >= 0
  BY Z3
<1>2. (n - m) * k = n * k - m * k
  BY Z3
<1> QED BY <1>1, <1>2, Z3

LEMMA GrantedTTL ==
    ASSUME cfg \in Config, Valid(cfg)
    PROVE  /\ MaxSeconds \in Int /\ MaxSeconds <= CapSeconds
           /\ cfg.maxTTL >= TicksPerSecond => MaxSeconds * TicksPerSecond <= cfg.maxTTL
<1>1. /\ TicksPerSecond \in Nat \ {0} /\ CapSeconds \in Nat
      /\ cfg.maxTTL \in Nat /\ cfg.maxTTL <= CapSeconds * TicksPerSecond
  <2>1. cfg.maxTTL >= 0 /\ cfg.maxTTL <= CapSeconds * TicksPerSecond
    BY Zenon DEF Valid
  <2>2. cfg.maxTTL \in Int /\ TicksPerSecond \in Nat \ {0} /\ CapSeconds \in Nat
    BY StorePolicyAssumption DEF Config
  <2> QED BY <2>1, <2>2
<1> DEFINE q == cfg.maxTTL \div TicksPerSecond
<1>2. /\ q \in 0..CapSeconds /\ q * TicksPerSecond <= cfg.maxTTL
      /\ cfg.maxTTL >= TicksPerSecond => q # 0
  BY <1>1, Quotient
<1>3. MaxSeconds = IF q = 0 THEN CapSeconds ELSE q
  BY DEF MaxSeconds
<1> HIDE DEF q
<1> QED BY <1>1, <1>2, <1>3

-----------------------------------------------------------------------------
(* NewKey.                                                                 *)

\* What a key over the characters C has been split into so far: at least one segment.
SplitStates(C) == Seq(Seq(C)) \ {<<>>}
Unsplit == << <<>> >>

LEMMA LastSegment ==
    ASSUME NEW C, NEW q \in SplitStates(C), NEW c \in C
    PROVE  /\ q \in Seq(Seq(C)) /\ Len(q) \in Nat \ {0} /\ Len(q) \in 1..Len(q)
           /\ q[Len(q)] \in Seq(C)
           /\ Append(q[Len(q)], c) \in Seq(C) /\ Append(q[Len(q)], c) # <<>>
<1>1. q \in Seq(Seq(C)) /\ q # <<>>
  BY DEF SplitStates
<1>2. Len(q) \in Nat \ {0} /\ Len(q) \in 1..Len(q)
  BY <1>1
<1>3. q[Len(q)] \in Seq(C)
  BY <1>1, <1>2, ElementOfSeq
<1>4. Append(q[Len(q)], c) \in Seq(C) /\ Append(q[Len(q)], c) # <<>>
  BY <1>3, AppendProperties
<1> QED BY <1>1, <1>2, <1>3, <1>4

\* The two cases of Extended, by length, elements and last segment.
LEMMA ExtendedCases ==
    ASSUME NEW C, NEW q \in SplitStates(C), NEW c \in C
    PROVE  /\ Extended(q, c) \in SplitStates(C)
           /\ c = "/" => /\ Extended(q, c) = Append(q, <<>>)
                         /\ Len(Extended(q, c)) = Len(q) + 1
                         /\ Extended(q, c)[Len(q) + 1] = <<>>
           /\ c # "/" => /\ Len(Extended(q, c)) = Len(q)
                         /\ Extended(q, c)[Len(q)] = Append(q[Len(q)], c)
                         /\ \A i \in 1..Len(q) : i # Len(q) => Extended(q, c)[i] = q[i]
<1> DEFINE n == Len(q)
           longer == Append(q[n], c)
           S == Seq(C)
<1>1. q \in Seq(S) /\ n \in Nat \ {0} /\ n \in 1..n /\ longer \in S /\ longer # <<>>
  BY LastSegment
<1>2. <<>> \in S
  OBVIOUS
<1>3. CASE c = "/"
  <2>1. Extended(q, c) = Append(q, <<>>)
    BY <1>3 DEF Extended
  <2> HIDE DEF S
  <2>2. /\ Append(q, <<>>) \in Seq(S) /\ Append(q, <<>>) # <<>>
        /\ Len(Append(q, <<>>)) = n + 1 /\ Append(q, <<>>)[n + 1] = <<>>
    BY <1>1, <1>2, AppendProperties
  <2> QED BY <1>3, <2>1, <2>2 DEF SplitStates, S
<1>4. CASE c # "/"
  <2>1. Extended(q, c) = [q EXCEPT ![n] = longer]
    BY <1>4 DEF Extended
  <2> HIDE DEF S, longer
  <2> DEFINE x == [q EXCEPT ![n] = longer]
  <2>2. /\ x \in Seq(S) /\ Len(x) = n
        /\ \A i \in 1..n : x[i] = IF i = n THEN longer ELSE q[i]
    BY <1>1, ExceptSeq
  <2> HIDE DEF x
  <2>3. x # <<>>
    BY <1>1, <2>2
  <2> QED BY <1>1, <1>4, <2>1, <2>2, <2>3 DEF SplitStates, S, longer, x
<1> QED BY <1>3, <1>4

\* The last character can be told from the segments, and what they were before it.
LEMMA ExtendedTells ==
    ASSUME NEW C, NEW q \in SplitStates(C), NEW r \in SplitStates(C), NEW c \in C, NEW d \in C
    PROVE  /\ Extended(q, c) # Unsplit
           /\ Extended(q, c) = Extended(r, d) => q = r /\ c = d
<1> DEFINE x == Extended(q, c)
           y == Extended(r, d)
           lastq == Append(q[Len(q)], c)
           lastr == Append(r[Len(r)], d)
<1>1. /\ q \in Seq(Seq(C)) /\ Len(q) \in Nat \ {0} /\ q[Len(q)] \in Seq(C) /\ lastq # <<>>
      /\ r \in Seq(Seq(C)) /\ Len(r) \in Nat \ {0} /\ r[Len(r)] \in Seq(C) /\ lastr # <<>>
  BY LastSegment
<1>2. /\ c = "/" => x = Append(q, <<>>) /\ Len(x) = Len(q) + 1 /\ x[Len(q) + 1] = <<>>
      /\ d = "/" => y = Append(r, <<>>) /\ Len(y) = Len(r) + 1 /\ y[Len(r) + 1] = <<>>
  BY ExtendedCases
<1>3. /\ c # "/" => /\ Len(x) = Len(q) /\ x[Len(q)] = lastq
                    /\ \A i \in 1..Len(q) : i # Len(q) => x[i] = q[i]
      /\ d # "/" => /\ Len(y) = Len(r) /\ y[Len(r)] = lastr
                    /\ \A i \in 1..Len(r) : i # Len(r) => y[i] = r[i]
  <2>1. c # "/" => /\ Len(x) = Len(q) /\ x[Len(q)] = lastq
                   /\ \A i \in 1..Len(q) : i # Len(q) => x[i] = q[i]
    BY ExtendedCases, Zenon
  <2>2. d # "/" => /\ Len(y) = Len(r) /\ y[Len(r)] = lastr
                   /\ \A i \in 1..Len(r) : i # Len(r) => y[i] = r[i]
    BY ExtendedCases, Zenon
  <2> QED BY <2>1, <2>2
<1> HIDE DEF x, y, lastq, lastr
<1>4. x # << <<>> >>
  <2> SUFFICES ASSUME x = << <<>> >> PROVE FALSE
    OBVIOUS
  <2>1. Len(x) = 1 /\ x[1] = <<>>
    OBVIOUS
  <2>2. CASE c = "/"
    BY <1>1, <1>2, <2>1, <2>2
  <2>3. CASE c # "/"
    BY <1>1, <1>3, <2>1, <2>3
  <2> QED BY <2>2, <2>3
<1>5. ASSUME x = y PROVE q = r /\ c = d
  <2>1. CASE c = "/" /\ d = "/"
    <3>1. Append(q, <<>>) = Append(r, <<>>) /\ <<>> \in Seq(C)
      BY <1>2, <1>5, <2>1
    <3>2. q = r
      BY <1>1, <3>1, AppendInjective
    <3> QED BY <2>1, <3>2
  <2>2. CASE c # "/" /\ d # "/"
    <3>1. Len(q) = Len(r) /\ lastq = lastr
      BY <1>3, <1>5, <2>2
    <3>2. q[Len(q)] = r[Len(r)] /\ c = d
      BY <1>1, <3>1, AppendInjective DEF lastq, lastr
    <3>3. ASSUME NEW i \in 1..Len(q) PROVE q[i] = r[i]
      <4>1. CASE i = Len(q)
        BY <3>1, <3>2, <4>1
      <4>2. CASE i # Len(q)
        <5>1. x[i] = q[i] /\ y[i] = r[i]
          BY <1>3, <2>2, <3>1, <4>2
        <5> QED BY <1>5, <5>1
      <4> QED BY <4>1, <4>2
    <3>4. q = r
      BY <1>1, <3>1, <3>3, SeqEqual
    <3> QED BY <3>2, <3>4
  <2>3. CASE c = "/" /\ d # "/"
    BY <1>1, <1>2, <1>3, <1>5, <2>3
  <2>4. CASE c # "/" /\ d = "/"
    BY <1>1, <1>2, <1>3, <1>5, <2>4
  <2> QED BY <2>1, <2>2, <2>3, <2>4
<1> QED BY <1>4, <1>5 DEF x, y, Unsplit

\* The equations of Segments have a solution.
LEMMA SegmentsUnfold ==
    ASSUME NEW C, NEW key \in Seq(C)
    PROVE  \E g \in [0..Len(key) -> SplitStates(C)] :
              /\ g[0] = Unsplit
              /\ \A n \in 1..Len(key) : g[n] = Extended(g[n - 1], key[n])
              /\ Segments(key) = g[Len(key)]
<1> DEFINE N == Len(key)
           Solves(g) == g = [n \in 0..N |-> IF n = 0 THEN Unsplit
                                                     ELSE Extended(g[n - 1], key[n])]
           p == CHOOSE g : Solves(g)
           F == [x \in SplitStates(C) \X (1..N) |-> Extended(x[1], key[x[2]])]
<1>1. Segments(key) = p[N]
  BY DEF Segments, Unsplit
<1>2. N \in Nat /\ Unsplit \in SplitStates(C)
  BY DEF SplitStates, Unsplit
<1>3. F \in [SplitStates(C) \X (1..N) -> SplitStates(C)]
  BY ExtendedCases
<1>4. \A s \in SplitStates(C), n \in 1..N : F[<<s, n>>] = Extended(s, key[n])
  OBVIOUS
<1> HIDE DEF N, F
<1>5. PICK f \in [0..N -> SplitStates(C)] :
         f[0] = Unsplit /\ \A n \in 1..N : f[n] = F[<<f[n - 1], n>>]
  <2> DEFINE S == SplitStates(C)
             a == Unsplit
  <2>1. a \in S /\ F \in [S \X (1..N) -> S]
    BY <1>2, <1>3
  <2> HIDE DEF S, a
  <2>2. \E f : Recursive(f, N, S, a, F)
    BY <1>2, <2>1, Recursion
  <2> QED BY <2>2 DEF S, a, Recursive
<1>6. ASSUME NEW n \in 1..N PROVE f[n] = Extended(f[n - 1], key[n])
  <2>1. n - 1 \in 0..N
    BY <1>2
  <2> QED BY <1>4, <1>5, <2>1
<1>7. Solves(f)
  <2>1. ASSUME NEW n \in 0..N
        PROVE  f[n] = IF n = 0 THEN Unsplit ELSE Extended(f[n - 1], key[n])
    <3>1. CASE n = 0
      BY <1>5, <3>1
    <3>2. CASE n # 0
      <4>1. n \in 1..N
        BY <1>2, <3>2
      <4> QED BY <1>6, <3>2, <4>1
    <3> QED BY <3>1, <3>2
  <2> QED BY <2>1
<1>8. Solves(p)
  <2> HIDE DEF Solves
  <2> QED BY <1>7
<1> HIDE DEF p
<1>9. p[0] = Unsplit /\ \A n \in 1..N : p[n] = Extended(p[n - 1], key[n])
  BY <1>2, <1>8
<1>10. 0..N \subseteq {n \in 0..N : p[n] \in SplitStates(C)}
  <2> DEFINE T == {n \in 0..N : p[n] \in SplitStates(C)}
  <2>1. 0 \in T
    <3>1. 0 \in 0..N
      BY <1>2
    <3> QED BY <1>2, <1>9, <3>1, Zenon
  <2>2. ASSUME NEW n \in 0..(N - 1), n \in T PROVE n + 1 \in T
    <3>1. n + 1 \in 1..N /\ n + 1 \in 0..N /\ (n + 1) - 1 = n
      BY <1>2
    <3>2. p[n + 1] = Extended(p[n], key[n + 1])
      BY <1>9, <3>1
    <3>3. key[n + 1] \in C
      BY <3>1 DEF N
    <3> QED BY <2>2, <3>1, <3>2, <3>3, ExtendedCases
  <2> HIDE DEF T
  <2>3. 0..N \subseteq T
    BY <1>2, <2>1, <2>2, UpTo
  <2> QED BY <2>3 DEF T
<1>11. p \in [0..N -> SplitStates(C)]
  BY <1>8, <1>10
<1> QED BY <1>1, <1>9, <1>11 DEF N

\* strings.Split can be undone: no two keys have the same segments.
LEMMA SegmentsTell ==
    ASSUME NEW C, NEW a \in Seq(C), NEW b \in Seq(C), Segments(a) = Segments(b)
    PROVE  a = b
<1>1. PICK A \in [0..Len(a) -> SplitStates(C)] :
        /\ A[0] = Unsplit
        /\ \A n \in 1..Len(a) : A[n] = Extended(A[n - 1], a[n])
        /\ Segments(a) = A[Len(a)]
  BY SegmentsUnfold
<1>2. PICK B \in [0..Len(b) -> SplitStates(C)] :
        /\ B[0] = Unsplit
        /\ \A n \in 1..Len(b) : B[n] = Extended(B[n - 1], b[n])
        /\ Segments(b) = B[Len(b)]
  BY SegmentsUnfold
<1>0. ASSUME NEW q, NEW c, NEW r, NEW d, q \in SplitStates(C), r \in SplitStates(C),
             c \in C, d \in C
      PROVE  /\ Extended(q, c) # Unsplit
             /\ Extended(q, c) = Extended(r, d) => q = r /\ c = d
  BY <1>0, ExtendedTells
<1> DEFINE Same(i, j) == i = j /\ \A k \in 1..i : a[k] = b[k]
           T == {i \in 0..Len(a) : \A j \in 0..Len(b) : A[i] = B[j] => Same(i, j)}
<1>3. 0 \in T
  <2>1. ASSUME NEW j \in 0..Len(b), A[0] = B[j] PROVE Same(0, j)
    <3>1. CASE j = 0
      BY <3>1
    <3>2. CASE j # 0
      <4>1. j \in 1..Len(b) /\ j - 1 \in 0..Len(b)
        BY <3>2
      <4>2. B[j] = Extended(B[j - 1], b[j]) /\ B[j - 1] \in SplitStates(C) /\ b[j] \in C
        BY <1>2, <4>1
      <4>3. Extended(B[j - 1], b[j]) # Unsplit
        BY <1>0, <4>2
      <4> QED BY <1>1, <2>1, <4>2, <4>3
    <3> QED BY <3>1, <3>2
  <2>2. 0 \in 0..Len(a)
    OBVIOUS
  <2> HIDE DEF Same
  <2> QED BY <2>1, <2>2
<1>4. ASSUME NEW n \in 0..(Len(a) - 1), n \in T PROVE n + 1 \in T
  <2>1. n + 1 \in 1..Len(a) /\ (n + 1) - 1 = n /\ n \in 0..Len(a)
    OBVIOUS
  <2>2. A[n + 1] = Extended(A[n], a[n + 1]) /\ A[n] \in SplitStates(C) /\ a[n + 1] \in C
    BY <1>1, <2>1
  <2>3. ASSUME NEW j \in 0..Len(b), A[n + 1] = B[j] PROVE Same(n + 1, j)
    <3>1. CASE j = 0
      <4>1. Extended(A[n], a[n + 1]) # Unsplit
        BY <1>0, <2>2
      <4> QED BY <1>2, <2>2, <2>3, <3>1, <4>1
    <3>2. CASE j # 0
      <4>1. j \in 1..Len(b) /\ j - 1 \in 0..Len(b)
        BY <3>2
      <4>2. B[j] = Extended(B[j - 1], b[j]) /\ B[j - 1] \in SplitStates(C) /\ b[j] \in C
        BY <1>2, <4>1
      <4>3. A[n] = B[j - 1] /\ a[n + 1] = b[j]
        <5>1. Extended(A[n], a[n + 1]) = Extended(B[j - 1], b[j])
          BY <2>2, <2>3, <4>2
        <5> QED BY <1>0, <2>2, <4>2, <5>1
      <4>4. Same(n, j - 1)
        BY <1>4, <4>1, <4>3
      <4>5. n + 1 = j
        BY <4>1, <4>4
      <4> QED BY <4>3, <4>4, <4>5
    <3> QED BY <3>1, <3>2
  <2> HIDE DEF Same
  <2> QED BY <2>1, <2>3
<1> HIDE DEF T
<1>5. Len(a) \in Nat /\ Len(b) \in 0..Len(b)
  OBVIOUS
<1>6. Len(a) \in T
  <2>1. 0..Len(a) \subseteq T
    BY <1>3, <1>4, <1>5, UpTo
  <2> QED BY <1>5, <2>1
<1>7. Same(Len(a), Len(b))
  BY <1>1, <1>2, <1>5, <1>6 DEF T
<1> QED BY <1>7

LEMMA EnteredPlain ==
    ASSUME NEW at, NEW seg, seg \notin {<<>>, Here, Up}
    PROVE  Entered(at, seg) = Append(at, seg)
<1>1. seg # <<>> /\ seg # Here /\ seg # Up
  OBVIOUS
<1> QED BY <1>1, Zenon DEF Entered

\* A path without empty segments, "." and ".." leads to where it says.
LEMMA FollowedPlain ==
    ASSUME NEW S, NEW s \in Seq(S), \A n \in 1..Len(s) : s[n] \notin {<<>>, Here, Up}
    PROVE  Followed(s) = s
<1> DEFINE N == Len(s)
           Solves(g) == g = [n \in 0..N |-> IF n = 0 THEN <<>> ELSE Entered(g[n - 1], s[n])]
           p == CHOOSE g : Solves(g)
           f == [n \in 0..N |-> SubSeq(s, 1, n)]
<1>1. Followed(s) = p[N] /\ N \in Nat
  BY DEF Followed
<1>2. ASSUME NEW n \in 1..N PROVE Entered(SubSeq(s, 1, n - 1), s[n]) = SubSeq(s, 1, n)
  <2>1. Entered(SubSeq(s, 1, n - 1), s[n]) = Append(SubSeq(s, 1, n - 1), s[n])
    BY EnteredPlain
  <2>2. Append(SubSeq(s, 1, n - 1), s[n]) = SubSeq(s, 1, n)
    OBVIOUS
  <2> QED BY <2>1, <2>2
<1>3. SubSeq(s, 1, 0) = <<>>
  OBVIOUS
<1>4. Solves(f)
  <2>1. ASSUME NEW n \in 0..N
        PROVE  f[n] = IF n = 0 THEN <<>> ELSE Entered(f[n - 1], s[n])
    <3>1. CASE n = 0
      BY <1>3, <3>1
    <3>2. CASE n # 0
      <4>1. n \in 1..N /\ n - 1 \in 0..N
        BY <3>2
      <4>2. f[n] = SubSeq(s, 1, n) /\ f[n - 1] = SubSeq(s, 1, n - 1)
        BY <4>1
      <4> QED BY <1>2, <3>2, <4>1, <4>2
    <3> QED BY <3>1, <3>2
  <2> QED BY <2>1
<1>5. Solves(p)
  <2> HIDE DEF Solves, f
  <2> QED BY <1>4
<1> HIDE DEF p
<1>6. p[0] = <<>> /\ \A n \in 1..N : p[n] = Entered(p[n - 1], s[n])
  BY <1>1, <1>5
<1> DEFINE T == {n \in 0..N : p[n] = SubSeq(s, 1, n)}
<1>7. 0 \in T
  <2>1. 0 \in 0..N
    OBVIOUS
  <2> QED BY <1>3, <1>6, <2>1, Zenon
<1>8. ASSUME NEW n \in 0..(N - 1), n \in T PROVE n + 1 \in T
  <2>1. n + 1 \in 1..N /\ n + 1 \in 0..N /\ (n + 1) - 1 = n
    OBVIOUS
  <2>2. p[n + 1] = Entered(p[(n + 1) - 1], s[n + 1])
    BY <1>6, <2>1, Zenon
  <2>3. Entered(SubSeq(s, 1, (n + 1) - 1), s[n + 1]) = SubSeq(s, 1, n + 1)
    BY <1>2, <2>1, Zenon
  <2>4. p[n] = SubSeq(s, 1, n)
    BY <1>8
  <2>5. p[n + 1] = SubSeq(s, 1, n + 1)
    BY <2>1, <2>2, <2>3, <2>4
  <2> QED BY <2>1, <2>5, Zenon
<1> HIDE DEF T
<1>9. 0..N \subseteq T
  BY <1>1, <1>7, <1>8, UpTo
<1>10. p[N] = SubSeq(s, 1, N)
  BY <1>1, <1>9 DEF T
<1>11. SubSeq(s, 1, N) = s
  OBVIOUS
<1> QED BY <1>1, <1>10, <1>11

\* object.go: every key that NewKey accepts leads to itself, and to a place of its own.
LEMMA ValidKeyNamesOnePath ==
    ASSUME NEW key \in Keys, ValidKey(key)
    PROVE  NamesOnePath(key)
<1>1. ASSUME NEW k \in Keys, ValidKey(k) PROVE Walk(k) = Segments(k)
  <2>1. k \in Seq(STRING)
    BY StorePolicyAssumption
  <2>2. Segments(k) \in Seq(Seq(STRING))
    <3>1. PICK g \in [0..Len(k) -> SplitStates(STRING)] : Segments(k) = g[Len(k)]
      BY <2>1, SegmentsUnfold
    <3>2. Len(k) \in 0..Len(k)
      BY <2>1
    <3> QED BY <3>1, <3>2 DEF SplitStates
  <2>3. \A n \in 1..Len(Segments(k)) : Segments(k)[n] \notin {<<>>, Here, Up}
    BY <1>1, <2>2 DEF ValidKey
  <2> QED BY <2>2, <2>3, FollowedPlain DEF Walk
<1>2. ASSUME NEW k \in Keys, Segments(k) = Segments(key) PROVE k = key
  BY <1>2, SegmentsTell, StorePolicyAssumption
<1> QED BY <1>1, <1>2 DEF NamesOnePath

-----------------------------------------------------------------------------
(* The invariant.                                                          *)

Inv == /\ given \in Config
       /\ built = "yes" => cfg = Filled(given) /\ Valid(cfg)
       /\ built # "yes" => call = NoCall
       /\ built = "no" /\ source = "environment" => Filled(given) = given /\ Valid(given)
       /\ URLsWithinPolicy
       /\ WritesWithinPolicy
       /\ KeysNameOnePath

\* The gates see the policies that were given.
LEMMA Policies ==
    ASSUME Inv, built = "yes"
    PROVE  /\ cfg \in Config /\ Valid(cfg) /\ cfg.operations = given.operations
           /\ cfg.allowed = given.allowed /\ cfg.denied = given.denied
  BY FilledTyped, FilledPolicies DEF Inv

\* math.Pow of positive numbers.
LEMMA PowerPositive ==
    ASSUME NEW b \in Nat \ {0}, NEW N \in Nat
    PROVE  Power(b, N) \in Nat \ {0}
<1> DEFINE S == Nat \ {0}
           Solves(g) == g = [i \in 0..N |-> IF i = 0 THEN 1 ELSE b * g[i - 1]]
           p == CHOOSE g : Solves(g)
           F == [x \in S \X (1..N) |-> b * x[1]]
<1>1. Power(b, N) = p[N]
  BY DEF Power
<1>2. F \in [S \X (1..N) -> S] /\ \A s \in S, n \in 1..N : F[<<s, n>>] = b * s
  <2>1. \A s \in S : b * s \in S
    BY Z3
  <2> HIDE DEF S
  <2> QED BY <2>1
<1>3. 1 \in S
  OBVIOUS
<1> HIDE DEF F, S
<1>4. PICK f : Recursive(f, N, S, 1, F)
  BY <1>2, <1>3, Recursion
<1>5. /\ f \in [0..N -> S] /\ f[0] = 1
      /\ \A n \in 1..N : f[n] = F[<<f[n - 1], n>>]
  BY <1>4 DEF Recursive
<1>6. Solves(f)
  <2>1. ASSUME NEW n \in 0..N PROVE f[n] = IF n = 0 THEN 1 ELSE b * f[n - 1]
    <3>1. CASE n = 0
      BY <1>5, <3>1
    <3>2. CASE n # 0
      <4>1. n \in 1..N /\ n - 1 \in 0..N
        BY <3>2
      <4>2. f[n - 1] \in S
        BY <1>5, <4>1
      <4> QED BY <1>2, <1>5, <3>2, <4>1, <4>2
    <3> QED BY <3>1, <3>2
  <2>2. f = [n \in 0..N |-> f[n]]
    BY <1>5
  <2> QED BY <2>1, <2>2
<1>7. Solves(p)
  <2> HIDE DEF Solves
  <2> QED BY <1>6
<1> HIDE DEF p
<1>8. p[0] = 1 /\ \A n \in 1..N : p[n] = b * p[n - 1]
  BY <1>7
<1> DEFINE T == {n \in 0..N : p[n] \in Nat \ {0}}
<1>9. 0 \in T
  <2>1. 0 \in 0..N
    OBVIOUS
  <2> QED BY <1>8, <2>1
<1>10. ASSUME NEW n \in 0..(N - 1), n \in T PROVE n + 1 \in T
  <2>1. n + 1 \in 1..N /\ n + 1 \in 0..N /\ (n + 1) - 1 = n
    OBVIOUS
  <2>2. p[n + 1] = b * p[n] /\ p[n] \in Nat \ {0}
    BY <1>8, <1>10, <2>1
  <2>3. b * p[n] \in Nat \ {0}
    BY <2>2, Z3
  <2> QED BY <2>1, <2>2, <2>3
<1> HIDE DEF T
<1>11. 0..N \subseteq T
  BY <1>9, <1>10, UpTo
<1> QED BY <1>1, <1>11 DEF T

\* retryPolicyFromConfig and newCircuitBreaker leave no field without a value to wait
\* or count with.
LEMMA PolicyUsable ==
    ASSUME Inv
    PROVE  BuiltStoreUsable
<1> SUFFICES ASSUME built = "yes" PROVE BuiltStoreUsable
  BY DEF BuiltStoreUsable
<1>1. cfg \in Config /\ Valid(cfg) /\ cfg = Filled(given) /\ given \in Config
  BY Policies DEF Inv
<1>3. cfg.retry \in RetryConfig /\ cfg.maxParts \in Int /\ cfg.maxTTL \in Int
  BY <1>1 DEF Config
<1>4. /\ RetryPolicy.attempts \in Nat \ {0} /\ RetryPolicy.wait \in Nat \ {0}
      /\ RetryPolicy.maxWait \in Nat \ {0} /\ RetryPolicy.multiplier \in Nat \ {0}
      /\ Breaker.threshold \in Nat \ {0} /\ Breaker.cooldown \in Nat \ {0}
  <2> DEFINE r == cfg.retry
  <2>1. /\ r.attempts \in Int /\ r.wait \in Int /\ r.maxWait \in Int
        /\ r.multiplier \in Int /\ r.threshold \in Int /\ r.cooldown \in Int
    BY <1>3 DEF RetryConfig
  <2>2. /\ DefaultWait \in Nat \ {0} /\ DefaultMaxWait \in Nat \ {0}
        /\ DefaultThreshold \in Nat \ {0} /\ DefaultCooldown \in Nat \ {0}
    BY StorePolicyAssumption
  <2>3. /\ RetryPolicy.attempts = Positive(r.attempts, 3)
        /\ RetryPolicy.wait = Positive(r.wait, DefaultWait)
        /\ RetryPolicy.maxWait = Positive(r.maxWait, DefaultMaxWait)
        /\ RetryPolicy.multiplier = Positive(r.multiplier, 4)
        /\ Breaker.threshold = Positive(r.threshold, DefaultThreshold)
        /\ Breaker.cooldown = Positive(r.cooldown, DefaultCooldown)
    BY DEF RetryPolicy, Breaker
  <2> HIDE DEF r
  <2>4. /\ Positive(r.attempts, 3) \in Nat \ {0}
        /\ Positive(r.wait, DefaultWait) \in Nat \ {0}
        /\ Positive(r.maxWait, DefaultMaxWait) \in Nat \ {0}
        /\ Positive(r.multiplier, 4) \in Nat \ {0}
        /\ Positive(r.threshold, DefaultThreshold) \in Nat \ {0}
        /\ Positive(r.cooldown, DefaultCooldown) \in Nat \ {0}
    BY <2>1, <2>2 DEF Positive
  <2> QED BY <2>3, <2>4, Zenon
<1>5. cfg.maxParts > 0
  <2>1. cfg.maxParts >= 0
    BY <1>1, Zenon DEF Valid
  <2> QED BY <1>1, <1>3, <2>1, FilledPolicies, StorePolicyAssumption
<1>6. cfg.maxTTL > 0
  <2>1. cfg.maxTTL >= 0
    BY <1>1, Zenon DEF Valid
  <2>2. CapSeconds * TicksPerSecond > 0
    BY StorePolicyAssumption, Z3
  <2>3. given.maxTTL = 0 => cfg.maxTTL = CapSeconds * TicksPerSecond
    BY <1>1, FilledPolicies
  <2>4. given.maxTTL # 0 => cfg.maxTTL = given.maxTTL
    BY <1>1, FilledPolicies
  <2> QED BY <1>3, <2>1, <2>2, <2>3, <2>4
<1>7. ASSUME NEW n \in 1..RetryPolicy.attempts
      PROVE  Delay(n) \in 0..RetryPolicy.maxWait
  <2>1. CASE n <= 1
    BY <1>4, <2>1 DEF Delay
  <2>2. CASE n > 1
    <3> DEFINE x == Power(RetryPolicy.multiplier, n - 2)
               y == Power(2, n - 2)
               m == RetryPolicy.maxWait
               d == (RetryPolicy.wait * x) \div y
    <3>1. n - 2 \in Nat
      BY <1>4, <2>2
    <3>2. x \in Nat \ {0} /\ y \in Nat \ {0}
      <4>1. RetryPolicy.multiplier \in Nat \ {0} /\ 2 \in Nat \ {0}
        BY <1>4
      <4> QED BY <3>1, <4>1, PowerPositive, Zenon
    <3>3. Delay(n) = IF d > m THEN m ELSE d
      BY <1>4, <2>2 DEF Delay
    <3>4. RetryPolicy.wait * x \in Nat
      BY <1>4, <3>2, Z3
    <3>5. d \in Nat
      BY <3>2, <3>4, Quotient
    <3> HIDE DEF d, m
    <3>6. m \in Nat
      BY <1>4 DEF m
    <3> QED BY <3>3, <3>5, <3>6 DEF m
  <2> QED BY <1>4, <2>1, <2>2
<1> QED BY <1>4, <1>5, <1>6, <1>7 DEF BuiltStoreUsable

LEMMA CallKeeps ==
    ASSUME Inv, UNCHANGED <<given, source, cfg, built>>, built = "yes" \/ call' = call,
           URLsWithinPolicy', WritesWithinPolicy', KeysNameOnePath'
    PROVE  Inv'
  BY DEF Inv, Valid

\* An operation asks NewKey for the key it is given, Copy for its source as well.
LEMMA KeyLetThrough ==
    ASSUME NEW key \in Keys, call'.key = key, call'.answer = "ok" => ValidKey(key),
           call'.op # "copy"
    PROVE  KeysNameOnePath'
<1>1. call'.answer = "ok" => NamesOnePath(key)
  BY ValidKeyNamesOnePath
<1> QED BY <1>1 DEF KeysNameOnePath, Accepted

LEMMA PresignKeeps ==
    ASSUME Inv, NEW key \in Keys, NEW op \in PresignOperations, NEW ttl \in TTLs, NEW k,
           Presign(key, op, ttl, k)
    PROVE  Inv'
<1>1. built = "yes" /\ UNCHANGED <<given, source, cfg, built>>
  BY DEF Presign, Asked
<1>2. /\ call'.op = "presign" /\ call'.key = key /\ call'.method = op /\ call'.ttl = ttl
      /\ call'.answer = PresignAnswer(key, op, ttl, k)
  BY DEF Presign
<1>3. ~WritesWithinPolicy' => FALSE
  BY <1>2 DEF WritesWithinPolicy, Accepted, Writes
<1>4. URLsWithinPolicy'
  <2> SUFFICES ASSUME PresignAnswer(key, op, ttl, k) = "ok" PROVE URLsWithinPolicy'
    BY <1>2 DEF URLsWithinPolicy, Accepted
  <2>1. op \in cfg.operations /\ ~(ttl <= 0) /\ ~(ttl > MaxSeconds) /\ KeyPolicy(key)
    BY DEF PresignAnswer
  <2>2. /\ ttl \in Int /\ MaxSeconds \in Int /\ MaxSeconds <= CapSeconds /\ CapSeconds \in Int
        /\ TicksPerSecond \in Nat \ {0} /\ cfg.maxTTL \in Int
        /\ cfg.maxTTL >= TicksPerSecond => MaxSeconds * TicksPerSecond <= cfg.maxTTL
    BY <1>1, Policies, GrantedTTL, StorePolicyAssumption DEF Config
  <2>3. ttl \in 1..CapSeconds
    BY <2>1, <2>2
  <2>4. /\ op \in given.operations
        /\ \A p \in given.denied : ~HasPrefix(key, p)
        /\ given.allowed # {} => \E p \in given.allowed : HasPrefix(key, p)
    BY <1>1, <2>1, Policies DEF KeyPolicy
  <2>5. given.maxTTL >= TicksPerSecond => ttl * TicksPerSecond <= given.maxTTL
    <3> SUFFICES ASSUME given.maxTTL >= TicksPerSecond
                 PROVE  ttl * TicksPerSecond <= given.maxTTL
      OBVIOUS
    <3>1. given.maxTTL \in Int /\ cfg = Filled(given)
      BY <1>1 DEF Inv, Config
    <3>2. cfg.maxTTL = given.maxTTL
      BY <2>2, <3>1, FilledPolicies DEF Inv
    <3>3. ttl * TicksPerSecond <= MaxSeconds * TicksPerSecond
      BY <2>1, <2>2, Product
    <3>4. ttl * TicksPerSecond \in Int /\ MaxSeconds * TicksPerSecond \in Int
      BY <2>2
    <3> QED BY <2>2, <3>1, <3>2, <3>3, <3>4
  <2> QED BY <1>1, <1>2, <2>3, <2>4, <2>5 DEF URLsWithinPolicy
<1>5. KeysNameOnePath'
  <2>1. PresignAnswer(key, op, ttl, k) = "ok" => ValidKey(key)
    BY DEF PresignAnswer
  <2>2. call'.op # "copy"
    BY <1>2
  <2> QED BY <1>2, <2>1, <2>2, KeyLetThrough
<1> QED BY <1>1, <1>3, <1>4, <1>5, CallKeeps

LEMMA OtherCallKeeps ==
    ASSUME Inv,
           \E key \in Keys :
              \/ \E md \in Metadata : \/ Initiate(key, md)
                                      \/ \E alg \in Algorithms \cup {""} : Put(key, md, alg)
              \/ \E src \in Keys : Copy(src, key)
              \/ Read(key) \/ Delete(key)
    PROVE  Inv'
<1>1. built = "yes" /\ UNCHANGED <<given, source, cfg, built>>
  BY DEF Initiate, Put, Copy, Read, Delete, Asked
<1>2. call'.op # "presign"
  <2>1. ASSUME NEW key, NEW md, Initiate(key, md) PROVE call'.op = "initiate"
    BY <2>1 DEF Initiate
  <2>2. ASSUME NEW key, NEW md, NEW alg, Put(key, md, alg) PROVE call'.op = "put"
    BY <2>2 DEF Put
  <2>3. ASSUME NEW src, NEW key, Copy(src, key) PROVE call'.op = "copy"
    BY <2>3 DEF Copy
  <2>4. ASSUME NEW key, Read(key) PROVE call'.op = "read"
    BY <2>4 DEF Read
  <2>5. ASSUME NEW key, Delete(key) PROVE call'.op = "delete"
    BY <2>5 DEF Delete
  <2> QED BY <2>1, <2>2, <2>3, <2>4, <2>5
<1>3. URLsWithinPolicy'
  BY <1>2 DEF URLsWithinPolicy, Accepted
<1>4. ASSUME NEW key \in Keys, call'.key = key, KeyPolicy(key),
             call'.op = "put" => call'.alg \in Supported \cup {""}
      PROVE  WritesWithinPolicy'
  BY <1>1, <1>4, Policies DEF WritesWithinPolicy, KeyPolicy
<1>5. ASSUME NEW key \in Keys, NEW md, NEW alg, Put(key, md, alg)
      PROVE  WritesWithinPolicy'
  <2>1. /\ call'.key = key /\ call'.alg = alg
        /\ call'.answer = "ok" => KeyPolicy(key) /\ (alg = "" \/ AlgorithmAccepted(alg))
    BY <1>5 DEF Put
  <2>2. AlgorithmAccepted(alg) => alg \in Supported
    BY <1>1, Policies DEF AlgorithmAccepted, Valid
  <2> QED BY <1>4, <2>1, <2>2 DEF WritesWithinPolicy, Accepted
<1>6. ASSUME NEW key \in Keys, NEW md, Initiate(key, md)
      PROVE  WritesWithinPolicy'
  <2>1. call'.key = key /\ call'.op = "initiate" /\ (call'.answer = "ok" => KeyPolicy(key))
    BY <1>6 DEF Initiate
  <2>2. call'.op # "put"
    BY <2>1
  <2> QED BY <1>4, <2>1, <2>2 DEF WritesWithinPolicy, Accepted
<1>7. ASSUME NEW src \in Keys, NEW key \in Keys, Copy(src, key)
      PROVE  WritesWithinPolicy'
  <2>1. call'.key = key /\ call'.op = "copy" /\ (call'.answer = "ok" => KeyPolicy(key))
    BY <1>7 DEF Copy
  <2>2. call'.op # "put"
    BY <2>1
  <2> QED BY <1>4, <2>1, <2>2 DEF WritesWithinPolicy, Accepted
<1>8. ASSUME NEW key \in Keys, Read(key)
      PROVE  WritesWithinPolicy'
  BY <1>8 DEF Read, WritesWithinPolicy, Accepted, Writes
<1>9. ASSUME NEW key \in Keys, Delete(key)
      PROVE  WritesWithinPolicy'
  BY <1>9 DEF Delete, WritesWithinPolicy, Accepted, Writes
<1>10. KeysNameOnePath'
  <2>1. ASSUME NEW key \in Keys, NEW md, Initiate(key, md) PROVE KeysNameOnePath'
    <3>1. /\ call'.key = key /\ call'.op = "initiate"
          /\ call'.answer = "ok" => ValidKey(key)
      BY <2>1 DEF Initiate
    <3>2. call'.op # "copy"
      BY <3>1
    <3> QED BY <3>1, <3>2, KeyLetThrough
  <2>2. ASSUME NEW key \in Keys, NEW md, NEW alg, Put(key, md, alg) PROVE KeysNameOnePath'
    <3>1. call'.key = key /\ call'.op = "put" /\ (call'.answer = "ok" => ValidKey(key))
      BY <2>2 DEF Put
    <3>2. call'.op # "copy"
      BY <3>1
    <3> QED BY <3>1, <3>2, KeyLetThrough
  <2>3. ASSUME NEW src \in Keys, NEW key \in Keys, Copy(src, key) PROVE KeysNameOnePath'
    <3>1. /\ call'.key = key /\ call'.src = src
          /\ call'.answer = "ok" => ValidKey(src) /\ ValidKey(key)
      BY <2>3 DEF Copy
    <3>2. call'.answer = "ok" => NamesOnePath(src) /\ NamesOnePath(key)
      BY <3>1, ValidKeyNamesOnePath
    <3> QED BY <3>1, <3>2 DEF KeysNameOnePath, Accepted
  <2>4. ASSUME NEW key \in Keys, Read(key) PROVE KeysNameOnePath'
    <3>1. call'.key = key /\ call'.op = "read" /\ (call'.answer = "ok" => ValidKey(key))
      BY <2>4 DEF Read
    <3>2. call'.op # "copy"
      BY <3>1
    <3> QED BY <3>1, <3>2, KeyLetThrough
  <2>5. ASSUME NEW key \in Keys, Delete(key) PROVE KeysNameOnePath'
    <3>1. call'.key = key /\ call'.op = "delete" /\ (call'.answer = "ok" => ValidKey(key))
      BY <2>5 DEF Delete
    <3>2. call'.op # "copy"
      BY <3>1
    <3> QED BY <3>1, <3>2, KeyLetThrough
  <2> QED BY <2>1, <2>2, <2>3, <2>4, <2>5
<1> QED BY <1>1, <1>3, <1>5, <1>6, <1>7, <1>8, <1>9, <1>10, CallKeeps

LEMMA NoCallFits ==
    ASSUME call = NoCall
    PROVE  URLsWithinPolicy /\ WritesWithinPolicy /\ KeysNameOnePath
<1>1. call.op = "none"
  BY DEF NoCall
<1> QED BY <1>1 DEF URLsWithinPolicy, WritesWithinPolicy, KeysNameOnePath, Accepted, Writes

LEMMA BuildKeeps ==
    ASSUME Inv, NEW ok \in BOOLEAN, NewBlobStore(ok)
    PROVE  Inv'
<1>1. call' = NoCall /\ given' = given
  BY DEF Inv, NewBlobStore
<1>2. URLsWithinPolicy' /\ WritesWithinPolicy' /\ KeysNameOnePath'
  <2>1. call'.op = "none"
    BY <1>1 DEF NoCall
  <2> QED BY <2>1 DEF URLsWithinPolicy, WritesWithinPolicy, KeysNameOnePath, Accepted, Writes
<1>3. built' # "no" /\ (built' = "yes" => cfg' = Filled(given) /\ Valid(cfg'))
  BY DEF NewBlobStore
<1> QED BY <1>1, <1>2, <1>3 DEF Inv

LEMMA ConfigKeeps ==
    ASSUME Inv, NEW e \in Environments, ConfigFromEnv(e)
    PROVE  Inv'
<1>1. e \in Environment
  BY StorePolicyAssumption
<1>2. /\ built' \in {"no", "refused"} /\ call' = NoCall
      /\ built' = "no" => given' = FromEnv(e) /\ Valid(FromEnv(e))
      /\ given' = given \/ given' = FromEnv(e)
  BY DEF ConfigFromEnv, Inv
<1>3. URLsWithinPolicy' /\ WritesWithinPolicy' /\ KeysNameOnePath'
  <2>1. call'.op = "none"
    BY <1>2 DEF NoCall
  <2> QED BY <2>1 DEF URLsWithinPolicy, WritesWithinPolicy, KeysNameOnePath, Accepted, Writes
<1> QED BY <1>1, <1>2, <1>3, FromEnvStands DEF Inv

\* The invariant: the store's config is its caller's, filled, and the latest call met
\* its gates.
THEOREM Invariance == Spec => []Inv
<1>1. Init => Inv
  <2> SUFFICES ASSUME Init PROVE Inv
    OBVIOUS
  <2>1. URLsWithinPolicy /\ WritesWithinPolicy /\ KeysNameOnePath /\ call = NoCall
    BY NoCallFits DEF Init
  <2>2. given \in Config
    BY StorePolicyAssumption DEF Init
  <2> QED BY <2>1, <2>2 DEF Init, Inv
<1>2. Inv /\ [Next]_vars => Inv'
  <2> SUFFICES ASSUME Inv, [Next]_vars PROVE Inv'
    OBVIOUS
  <2>1. CASE UNCHANGED vars
    <3>1. URLsWithinPolicy' /\ WritesWithinPolicy' /\ KeysNameOnePath'
      BY <2>1 DEF vars, Inv, URLsWithinPolicy, WritesWithinPolicy, KeysNameOnePath, Accepted
    <3> QED BY <2>1, <3>1, CallKeeps DEF vars
  <2> QED BY <2>1, BuildKeeps, ConfigKeeps, PresignKeeps, OtherCallKeeps DEF Next
<1> QED BY <1>1, <1>2, PTL DEF Spec

\* presign.go, config.go: for every config, a URL that Presign grants has a lifetime,
\* an operation and a key within what the caller of NewBlobStore gave.
THEOREM GrantsWithinPolicy == Spec => []URLsWithinPolicy
<1>1. Inv => URLsWithinPolicy
  BY DEF Inv
<1> QED BY Invariance, <1>1, PTL

\* blobstore.go, helpers.go: no write is accepted that names a checksum nobody can
\* compute, or a key under a denied prefix.
THEOREM AcceptedWritesFit == Spec => []WritesWithinPolicy
<1>1. Inv => WritesWithinPolicy
  BY DEF Inv
<1> QED BY Invariance, <1>1, PTL

\* object.go: a key that any operation lets through names one path, itself, and no two
\* keys name the same.
THEOREM KeysLeadToThemselves == Spec => []KeysNameOnePath
<1>1. Inv => KeysNameOnePath
  BY DEF Inv
<1> QED BY Invariance, <1>1, PTL

\* retry.go: whatever its config, a store that was built has a policy without a zero or
\* negative field, and no delay of it is negative or longer than MaxWait.
THEOREM EveryDelayBounded == Spec => []BuiltStoreUsable
<1>1. Inv => BuiltStoreUsable
  BY PolicyUsable
<1> QED BY Invariance, <1>1, PTL

\* env.go, config.go: NewBlobStore takes every config that ConfigFromEnv returns,
\* as it is.
THEOREM EnvConfigTaken == Spec => EnvConfigStands
<1>1. Inv /\ [Next]_vars =>
        (source = "environment" /\ NewBlobStore(TRUE) => built' = "yes" /\ cfg' = given)
  BY DEF Inv, NewBlobStore
<1>2. Inv /\ [Next]_vars =>
        [source = "environment" /\ NewBlobStore(TRUE) => built' = "yes" /\ cfg' = given]_vars
  BY <1>1
<1> QED BY Invariance, <1>2, PTL DEF Spec, EnvConfigStands
=============================================================================
