------------------------ MODULE ChecksumReaderProofs ------------------------
(***************************************************************************)
(* Theorems about ChecksumReader, for any bytes and contents: what a       *)
(* consumer has received when its verifying reader ends without an error,  *)
(* and that the reader implements VerifiedRead.                            *)
(***************************************************************************)
EXTENDS ChecksumReader, SequenceTheorems, TLAPS

\* A portion of what is left, and the rest.
LEMMA Portion ==
    ASSUME NEW S, NEW s \in Seq(S), NEW n \in 0..Len(s)
    PROVE  /\ SubSeq(s, 1, n) \in Seq(S)
           /\ SubSeq(s, n + 1, Len(s)) \in Seq(S)
           /\ SubSeq(s, 1, n) \o SubSeq(s, n + 1, Len(s)) = s
           /\ n = Len(s) => SubSeq(s, n + 1, Len(s)) = <<>>
<1>1. Len(s) \in Nat /\ \A i \in 1..Len(s) : s[i] \in S
  BY LenProperties, ElementOfSeq
<1>2. SubSeq(s, 1, n) \in Seq(S) /\ SubSeq(s, n + 1, Len(s)) \in Seq(S)
  <2>1. \A i \in 1..n : s[i] \in S
    BY <1>1
  <2>2. \A i \in (n + 1)..Len(s) : s[i] \in S
    BY <1>1
  <2> QED BY <1>1, <2>1, <2>2, SubSeqProperties
<1>3. SubSeq(s, 1, n) \o SubSeq(s, n + 1, Len(s)) = SubSeq(s, 1, Len(s))
  <2>1. 1 \in 1..Len(s)+1 /\ n \in 1-1..Len(s) /\ Len(s) \in n..Len(s)
    BY <1>1
  <2> QED BY <2>1, ConcatAdjacentSubSeq, Zenon
<1>4. n = Len(s) => SubSeq(s, n + 1, Len(s)) = <<>>
  BY <1>1, SubSeqEmpty
<1> QED BY <1>2, <1>3, <1>4, SubSeqFull

\* What an extended sequence begins with.
LEMMA BeginsWith ==
    ASSUME NEW S, NEW s \in Seq(S), NEW t \in Seq(S)
    PROVE  Len(s \o t) >= Len(s) /\ SubSeq(s \o t, 1, Len(s)) = s
<1>1. /\ Len(s) \in Nat /\ Len(t) \in Nat
      /\ s \o t \in Seq(S)
      /\ Len(s \o t) = Len(s) + Len(t)
      /\ \A i \in 1..Len(s) : (s \o t)[i] = s[i]
  BY LenProperties, ConcatProperties
<1> DEFINE u == SubSeq(s \o t, 1, Len(s))
<1>2. /\ u \in Seq(S)
      /\ Len(u) = Len(s)
      /\ \A i \in 1..Len(s) : u[i] = (s \o t)[i]
  <2>1. \A i \in 1..Len(s) : (s \o t)[i] \in S
    BY <1>1, ElementOfSeq
  <2>2. /\ u \in Seq(S)
        /\ Len(u) = IF 1 <= Len(s) THEN Len(s) - 1 + 1 ELSE 0
        /\ \A i \in 1..(Len(s) - 1 + 1) : u[i] = (s \o t)[1 + i - 1]
    BY <1>1, <2>1, SubSeqProperties
  <2> QED BY <1>1, <2>2
<1>3. u = s
  BY <1>1, <1>2, SeqEqual
<1> QED BY <1>1, <1>3

-----------------------------------------------------------------------------
(* The inductive invariant: the types, and what the verdict and the        *)
(* answers given to the consumer say of each other.                        *)

Verdicts == reader = "verifying" =>
    /\ answer.algo \in Supported
    /\ "eof" \in told => checked
    /\ "checksum" \in told <=> checked /\ ~verified
    /\ checked => (verified <=> computeChecksum(answer.algo, received) = answer.sum)

\* What the in-memory adapter stores is what inferChecksumAlgo takes it for.
MemorySums == adapter = "in-memory" /\ answer.algo \in Supported =>
                  computeChecksum(answer.algo, answer.body) = answer.sum

IInv == TypeOK /\ Verdicts /\ MemorySums

\* The lengths of the digests differ, so inferChecksumAlgo finds the algorithm.
LEMMA AlgorithmInferred ==
    ASSUME NEW c, NEW s \in Sums(c), inferChecksumAlgo(s) \in Supported
    PROVE  computeChecksum(inferChecksumAlgo(s), c) = s
<1>1. Supported = {"sha256", "md5", "crc32"}
  BY DEF Supported, HexLength
<1>2. HexLength.sha256 = 64 /\ HexLength.md5 = 32 /\ HexLength.crc32 = 8
  BY DEF HexLength
<1> DEFINE named == inferChecksumAlgo(s)
<1>3. CASE s = NoSum
  <2>1. ~\E alg \in Supported : HexLength[alg] = s.length
    BY <1>1, <1>2, <1>3 DEF NoSum
  <2>2. named = ""
    BY <2>1, Zenon DEF inferChecksumAlgo
  <2> QED BY <1>1, <2>2
<1>4. ASSUME NEW alg \in Supported, s = computeChecksum(alg, c) PROVE named = alg
  <2>1. s.length = HexLength[alg]
    BY <1>4 DEF computeChecksum
  <2>2. named = CHOOSE x \in Supported : HexLength[x] = s.length
    BY <2>1, Zenon DEF inferChecksumAlgo
  <2>3. named \in Supported /\ HexLength[named] = s.length
    BY <2>1, <2>2
  <2> HIDE DEF named
  <2> QED BY <1>1, <1>2, <2>1, <2>3
<1> HIDE DEF named
<1> QED BY <1>3, <1>4 DEF Sums, named

LEMMA InitIInv == Init => IInv
<1> SUFFICES ASSUME Init PROVE IInv
  OBVIOUS
<1>0. MemorySums
  <2> SUFFICES ASSUME adapter = "in-memory", answer.algo \in Supported
               PROVE  computeChecksum(answer.algo, answer.body) = answer.sum
    BY DEF MemorySums
  <2>1. PICK c \in Contents : answer \in GetObject("in-memory", c)
    BY DEF Init
  <2>2. PICK s \in Sums(c) :
           answer = [body |-> c, algo |-> inferChecksumAlgo(s), sum |-> s]
    BY <2>1, Zenon DEF GetObject
  <2>3. answer.body = c /\ answer.algo = inferChecksumAlgo(s) /\ answer.sum = s
    BY <2>2
  <2> QED BY <2>3, AlgorithmInferred
<1>1. answer.body \in Contents
  <2>1. PICK c \in Contents : answer \in GetObject(adapter, c)
    BY DEF Init
  <2>2. CASE adapter = "in-memory"
    <3>1. PICK s \in Sums(c) :
             answer = [body |-> c, algo |-> inferChecksumAlgo(s), sum |-> s]
      BY <2>1, <2>2, Zenon DEF GetObject
    <3> QED BY <3>1
  <2>3. CASE adapter = "aliyun-oss"
    <3>1. PICK b \in Contents : answer = [body |-> b, algo |-> "", sum |-> NoSum]
      <4>1. adapter # "in-memory"
        BY <2>3
      <4> QED BY <2>1, <2>3, <4>1, Zenon DEF GetObject
    <3> QED BY <3>1
  <2>4. CASE adapter = "other"
    BY <2>1, <2>4 DEF GetObject
  <2> QED BY <2>2, <2>3, <2>4 DEF Init
<1>2. <<>> \in Seq(Bytes)
  BY EmptySeq
<1> QED BY <1>0, <1>1, <1>2 DEF Init, IInv, TypeOK, Verdicts

\* One Read: the body is what was handed over and what is to come.
LEMMA ReadMoves ==
    ASSUME TypeOK, NEW n \in 0..Len(left), NEW how \in {"nil", "eof", "failed"},
         Read(n, how)
    PROVE  /\ received' \in Seq(Bytes) /\ left' \in Seq(Bytes)
           /\ received' = received \o SubSeq(left, 1, n)
           /\ SubSeq(left, 1, n) \in Seq(Bytes)
           /\ received' \o left' = answer.body
           /\ n = Len(left) => left' = <<>>
           /\ left = <<>> => received' = received /\ left' = <<>>
<1> USE DEF TypeOK
<1> DEFINE data == SubSeq(left, 1, n)
<1>1. /\ data \in Seq(Bytes) /\ left' \in Seq(Bytes)
      /\ data \o left' = left
      /\ n = Len(left) => left' = <<>>
  BY Portion DEF Read
<1>2. received' = received \o data
  BY DEF Read
<1>3. received' \in Seq(Bytes)
  BY <1>1, <1>2, ConcatProperties
<1>4. received' \o left' = answer.body
  <2>1. (received \o data) \o left' = received \o (data \o left')
    <3>1. received \in Seq(Bytes) /\ data \in Seq(Bytes) /\ left' \in Seq(Bytes)
      BY <1>1
    <3> HIDE DEF data, TypeOK
    <3> QED BY <3>1, ConcatAssociative
  <2>2. received \o left = answer.body
    BY DEF Read
  <2> QED BY <1>1, <1>2, <2>1, <2>2
<1>5. left = <<>> => received' = received /\ left' = <<>>
  <2> SUFFICES ASSUME left = <<>> PROVE received' = received /\ left' = <<>>
    OBVIOUS
  <2>1. Len(left) = 0 /\ n = 0
    BY LenProperties, EmptySeq
  <2>2. data = <<>>
    BY <2>1, SubSeqEmpty
  <2> QED BY <1>1, <1>2, <2>1, <2>2, ConcatEmptySeq
<1> QED BY <1>1, <1>2, <1>3, <1>4, <1>5

\* A base reader says EOF at its end only.
LEMMA EOFAtEnd ==
    ASSUME TypeOK, NEW n \in 0..Len(left), BaseRead(n, "eof")
    PROVE  n = Len(left)
<1>1. CASE adapter = "in-memory"
  <2>1. left = <<>>
    BY <1>1 DEF BaseRead
  <2> QED BY <2>1, EmptySeq DEF TypeOK
<1> QED BY <1>1 DEF BaseRead

LEMMA ReadKeepsIInv ==
    ASSUME IInv, NEW n \in 0..Len(left), NEW how \in {"nil", "eof", "failed"},
         Read(n, how)
    PROVE  IInv'
<1> USE DEF IInv
<1>0. MemorySums'
  BY DEF Read, MemorySums
<1> DEFINE data == SubSeq(left, 1, n)
<1>1. /\ received' \in Seq(Bytes) /\ left' \in Seq(Bytes)
      /\ received' = received \o data
      /\ received' \o left' = answer.body
      /\ n = Len(left) => left' = <<>>
      /\ left = <<>> => received' = received /\ left' = <<>>
  BY ReadMoves
<1>2. /\ UNCHANGED <<adapter, answer, asked, reader, closed>>
      /\ reader # "none"
      /\ hashed' = IF reader = "verifying" THEN hashed \o data ELSE hashed
  BY DEF Read, Hashed
<1>3. hashed' = IF reader = "verifying" THEN received' ELSE <<>>
  BY <1>1, <1>2 DEF TypeOK
<1>4. CASE reader = "verifying" /\ how = "eof" /\ ~checked
  <2>1. left' = <<>>
    BY <1>1, <1>4, EOFAtEnd DEF Read
  <2>2. Verdict(data)
    BY <1>4 DEF Read
  <2>3. Hashed(data, "eof") = received'
    BY <1>1, <1>4 DEF Hashed, TypeOK
  <2>4. /\ checked' = TRUE
        /\ verified' = (computeChecksum(answer.algo, received') = answer.sum)
        /\ told' = told \cup {IF verified' THEN "eof" ELSE "checksum"}
    BY <2>2, <2>3 DEF Verdict
  <2>5. TypeOK'
    BY <1>1, <1>2, <1>3, <1>4, <2>1, <2>4, EmptySeq DEF TypeOK
  <2>6. Verdicts'
    BY <1>2, <1>4, <2>4 DEF Verdicts, TypeOK
  <2> QED BY <1>0, <2>5, <2>6
<1>5. CASE ~(reader = "verifying" /\ how = "eof" /\ ~checked)
  <2>1. told' = told \cup {how} /\ UNCHANGED <<checked, verified>>
    BY <1>5 DEF Read
  <2>2. TypeOK'
    BY <1>1, <1>2, <1>3, <2>1, EmptySeq DEF TypeOK
  <2>3. checked => received' = received
    BY <1>1 DEF TypeOK
  <2>4. Verdicts'
    BY <1>2, <1>5, <2>1, <2>3 DEF Verdicts, TypeOK
  <2> QED BY <1>0, <2>2, <2>4
<1> QED BY <1>4, <1>5

LEMMA GetKeepsIInv == IInv /\ Get => IInv'
<1> SUFFICES ASSUME IInv, Get PROVE IInv'
  OBVIOUS
<1>1. /\ received' = <<>> /\ hashed' = <<>> /\ told' = {}
      /\ checked' = FALSE /\ verified' = FALSE
      /\ left' = answer.body /\ answer' = answer /\ left' \in Seq(Bytes)
      /\ reader' \in {"plain", "verifying"}
      /\ UNCHANGED <<asked, closed>>
  BY ChecksumAssumption DEF IInv, TypeOK, Get
<1>2. received' \o left' = answer'.body
  BY <1>1, ConcatEmptySeq
<1>3. TypeOK'
  <2>1. <<>> \in Seq(Bytes)
    BY EmptySeq
  <2> QED BY <1>1, <1>2, <2>1 DEF IInv, TypeOK
<1>4. Verdicts'
  BY <1>1 DEF Verdicts, Get, Wraps
<1>5. MemorySums'
  BY DEF Get, IInv, MemorySums
<1> QED BY <1>3, <1>4, <1>5 DEF IInv

LEMMA NextIInv == IInv /\ [Next]_vars => IInv'
<1> SUFFICES ASSUME IInv, [Next]_vars PROVE IInv'
  OBVIOUS
<1>1. CASE UNCHANGED vars
  BY <1>1 DEF vars, IInv, TypeOK, Verdicts, MemorySums
<1>2. CASE Get
  BY <1>2, GetKeepsIInv
<1>3. CASE SomeRead
  BY <1>3, ReadKeepsIInv DEF SomeRead
<1>4. CASE Close
  BY <1>4 DEF Close, IInv, TypeOK, Verdicts, MemorySums
<1> QED BY <1>1, <1>2, <1>3, <1>4 DEF Next

\* Types, and the bytes: every byte of the body is handed over or still to come, a
\* verifying reader has hashed what it handed over, and judges at the end only.
THEOREM TypeCorrect == Spec => []TypeOK
<1>1. Init => IInv
  BY InitIInv
<1>2. IInv /\ [Next]_vars => IInv'
  BY NextIInv
<1>3. IInv => TypeOK
  BY DEF IInv
<1> QED BY <1>1, <1>2, <1>3, PTL DEF Spec

\* A verifying reader that ended with EOF and no checksum error has handed over
\* exactly the bytes the object's checksum was computed from, and one that reported a
\* checksum error was given a body without that checksum, by no in-memory adapter.
THEOREM CleanEnd == Spec => []CleanEndIsVerified
<1>1. Init => IInv
  BY InitIInv
<1>2. IInv /\ [Next]_vars => IInv'
  BY NextIInv
<1>3. IInv => CleanEndIsVerified
  <2> SUFFICES ASSUME IInv, reader = "verifying" PROVE CleanEndIsVerified
    BY DEF CleanEndIsVerified
  <2>1. "eof" \in told /\ "checksum" \notin told => verified
    BY DEF IInv, Verdicts, TypeOK
  <2>2. ASSUME verified PROVE received = answer.sum.of /\ "checksum" \notin told
    <3>1. /\ answer.algo \in Supported
          /\ computeChecksum(answer.algo, received) = answer.sum
      BY <2>2 DEF IInv, Verdicts, TypeOK
    <3>2. answer.sum = [length |-> HexLength[answer.algo], of |-> received]
      BY <3>1 DEF computeChecksum
    <3> QED BY <2>2, <3>2 DEF IInv, Verdicts, TypeOK
  <2>3. ASSUME "checksum" \in told
        PROVE  /\ computeChecksum(answer.algo, answer.body) # answer.sum
               /\ adapter # "in-memory"
    <3>1. /\ answer.algo \in Supported /\ left = <<>>
          /\ received \in Seq(Bytes) /\ received \o left = answer.body
          /\ computeChecksum(answer.algo, received) # answer.sum
      BY <2>3 DEF IInv, Verdicts, TypeOK
    <3>2. received = answer.body
      BY <3>1, ConcatEmptySeq
    <3> QED BY <3>1, <3>2 DEF IInv, MemorySums
  <2> QED BY <2>1, <2>2, <2>3 DEF CleanEndIsVerified
<1> QED BY <1>1, <1>2, <1>3, PTL DEF Spec

-----------------------------------------------------------------------------
(* The refinement.                                                         *)

LEMMA InitPromise == Init => Promise!Init
  BY DEF Init, Promise!Init

LEMMA GetStep == IInv /\ Get => [Promise!Next]_(Promise!vars)
<1> SUFFICES ASSUME IInv, Get PROVE Promise!Open \/ UNCHANGED Promise!vars
  BY DEF Promise!Next
<1>1. received = <<>> /\ ~checked /\ UNCHANGED <<answer, received, checked, verified>>
  BY DEF IInv, TypeOK, Get
<1>2. CASE Wraps
  BY <1>1, <1>2 DEF Get, Promise!Open
<1>3. CASE ~Wraps
  BY <1>1, <1>3 DEF Get, Promise!vars
<1> QED BY <1>2, <1>3

LEMMA ReadStep ==
    ASSUME IInv, NEW n \in 0..Len(left), NEW how \in {"nil", "eof", "failed"},
         Read(n, how)
    PROVE  [Promise!Next]_(Promise!vars)
<1> DEFINE data == SubSeq(left, 1, n)
<1>1. /\ received' = received \o data /\ data \in Seq(Bytes)
      /\ received' \o left' = answer.body
      /\ n = Len(left) => left' = <<>>
      /\ left = <<>> => received' = received
      /\ received \in Seq(Bytes) /\ received' \in Seq(Bytes)
  BY ReadMoves DEF IInv, TypeOK
<1>2. UNCHANGED <<answer, reader>>
  BY DEF Read
<1>3. CASE reader # "verifying"
  <2>1. ~checked /\ ~checked'
    BY <1>3 DEF Read, IInv, TypeOK
  <2> QED BY <1>2, <1>3, <2>1 DEF Promise!vars
<1>4. CASE reader = "verifying" /\ checked
  <2>1. received' = received /\ UNCHANGED <<checked, verified>>
    BY <1>1, <1>4 DEF Read, IInv, TypeOK
  <2> QED BY <1>2, <2>1 DEF Promise!vars
<1>5. CASE reader = "verifying" /\ ~checked
  <2>1. Promise!Grows
    BY <1>1, <1>2, <1>5, BeginsWith DEF Promise!Grows
  <2>2. CASE how = "eof"
    <3>1. received' = answer.body
      <4>1. left' = <<>>
        BY <1>1, <2>2, EOFAtEnd DEF Read, IInv
      <4> QED BY <1>1, <4>1, ConcatEmptySeq
    <3>2. checked' /\ (verified' <=> computeChecksum(answer.algo, received') = answer.sum)
      BY <1>1, <1>5, <2>2 DEF Read, Verdict, Hashed, IInv, TypeOK
    <3>3. received' \in Contents
      BY <3>1 DEF IInv, TypeOK
    <3> QED BY <1>2, <1>5, <2>1, <3>2, <3>3 DEF Promise!Next, Promise!Conclude
  <2>3. CASE how # "eof"
    <3>1. UNCHANGED <<checked, verified>>
      BY <2>3 DEF Read
    <3> QED BY <1>2, <1>5, <2>1, <3>1 DEF Promise!Next, Promise!Deliver
  <2> QED BY <2>2, <2>3
<1> QED BY <1>3, <1>4, <1>5

\* The reader keeps the promise of VerifiedRead: one verdict, over all bytes handed
\* over, and none handed over after it.
THEOREM Refinement == Spec => ImplementsVerifiedRead
<1>1. Init => IInv
  BY InitIInv
<1>2. IInv /\ [Next]_vars => IInv'
  BY NextIInv
<1>3. IInv /\ [Next]_vars => [Promise!Next]_(Promise!vars)
  <2> SUFFICES ASSUME IInv, [Next]_vars PROVE [Promise!Next]_(Promise!vars)
    OBVIOUS
  <2>1. CASE UNCHANGED vars
    BY <2>1 DEF vars, Promise!vars
  <2>2. CASE Get
    BY <2>2, GetStep
  <2>3. CASE SomeRead
    BY <2>3, ReadStep DEF SomeRead
  <2>4. CASE Close
    BY <2>4 DEF Close, Promise!vars
  <2> QED BY <2>1, <2>2, <2>3, <2>4 DEF Next
<1>4. Init => Promise!Init
  BY InitPromise
<1> QED BY <1>1, <1>2, <1>3, <1>4, PTL DEF Spec, ImplementsVerifiedRead, Promise!Spec
=============================================================================
