--------------------------- MODULE ChecksumReader ---------------------------
(***************************************************************************)
(* Get with GetOptions.VerifyChecksum (blobstore.go) and the reader it     *)
(* returns (checksumReader, helpers.go): the body of the adapter's answer  *)
(* is hashed as it is read, and the digest is compared with the object's   *)
(* checksum at the first EOF.                                              *)
(*                                                                         *)
(* A content is a sequence of bytes.  A digest is the length of its hex    *)
(* form, all that inferChecksumAlgo sees, and the content it was computed  *)
(* from: collisions are left out.                                          *)
(***************************************************************************)
EXTENDS Naturals, Sequences

CONSTANTS Bytes,
          Contents   \* bound: the contents an object or a body may have

ASSUME ChecksumAssumption == Contents \subseteq Seq(Bytes)

HexLength == [sha256 |-> 64, md5 |-> 32, crc32 |-> 8]
Supported == DOMAIN HexLength

NoSum == [length |-> 0, of |-> <<>>]   \* ChecksumHex = ""

\* computeChecksum; newHasher and hex.EncodeToString come to the same.
computeChecksum(alg, data) ==
    IF alg \in Supported THEN [length |-> HexLength[alg], of |-> data] ELSE NoSum

inferChecksumAlgo(sum) ==
    IF \E alg \in Supported : HexLength[alg] = sum.length
      THEN CHOOSE alg \in Supported : HexLength[alg] = sum.length
      ELSE ""

VARIABLES
    adapter,   \* the adapter's Name
    answer,    \* what its GetObject returns: body, ChecksumAlgo, ChecksumHex
    asked,     \* GetOptions.VerifyChecksum
    reader,    \* "none", "plain" or "verifying"
    left,      \* what the base reader has yet to yield
    received,  \* what Read has handed to the consumer
    hashed,    \* what the hasher has been given
    checked,   \* checksumReader.checked
    verified,  \* ObjectReader.ChecksumVerified
    closed,    \* the consumer has called Close
    told       \* what Read has returned so far: "nil", "eof", "failed", "checksum"

vars == <<adapter, answer, asked, reader, left, received, hashed, checked,
          verified, closed, told>>

Sums(c) == {NoSum} \cup {computeChecksum(alg, c) : alg \in Supported}

\* What GetObject may answer for an object with content c.  The in-memory adapter
\* has the bytes of the put, and their checksum if the put named an algorithm; the
\* aliyun adapter never has a checksum, and its body comes over the network; an
\* adapter from outside the repository may answer with any body and checksum, and
\* an algorithm this package does not know.
GetObject(a, c) ==
    CASE a = "in-memory" ->
           {[body |-> c, algo |-> inferChecksumAlgo(s), sum |-> s] : s \in Sums(c)}
      [] a = "aliyun-oss" ->
           {[body |-> b, algo |-> "", sum |-> NoSum] : b \in Contents}
      [] a = "other" ->
           [body : Contents, algo : Supported \cup {"", "sha1"}, sum : Sums(c)]

Init == /\ adapter \in {"in-memory", "aliyun-oss", "other"}
        /\ \E c \in Contents : answer \in GetObject(adapter, c)
        /\ asked \in BOOLEAN
        /\ reader = "none"
        /\ left = <<>> /\ received = <<>> /\ hashed = <<>>
        /\ checked = FALSE /\ verified = FALSE /\ closed = FALSE
        /\ told = {}

-----------------------------------------------------------------------------
(* Mutants: helpers.go with a plausible mistake.                           *)

\* The bytes that come with an error are not hashed.
HashedOnNil(data, how) == IF how = "nil" THEN hashed \o data ELSE hashed

\* onDone(true) before the comparison.
VerdictUncompared(data) ==
    /\ checked' = TRUE
    /\ verified' = TRUE
    /\ told' = told \cup {IF computeChecksum(answer.algo, hashed \o data) = answer.sum
                            THEN "eof" ELSE "checksum"}

\* c.checked set after the comparison has succeeded.
VerdictMarksLate(data) ==
    LET ok == computeChecksum(answer.algo, hashed \o data) = answer.sum
    IN  /\ checked' = ok
        /\ verified' = ok
        /\ told' = told \cup {IF ok THEN "eof" ELSE "checksum"}

-----------------------------------------------------------------------------

\* The end of Get: is the reader wrapped (wrapChecksumVerifier)?
Wraps == /\ asked
         /\ answer.algo # "" /\ answer.sum # NoSum
         /\ answer.algo \in Supported

Get == /\ reader = "none"
       /\ reader' = IF Wraps THEN "verifying" ELSE "plain"
       /\ left' = answer.body
       /\ UNCHANGED <<adapter, answer, asked, received, hashed, checked, verified, closed,
                      told>>

\* What the base reader may do: yield n bytes, with nil, with EOF if they are the
\* last, or with another error.  A bytes.Reader behind a NopCloser (in-memory) has
\* its EOF alone, fails never and reads on after a Close; a network body does not.
BaseRead(n, how) ==
    IF adapter = "in-memory" THEN how = IF left = <<>> THEN "eof" ELSE "nil"
    ELSE /\ closed => n = 0 /\ how = "failed"
         /\ how = "eof" => n = Len(left)

Hashed(data, how) == IF reader = "verifying" THEN hashed \o data ELSE hashed

\* The first EOF of a verifying reader.
Verdict(data) ==
    LET ok == computeChecksum(answer.algo, Hashed(data, "eof")) = answer.sum
    IN  /\ checked' = TRUE
        /\ verified' = ok
        /\ told' = told \cup {IF ok THEN "eof" ELSE "checksum"}

Read(n, how) ==
    /\ reader # "none"
    /\ BaseRead(n, how)
    /\ LET data == SubSeq(left, 1, n)
       IN  /\ received' = received \o data
           /\ hashed' = Hashed(data, how)
           /\ IF reader = "verifying" /\ how = "eof" /\ ~checked
                THEN Verdict(data)
                ELSE told' = told \cup {how} /\ UNCHANGED <<checked, verified>>
    /\ left' = SubSeq(left, n + 1, Len(left))
    /\ UNCHANGED <<adapter, answer, asked, reader, closed>>

Close == /\ reader # "none"
         /\ closed' = TRUE
         /\ UNCHANGED <<adapter, answer, asked, reader, left, received, hashed, checked,
                        verified, told>>

SomeRead == \E n \in 0..Len(left), how \in {"nil", "eof", "failed"} : Read(n, how)

Next == Get \/ SomeRead \/ Close

Spec == Init /\ [][Next]_vars

\* The consumer reads on, and an open base reader that is read on gets on: it
\* yields bytes until its EOF (io.Reader discourages returning neither).
GetsOn == \/ \E n \in 1..Len(left), how \in {"nil", "eof"} : Read(n, how)
          \/ Read(0, "eof")

FairSpec == Spec /\ WF_vars(Get) /\ WF_vars(GetsOn)

-----------------------------------------------------------------------------
(* Properties.                                                             *)

\* helpers.go, Read: at any moment every byte of the body is either handed over or
\* still to come, a verifying reader has hashed exactly what it handed over, and its
\* verdict was made at the end of the body.
TypeOK == /\ answer.body \in Contents
          /\ {left, received, hashed} \subseteq Seq(Bytes)
          /\ {asked, checked, verified, closed} \subseteq BOOLEAN
          /\ reader \in {"none", "plain", "verifying"}
          /\ told \subseteq {"nil", "eof", "failed", "checksum"}
          /\ reader # "none" => received \o left = answer.body
          /\ reader = "none" => received = <<>> /\ told = {}
          /\ hashed = IF reader = "verifying" THEN received ELSE <<>>
          /\ checked => reader = "verifying" /\ left = <<>>
          /\ ~checked => ~verified

\* blobstore.go, Get: a consumer whose verifying reader ended with EOF and without
\* a checksum error has received exactly the bytes the checksum was computed from,
\* in whatever portions they came, truncated or corrupted bodies included; and
\* ChecksumVerified tells the same.  No alarm is false: a checksum error is about a
\* body that does not have the checksum, and never about the in-memory adapter's,
\* whose algorithm is guessed from the length of the digest.
CleanEndIsVerified ==
    reader = "verifying" =>
        /\ "eof" \in told /\ "checksum" \notin told => verified
        /\ verified => received = answer.sum.of /\ "checksum" \notin told
        /\ "checksum" \in told => /\ computeChecksum(answer.algo, answer.body) # answer.sum
                                  /\ adapter # "in-memory"

\* The reader implements VerifiedRead: one verdict, over all bytes, none after it.
Promise == INSTANCE VerifiedRead WITH
    originals <- {c \in Contents : computeChecksum(answer.algo, c) = answer.sum},
    reading <- reader = "verifying",
    received <- IF reader = "verifying" THEN received ELSE <<>>,
    verdict <- IF ~checked THEN "none" ELSE IF verified THEN "verified" ELSE "mismatch"

ImplementsVerifiedRead == Promise!Spec

\* A consumer that keeps reading gets its verdict, unless it closes the reader first.
VerdictGiven == reader = "verifying" ~> checked \/ closed

-----------------------------------------------------------------------------
(* Claims of the repository that the code does not keep.                   *)

\* helpers.go: on a mismatch "the reader is closed".
MismatchCloses == "checksum" \in told => closed

\* README.md, CHANGELOG.md: GetOptions.VerifyChecksum verifies the body.
AskedIsVerified == asked /\ "eof" \in told /\ "checksum" \notin told => verified

\* wrapChecksumVerifier: "On checksum mismatch, Read returns an *Error".  Read
\* would not report a clean EOF once it has reported a mismatch.
MismatchStays == [][{"checksum", "eof"} \cap told = {"checksum"} => "eof" \notin told']_vars
=============================================================================
