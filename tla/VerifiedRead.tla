---------------------------- MODULE VerifiedRead ----------------------------
(***************************************************************************)
(* What a verifying reader promises: bytes arrive until a verdict, there   *)
(* is one verdict, it covers every byte that arrived, and nothing arrives  *)
(* after it.                                                               *)
(***************************************************************************)
EXTENDS Naturals, Sequences

VARIABLES originals, \* the contents that have the object's checksum
          reading,   \* a body is being read under verification
          received,  \* the bytes handed to the consumer
          verdict    \* "none", "verified" or "mismatch"

vars == <<originals, reading, received, verdict>>

Init == ~reading /\ received = <<>> /\ verdict = "none"

Grows == /\ Len(received') >= Len(received)
         /\ SubSeq(received', 1, Len(received)) = received

Open == ~reading /\ reading' = TRUE /\ UNCHANGED <<originals, received, verdict>>

Deliver == reading /\ verdict = "none" /\ Grows /\ UNCHANGED <<originals, reading, verdict>>

Conclude == /\ reading /\ verdict = "none"
            /\ Grows
            /\ verdict' = IF received' \in originals THEN "verified" ELSE "mismatch"
            /\ UNCHANGED <<originals, reading>>

Next == Open \/ Deliver \/ Conclude

Spec == Init /\ [][Next]_vars
=============================================================================
