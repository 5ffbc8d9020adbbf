--------------------------- MODULE MCRetryBreaker ---------------------------
(* Instances of RetryBreaker for TLC. *)
EXTENDS RetryBreaker

CONSTANTS c1, c2

TwoCalls == {c1, c2}

=============================================================================
