-------------------------- MODULE MCChecksumReader --------------------------
(* An instance of ChecksumReader for TLC: every content of up to MaxLength *)
(* bytes, so that each has truncations, extensions and corruptions.        *)
EXTENDS ChecksumReader

CONSTANT MaxLength

ShortContents == UNION {[1..n -> Bytes] : n \in 0..MaxLength}
=============================================================================
