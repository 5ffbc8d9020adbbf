----------------------------- MODULE MCListing -----------------------------
(* Instances of Listing for TLC. *)
EXTENDS Listing

\* The page sizes a caller may ask for: none, negative, small, above the cap.
SomeSizes == {-1, 0, 1, 2, 4}
=============================================================================
