------------------------------ MODULE MCListing ------------------------------
(* The instance of Listing that TLC checks: limits of four bits, pages of   *)
(* one to three entries, so that a walk takes several pages.               *)
EXTENDS Listing
=============================================================================
