------------------------------- MODULE MCBoard -------------------------------
(* BoardReview on small instances. *)
EXTENDS BoardReview

CONSTANTS d1, d2
=============================================================================
