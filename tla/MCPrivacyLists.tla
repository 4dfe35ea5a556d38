------------------------- MODULE MCPrivacyLists -------------------------
(* Bounds for TLC. *)
EXTENDS PrivacyLists
=============================================================================
