----------------------------- MODULE MCSearchDb -----------------------------
(* Instances of SearchDb for TLC.                                            *)
EXTENDS SearchDb

CONSTANTS q1, q2
=============================================================================
