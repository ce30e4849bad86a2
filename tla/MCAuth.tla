------------------------------- MODULE MCAuth --------------------------------
(* Instances of Auth for TLC.                                                *)
EXTENDS Auth, TLC

CONSTANTS t1, t2, home, thread
=============================================================================
