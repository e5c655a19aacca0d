------------------------------ MODULE MCMaster ------------------------------
(* Small instances of Master for TLC.                                       *)
EXTENDS Master

CONSTANTS s1, s2, v1, v2

=============================================================================
