----------------------------- MODULE MCStorage -----------------------------
(* Small instances of Storage for TLC.                                      *)
EXTENDS Storage

CONSTANTS f1, f2, f3

=============================================================================
