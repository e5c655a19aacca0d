---------------------------- MODULE MCSnapshot ----------------------------
(* Small instances of Snapshot for TLC.                                     *)
EXTENDS Snapshot

CONSTANTS inet, inet6, path, fd, e1, e2

===========================================================================
