---------------------------- MODULE MCNetAccess ----------------------------
(* A small instance of NetAccess for TLC.                                   *)
EXTENDS NetAccess, TLC

CONSTANTS any4, a4, any6, a6, known, unknown, path1, path2

\* One name with an address of each family and one that getaddrinfo does not
\* know.
TwoNames ==
    known :> {[family |-> "v4", addr |-> a4], [family |-> "v6", addr |-> a6]}
    @@ unknown :> {}

=============================================================================
