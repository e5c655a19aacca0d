------------------------------ MODULE MCPaths ------------------------------
(* Small instances of Paths for TLC.                                        *)
EXTENDS Paths

Dir1 == <<1>>
Dir2 == <<2>>
Deep == <<1, 2>>
Deeper == <<1, 2, 1>>

Other == <<2, 1>>
Last == <<2, 1, 2>>
TempFile == <<2, 2>>

Elsewhere == {[relative |-> TRUE, segments |-> <<0, 2, 2>>]}

=============================================================================
