-------------------------- MODULE MCTCPConnection --------------------------
(***************************************************************************)
(* TCPConnection for TLC: the values of the function-valued parameters.    *)
(***************************************************************************)
EXTENDS TCPConnection

\* The client's numbers wrap inside the data, the server's inside the FIN.
WrappingISN == (Client :> SEQMOD - 2) @@ (Server :> SEQMOD - 1)

ClientWritesTwo == (Client :> 2) @@ (Server :> 0)
NoData == (Client :> 0) @@ (Server :> 0)
ClientWritesOne == (Client :> 1) @@ (Server :> 0)
=============================================================================
