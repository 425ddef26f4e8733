------------------------------ MODULE MCClient ------------------------------
(* The instance of TcpClient that TLC checks.                              *)
EXTENDS TcpClient
=============================================================================
