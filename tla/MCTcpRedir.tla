----------------------------- MODULE MCTcpRedir -----------------------------
(* Model-checking instance of TcpRedir.                                      *)
EXTENDS TcpRedir
=============================================================================
