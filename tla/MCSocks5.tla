------------------------------ MODULE MCSocks5 ------------------------------
(* Model-checking instance of Socks5.                                        *)
EXTENDS Socks5
=============================================================================
