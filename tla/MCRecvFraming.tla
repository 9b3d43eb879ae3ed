--------------------------- MODULE MCRecvFraming ---------------------------
(* Model-checking instance of RecvFraming.                                   *)
EXTENDS RecvFraming
=============================================================================
