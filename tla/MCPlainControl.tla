--------------------------- MODULE MCPlainControl ---------------------------
(* Model-checking instance of PlainControl.                                  *)
EXTENDS PlainControl
=============================================================================
