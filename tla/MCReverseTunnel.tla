--------------------------- MODULE MCReverseTunnel ---------------------------
(* Model-checking instances of ReverseTunnel.                              *)
EXTENDS ReverseTunnel

=============================================================================
