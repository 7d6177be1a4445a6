--------------------------- MODULE MCTunnelMonitor ---------------------------
(* Model-checking instances of TunnelMonitor.                              *)
EXTENDS TunnelMonitor

=============================================================================
