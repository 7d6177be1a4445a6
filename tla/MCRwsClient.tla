---------------------------- MODULE MCRwsClient ----------------------------
(* Model-checking instances of RwsClient.                                  *)
EXTENDS RwsClient

=============================================================================
