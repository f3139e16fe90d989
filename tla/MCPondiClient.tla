--------------------------- MODULE MCPondiClient ---------------------------
(* A small instance of PondiClient: its constants are numbers.              *)
EXTENDS PondiClient
=============================================================================
