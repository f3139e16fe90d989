--------------------------- MODULE MCSuperClient ---------------------------
(* Small instances of SuperClient.                                          *)
EXTENDS SuperClient

CONSTANTS w1, w2, r1
=============================================================================
