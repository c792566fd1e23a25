--------------------------- MODULE MCWSConnection ---------------------------
(* Small instances of WSConnection.                                        *)
EXTENDS WSConnection
=============================================================================
