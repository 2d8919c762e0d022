--------------------------- MODULE MCRequestPath ---------------------------
(* One handler, for a key of this node or of its peer, and another          *)
(* goroutine that uses the pool.                                            *)
EXTENDS RequestPath
=============================================================================
