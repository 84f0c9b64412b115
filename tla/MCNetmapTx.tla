---------------------------- MODULE MCNetmapTx ------------------------------
(* Model-checking instance of NetmapTx: a 4-slot ring of 2-byte buffers,  *)
(* so a 3-byte iovec spans two slots and three accepted messages wrap the *)
(* ring; up to two iovecs of up to 3 bytes.                               *)
EXTENDS NetmapTx
=============================================================================
