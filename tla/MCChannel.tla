----------------------------- MODULE MCChannel -----------------------------
(* Channel with one unbuffered channel and one channel of capacity one. *)
EXTENDS Channel, TLC

CONSTANTS unbuf, buf1

MCCapacity == (unbuf :> 0) @@ (buf1 :> 1)
=============================================================================
