---------------------------- MODULE MCCryptoPayouts ----------------------------
(* Small instances of CryptoPayouts. *)
EXTENDS CryptoPayouts

CONSTANTS d1, d2, c1, c2
=============================================================================
