----------------------------- MODULE MCEthRing -----------------------------
(***************************************************************************)
(* EthRing with two receive descriptors, one to send and a budget of two.  *)
(***************************************************************************)
EXTENDS EthRing
=============================================================================
