----------------------------- MODULE MCDelivery -----------------------------
(* The instance of Delivery for TLC; its constants are in the cfg files. *)
EXTENDS Delivery, TLC
=============================================================================
