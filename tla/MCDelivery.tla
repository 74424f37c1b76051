----------------------------- MODULE MCDelivery -----------------------------
(* Model checking of Delivery. *)
EXTENDS Delivery
=============================================================================
