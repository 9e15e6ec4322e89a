--------------------------- MODULE MCCheckoutFifo ---------------------------
(* CheckoutFifo on the instances of MCCheckout.                            *)
EXTENDS MCCheckout, CheckoutFifo
=============================================================================
