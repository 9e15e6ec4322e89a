------------------------- MODULE MCCheckoutHistory -------------------------
(* CheckoutHistory on the instances of MCCheckout.                         *)
EXTENDS MCCheckout, CheckoutHistory
=============================================================================
