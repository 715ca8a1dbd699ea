-------------------------- MODULE MCPaymentIntents --------------------------
(* PaymentIntents for TLC: an amount that fits an i64 with the reserve, and  *)
(* one that does not.                                                        *)
EXTENDS PaymentIntents
=============================================================================
