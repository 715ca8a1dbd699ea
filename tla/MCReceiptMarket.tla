-------------------------- MODULE MCReceiptMarket --------------------------
(* ReceiptMarket for TLC: requests are interchangeable, and so are wallets. *)
EXTENDS ReceiptMarket, TLC

Interchangeable == Permutations(Requests) \cup Permutations(Wallets)
=============================================================================
