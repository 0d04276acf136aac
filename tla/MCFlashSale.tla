---- MODULE MCFlashSale ----
(* A small instance of FlashSale for model checking. *)
EXTENDS FlashSale, TLC

CONSTANTS r1, r2, r3, u1, u2

\* u1 clicks twice.
Clicks == r1 :> u1 @@ r2 :> u1 @@ r3 :> u2
====
